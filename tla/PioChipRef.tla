----------------------------- MODULE PioChipRef -----------------------------
(***************************************************************************)
(* What the chip promises, said without its mechanisms: a block of memory  *)
(* arrives byte for byte, a CRC is the remainder of a long division, a     *)
(* conversion is the nearest or the next integer.                          *)
(***************************************************************************)
EXTENDS PioChip

-----------------------------------------------------------------------------
(* Blocks of bytes.  Channel 0 feeds the program, channel 1 drains it.     *)

Copies == Planned /\ DOMAIN Plan.jobs = {0, 1}

Turned(c, s) == IF ch[c].ctrl.bswap THEN Reverse(s) ELSE s
NoByte == [j \in 0 .. BYTE_BITS - 1 |-> FALSE]

(* Byte j of the n-th element to arrive.                                   *)
Expected(n) ==
    LET size == ch[0].ctrl.bytes
        taken == [j \in 1 .. size |->
                    Plan.mem[Plan.jobs[0].read[2] + (n - 1) * size + j - 1]]
        word == Turned(0, taken) \o <<NoByte, NoByte, NoByte>>
    IN  Turned(1, SubSeq(word, 1, ch[1].ctrl.bytes))

Landing(n) == Plan.jobs[1].write[2] + (n - 1) * ch[1].ctrl.bytes

-----------------------------------------------------------------------------
(* Polynomials over GF(2) as sets of positions, most significant first.    *)

(* The remainder of a message of n bits, the register's start value laid   *)
(* over its first w places, divided by x^w + poly: a set of exponents.     *)
Remainder(bits, n, start, poly, w) ==
    LET step[i \in 0 .. n] ==
          IF i = 0 THEN SymDiff(bits, {w - e : e \in start})
          ELSE LET left == step[i - 1]
               IN  IF i \in left THEN SymDiff(left, {i} \union {i + w - e : e \in poly})
                   ELSE left
    IN  {e \in 0 .. w - 1 : n + w - e \in step[n]}

Crc(fed, seed, poly, w, reflected) ==
    LET Exp(e) == IF reflected THEN w - 1 - e ELSE e
        Exps(word) == {Exp(e) : e \in {x \in 0 .. w - 1 : word[x]}}
        n == Len(fed) * BYTE_BITS
        Bit(i) == fed[((i - 1) \div BYTE_BITS) + 1]
                     [IF reflected THEN (i - 1) % BYTE_BITS
                      ELSE BYTE_BITS - 1 - ((i - 1) % BYTE_BITS)]
        left == Remainder({i \in 1 .. n : Bit(i)}, n, Exps(seed), Exps(poly), w)
    IN  [e \in BitIdx |-> e < w /\ Exp(e) \in left]

(* Bytes at place p of an element, over all elements fed.                  *)
Lane(fed, bytes, p) == {j \in DOMAIN fed : (j - 1) % bytes = p}
Parity(fed, seed, bytes) ==
    [i \in BitIdx |->
       seed[i] # (Cardinality({j \in Lane(fed, bytes, i \div BYTE_BITS) :
                                 fed[j][i % BYTE_BITS]}) % 2 = 1)]
Total(fed, seed, bytes) ==
    LET sum[j \in 0 .. Len(fed)] ==
          IF j = 0 THEN LowBits(seed, WORD_BITS)
          ELSE sum[j - 1] + LowBits(fed[j], BYTE_BITS) * 2^(BYTE_BITS * ((j - 1) % bytes))
    IN  W(sum[Len(fed)] % 2^WORD_BITS)

Digest(calc, fed, seed, bytes) ==
    CASE fed = <<>> -> seed
      [] calc = "CRC32" -> Crc(fed, seed, POLY32, WORD_BITS, FALSE)
      [] calc = "CRC32R" -> Crc(fed, seed, POLY32R, WORD_BITS, TRUE)
      [] calc = "CRC16" -> Crc(fed, seed, POLY16, HALF, FALSE)
      [] calc = "CRC16R" -> Crc(fed, seed, POLY16R, HALF, TRUE)
      [] calc = "EVEN" -> Parity(fed, seed, bytes)
      [] OTHER -> Total(fed, seed, bytes)

-----------------------------------------------------------------------------
(* PROPERTIES                                                              *)

(* Memory to memory through the chip: after n elements have arrived, the   *)
(* first n places of the destination hold the source's bytes, each swapped *)
(* as its channels say and cut or extended to the element sizes, and no    *)
(* other byte has changed, whenever the host pauses either channel         *)
(* (dma_transfer_one).                                                     *)
MemoryExact ==
    Copies /\ ~Plan.endless =>
      LET n == Len(got)
          size == ch[1].ctrl.bytes
          landed == UNION {Landing(k) .. Landing(k) + size - 1 : k \in 1 .. n}
      IN  /\ \A k \in 1 .. n : \A j \in 1 .. size : mem[Landing(k) + j - 1] = Expected(k)[j]
          /\ \A x \in DOMAIN mem \ landed : mem[x] = Plan.mem[x]

(* The sniffer's accumulator is the checksum of exactly the bytes its      *)
(* channel moved since it was seeded, after the byte swap and cut to the   *)
(* element size: the CRC modes are remainders of polynomial division, the  *)
(* reflected ones with mirrored bits, whether the sniffer is switched off, *)
(* on, or to another channel in between (dma_sniff).  It is read mirrored  *)
(* or inverted as the host asked.                                          *)
SniffFollows ==
    Planned =>
      LET sum == Digest(sniff.calc, sniff.fed, sniff.seed, ch[sniff.chan].ctrl.bytes)
      IN  pio_dma_sniffer_get_data_accumulator(sniff)
            = [i \in BitIdx |-> sum[IF sniff.out_rev THEN WORD_BITS - 1 - i ELSE i] # sniff.out_inv]

(* A block set up and left alone arrives as a whole: back pressure from    *)
(* the RX FIFO through the program and the TX FIFO to the feeding channel  *)
(* never locks up, although both channels share one transfer a tick and    *)
(* a handler must acknowledge and restart the feeding one.                 *)
BlockArrives ==
    (Copies /\ host.calls \subseteq {"isr", "lines"}) ~> (Len(got) = MAX_SENT)

(* Two channels that chain to each other keep a program supplied for ever: *)
(* each of them takes over from the other again and again.                 *)
Endless == Planned /\ Plan.endless
StreamsOn == \A c \in 0 .. 1 : Endless ~> (Endless /\ ch[c].busy /\ ~ch[1 - c].busy)

(* The programs pio_sim_run_until_tx_drained is for ("the program must keep *)
(* OUTing/PULLing"), as far as autopull is concerned: the OSR is filled     *)
(* from TX alone and never refilled while the flag goes up, no OUT runs     *)
(* without the refill that opens a cycle (an injected one does), and a PULL *)
(* that throws away a word in use does not meet one.                        *)
Streaming(code, c) ==
    c.autopull =>
      /\ \A i \in code : /\ i.op = "MOV" => i.dst # "OSR"
                         /\ i.op = "MOVRX" => ~i.get
                         /\ i.op = "PULL" => i.block
      /\ \A i \in ExecInsns : i.op # "OUT"
      /\ \/ \A i \in code : i.op = "PULL" => i.ifempty
         \/ \A i \in code : i.op = "OUT" => i.cnt >= c.pull_thresh

DrainIdiom ==
    \A su \in Setups :
      (su.host.story \notin DOMAIN Plans /\ "clear_fdebug" \in su.host.calls) =>
        Streaming(ExecInsns \union {DecodeWord(w) : w \in Words}
                    \union UNION {{su.prog[b][a] : a \in PCs} : b \in Blocks},
                  su.conf[0][0])

(* The ranges of the RP2350, where the slowest source is above half of the *)
(* largest divisor, so that no legal tree rounds to 0 Hz.                  *)
NeverStops ==
    /\ 2 * XOSC_MIN > CLK_DIV_INT_MAX
    /\ 2 * ((VCO_MIN \div POSTDIV_MAX) \div POSTDIV_MAX) > CLK_DIV_INT_MAX

(* clk_sys is the divided source to the nearest integer and never 0 for a  *)
(* legal tree; a tick count becomes the nearest time; a time becomes the   *)
(* first tick count that covers it, and reads back no earlier.  No         *)
(* intermediate product overflows as long as the result fits.              *)
Times == 0 .. 2 * NS + 1
Abs(n) == IF n < 0 THEN -n ELSE n
Nearest(q, n, d) == 2 * Abs(q * d - n) <= d
Ceiling(q, n, d) == q * d >= n /\ (q - 1) * d < n
ClockExact ==
    LET hz == pio_clk_sys_hz(clk)
        Fits(n, d) == n \div d < 2^CLK_BITS - 1
    IN  host.story = "clock" =>
        IF pio_clk_validate(clk) # "OK"
        THEN \A n \in Times : /\ pio_clk_ticks_to_ns(clk, n) = 0
                              /\ pio_clk_us_to_ticks(clk, n) = 0
        ELSE /\ hz > 0 /\ Nearest(hz, Source(clk) * 2^CLK_DIV_FRAC_BITS, Divisor(clk))
             /\ \A n \in Times \union {2^CLK_BITS - 1} :
                  /\ Fits(n * NS, hz) => Nearest(pio_clk_ticks_to_ns(clk, n), n * NS, hz)
                  /\ Fits(n * US, hz) => Nearest(pio_clk_ticks_to_us(clk, n), n * US, hz)
                  /\ Fits(n * hz, NS) =>
                       LET t == pio_clk_ns_to_ticks(clk, n)
                       IN  /\ Ceiling(t, n * hz, NS)
                           /\ Fits(t * NS, hz) => pio_clk_ticks_to_ns(clk, t) >= n
                  /\ Fits(n * hz, US) => Ceiling(pio_clk_us_to_ticks(clk, n), n * hz, US)

(* A refused PLL setting leaves no trace: a call that changes the tree     *)
(* leaves one that runs, so a caller that ignores the result keeps the     *)
(* clock it had.                                                           *)
PllAllOrNothing ==
    [][(clk' # clk /\ \E q \in PllSettings :
          clk' = pio_clk_configure_pll(clk, q[1], q[2], q[3], q[4]))
        => pio_clk_sys_hz(clk') > 0]_cvars
============================================================================
