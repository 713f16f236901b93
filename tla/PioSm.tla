------------------------------- MODULE PioSm -------------------------------
(***************************************************************************)
(* What one instruction and one clock do to a state machine (pio_sim.c,    *)
(* "Shift-register operations" to sm_cycle and the body of pio_sim_tick).  *)
(*                                                                         *)
(* The handlers are functions of the machine m, a record of                *)
(*    cfg[b][s]  the configuration of state machine s of block b,          *)
(*    sm[b][s]   its execution state, FIFOs included,                      *)
(*    reg[b][s]  its pin output registers,                                 *)
(*    irq[b]     the set of IRQ flags of block b that are up,              *)
(*    pads[pd]   the pad sets.                                             *)
(* An instruction is a record whose fields are those of its encoding; its  *)
(* delay and side-set fields are kept decoded.                             *)
(***************************************************************************)
EXTENDS PioWord, PioFifo, PioPads, PioClkdiv

CONSTANTS
    INSN_COUNT,     \* words of instruction memory (32)
    PIN_WINDOW,     \* pins a state machine can address (32)
    NUM_IRQ,        \* IRQ flags of a block (8); a relative index rotates
                    \* within groups of NUM_SM
    GPIO_BASE,      \* GPIO_BASE[b]: offset of block b's pin window
    LINKED,         \* TRUE: the blocks' IRQ rings are wired (group_init)
    DecodeWord(_)   \* the instruction a data word encodes (OUT/MOV EXEC)

ASSUME SmAssumption ==
    /\ INSN_COUNT \in Nat \ {0}
    /\ PIN_WINDOW \in 1 .. WORD_BITS /\ PIN_WINDOW <= NUM_PINS
    /\ NUM_IRQ \in Nat \ {0} /\ NUM_IRQ % NUM_SM = 0
    /\ GPIO_BASE \in [Blocks -> Nat]
    /\ LINKED \in BOOLEAN

PCs  == 0 .. INSN_COUNT - 1
Irqs == 0 .. NUM_IRQ - 1

(***************************************************************************)
(* Configuration and execution state.                                      *)
(***************************************************************************)
pio_get_default_sm_config ==
    [wrap_bottom |-> 0, wrap_top |-> INSN_COUNT - 1,
     out_base |-> 0, out_count |-> 0, set_base |-> 0, set_count |-> 0,
     in_base |-> 0, in_count |-> PIN_WINDOW,
     sideset_base |-> 0, sideset_bits |-> 0, sideset_pindirs |-> FALSE,
     jmp_pin |-> 0, out_right |-> FALSE, in_right |-> FALSE,
     autopull |-> FALSE, autopush |-> FALSE,
     pull_thresh |-> WORD_BITS, push_thresh |-> WORD_BITS,
     div |-> DIV_ONE, status_sel |-> "TX_LEVEL", status_n |-> 0,
     out_sticky |-> FALSE, out_inline_en |-> FALSE, out_en_sel |-> 0,
     fifo_join |-> "NONE"]

(* The configurations the sm_config_* setters can build: wraps are taken   *)
(* modulo the memory, counts of OUT, SET and IN pins clamped to the        *)
(* window, thresholds to the word; side-set takes what it is given.        *)
Confs ==
    [wrap_bottom : PCs, wrap_top : PCs,
     out_base : Nat, out_count : 0 .. PIN_WINDOW,
     set_base : Nat, set_count : 0 .. PIN_WINDOW,
     in_base : Nat, in_count : 1 .. PIN_WINDOW,
     sideset_base : Nat, sideset_bits : Nat, sideset_pindirs : BOOLEAN,
     jmp_pin : Nat, out_right : BOOLEAN, in_right : BOOLEAN,
     autopull : BOOLEAN, autopush : BOOLEAN,
     pull_thresh : 1 .. WORD_BITS, push_thresh : 1 .. WORD_BITS,
     div : {d \in Nat : d >= DIV_ONE},
     status_sel : {"TX_LEVEL", "RX_LEVEL", "IRQ_SET", "IRQ_PREV", "IRQ_NEXT"},
     status_n : Nat, out_sticky : BOOLEAN, out_inline_en : BOOLEAN,
     out_en_sel : BitIdx, fifo_join : Joins]

FdebugFlags == {"TXOVER", "RXUNDER", "RXSTALL", "TXSTALL"}

NoInsn == [op |-> "JMP", cond |-> "ALWAYS", addr |-> 0, delay |-> 0,
           side |-> <<>>]          \* a zero word decodes as jmp 0

(* What the words of instruction memory decode to.                         *)
IrqModes == {"SELF", "PREV", "REL", "NEXT"}
Sources  == {"PINS", "X", "Y", "NULL", "STATUS", "ISR", "OSR"}

Insns ==
    [op : {"JMP"}, addr : PCs,
     cond : {"ALWAYS", "NOTX", "XDEC", "NOTY", "YDEC", "XNEY", "PIN", "NOTOSRE"},
     delay : Nat, side : Seq(Words)] \union
    [op : {"WAIT"}, pol : BOOLEAN, src : {"GPIO", "PIN", "JMPPIN", "IRQ"},
     mode : IrqModes, idx : Nat, delay : Nat, side : Seq(Words)] \union
    [op : {"IN"}, src : Sources, cnt : 1 .. WORD_BITS, delay : Nat, side : Seq(Words)] \union
    [op : {"OUT"}, cnt : 1 .. WORD_BITS,
     dst : {"PINS", "X", "Y", "NULL", "PINDIRS", "PC", "ISR", "EXEC"},
     delay : Nat, side : Seq(Words)] \union
    [op : {"PUSH"}, iffull : BOOLEAN, block : BOOLEAN, delay : Nat, side : Seq(Words)] \union
    [op : {"PULL"}, ifempty : BOOLEAN, block : BOOLEAN, delay : Nat, side : Seq(Words)] \union
    [op : {"MOVRX"}, get : BOOLEAN, literal : BOOLEAN, idx : RegIdx,
     delay : Nat, side : Seq(Words)] \union
    [op : {"MOV"}, src : Sources, mop : {"NONE", "INVERT", "REVERSE"},
     dst : {"PINS", "X", "Y", "PINDIRS", "EXEC", "PC", "ISR", "OSR"},
     delay : Nat, side : Seq(Words)] \union
    [op : {"IRQ"}, clr : BOOLEAN, wait : BOOLEAN, mode : IrqModes, idx : Irqs,
     delay : Nat, side : Seq(Words)] \union
    [op : {"SET"}, dst : {"PINS", "X", "Y", "PINDIRS"}, val : Words,
     delay : Nat, side : Seq(Words)]

(* A state machine as pio_sim_init leaves it.                              *)
ResetSm ==
    [enabled |-> FALSE, pc |-> 0, x |-> ZERO, y |-> ZERO,
     osr |-> ZERO, isr |-> ZERO, osr_count |-> WORD_BITS, isr_count |-> 0,
     delay |-> 0, stalled |-> FALSE, exec_pending |-> FALSE,
     exec_insn |-> NoInsn, clk_accum |-> 0, fdebug |-> {},
     tx |-> EmptyFifo(ZERO), rx |-> EmptyFifo(ZERO), status |-> <<>>]

(* Faulty variant: the rest of a delay survives the restart.               *)
sm_reset_exec_keeps_delay(r, pc) ==
    [r EXCEPT !.pc = pc, !.x = ZERO, !.y = ZERO, !.osr = ZERO, !.isr = ZERO,
              !.osr_count = WORD_BITS, !.isr_count = 0,
              !.stalled = FALSE, !.exec_pending = FALSE,
              !.exec_insn = NoInsn, !.clk_accum = 0,
              !.tx = fifo_clear(@), !.rx = fifo_clear(@)]

(* Shared by pio_sim_sm_restart and pio_sim_sm_init: FIFO capacities, the  *)
(* sticky FDEBUG flags and the pin registers survive.                      *)
sm_reset_exec(r, pc) ==
    [r EXCEPT !.pc = pc, !.x = ZERO, !.y = ZERO, !.osr = ZERO, !.isr = ZERO,
              !.osr_count = WORD_BITS, !.isr_count = 0, !.delay = 0,
              !.stalled = FALSE, !.exec_pending = FALSE,
              !.exec_insn = NoInsn, !.clk_accum = 0,
              !.tx = fifo_clear(@), !.rx = fifo_clear(@)]

(***************************************************************************)
(* Access to the machine.                                                  *)
(***************************************************************************)
SetSm(m, b, s, r) == [m EXCEPT !.sm[b][s] = r]

EnabledSMs(m) == [b \in Blocks |-> [s \in SMs |-> m.sm[b][s].enabled]]

ResolvePads(m, b) ==
    [m EXCEPT !.pads[PadOf(b)] = pio_pads_resolve(@, m.reg, EnabledSMs(m))]

phys_pin(b, view) == (GPIO_BASE[b] + (view % PIN_WINDOW)) % NUM_PINS

Span(b, base, count) == {phys_pin(b, base + i) : i \in 0 .. count - 1}

HighOf(b, base, count, w) ==
    {phys_pin(b, base + i) : i \in {k \in 0 .. count - 1 : w[k]}}

drive_pins(m, b, s, base, count, w) ==
    ResolvePads([m EXCEPT !.reg[b][s] =
        WriteLevels(@, Span(b, base, count), HighOf(b, base, count, w))], b)

drive_pindirs(m, b, s, base, count, w) ==
    ResolvePads([m EXCEPT !.reg[b][s] =
        WriteDirs(@, Span(b, base, count), HighOf(b, base, count, w))], b)

release_out_pins(m, b, s, base, count) ==
    ResolvePads([m EXCEPT !.reg[b][s] = ReleaseSpan(@, Span(b, base, count))], b)

PinHigh(m, b, view) == phys_pin(b, view) \in pio_input_level(m.pads[PadOf(b)])

(***************************************************************************)
(* Sources of IN and MOV.                                                  *)
(***************************************************************************)
read_in_pins(m, b, s) ==
    LET c == m.cfg[b][s]
    IN  [i \in BitIdx |-> /\ i < PIN_WINDOW /\ i < c.in_count
                          /\ PinHigh(m, b, c.in_base + i)]

(* Faulty variant: the ring of blocks is not closed.                       *)
irq_target_block_open(b, mode) ==
    CASE mode = "PREV" -> IF LINKED /\ b > 0 THEN {b - 1} ELSE {}
      [] mode = "NEXT" -> IF LINKED /\ b + 1 < NUM_PIO THEN {b + 1} ELSE {}
      [] OTHER         -> {b}

(* The block addressed by an IRQ mode: PREV/NEXT only if the ring is wired. *)
irq_target_block(b, mode) ==
    CASE mode = "PREV" -> IF LINKED THEN {(b + NUM_PIO - 1) % NUM_PIO} ELSE {}
      [] mode = "NEXT" -> IF LINKED THEN {(b + 1) % NUM_PIO} ELSE {}
      [] OTHER         -> {b}

read_status(m, b, s) ==
    LET c == m.cfg[b][s]
        r == m.sm[b][s]
        IrqUp(mode) == \E t \in irq_target_block(b, mode) :
                          c.status_n % NUM_IRQ \in m.irq[t]
        cond == CASE c.status_sel = "RX_LEVEL" -> r.rx.count < c.status_n
                  [] c.status_sel = "IRQ_SET"  -> IrqUp("SELF")
                  [] c.status_sel = "IRQ_PREV" -> IrqUp("PREV")
                  [] c.status_sel = "IRQ_NEXT" -> IrqUp("NEXT")
                  [] OTHER                     -> r.tx.count < c.status_n
    IN  IF r.status # <<>> THEN r.status[1]
        ELSE IF cond THEN ONES ELSE ZERO

read_source(m, b, s, src) ==
    LET r == m.sm[b][s]
    IN  CASE src = "PINS"   -> read_in_pins(m, b, s)
          [] src = "X"      -> r.x
          [] src = "Y"      -> r.y
          [] src = "STATUS" -> read_status(m, b, s)
          [] src = "ISR"    -> r.isr
          [] src = "OSR"    -> r.osr
          [] OTHER          -> ZERO

(***************************************************************************)
(* Instruction handlers.  Each returns the machine after the instruction,  *)
(* whether it stalled, and the PC it sets, if any.                         *)
(***************************************************************************)
Done(m)       == [m |-> m, stalled |-> FALSE, set_pc |-> FALSE, next_pc |-> 0]
Stall(m)      == [m |-> m, stalled |-> TRUE,  set_pc |-> FALSE, next_pc |-> 0]
JumpTo(m, pc) == [m |-> m, stalled |-> FALSE, set_pc |-> TRUE,  next_pc |-> pc]

exec_jmp(m, b, s, i) ==
    LET r == m.sm[b][s]
        c == m.cfg[b][s]
        take == CASE i.cond = "ALWAYS" -> TRUE
                  [] i.cond = "NOTX"   -> r.x = ZERO
                  [] i.cond = "XDEC"   -> r.x # ZERO
                  [] i.cond = "NOTY"   -> r.y = ZERO
                  [] i.cond = "YDEC"   -> r.y # ZERO
                  [] i.cond = "XNEY"   -> r.x # r.y
                  [] i.cond = "PIN"    -> PinHigh(m, b, c.jmp_pin)
                  [] i.cond = "NOTOSRE" -> r.osr_count < c.pull_thresh
        m2 == CASE i.cond = "XDEC" -> SetSm(m, b, s, [r EXCEPT !.x = Decrement(@)])
                [] i.cond = "YDEC" -> SetSm(m, b, s, [r EXCEPT !.y = Decrement(@)])
                [] OTHER           -> m
    IN  IF take THEN JumpTo(m2, i.addr) ELSE Done(m2)

(* Faulty variant: a relative index is taken as absolute.                  *)
resolve_irq_index_absolute(s, mode, idx) == idx

(* The flag an IRQ index addresses; REL adds the SM number within a group  *)
(* of NUM_SM flags.                                                        *)
resolve_irq_index(s, mode, idx) ==
    IF mode = "REL"
    THEN ((idx \div NUM_SM) * NUM_SM) + (((idx % NUM_SM) + s) % NUM_SM)
    ELSE idx

(* Faulty variant: wait 1 irq leaves the flag up.                          *)
exec_wait_keeps_flag(m, b, s, i) ==
    LET c == m.cfg[b][s]
        n == resolve_irq_index(s, i.mode, i.idx)
        up == CASE i.src = "GPIO"   -> {PinHigh(m, b, i.idx)}
                [] i.src = "PIN"    -> {i.idx < c.in_count
                                          /\ PinHigh(m, b, c.in_base + i.idx)}
                [] i.src = "JMPPIN" -> {PinHigh(m, b, c.jmp_pin + i.idx)}
                [] i.src = "IRQ"    ->
                     {(n \in m.irq[t]) : t \in irq_target_block(b, i.mode)}
    IN  IF i.pol \in up THEN Done(m) ELSE Stall(m)

(* A wait on an unwired neighbour is never met; wait 1 irq takes the flag. *)
exec_wait(m, b, s, i) ==
    LET c == m.cfg[b][s]
        n == resolve_irq_index(s, i.mode, i.idx)
        Level(up) == IF up = i.pol THEN Done(m) ELSE Stall(m)
    IN  CASE i.src = "GPIO"   -> Level(PinHigh(m, b, i.idx))
          [] i.src = "PIN"    -> Level(i.idx < c.in_count
                                         /\ PinHigh(m, b, c.in_base + i.idx))
          [] i.src = "JMPPIN" -> Level(PinHigh(m, b, c.jmp_pin + i.idx))
          [] i.src = "IRQ"    ->
               IF \E t \in irq_target_block(b, i.mode) : (n \in m.irq[t]) = i.pol
               THEN Done(IF i.pol
                         THEN [m EXCEPT !.irq = [t \in Blocks |->
                                 IF t \in irq_target_block(b, i.mode)
                                 THEN m.irq[t] \ {n} ELSE m.irq[t]]]
                         ELSE m)
               ELSE Stall(m)

(* osr_refill on a TX that has a word, isr_drain on an RX that has room.   *)
osr_refill(r) ==
    [r EXCEPT !.osr = fifo_front(r.tx), !.osr_count = 0, !.tx = fifo_pop(@)]

isr_drain(r) ==
    [r EXCEPT !.rx = fifo_push(@, r.isr), !.isr = ZERO, !.isr_count = 0]

(* Faulty variants: the register-file modes are forgotten; the last slot   *)
(* is never used.                                                          *)
RxBlocked_full_only(c, r) == fifo_full(r.rx)

RxBlocked_one_short(c, r) ==
    rx_fifo_is_register_file(c.fifo_join) \/ r.rx.count + 1 >= r.rx.cap

RxBlocked(c, r) == rx_fifo_is_register_file(c.fifo_join) \/ fifo_full(r.rx)

Saturate(n) == IF n > WORD_BITS THEN WORD_BITS ELSE n

ShiftIn(c, isr, data, n) ==
    IF n >= WORD_BITS THEN data
    ELSE IF c.in_right THEN Or(Shr(isr, n), Shl(data, WORD_BITS - n))
    ELSE Or(Shl(isr, n), data)

(* An IN that would autopush into a full RX stalls before it shifts.       *)
exec_in(m, b, s, i) ==
    LET r == m.sm[b][s]
        c == m.cfg[b][s]
        will_autopush == c.autopush /\ r.isr_count + i.cnt >= c.push_thresh
        data == mask_n(read_source(m, b, s, i.src), i.cnt)
        Autopush(q) == IF c.autopush /\ q.isr_count >= c.push_thresh
                       THEN isr_drain(q) ELSE q
    IN  IF will_autopush /\ RxBlocked(c, r)
        THEN Stall(SetSm(m, b, s, [r EXCEPT !.fdebug = @ \union {"RXSTALL"}]))
        ELSE Done(SetSm(m, b, s,
               Autopush([r EXCEPT !.isr = ShiftIn(c, @, data, i.cnt),
                                  !.isr_count = Saturate(@ + i.cnt)])))

ShiftOutValue(c, osr, n) ==
    IF n >= WORD_BITS THEN osr
    ELSE IF c.out_right THEN mask_n(osr, n)
    ELSE Shr(osr, WORD_BITS - n)

ShiftOutRest(c, osr, n) ==
    IF n >= WORD_BITS THEN ZERO
    ELSE IF c.out_right THEN Shr(osr, n) ELSE Shl(osr, n)

(* OUT PINS with the inline enable bit clear writes nothing, and releases  *)
(* the span if OUT_STICKY is set.                                          *)
out_store(m, b, s, dst, val, cnt) ==
    LET r == m.sm[b][s]
        c == m.cfg[b][s]
    IN  CASE dst = "PINS" ->
               IF ~c.out_inline_en \/ val[c.out_en_sel]
               THEN Done(drive_pins(m, b, s, c.out_base, c.out_count, val))
               ELSE IF c.out_sticky
               THEN Done(release_out_pins(m, b, s, c.out_base, c.out_count))
               ELSE Done(m)
          [] dst = "X" -> Done(SetSm(m, b, s, [r EXCEPT !.x = val]))
          [] dst = "Y" -> Done(SetSm(m, b, s, [r EXCEPT !.y = val]))
          [] dst = "PINDIRS" ->
               Done(drive_pindirs(m, b, s, c.out_base, c.out_count, val))
          [] dst = "PC" -> JumpTo(m, LowBits(val, WORD_BITS) % INSN_COUNT)
          [] dst = "ISR" -> Done(SetSm(m, b, s, [r EXCEPT !.isr = val,
                                                          !.isr_count = cnt]))
          [] dst = "EXEC" ->
               Done(SetSm(m, b, s, [r EXCEPT !.exec_pending = TRUE,
                                             !.exec_insn = DecodeWord(val)]))
          [] OTHER -> Done(m)

(* The background refill ran at the top of the cycle: an exhausted OSR     *)
(* under autopull means TX was empty.                                      *)
exec_out(m, b, s, i) ==
    LET r == m.sm[b][s]
        c == m.cfg[b][s]
        shifted == [r EXCEPT !.osr = ShiftOutRest(c, @, i.cnt),
                             !.osr_count = Saturate(@ + i.cnt)]
    IN  IF c.autopull /\ r.osr_count >= c.pull_thresh
        THEN Stall(SetSm(m, b, s, [r EXCEPT !.fdebug = @ \union {"TXSTALL"}]))
        ELSE out_store(SetSm(m, b, s, shifted), b, s, i.dst,
                       ShiftOutValue(c, r.osr, i.cnt), i.cnt)

(* PUSH: a non-blocking push that is blocked drops the word.               *)
exec_push(m, b, s, i) ==
    LET r == m.sm[b][s]
        c == m.cfg[b][s]
        flagged == [r EXCEPT !.fdebug = @ \union {"RXSTALL"}]
    IN  IF i.iffull /\ r.isr_count < c.push_thresh THEN Done(m)
        ELSE IF ~RxBlocked(c, r) THEN Done(SetSm(m, b, s, isr_drain(r)))
        ELSE IF i.block THEN Stall(SetSm(m, b, s, flagged))
        ELSE Done(SetSm(m, b, s, [flagged EXCEPT !.isr = ZERO, !.isr_count = 0]))

(* Faulty variant: a PULL pops although autopull has filled the OSR.       *)
exec_pull_no_barrier(m, b, s, i) ==
    LET r == m.sm[b][s]
        c == m.cfg[b][s]
        flagged == [r EXCEPT !.fdebug = @ \union {"TXSTALL"}]
    IN  IF i.ifempty /\ r.osr_count < c.pull_thresh THEN Done(m)
        ELSE IF ~fifo_empty(r.tx) THEN Done(SetSm(m, b, s, osr_refill(r)))
        ELSE IF i.block THEN Stall(SetSm(m, b, s, flagged))
        ELSE Done(SetSm(m, b, s, [flagged EXCEPT !.osr = r.x, !.osr_count = 0]))

(* PULL: under autopull a full OSR makes it a barrier that pops nothing; a *)
(* non-blocking pull of an empty TX copies X.                              *)
exec_pull(m, b, s, i) ==
    LET r == m.sm[b][s]
        c == m.cfg[b][s]
        flagged == [r EXCEPT !.fdebug = @ \union {"TXSTALL"}]
    IN  IF i.ifempty /\ r.osr_count < c.pull_thresh THEN Done(m)
        ELSE IF c.autopull /\ r.osr_count = 0 THEN Done(m)
        ELSE IF ~fifo_empty(r.tx) THEN Done(SetSm(m, b, s, osr_refill(r)))
        ELSE IF i.block THEN Stall(SetSm(m, b, s, flagged))
        ELSE Done(SetSm(m, b, s, [flagged EXCEPT !.osr = r.x, !.osr_count = 0]))

(* mov rxfifo[], isr and mov osr, rxfifo[]: gated by the join mode.        *)
exec_mov_rxfifo(m, b, s, i) ==
    LET r == m.sm[b][s]
        join == m.cfg[b][s].fifo_join
        idx == IF i.literal THEN i.idx
               ELSE LowBits(r.y, WORD_BITS) % FIFO_DEPTH
    IN  IF i.get
        THEN IF join \in {"RX_GET", "RX_PUTGET"}
             THEN Done(SetSm(m, b, s, [r EXCEPT !.osr = r.rx.buf[idx],
                                                !.osr_count = 0]))
             ELSE Done(m)
        ELSE IF join \in {"RX_PUT", "RX_PUTGET"}
             THEN Done(SetSm(m, b, s, [r EXCEPT !.rx.buf[idx] = r.isr,
                                                !.isr = ZERO, !.isr_count = 0]))
             ELSE Done(m)

MovOp(mop, v) ==
    CASE mop = "INVERT"  -> Not(v)
      [] mop = "REVERSE" -> pio_reverse32(v)
      [] OTHER           -> v

mov_store(m, b, s, dst, v) ==
    LET r == m.sm[b][s]
        c == m.cfg[b][s]
    IN  CASE dst = "PINS" -> Done(drive_pins(m, b, s, c.out_base, c.out_count, v))
          [] dst = "X" -> Done(SetSm(m, b, s, [r EXCEPT !.x = v]))
          [] dst = "Y" -> Done(SetSm(m, b, s, [r EXCEPT !.y = v]))
          [] dst = "PINDIRS" ->
               Done(drive_pindirs(m, b, s, c.out_base, c.out_count, v))
          [] dst = "EXEC" ->
               Done(SetSm(m, b, s, [r EXCEPT !.exec_pending = TRUE,
                                             !.exec_insn = DecodeWord(v)]))
          [] dst = "PC" -> JumpTo(m, LowBits(v, WORD_BITS) % INSN_COUNT)
          [] dst = "ISR" -> Done(SetSm(m, b, s, [r EXCEPT !.isr = v,
                                                          !.isr_count = 0]))
          [] dst = "OSR" -> Done(SetSm(m, b, s, [r EXCEPT !.osr = v,
                                                          !.osr_count = 0]))
          [] OTHER -> Done(m)

exec_mov(m, b, s, i) ==
    mov_store(m, b, s, i.dst, MovOp(i.mop, read_source(m, b, s, i.src)))

(* Faulty variant: a waiting IRQ raises its flag again on every retry.     *)
exec_irq_reraises(m, b, s, i) ==
    LET n == resolve_irq_index(s, i.mode, i.idx)
        target == irq_target_block(b, i.mode)
        Put(up) == [m EXCEPT !.irq = [t \in Blocks |->
                      IF t \notin target THEN m.irq[t]
                      ELSE IF up THEN m.irq[t] \union {n} ELSE m.irq[t] \ {n}]]
    IN  IF i.clr THEN Done(Put(FALSE))
        ELSE IF i.wait THEN Stall(Put(TRUE)) ELSE Done(Put(TRUE))

(* IRQ set / clear / wait.  A waiting IRQ raises its flag only when it is  *)
(* first presented (not stalled), then polls until something clears it.    *)
exec_irq(m, b, s, i) ==
    LET n == resolve_irq_index(s, i.mode, i.idx)
        target == irq_target_block(b, i.mode)
        Raise(mm) == [mm EXCEPT !.irq = [t \in Blocks |->
                        IF t \in target THEN mm.irq[t] \union {n} ELSE mm.irq[t]]]
        Lower(mm) == [mm EXCEPT !.irq = [t \in Blocks |->
                        IF t \in target THEN mm.irq[t] \ {n} ELSE mm.irq[t]]]
        m2 == IF m.sm[b][s].stalled THEN m ELSE Raise(m)
    IN  IF target = {} THEN (IF i.wait /\ ~i.clr THEN Stall(m) ELSE Done(m))
        ELSE IF i.clr THEN Done(Lower(m))
        ELSE IF ~i.wait THEN Done(Raise(m))
        ELSE IF \E t \in target : n \in m2.irq[t] THEN Stall(m2) ELSE Done(m2)

exec_set(m, b, s, i) ==
    LET r == m.sm[b][s]
        c == m.cfg[b][s]
    IN  CASE i.dst = "PINS" -> Done(drive_pins(m, b, s, c.set_base, c.set_count, i.val))
          [] i.dst = "X" -> Done(SetSm(m, b, s, [r EXCEPT !.x = i.val]))
          [] i.dst = "Y" -> Done(SetSm(m, b, s, [r EXCEPT !.y = i.val]))
          [] i.dst = "PINDIRS" ->
               Done(drive_pindirs(m, b, s, c.set_base, c.set_count, i.val))
          [] OTHER -> Done(m)

(* Side-set drives its pins on every cycle the instruction is presented,   *)
(* stalled or not.                                                         *)
SideSet(m, b, s, i) ==
    LET c == m.cfg[b][s]
    IN  IF i.side = <<>> \/ c.sideset_bits = 0 THEN m
        ELSE IF c.sideset_pindirs
        THEN drive_pindirs(m, b, s, c.sideset_base, c.sideset_bits, i.side[1])
        ELSE drive_pins(m, b, s, c.sideset_base, c.sideset_bits, i.side[1])

Execute(m, b, s, i) ==
    CASE i.op = "JMP"   -> exec_jmp(m, b, s, i)
      [] i.op = "WAIT"  -> exec_wait(m, b, s, i)
      [] i.op = "IN"    -> exec_in(m, b, s, i)
      [] i.op = "OUT"   -> exec_out(m, b, s, i)
      [] i.op = "PUSH"  -> exec_push(m, b, s, i)
      [] i.op = "PULL"  -> exec_pull(m, b, s, i)
      [] i.op = "MOVRX" -> exec_mov_rxfifo(m, b, s, i)
      [] i.op = "MOV"   -> exec_mov(m, b, s, i)
      [] i.op = "IRQ"   -> exec_irq(m, b, s, i)
      [] i.op = "SET"   -> exec_set(m, b, s, i)

exec_one(m, b, s, i) ==
    LET WithSide(h) == [h EXCEPT !.m = SideSet(h.m, b, s, i)]
    IN  WithSide(Execute(m, b, s, i))

(***************************************************************************)
(* One state machine clock.                                                *)
(***************************************************************************)

(* Faulty variant: the threshold must be exceeded.                         *)
BackgroundRefill_strict(m, b, s) ==
    LET r == m.sm[b][s]
        c == m.cfg[b][s]
    IN  IF c.autopull /\ r.osr_count > c.pull_thresh /\ ~fifo_empty(r.tx)
        THEN SetSm(m, b, s, osr_refill(r)) ELSE m

(* Autopull refills in the background on every cycle, delays included.     *)
BackgroundRefill(m, b, s) ==
    LET r == m.sm[b][s]
        c == m.cfg[b][s]
    IN  IF c.autopull /\ r.osr_count >= c.pull_thresh /\ ~fifo_empty(r.tx)
        THEN SetSm(m, b, s, osr_refill(r)) ELSE m

(* PC and delay after a committed instruction.  from_exec: it was the      *)
(* pending injected word, which does not advance the PC by itself; a word  *)
(* that itself injects one gives up its own delay.                         *)
Commit(h, b, s, i, from_exec) ==
    LET r == h.m.sm[b][s]
        c == h.m.cfg[b][s]
        next == CASE h.set_pc -> h.next_pc
                  [] ~h.set_pc /\ from_exec -> r.pc
                  [] ~h.set_pc /\ ~from_exec /\ r.pc = c.wrap_top -> c.wrap_bottom
                  [] OTHER -> (r.pc + 1) % INSN_COUNT
    IN  SetSm(h.m, b, s,
          [r EXCEPT !.stalled = FALSE, !.pc = next,
                    !.exec_pending = @ /\ ~from_exec,
                    !.delay = IF r.exec_pending /\ ~from_exec THEN 0 ELSE i.delay])

(* The cycle after the background refill.                                  *)
DelayOrExecute(m, insn, b, s) ==
    LET r == m.sm[b][s]
        i == IF r.exec_pending THEN r.exec_insn ELSE insn[b][r.pc]
        Outcome(h) ==
          IF h.stalled
          THEN SetSm(h.m, b, s, [h.m.sm[b][s] EXCEPT !.stalled = TRUE])
          ELSE Commit(h, b, s, i, r.exec_pending)
    IN  IF r.delay > 0 THEN SetSm(m, b, s, [r EXCEPT !.delay = @ - 1])
        ELSE Outcome(exec_one(m, b, s, i))

sm_cycle(m, insn, b, s) == DelayOrExecute(BackgroundRefill(m, b, s), insn, b, s)

(* Faulty variant: OUT_STICKY does not re-assert.                          *)
SmTick_not_sticky(m, insn, b, s) ==
    LET r == m.sm[b][s]
        c == m.cfg[b][s]
        m1 == SetSm(m, b, s, [r EXCEPT !.clk_accum = div_next(@, c.div)])
    IN  IF div_due(r.clk_accum, c.div) /\ r.enabled
        THEN sm_cycle(m1, insn, b, s) ELSE m1

(* The divider free-runs; only an enabled state machine executes, and one  *)
(* with OUT_STICKY re-asserts the pins it drives on each of its cycles.    *)
SmTick(m, insn, b, s) ==
    LET r == m.sm[b][s]
        c == m.cfg[b][s]
        due == div_due(r.clk_accum, c.div)
        m1 == SetSm(m, b, s, [r EXCEPT !.clk_accum = div_next(@, c.div)])
        Reassert(m2) == IF ~c.out_sticky THEN m2
                        ELSE [m2 EXCEPT !.reg[b][s].wrote = @ \union m2.reg[b][s].oe]
    IN  IF due /\ r.enabled THEN Reassert(sm_cycle(m1, insn, b, s)) ELSE m1

OpenWriteWindow(m, bs) ==
    [m EXCEPT !.reg = [b \in Blocks |-> [s \in SMs |->
        IF b \in bs THEN [m.reg[b][s] EXCEPT !.wrote = {}] ELSE m.reg[b][s]]]]

(* pio_sim_tick up to the device callback.                                 *)
TickBlock(m, insn, b) ==
    LET run[k \in 0 .. NUM_SM] ==
          IF k = 0 THEN OpenWriteWindow(m, {b})
          ELSE SmTick(run[k - 1], insn, b, k - 1)
    IN  ResolvePads(run[NUM_SM], b)

(* pio_sim_sm_exec: executes at once, ignores the delay field, and leaves  *)
(* a stalling word pending.                                                *)
sm_exec(m, b, s, i) ==
    LET Outcome(h) ==
          SetSm(h.m, b, s,
            IF h.stalled
            THEN [h.m.sm[b][s] EXCEPT !.exec_pending = TRUE, !.exec_insn = i,
                                      !.stalled = TRUE]
            ELSE [h.m.sm[b][s] EXCEPT !.pc = IF h.set_pc THEN h.next_pc ELSE @])
    IN  Outcome(exec_one(SetSm(m, b, s, [m.sm[b][s] EXCEPT !.stalled = FALSE]),
                         b, s, i))
============================================================================
