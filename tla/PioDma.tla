------------------------------- MODULE PioDma -------------------------------
(***************************************************************************)
(* The DMA controller (pio_dma.c): channels that move one element per tick *)
(* between memory and the FIFOs of attached state machines, paced by data  *)
(* requests or timers, chained to each other and restarted by completion   *)
(* callbacks.  The words moved are left out; memory cursors, FIFO levels   *)
(* and the FDEBUG flags the accesses may set are kept.                     *)
(*                                                                         *)
(* Endpoints are <<kind, n>>: <<"MEM", address>>, <<"NULL", 0>>, <<"TXF",  *)
(* f>> or <<"RXF", f>>, where f numbers a state machine's FIFO pair.  A    *)
(* transfer request is <<"FORCE", 0>>, <<"TIMER", t>>, <<"TX", f>> or      *)
(* <<"RX", f>>.                                                            *)
(***************************************************************************)
EXTENDS Integers, FiniteSets

CONSTANTS
    NUM_CH,         \* PIO_SIM_DMA_NUM_CHANNELS
    Timers,         \* pacing timers
    Attached,       \* FIFO pairs of the attached blocks
    FIFO_CAP,       \* capacity of each FIFO
    ADDR_SPACE,     \* memory cursors wrap here (2^width of a pointer)
    Jobs,           \* channel programs the host configures:
                    \* [ctrl, write, read, count]
    Fractions,      \* timer fractions <<num, den>> the host sets; num <= den
    Callbacks,      \* sets of channels a completion callback restarts
    HostOps         \* the calls the host makes in this instance

Ch == 0 .. NUM_CH - 1

Endpoint == {"MEM", "NULL", "TXF", "RXF"} \X Int
Request  == {"FORCE", "TIMER", "TX", "RX"} \X Nat

(* CHx_CTRL.  ring is the window in bytes, 2^RING_SIZE, or 0 for no ring.  *)
Ctrl == [high_priority : BOOLEAN, bytes : {1, 2, 4},
         incr_read : BOOLEAN, incr_write : BOOLEAN, ring : Nat,
         ring_sel : BOOLEAN, chain_to : Ch, treq_sel : Request,
         irq_quiet : BOOLEAN, bswap : BOOLEAN, sniff_en : BOOLEAN]

Job == [ctrl : Ctrl, write : Endpoint, read : Endpoint, count : Nat]

ASSUME DmaAssumption ==
    /\ NUM_CH \in Nat \ {0}
    /\ FIFO_CAP \in Nat \ {0} /\ ADDR_SPACE \in Nat \ {0}
    /\ Jobs \subseteq Job
    /\ Fractions \subseteq Nat \X Nat
    /\ \A q \in Fractions : q[1] <= q[2]
    /\ Callbacks \subseteq SUBSET Ch

VARIABLES
    ch,             \* the channels
    timer,          \* [num, den, accum, credit] of each timer
    intr,           \* completion flags
    rr_next,        \* round-robin seat
    tx, rx,         \* FIFO levels
    fdebug          \* TXOVER / RXUNDER flags raised by DMA accesses

vars == <<ch, timer, intr, rr_next, tx, rx, fdebug>>

pio_dma_channel_get_default_config(c) ==
    [high_priority |-> FALSE, bytes |-> 4, incr_read |-> TRUE,
     incr_write |-> FALSE, ring |-> 0, ring_sel |-> FALSE,
     chain_to |-> c, treq_sel |-> <<"FORCE", 0>>, irq_quiet |-> FALSE,
     bswap |-> FALSE, sniff_en |-> FALSE]

(* The config mutators that clamp; sizes and ring windows are logarithms.  *)
AtMost(n, max) == IF n > max THEN max ELSE n
channel_config_set_chain_to(k, c) == [k EXCEPT !.chain_to = c % NUM_CH]
channel_config_set_transfer_data_size(k, size) == [k EXCEPT !.bytes = 2^AtMost(size, 2)]
channel_config_set_ring(k, write, bits) ==
    [k EXCEPT !.ring_sel = write, !.ring = IF bits = 0 THEN 0 ELSE 2^AtMost(bits, 15)]

pio_dma_init ==
    /\ ch = [c \in Ch |-> [ctrl |-> pio_dma_channel_get_default_config(c),
                           read |-> <<"NULL", 0>>, write |-> <<"NULL", 0>>,
                           trans_count |-> 0, reload |-> 0,
                           en |-> FALSE, busy |-> FALSE, on_complete |-> {}]]
    /\ timer = [t \in Timers |-> [num |-> 0, den |-> 0, accum |-> 0,
                                  credit |-> FALSE]]
    /\ intr = {} /\ rr_next = 0

Init ==
    /\ pio_dma_init
    /\ tx = [f \in Attached |-> 0] /\ rx = [f \in Attached |-> 0]
    /\ fdebug = {}

(***************************************************************************)
(* Triggers and completion.                                                *)
(***************************************************************************)

(* Faulty variant: a NULL trigger starts the channel.                      *)
Started_null(chs, mask) ==
    [c \in Ch |-> IF c \in mask
                  THEN [chs[c] EXCEPT !.trans_count = chs[c].reload, !.busy = TRUE]
                  ELSE chs[c]]

(* Channels that start: a reload count of 0 is a NULL trigger.             *)
Started(chs, mask) ==
    [c \in Ch |-> IF c \in mask /\ chs[c].reload # 0
                  THEN [chs[c] EXCEPT !.trans_count = chs[c].reload, !.busy = TRUE]
                  ELSE chs[c]]

(* NULL triggers that raise the deferred completion interrupt.             *)
Deferred(chs, mask) ==
    {c \in mask : chs[c].reload = 0 /\ chs[c].ctrl.irq_quiet}

(* Channels restarted by the callbacks of the channels in S.  Callbacks    *)
(* only trigger channels that have a reload count.                         *)
CalledBack(chs, S) == UNION {chs[c].on_complete : c \in S}

(* pio_dma_start_channel_mask, with the callbacks it runs.  Starting is    *)
(* idempotent, so the order of the channels in the mask does not matter.   *)
StartMask(chs, mask) ==
    Started(chs, mask \union CalledBack(chs, Deferred(chs, mask)))

(***************************************************************************)
(* One bus cycle.                                                          *)
(***************************************************************************)

(* Faulty variant: requests that are not used accumulate.                  *)
dma_timers_tick_accumulates ==
    [t \in Timers |->
       LET q == timer[t]
           a == q.accum + q.num
       IN  IF q.den = 0 THEN q
           ELSE IF a >= q.den /\ ~q.credit
           THEN [q EXCEPT !.accum = a - q.den, !.credit = TRUE]
           ELSE [q EXCEPT !.accum = a]]

dma_timers_tick ==
    [t \in Timers |->
       LET q == timer[t]
           a == q.accum + q.num
       IN  IF q.den = 0 THEN q
           ELSE IF a >= q.den THEN [q EXCEPT !.accum = a - q.den, !.credit = TRUE]
           ELSE [q EXCEPT !.accum = a]]

dma_treq_ready(tm, req) ==
    \/ req[1] = "FORCE"
    \/ req[1] = "TIMER" /\ req[2] \in Timers /\ tm[req[2]].credit
    \/ req[1] = "TX" /\ req[2] \in Attached /\ tx[req[2]] < FIFO_CAP
    \/ req[1] = "RX" /\ req[2] \in Attached /\ rx[req[2]] > 0

(* Faulty variant: the pacing is trusted.                                  *)
dma_endpoints_ready_trusting(k) ==
    /\ k.read[1] \in {"MEM", "RXF"} /\ k.write[1] \in {"MEM", "TXF"}

(* Whatever the pacing, a FIFO endpoint must be able to move a word.       *)
dma_endpoints_ready(k) ==
    /\ \/ k.read[1] = "MEM"
       \/ k.read[1] = "RXF" /\ k.read[2] \in Attached /\ rx[k.read[2]] > 0
    /\ \/ k.write[1] = "MEM"
       \/ k.write[1] = "TXF" /\ k.write[2] \in Attached
                             /\ tx[k.write[2]] < FIFO_CAP

dma_channel_ready(tm, c) ==
    /\ ch[c].en /\ ch[c].busy
    /\ dma_treq_ready(tm, ch[c].ctrl.treq_sel)
    /\ dma_endpoints_ready(ch[c])

ReadyIn(tm, hp) ==
    {c \in Ch : ch[c].ctrl.high_priority = hp /\ dma_channel_ready(tm, c)}

(* Steps from the seat a to channel c in scan order.                       *)
Distance(a, c) == IF c >= a THEN c - a ELSE c - a + NUM_CH

(* The candidates of the first pass that has any, and the one the scan     *)
(* meets first.                                                            *)
Candidates(tm) ==
    IF ReadyIn(tm, TRUE) # {} THEN ReadyIn(tm, TRUE) ELSE ReadyIn(tm, FALSE)

FirstInScan(c, S) ==
    c \in S /\ \A o \in S : Distance(rr_next, c) <= Distance(rr_next, o)

(* Faulty variant: the ring is ignored.                                    *)
dma_advance_no_ring(a, incr, ring, bytes) ==
    IF a[1] # "MEM" \/ ~incr THEN a
    ELSE <<"MEM", (a[2] + bytes) % ADDR_SPACE>>

(* A memory cursor moves by one element; a ring wraps its low bits.        *)
dma_advance(a, incr, ring, bytes) ==
    IF a[1] # "MEM" \/ ~incr THEN a
    ELSE IF ring = 0 THEN <<"MEM", (a[2] + bytes) % ADDR_SPACE>>
    ELSE LET low == a[2] % ring
         IN  <<"MEM", a[2] - low + ((low + bytes) % ring)>>

RingOn(k, side) == IF k.ctrl.ring_sel = side THEN k.ctrl.ring ELSE 0

(* The channel after one element, before completion is handled.            *)
Moved(k) ==
    [k EXCEPT
       !.read  = dma_advance(@, k.ctrl.incr_read, RingOn(k, FALSE), k.ctrl.bytes),
       !.write = dma_advance(@, k.ctrl.incr_write, RingOn(k, TRUE), k.ctrl.bytes),
       !.trans_count = @ - 1,
       !.busy = k.trans_count # 1]

(* Faulty variants: a quiet channel does not chain; no channel chains.     *)
Completed_quiet_ends(chs, c) ==
    LET k == chs[c]
        own == IF k.ctrl.irq_quiet THEN {} ELSE {c}
        restarted == Started(chs, CalledBack(chs, own))
        next == IF k.ctrl.chain_to # c THEN {k.ctrl.chain_to} ELSE {}
    IN  [ch   |-> IF own = {} THEN chs ELSE StartMask(restarted, next),
         intr |-> intr \union own \union Deferred(restarted, next)]

Completed_unchained(chs, c) ==
    LET own == IF chs[c].ctrl.irq_quiet THEN {} ELSE {c}
    IN  [ch   |-> Started(chs, CalledBack(chs, own)),
         intr |-> intr \union own]

(* Completion: interrupt and callback unless quiet, then the chain.        *)
Completed(chs, c) ==
    LET k == chs[c]
        own == IF k.ctrl.irq_quiet THEN {} ELSE {c}
        restarted == Started(chs, CalledBack(chs, own))
        next == IF k.ctrl.chain_to # c THEN {k.ctrl.chain_to} ELSE {}
    IN  [ch   |-> StartMask(restarted, next),
         intr |-> intr \union own \union Deferred(restarted, next)]

(* pio_sim_sm_put and pio_sim_sm_get as the transfer calls them.           *)
Access(c) ==
    LET k == ch[c]
        PutTo(f) == k.write = <<"TXF", f>>
        GetFrom(f) == k.read = <<"RXF", f>>
    IN  /\ tx' = [f \in Attached |->
                    IF PutTo(f) /\ tx[f] < FIFO_CAP THEN tx[f] + 1 ELSE tx[f]]
        /\ rx' = [f \in Attached |->
                    IF GetFrom(f) /\ rx[f] > 0 THEN rx[f] - 1 ELSE rx[f]]
        /\ fdebug' = fdebug
             \union {<<"TXOVER", f>> : f \in {g \in Attached :
                                               PutTo(g) /\ tx[g] >= FIFO_CAP}}
             \union {<<"RXUNDER", f>> : f \in {g \in Attached :
                                                GetFrom(g) /\ rx[g] = 0}}

UseCredit(tm, req) ==
    [t \in Timers |-> IF req = <<"TIMER", t>> THEN [tm[t] EXCEPT !.credit = FALSE]
                      ELSE tm[t]]

dma_transfer_one(tm, c) ==
    LET moved == [ch EXCEPT ![c] = Moved(@)]
        done  == Completed(moved, c)
    IN  /\ Access(c)
        /\ timer' = UseCredit(tm, ch[c].ctrl.treq_sel)
        /\ ch' = IF moved[c].busy THEN moved ELSE done.ch
        /\ intr' = IF moved[c].busy THEN intr ELSE done.intr

(* Faulty variant: the seat stays on the channel just served.              *)
Serve_stays(c) ==
    /\ FirstInScan(c, Candidates(dma_timers_tick))
    /\ dma_transfer_one(dma_timers_tick, c)
    /\ rr_next' = c

Serve(c) ==
    /\ FirstInScan(c, Candidates(dma_timers_tick))
    /\ dma_transfer_one(dma_timers_tick, c)
    /\ rr_next' = (c + 1) % NUM_CH

NobodyReady ==
    /\ Candidates(dma_timers_tick) = {}
    /\ timer' = dma_timers_tick
    /\ UNCHANGED <<ch, intr, rr_next, tx, rx, fdebug>>

pio_dma_tick == (\E c \in Ch : Serve(c)) \/ NobodyReady

(***************************************************************************)
(* Host calls.                                                             *)
(***************************************************************************)
HostUnchanged == UNCHANGED <<rr_next, tx, rx, fdebug>>

Configured(k, j) ==
    [k EXCEPT !.ctrl = j.ctrl, !.read = j.read, !.write = j.write,
              !.reload = j.count, !.en = TRUE]

pio_dma_channel_configure(c, j, trigger) ==
    LET chs == [ch EXCEPT ![c] = Configured(@, j)]
        mask == IF trigger THEN {c} ELSE {}
    IN  /\ "configure" \in HostOps
        /\ ch' = StartMask(chs, mask)
        /\ intr' = intr \union Deferred(chs, mask)
        /\ HostUnchanged /\ UNCHANGED timer

pio_dma_start_channel_mask(mask) ==
    /\ "start" \in HostOps
    /\ ch' = StartMask(ch, mask)
    /\ intr' = intr \union Deferred(ch, mask)
    /\ HostUnchanged /\ UNCHANGED timer

(* Stops at once; the count keeps what was left.                           *)
pio_dma_channel_abort_mask(mask) ==
    /\ "abort" \in HostOps
    /\ ch' = [c \in Ch |-> IF c \in mask THEN [ch[c] EXCEPT !.busy = FALSE]
                           ELSE ch[c]]
    /\ HostUnchanged /\ UNCHANGED <<timer, intr>>

pio_dma_channel_set_enabled(c, en) ==
    /\ "enable" \in HostOps
    /\ ch' = [ch EXCEPT ![c].en = en]
    /\ HostUnchanged /\ UNCHANGED <<timer, intr>>

pio_dma_channel_set_callback(c, cb) ==
    /\ "callback" \in HostOps
    /\ ch' = [ch EXCEPT ![c].on_complete = cb]
    /\ HostUnchanged /\ UNCHANGED <<timer, intr>>

pio_dma_timer_set_fraction(t, q) ==
    /\ "timer" \in HostOps
    /\ timer' = [timer EXCEPT ![t] = [num |-> q[1], den |-> q[2], accum |-> 0,
                                      credit |-> FALSE]]
    /\ HostUnchanged /\ UNCHANGED <<ch, intr>>

pio_dma_irqn_acknowledge_channel(c) ==
    /\ "ack" \in HostOps
    /\ intr' = intr \ {c}
    /\ HostUnchanged /\ UNCHANGED <<ch, timer>>

(* The state machine's end of a FIFO pair.                                 *)
SmPull(f) == /\ tx[f] > 0
             /\ tx' = [tx EXCEPT ![f] = @ - 1]
             /\ UNCHANGED <<ch, timer, intr, rr_next, rx, fdebug>>

SmPush(f) == /\ rx[f] < FIFO_CAP
             /\ rx' = [rx EXCEPT ![f] = @ + 1]
             /\ UNCHANGED <<ch, timer, intr, rr_next, tx, fdebug>>

Host ==
    \/ \E c \in Ch :
         \/ \E j \in Jobs, trigger \in BOOLEAN :
              pio_dma_channel_configure(c, j, trigger)
         \/ \E en \in BOOLEAN : pio_dma_channel_set_enabled(c, en)
         \/ \E cb \in Callbacks : pio_dma_channel_set_callback(c, cb)
         \/ pio_dma_irqn_acknowledge_channel(c)
    \/ \E mask \in SUBSET Ch :
         pio_dma_start_channel_mask(mask) \/ pio_dma_channel_abort_mask(mask)
    \/ \E t \in Timers, q \in Fractions : pio_dma_timer_set_fraction(t, q)

Next == pio_dma_tick \/ Host \/ \E f \in Attached : SmPull(f) \/ SmPush(f)

Spec == Init /\ [][Next]_vars

(***************************************************************************)
(* Properties.                                                             *)
(***************************************************************************)
Channel == [ctrl : Ctrl, read : Endpoint, write : Endpoint,
            trans_count : Nat, reload : Nat, en : BOOLEAN, busy : BOOLEAN,
            on_complete : SUBSET Ch]

Timer == [num : Nat, den : Nat, accum : Nat, credit : BOOLEAN]

TypeOK ==
    /\ ch \in [Ch -> Channel]
    /\ timer \in [Timers -> Timer]
    /\ \A t \in Timers : /\ timer[t].num <= timer[t].den
                         /\ timer[t].accum <= timer[t].den
    /\ intr \subseteq Ch
    /\ rr_next \in Ch
    /\ tx \in [Attached -> 0 .. FIFO_CAP]
    /\ rx \in [Attached -> 0 .. FIFO_CAP]

(* A busy channel has elements left, so the decrement after a transfer     *)
(* never wraps below zero: neither a NULL trigger by the host, by a chain  *)
(* or with a pending configuration, nor an abort and restart, nor a        *)
(* restart from the channel's own callback can leave it busy with nothing  *)
(* to do.                                                                  *)
BusyHasWork == \A c \in Ch : ch[c].busy => ch[c].trans_count > 0

(* However a channel is paced (unpaced, by a timer, by the request of      *)
(* another FIFO), the controller never overruns a TX nor underruns an RX   *)
(* FIFO (dma_endpoints_ready: "a mis-paced channel must not                *)
(* overrun/underrun the model").                                           *)
FifoSafe == fdebug = {}

(* Nothing is dropped when a channel finishes in a tick: it leaves its     *)
(* completion flag unless it is quiet, and the channel it chains to, if it *)
(* has a count, is running with its full count, even when the callback     *)
(* restarted either of the two in between.                                 *)
Handover ==
    [][\A c \in Ch :
         LET k == ch[c]
             o == k.ctrl.chain_to
         IN  \/ k.trans_count # 1
             \/ /\ k.ctrl.irq_quiet \/ c \in intr'
                /\ (o # c /\ ch[o].reload # 0) =>
                     ch'[o].busy /\ ch'[o].trans_count = ch[o].reload
             \/ ~Serve(c)]_vars

(* Between k and new one bus cycle has passed.                             *)
Within(k, a, b) == a[1] = b[1] /\ a[2] \div k.ctrl.ring = b[2] \div k.ctrl.ring

Confined(k, new) ==
    /\ new.read # k.read =>
         /\ k.read[1] = "MEM" /\ k.ctrl.incr_read
         /\ RingOn(k, FALSE) # 0 => Within(k, k.read, new.read)
    /\ new.write # k.write =>
         /\ k.write[1] = "MEM" /\ k.ctrl.incr_write
         /\ RingOn(k, TRUE) # 0 => Within(k, k.write, new.write)

(* In a bus cycle a cursor with a ring never leaves its naturally aligned  *)
(* window, and an endpoint that is a FIFO, or does not increment, never    *)
(* moves.                                                                  *)
CursorsConfined == [][(\A c \in Ch : Confined(ch[c], ch'[c])) \/ ~pio_dma_tick]_vars
============================================================================
