--------------------------- MODULE PioDma_proofs ---------------------------
(***************************************************************************)
(* Proofs about the DMA controller for every number of channels, timers,   *)
(* FIFO pairs, channel programs and callbacks: the controller itself       *)
(* (PioDma), then round robin among its high-priority channels             *)
(* (PioDmaArb), then the rate of its pacing timers (PioDmaPace).           *)
(***************************************************************************)
EXTENDS PioDmaPace, TLAPS

(* Every busy channel of chs has elements left (BusyHasWork is this of the *)
(* controller's own channels).                                             *)
Working(chs) == \A c \in Ch : chs[c].busy => chs[c].trans_count > 0

(* chs and old hold the same programs.                                     *)
SameCtrl(chs, old) == \A c \in Ch : chs[c].ctrl = old[c].ctrl

(* Triggering channels keeps them well formed: NULL triggers start nothing *)
(* and a started channel has its reload count, which is not 0.             *)
LEMMA StartedKeeps ==
    ASSUME NEW chs \in [Ch -> Channel], NEW mask, Working(chs)
    PROVE  /\ Started(chs, mask) \in [Ch -> Channel]
           /\ Working(Started(chs, mask))
           /\ SameCtrl(Started(chs, mask), chs)
  <1> DEFINE new(c) == [chs[c] EXCEPT !.trans_count = chs[c].reload, !.busy = TRUE]
  <1>1. ASSUME NEW c \in Ch, chs[c].reload # 0
        PROVE  /\ new(c) \in Channel /\ new(c).ctrl = chs[c].ctrl
               /\ new(c).trans_count > 0
    <2>1. chs[c] \in Channel /\ chs[c].reload \in Nat
      BY DEF Channel
    <2>2. new(c) \in Channel
      BY <2>1 DEF Channel
    <2>3. new(c).ctrl = chs[c].ctrl /\ new(c).trans_count = chs[c].reload
      BY <2>1 DEF Channel
    <2> QED  BY <1>1, <2>1, <2>2, <2>3
  <1>2. Started(chs, mask) = [c \in Ch |-> IF c \in mask /\ chs[c].reload # 0
                                           THEN new(c) ELSE chs[c]]
    BY DEF Started
  <1> HIDE DEF new
  <1> QED  BY <1>1, <1>2 DEF Working, SameCtrl

(* Callbacks restart channels only.                                        *)
LEMMA SetsInRange ==
    ASSUME NEW chs \in [Ch -> Channel], NEW S \in SUBSET Ch
    PROVE  Deferred(chs, S) \in SUBSET Ch /\ CalledBack(chs, S) \in SUBSET Ch
  <1>1. \A c \in S : chs[c].on_complete \in SUBSET Ch
    BY DEF Channel
  <1> QED  BY <1>1 DEF Deferred, CalledBack

(* pio_dma_start_channel_mask keeps the channels well formed.              *)
LEMMA StartMaskKeeps ==
    ASSUME NEW chs \in [Ch -> Channel], NEW mask \in SUBSET Ch, Working(chs)
    PROVE  /\ StartMask(chs, mask) \in [Ch -> Channel]
           /\ Working(StartMask(chs, mask))
           /\ SameCtrl(StartMask(chs, mask), chs)
  BY StartedKeeps DEF StartMask

(* A cursor stays an endpoint of its kind.                                 *)
LEMMA AdvanceKeeps ==
    ASSUME NEW a \in Endpoint, NEW incr \in BOOLEAN, NEW ring \in Nat,
           NEW bytes \in {1, 2, 4}
    PROVE  dma_advance(a, incr, ring, bytes) \in Endpoint
  <1>1. a[1] \in {"MEM", "NULL", "TXF", "RXF"} /\ a[2] \in Int
    BY DEF Endpoint
  <1>2. (a[2] + bytes) % ADDR_SPACE \in Int
    BY <1>1, DmaAssumption
  <1>3. ASSUME ring # 0
        PROVE  a[2] - (a[2] % ring) + (((a[2] % ring) + bytes) % ring) \in Int
    <2>1. a[2] % ring \in Int
      BY <1>1, <1>3
    <2>2. ((a[2] % ring) + bytes) % ring \in Int
      BY <1>3, <2>1
    <2> QED  BY <1>1, <2>1, <2>2
  <1> QED  BY <1>1, <1>2, <1>3 DEF dma_advance, Endpoint

(* One element moves and the count goes down by one: a channel that had    *)
(* elements left is either done or still has some.                         *)
LEMMA MovedKeeps ==
    ASSUME NEW k \in Channel, k.trans_count > 0
    PROVE  /\ Moved(k) \in Channel
           /\ Moved(k).busy => Moved(k).trans_count > 0
           /\ Moved(k).ctrl = k.ctrl
  <1>1. /\ k.ctrl \in Ctrl /\ k.read \in Endpoint /\ k.write \in Endpoint
        /\ k.trans_count \in Nat
    BY DEF Channel
  <1>2. /\ k.ctrl.incr_read \in BOOLEAN /\ k.ctrl.incr_write \in BOOLEAN
        /\ k.ctrl.bytes \in {1, 2, 4}
        /\ RingOn(k, FALSE) \in Nat /\ RingOn(k, TRUE) \in Nat
    BY <1>1 DEF Ctrl, RingOn
  <1> DEFINE r == dma_advance(k.read, k.ctrl.incr_read, RingOn(k, FALSE), k.ctrl.bytes)
             w == dma_advance(k.write, k.ctrl.incr_write, RingOn(k, TRUE), k.ctrl.bytes)
             n == k.trans_count - 1
             b == k.trans_count # 1
  <1>3. r \in Endpoint /\ w \in Endpoint
    BY <1>1, <1>2, AdvanceKeeps
  <1>4. n \in Nat /\ b \in BOOLEAN /\ (b => n > 0)
    BY <1>1
  <1>5. Moved(k) = [k EXCEPT !.read = r, !.write = w, !.trans_count = n, !.busy = b]
    BY DEF Moved
  <1> HIDE DEF r, w, n, b
  <1> QED  BY <1>3, <1>4, <1>5 DEF Channel

(* Completion, with its callback and its chain, keeps the channels well    *)
(* formed and raises completion flags of channels only.                    *)
LEMMA CompletedKeeps ==
    ASSUME NEW chs \in [Ch -> Channel], NEW c \in Ch, Working(chs), intr \subseteq Ch
    PROVE  /\ Completed(chs, c).ch \in [Ch -> Channel]
           /\ Working(Completed(chs, c).ch)
           /\ SameCtrl(Completed(chs, c).ch, chs)
           /\ Completed(chs, c).intr \subseteq Ch
  <1> DEFINE own == IF chs[c].ctrl.irq_quiet THEN {} ELSE {c}
             restarted == Started(chs, CalledBack(chs, own))
             o == chs[c].ctrl.chain_to
             next == IF o # c THEN {o} ELSE {}
  <1>1. own \in SUBSET Ch /\ next \in SUBSET Ch
    BY DEF Channel, Ctrl
  <1>2. /\ restarted \in [Ch -> Channel] /\ Working(restarted)
        /\ SameCtrl(restarted, chs)
    BY StartedKeeps
  <1>3. /\ Completed(chs, c).ch = StartMask(restarted, next)
        /\ Completed(chs, c).intr = intr \union own \union Deferred(restarted, next)
    BY DEF Completed
  <1> HIDE DEF own, restarted, next
  <1>4. /\ StartMask(restarted, next) \in [Ch -> Channel]
        /\ Working(StartMask(restarted, next))
        /\ SameCtrl(StartMask(restarted, next), restarted)
    BY <1>1, <1>2, StartMaskKeeps
  <1>5. Deferred(restarted, next) \subseteq Ch
    BY <1>1, <1>2, SetsInRange
  <1> QED  BY <1>1, <1>2, <1>3, <1>4, <1>5 DEF SameCtrl

(***************************************************************************)
(* Timers.                                                                 *)
(***************************************************************************)
TimersOK(tm) ==
    /\ tm \in [Timers -> Timer]
    /\ \A t \in Timers : tm[t].num <= tm[t].den /\ tm[t].accum <= tm[t].den

(* Ticking the timers keeps each below its denominator, and changes no     *)
(* fraction.                                                               *)
LEMMA TimersTickKeeps ==
    ASSUME TimersOK(timer)
    PROVE  /\ TimersOK(dma_timers_tick)
           /\ \A t \in Timers : /\ dma_timers_tick[t].num = timer[t].num
                                /\ dma_timers_tick[t].den = timer[t].den
  <1> DEFINE q(t) == timer[t]
             a(t) == q(t).accum + q(t).num
             over(t) == [q(t) EXCEPT !.accum = a(t) - q(t).den, !.credit = TRUE]
             under(t) == [q(t) EXCEPT !.accum = a(t)]
             r(t) == IF q(t).den = 0 THEN q(t)
                     ELSE IF a(t) >= q(t).den THEN over(t) ELSE under(t)
  <1>1. ASSUME NEW t \in Timers
        PROVE  /\ r(t) \in Timer /\ r(t).num <= r(t).den /\ r(t).accum <= r(t).den
               /\ r(t).num = q(t).num /\ r(t).den = q(t).den
    <2>1. /\ q(t) \in Timer /\ q(t).num \in Nat /\ q(t).den \in Nat
          /\ q(t).accum \in Nat /\ q(t).num <= q(t).den /\ q(t).accum <= q(t).den
      BY DEF TimersOK, Timer
    <2>2. CASE a(t) >= q(t).den
      <3>1. a(t) - q(t).den \in Nat /\ a(t) - q(t).den <= q(t).den
        BY <2>1, <2>2
      <3>2. /\ over(t) \in Timer /\ over(t).num = q(t).num /\ over(t).den = q(t).den
            /\ over(t).accum = a(t) - q(t).den
        BY <2>1, <3>1 DEF Timer
      <3> QED  BY <2>1, <2>2, <3>1, <3>2
    <2>3. CASE ~(a(t) >= q(t).den)
      <3>1. a(t) \in Nat /\ a(t) <= q(t).den
        BY <2>1, <2>3
      <3>2. /\ under(t) \in Timer /\ under(t).num = q(t).num
            /\ under(t).den = q(t).den /\ under(t).accum = a(t)
        BY <2>1, <3>1 DEF Timer
      <3> QED  BY <2>1, <2>3, <3>1, <3>2
    <2> QED  BY <2>2, <2>3
  <1>2. dma_timers_tick = [t \in Timers |-> r(t)]
    BY DEF dma_timers_tick
  <1> HIDE DEF r
  <1> QED  BY <1>1, <1>2 DEF TimersOK

(* Using a request takes it away and nothing else.                         *)
LEMMA UseCreditKeeps ==
    ASSUME NEW tm, TimersOK(tm), NEW req
    PROVE  TimersOK(UseCredit(tm, req))
  <1> DEFINE r(t) == [tm[t] EXCEPT !.credit = FALSE]
  <1>1. ASSUME NEW t \in Timers
        PROVE  /\ r(t) \in Timer /\ r(t).num = tm[t].num /\ r(t).den = tm[t].den
               /\ r(t).accum = tm[t].accum
    <2>1. tm[t] \in Timer
      BY DEF TimersOK
    <2> QED  BY <2>1 DEF Timer
  <1>2. UseCredit(tm, req) = [t \in Timers |-> IF req = <<"TIMER", t>> THEN r(t)
                                               ELSE tm[t]]
    BY DEF UseCredit
  <1> HIDE DEF r
  <1> QED  BY <1>1, <1>2 DEF TimersOK

(***************************************************************************)
(* The inductive invariant: types, and what keeps counts and FIFOs safe.   *)
(***************************************************************************)
Inv == TypeOK /\ BusyHasWork /\ FifoSafe

(* pio_dma_init establishes it.                                            *)
LEMMA InvInit == Init => Inv
  <1> SUFFICES ASSUME Init PROVE Inv
    OBVIOUS
  <1> DEFINE d(c) == pio_dma_channel_get_default_config(c)
             k(c) == [ctrl |-> d(c), read |-> <<"NULL", 0>>, write |-> <<"NULL", 0>>,
                      trans_count |-> 0, reload |-> 0, en |-> FALSE,
                      busy |-> FALSE, on_complete |-> {}]
  <1>1. \A c \in Ch : d(c) \in Ctrl
    BY DEF pio_dma_channel_get_default_config, Ctrl, Request
  <1>2. ch = [c \in Ch |-> k(c)]
    BY DEF Init, pio_dma_init
  <1> HIDE DEF d
  <1>3. \A c \in Ch : k(c) \in Channel /\ k(c).busy = FALSE
    BY <1>1 DEF Channel, Endpoint
  <1> HIDE DEF k
  <1>4. ch \in [Ch -> Channel] /\ BusyHasWork
    BY <1>2, <1>3 DEF BusyHasWork
  <1>5. /\ timer \in [Timers -> Timer]
        /\ \A t \in Timers : /\ timer[t].num <= timer[t].den
                             /\ timer[t].accum <= timer[t].den
    BY DEF Init, pio_dma_init, Timer
  <1>6. rr_next \in Ch /\ intr \subseteq Ch
    BY DmaAssumption DEF Init, pio_dma_init, Ch
  <1>7. tx \in [Attached -> 0 .. FIFO_CAP] /\ rx \in [Attached -> 0 .. FIFO_CAP]
    BY DmaAssumption DEF Init
  <1> QED  BY <1>4, <1>5, <1>6, <1>7 DEF Inv, TypeOK, FifoSafe, Init

(* A served channel has room or a word at its FIFO ends, so its accesses   *)
(* raise no flag and keep the levels in range.                             *)
LEMMA AccessSafe ==
    ASSUME Inv, NEW c \in Ch, dma_endpoints_ready(ch[c]), Access(c)
    PROVE  /\ tx' \in [Attached -> 0 .. FIFO_CAP]
           /\ rx' \in [Attached -> 0 .. FIFO_CAP]
           /\ fdebug' = {}
  <1> DEFINE k == ch[c]
  <1>1. /\ tx \in [Attached -> 0 .. FIFO_CAP] /\ rx \in [Attached -> 0 .. FIFO_CAP]
        /\ fdebug = {} /\ FIFO_CAP \in Nat
    BY DmaAssumption DEF Inv, TypeOK, FifoSafe
  <1>2. \A f \in Attached : /\ k.write = <<"TXF", f>> => tx[f] < FIFO_CAP
                            /\ k.read = <<"RXF", f>> => rx[f] > 0
    BY DEF dma_endpoints_ready
  <1> HIDE DEF k
  <1>3. /\ tx' = [f \in Attached |->
                    IF k.write = <<"TXF", f>> /\ tx[f] < FIFO_CAP THEN tx[f] + 1
                    ELSE tx[f]]
        /\ rx' = [f \in Attached |->
                    IF k.read = <<"RXF", f>> /\ rx[f] > 0 THEN rx[f] - 1 ELSE rx[f]]
    BY DEF Access, k
  <1>4. tx' \in [Attached -> 0 .. FIFO_CAP]
    <2>1. \A f \in Attached : tx[f] \in 0 .. FIFO_CAP
      BY <1>1
    <2>2. \A f \in Attached : tx[f] < FIFO_CAP => tx[f] + 1 \in 0 .. FIFO_CAP
      BY <1>1, <2>1
    <2> QED  BY <1>3, <2>1, <2>2
  <1>5. rx' \in [Attached -> 0 .. FIFO_CAP]
    <2>1. \A f \in Attached : rx[f] \in 0 .. FIFO_CAP
      BY <1>1
    <2>2. \A f \in Attached : rx[f] > 0 => rx[f] - 1 \in 0 .. FIFO_CAP
      BY <1>1, <2>1
    <2> QED  BY <1>3, <2>1, <2>2
  <1>6. fdebug' = {}
    <2>1. \A f \in Attached : tx[f] \in 0 .. FIFO_CAP /\ rx[f] \in 0 .. FIFO_CAP
      BY <1>1
    <2>2. /\ {g \in Attached : k.write = <<"TXF", g>> /\ tx[g] >= FIFO_CAP} = {}
          /\ {g \in Attached : k.read = <<"RXF", g>> /\ rx[g] = 0} = {}
      BY <1>1, <1>2, <2>1
    <2>3. fdebug' = fdebug
            \union {<<"TXOVER", f>> : f \in
                      {g \in Attached : k.write = <<"TXF", g>> /\ tx[g] >= FIFO_CAP}}
            \union {<<"RXUNDER", f>> : f \in
                      {g \in Attached : k.read = <<"RXF", g>> /\ rx[g] = 0}}
      BY DEF Access, k
    <2> QED  BY <1>1, <2>2, <2>3
  <1> QED  BY <1>4, <1>5, <1>6

(* One transfer, with everything its completion sets off, preserves the    *)
(* invariant and changes no channel's program.                             *)
LEMMA ServeKeeps ==
    ASSUME Inv, NEW c \in Ch, Serve(c)
    PROVE  /\ Inv'
           /\ SameCtrl(ch', ch)
  <1>1. /\ ch \in [Ch -> Channel] /\ Working(ch) /\ TimersOK(timer)
        /\ intr \subseteq Ch
    BY DEF Inv, TypeOK, BusyHasWork, Working, TimersOK
  <1>2. dma_channel_ready(dma_timers_tick, c)
    BY DEF Serve, FirstInScan, Candidates, ReadyIn
  <1>3. ch[c].trans_count > 0 /\ dma_endpoints_ready(ch[c]) /\ ch[c] \in Channel
    BY <1>1, <1>2 DEF dma_channel_ready, Working
  <1> DEFINE moved == [ch EXCEPT ![c] = Moved(ch[c])]
  <1>4. moved \in [Ch -> Channel] /\ Working(moved) /\ SameCtrl(moved, ch)
    <2>1. /\ Moved(ch[c]) \in Channel
          /\ Moved(ch[c]).busy => Moved(ch[c]).trans_count > 0
          /\ Moved(ch[c]).ctrl = ch[c].ctrl
      BY <1>3, MovedKeeps
    <2> QED  BY <1>1, <2>1 DEF Working, SameCtrl
  <1>5. /\ ch' = IF moved[c].busy THEN moved ELSE Completed(moved, c).ch
        /\ intr' = IF moved[c].busy THEN intr ELSE Completed(moved, c).intr
        /\ timer' = UseCredit(dma_timers_tick, ch[c].ctrl.treq_sel)
        /\ Access(c)
        /\ rr_next' = (c + 1) % NUM_CH
    BY DEF Serve, dma_transfer_one
  <1> HIDE DEF moved
  <1>6. /\ Completed(moved, c).ch \in [Ch -> Channel]
        /\ Working(Completed(moved, c).ch)
        /\ SameCtrl(Completed(moved, c).ch, moved)
        /\ Completed(moved, c).intr \subseteq Ch
    BY <1>1, <1>4, CompletedKeeps
  <1>7. /\ ch' \in [Ch -> Channel] /\ Working(ch') /\ SameCtrl(ch', ch)
        /\ intr' \subseteq Ch
    BY <1>1, <1>4, <1>5, <1>6 DEF SameCtrl
  <1>8. TimersOK(timer')
    BY <1>1, <1>5, TimersTickKeeps, UseCreditKeeps
  <1>9. /\ tx' \in [Attached -> 0 .. FIFO_CAP] /\ rx' \in [Attached -> 0 .. FIFO_CAP]
        /\ fdebug' = {}
    BY <1>3, <1>5, AccessSafe
  <1>10. rr_next' \in Ch
    BY <1>5, DmaAssumption DEF Ch
  <1> QED
    BY <1>7, <1>8, <1>9, <1>10
       DEF Inv, TypeOK, BusyHasWork, Working, FifoSafe, TimersOK

(* The host's calls preserve the invariant.                                *)
LEMMA HostKeeps ==
    ASSUME Inv, Host
    PROVE  Inv'
  <1>1. /\ ch \in [Ch -> Channel] /\ Working(ch) /\ TimersOK(timer)
        /\ intr \subseteq Ch
    BY DEF Inv, TypeOK, BusyHasWork, Working, TimersOK
  <1>2. ASSUME HostUnchanged, ch' \in [Ch -> Channel], Working(ch'),
               TimersOK(timer'), intr' \subseteq Ch
        PROVE  Inv'
    BY <1>2 DEF Inv, TypeOK, BusyHasWork, Working, FifoSafe, TimersOK, HostUnchanged
  <1>3. ASSUME NEW c \in Ch, NEW j \in Jobs, NEW trigger \in BOOLEAN,
               pio_dma_channel_configure(c, j, trigger)
        PROVE  Inv'
    <2> DEFINE chs == [ch EXCEPT ![c] = Configured(ch[c], j)]
               mask == IF trigger THEN {c} ELSE {}
    <2>1. Configured(ch[c], j) \in Channel
      <3>1. j \in Job /\ ch[c] \in Channel
        BY <1>1, DmaAssumption
      <3> QED  BY <3>1 DEF Configured, Channel, Job
    <2>2. /\ Configured(ch[c], j).busy = ch[c].busy
          /\ Configured(ch[c], j).trans_count = ch[c].trans_count
      <3>1. ch[c] \in Channel
        BY <1>1
      <3> QED  BY <3>1 DEF Configured, Channel
    <2>3. chs \in [Ch -> Channel] /\ Working(chs)
      BY <1>1, <2>1, <2>2 DEF Working
    <2>4. mask \in SUBSET Ch
      OBVIOUS
    <2>5. /\ ch' = StartMask(chs, mask) /\ intr' = intr \union Deferred(chs, mask)
          /\ HostUnchanged /\ timer' = timer
      BY <1>3 DEF pio_dma_channel_configure
    <2> HIDE DEF chs, mask
    <2> QED  BY <1>1, <1>2, <2>3, <2>4, <2>5, StartMaskKeeps, SetsInRange
  <1>4. ASSUME NEW mask \in SUBSET Ch, pio_dma_start_channel_mask(mask)
        PROVE  Inv'
    BY <1>1, <1>2, <1>4, StartMaskKeeps, SetsInRange DEF pio_dma_start_channel_mask
  <1>5. ASSUME NEW mask \in SUBSET Ch, pio_dma_channel_abort_mask(mask)
        PROVE  Inv'
    <2>1. \A c \in Ch : /\ [ch[c] EXCEPT !.busy = FALSE] \in Channel
                        /\ [ch[c] EXCEPT !.busy = FALSE].busy = FALSE
      <3> SUFFICES ASSUME NEW c \in Ch
                   PROVE  /\ [ch[c] EXCEPT !.busy = FALSE] \in Channel
                          /\ [ch[c] EXCEPT !.busy = FALSE].busy = FALSE
        OBVIOUS
      <3>1. ch[c] \in Channel
        BY <1>1
      <3> QED  BY <3>1 DEF Channel
    <2>2. ch' \in [Ch -> Channel] /\ Working(ch')
      BY <1>1, <1>5, <2>1 DEF pio_dma_channel_abort_mask, Working
    <2> QED  BY <1>1, <1>2, <1>5, <2>2 DEF pio_dma_channel_abort_mask
  <1>6. ASSUME NEW c \in Ch, NEW en \in BOOLEAN, pio_dma_channel_set_enabled(c, en)
        PROVE  Inv'
    <2> DEFINE k == [ch[c] EXCEPT !.en = en]
    <2>1. /\ k \in Channel
          /\ k.busy = ch[c].busy /\ k.trans_count = ch[c].trans_count
      BY <1>1 DEF Channel
    <2>2. ch' = [ch EXCEPT ![c] = k]
      BY <1>6 DEF pio_dma_channel_set_enabled
    <2> HIDE DEF k
    <2>3. ch' \in [Ch -> Channel] /\ Working(ch')
      BY <1>1, <2>1, <2>2 DEF Working
    <2> QED  BY <1>1, <1>2, <1>6, <2>3 DEF pio_dma_channel_set_enabled
  <1>7. ASSUME NEW c \in Ch, NEW cb \in Callbacks, pio_dma_channel_set_callback(c, cb)
        PROVE  Inv'
    <2> DEFINE k == [ch[c] EXCEPT !.on_complete = cb]
    <2>1. /\ k \in Channel
          /\ k.busy = ch[c].busy /\ k.trans_count = ch[c].trans_count
      BY <1>1, DmaAssumption DEF Channel
    <2>2. ch' = [ch EXCEPT ![c] = k]
      BY <1>7 DEF pio_dma_channel_set_callback
    <2> HIDE DEF k
    <2>3. ch' \in [Ch -> Channel] /\ Working(ch')
      BY <1>1, <2>1, <2>2 DEF Working
    <2> QED  BY <1>1, <1>2, <1>7, <2>3 DEF pio_dma_channel_set_callback
  <1>8. ASSUME NEW t \in Timers, NEW q \in Fractions, pio_dma_timer_set_fraction(t, q)
        PROVE  Inv'
    <2> DEFINE r == [num |-> q[1], den |-> q[2], accum |-> 0, credit |-> FALSE]
    <2>1. r \in Timer /\ r.num <= r.den /\ r.accum <= r.den
      BY DmaAssumption DEF Timer
    <2>2. timer' = [timer EXCEPT ![t] = r]
      BY <1>8 DEF pio_dma_timer_set_fraction
    <2> HIDE DEF r
    <2>3. TimersOK(timer')
      BY <1>1, <2>1, <2>2 DEF TimersOK
    <2> QED  BY <1>1, <1>2, <1>8, <2>3 DEF pio_dma_timer_set_fraction
  <1>9. ASSUME NEW c \in Ch, pio_dma_irqn_acknowledge_channel(c)
        PROVE  Inv'
    BY <1>1, <1>2, <1>9 DEF pio_dma_irqn_acknowledge_channel
  <1> QED
    BY <1>3, <1>4, <1>5, <1>6, <1>7, <1>8, <1>9 DEF Host

(* Idle ticks and the state machines' ends of the FIFOs preserve it too.   *)
LEMMA OthersKeep ==
    ASSUME Inv, NobodyReady \/ (\E f \in Attached : SmPull(f) \/ SmPush(f))
    PROVE  Inv'
  <1>1. CASE NobodyReady
    <2>1. TimersOK(timer')
      BY <1>1, TimersTickKeeps DEF NobodyReady, Inv, TypeOK, TimersOK
    <2> QED
      BY <1>1, <2>1 DEF NobodyReady, Inv, TypeOK, BusyHasWork, FifoSafe, TimersOK
  <1>2. ASSUME NEW f \in Attached, SmPull(f) PROVE Inv'
    <2>1. tx' \in [Attached -> 0 .. FIFO_CAP]
      BY <1>2, DmaAssumption DEF SmPull, Inv, TypeOK
    <2> QED  BY <1>2, <2>1 DEF SmPull, Inv, TypeOK, BusyHasWork, FifoSafe
  <1>3. ASSUME NEW f \in Attached, SmPush(f) PROVE Inv'
    <2>1. rx' \in [Attached -> 0 .. FIFO_CAP]
      BY <1>3, DmaAssumption DEF SmPush, Inv, TypeOK
    <2> QED  BY <1>3, <2>1 DEF SmPush, Inv, TypeOK, BusyHasWork, FifoSafe
  <1> QED  BY <1>1, <1>2, <1>3

(* Every step preserves the invariant.                                     *)
LEMMA InvNext == Inv /\ [Next]_vars => Inv'
  <1> SUFFICES ASSUME Inv, [Next]_vars PROVE Inv'
    OBVIOUS
  <1>1. CASE UNCHANGED vars
    BY <1>1 DEF vars, Inv, TypeOK, BusyHasWork, FifoSafe
  <1>2. CASE Next
    BY <1>2, ServeKeeps, HostKeeps, OthersKeep DEF Next, pio_dma_tick
  <1> QED  BY <1>1, <1>2

(* The controller keeps its types whatever the host does.                  *)
THEOREM DmaTypes == Spec => []TypeOK
  <1>1. Init => Inv  BY InvInit
  <1>2. Inv /\ [Next]_vars => Inv'  BY InvNext
  <1>3. Inv => TypeOK  BY DEF Inv
  <1> QED  BY <1>1, <1>2, <1>3, PTL DEF Spec

(* No transfer count ever wraps below zero.                                *)
THEOREM DmaBusyHasWork == Spec => []BusyHasWork
  <1>1. Init => Inv  BY InvInit
  <1>2. Inv /\ [Next]_vars => Inv'  BY InvNext
  <1>3. Inv => BusyHasWork  BY DEF Inv
  <1> QED  BY <1>1, <1>2, <1>3, PTL DEF Spec

(* No transfer ever overruns or underruns a FIFO, however it is paced.     *)
THEOREM DmaFifoSafe == Spec => []FifoSafe
  <1>1. Init => Inv  BY InvInit
  <1>2. Inv /\ [Next]_vars => Inv'  BY InvNext
  <1>3. Inv => FifoSafe  BY DEF Inv
  <1> QED  BY <1>1, <1>2, <1>3, PTL DEF Spec

(***************************************************************************)
(* Completion.                                                             *)
(***************************************************************************)

(* A channel in the mask that has a count is running with all of it; no    *)
(* reload count changes.                                                   *)
LEMMA StartedRuns ==
    ASSUME NEW chs \in [Ch -> Channel], NEW mask, NEW c \in Ch
    PROVE  LET r == Started(chs, mask)
           IN  /\ r[c].reload = chs[c].reload
               /\ (c \in mask /\ chs[c].reload # 0) =>
                     r[c].busy /\ r[c].trans_count = chs[c].reload
  <1> DEFINE k == [chs[c] EXCEPT !.trans_count = chs[c].reload, !.busy = TRUE]
  <1>1. k.reload = chs[c].reload /\ k.busy /\ k.trans_count = chs[c].reload
    BY DEF Channel
  <1>2. Started(chs, mask)[c] = IF c \in mask /\ chs[c].reload # 0 THEN k ELSE chs[c]
    BY DEF Started
  <1> HIDE DEF k
  <1> QED  BY <1>1, <1>2

(* What a finished channel leaves behind: its flag, and its successor      *)
(* running.                                                                *)
LEMMA CompletedHandsOver ==
    ASSUME NEW chs \in [Ch -> Channel], NEW c \in Ch, Working(chs)
    PROVE  LET r == Completed(chs, c)
               o == chs[c].ctrl.chain_to
           IN  /\ chs[c].ctrl.irq_quiet \/ c \in r.intr
               /\ (o # c /\ chs[o].reload # 0) =>
                     r.ch[o].busy /\ r.ch[o].trans_count = chs[o].reload
  <1> DEFINE own == IF chs[c].ctrl.irq_quiet THEN {} ELSE {c}
             restarted == Started(chs, CalledBack(chs, own))
             o == chs[c].ctrl.chain_to
             next == IF o # c THEN {o} ELSE {}
             all == next \union CalledBack(restarted, Deferred(restarted, next))
  <1>1. restarted \in [Ch -> Channel] /\ o \in Ch
    BY StartedKeeps DEF Channel, Ctrl
  <1>2. restarted[o].reload = chs[o].reload
    BY <1>1, StartedRuns
  <1>3. /\ Completed(chs, c).ch = Started(restarted, all)
        /\ Completed(chs, c).intr = intr \union own \union Deferred(restarted, next)
    BY DEF Completed, StartMask
  <1>4. o # c => o \in all
    OBVIOUS
  <1> HIDE DEF restarted, all
  <1>5. (o \in all /\ restarted[o].reload # 0) =>
           /\ Started(restarted, all)[o].busy
           /\ Started(restarted, all)[o].trans_count = restarted[o].reload
    BY <1>1, StartedRuns
  <1> QED  BY <1>2, <1>3, <1>4, <1>5

(* A channel that completes in a tick leaves its completion flag unless it *)
(* is quiet, and the channel it chains to, if it has a count, is running   *)
(* with its full count, whatever its callback restarted in between.        *)
THEOREM DmaHandover == Spec => Handover
  <1> DEFINE A == \A c \in Ch :
                    LET k == ch[c]
                        o == k.ctrl.chain_to
                    IN  \/ k.trans_count # 1
                        \/ /\ k.ctrl.irq_quiet \/ c \in intr'
                           /\ (o # c /\ ch[o].reload # 0) =>
                                ch'[o].busy /\ ch'[o].trans_count = ch[o].reload
                        \/ ~Serve(c)
  <1>1. Inv /\ [Next]_vars => [A]_vars
    <2> SUFFICES ASSUME Inv, NEW c \in Ch, Serve(c), ch[c].trans_count = 1
                 PROVE  /\ ch[c].ctrl.irq_quiet \/ c \in intr'
                        /\ (ch[c].ctrl.chain_to # c
                              /\ ch[ch[c].ctrl.chain_to].reload # 0) =>
                             /\ ch'[ch[c].ctrl.chain_to].busy
                             /\ ch'[ch[c].ctrl.chain_to].trans_count
                                  = ch[ch[c].ctrl.chain_to].reload
      OBVIOUS
    <2> DEFINE moved == [ch EXCEPT ![c] = Moved(ch[c])]
               o == ch[c].ctrl.chain_to
    <2>1. ch \in [Ch -> Channel] /\ Working(ch) /\ ch[c] \in Channel
      BY DEF Inv, TypeOK, BusyHasWork, Working
    <2>2. /\ Moved(ch[c]) \in Channel /\ Moved(ch[c]).ctrl = ch[c].ctrl
          /\ ~Moved(ch[c]).busy
      <3>1. ch[c].trans_count > 0
        OBVIOUS
      <3>2. Moved(ch[c]).busy = (ch[c].trans_count # 1)
        BY <2>1 DEF Moved, Channel
      <3> QED  BY <2>1, <3>1, <3>2, MovedKeeps
    <2>3. /\ moved \in [Ch -> Channel] /\ Working(moved)
          /\ moved[c].ctrl = ch[c].ctrl /\ ~moved[c].busy
          /\ o # c => moved[o] = ch[o]
      BY <2>1, <2>2 DEF Working
    <2>4. /\ ch' = IF moved[c].busy THEN moved ELSE Completed(moved, c).ch
          /\ intr' = IF moved[c].busy THEN intr ELSE Completed(moved, c).intr
      BY DEF Serve, dma_transfer_one
    <2> HIDE DEF moved
    <2>5. /\ moved[c].ctrl.irq_quiet \/ c \in Completed(moved, c).intr
          /\ (moved[c].ctrl.chain_to # c
                /\ moved[moved[c].ctrl.chain_to].reload # 0) =>
               /\ Completed(moved, c).ch[moved[c].ctrl.chain_to].busy
               /\ Completed(moved, c).ch[moved[c].ctrl.chain_to].trans_count
                    = moved[moved[c].ctrl.chain_to].reload
      BY <2>3, CompletedHandsOver
    <2> QED  BY <2>3, <2>4, <2>5
  <1>2. Init => Inv  BY InvInit
  <1>3. Inv /\ [Next]_vars => Inv'  BY InvNext
  <1> HIDE DEF A
  <1>4. Spec => [][A]_vars
    BY <1>1, <1>2, <1>3, PTL DEF Spec
  <1> QED  BY <1>4 DEF Handover, A

(***************************************************************************)
(* Cursors.                                                                *)
(***************************************************************************)

(* A number has one quotient.                                              *)
LEMMA DivUnique ==
    ASSUME NEW ring \in Nat \ {0}, NEW q \in Int, NEW s \in 0 .. ring - 1
    PROVE  (ring * q + s) \div ring = q
  <1>1. PICK x \in Int : x = ring * q + s
    OBVIOUS
  <1>2. PICK d \in Int, m \in 0 .. ring - 1 : x \div ring = d /\ x = ring * d + m
    OBVIOUS
  <1>3. ASSUME NEW i \in Int, NEW j \in Int, i > j
        PROVE  ring * i >= ring * j + ring
    <2>1. ring * (i - j) >= ring
      BY <1>3
    <2> QED  BY <2>1
  <1>4. ~(q > d) 
    BY <1>1, <1>2, <1>3
  <1>5. ~(d > q)
    BY <1>1, <1>2, <1>3
  <1> QED BY <1>1, <1>2, <1>4, <1>5

(* Wrapping the low bits keeps an address in its window.                   *)
LEMMA RingWindow ==
    ASSUME NEW a \in Int, NEW ring \in Nat \ {0}, NEW bytes \in Nat
    PROVE  (a - (a % ring) + (((a % ring) + bytes) % ring)) \div ring = a \div ring
  <1> DEFINE s == ((a % ring) + bytes) % ring
             q == a \div ring
  <1>1. q \in Int /\ a = ring * q + (a % ring) /\ a % ring \in 0 .. ring - 1
    OBVIOUS
  <1>2. s \in 0 .. ring - 1
    BY <1>1
  <1>3. a - (a % ring) + s = ring * q + s
    BY <1>1, <1>2
  <1> HIDE DEF s, q
  <1>4. (ring * q + s) \div ring = q
    BY <1>1, <1>2, DivUnique
  <1> QED BY <1>3, <1>4 DEF s, q
(* A cursor that moves is an incrementing memory cursor, and stays in the  *)
(* window of its ring.                                                     *)
LEMMA AdvanceConfined ==
    ASSUME NEW a \in Endpoint, NEW incr \in BOOLEAN, NEW ring \in Nat,
           NEW bytes \in {1, 2, 4}, dma_advance(a, incr, ring, bytes) # a
    PROVE  LET b == dma_advance(a, incr, ring, bytes)
           IN  /\ a[1] = "MEM" /\ incr
               /\ ring # 0 => a[1] = b[1] /\ a[2] \div ring = b[2] \div ring
  <1>1. a[1] = "MEM" /\ incr
    BY DEF dma_advance
  <1>2. ASSUME ring # 0
        PROVE  LET b == dma_advance(a, incr, ring, bytes)
               IN  a[1] = b[1] /\ a[2] \div ring = b[2] \div ring
    <2> DEFINE to == a[2] - (a[2] % ring) + (((a[2] % ring) + bytes) % ring)
    <2>1. a[2] \in Int /\ ring \in Nat \ {0} /\ bytes \in Nat
      BY <1>2 DEF Endpoint
    <2>2. to \div ring = a[2] \div ring
      BY <2>1, RingWindow
    <2>3. dma_advance(a, incr, ring, bytes) = <<"MEM", to>>
      BY <1>1, <1>2 DEF dma_advance
    <2> HIDE DEF to
    <2>4. /\ dma_advance(a, incr, ring, bytes)[1] = "MEM"
          /\ dma_advance(a, incr, ring, bytes)[2] = to
      BY <2>3
    <2> QED  BY <1>1, <2>2, <2>4
  <1> QED  BY <1>1, <1>2

(* chs and old have the same cursors.                                      *)
SameEnds(chs, old) ==
    \A c \in Ch : chs[c].read = old[c].read /\ chs[c].write = old[c].write

(* Starting channels moves no cursor.                                      *)
LEMMA StartedSameEnds ==
    ASSUME NEW chs \in [Ch -> Channel], NEW mask
    PROVE  SameEnds(Started(chs, mask), chs)
  <1> SUFFICES ASSUME NEW c \in Ch
               PROVE  /\ Started(chs, mask)[c].read = chs[c].read
                      /\ Started(chs, mask)[c].write = chs[c].write
    BY DEF SameEnds
  <1> DEFINE k == [chs[c] EXCEPT !.trans_count = chs[c].reload, !.busy = TRUE]
  <1>1. k.read = chs[c].read /\ k.write = chs[c].write
    BY DEF Channel
  <1>2. Started(chs, mask)[c] = IF c \in mask /\ chs[c].reload # 0 THEN k ELSE chs[c]
    BY DEF Started
  <1> HIDE DEF k
  <1> QED  BY <1>1, <1>2

(* Nor does a completion, with its callback and its chain.                 *)
LEMMA CompletedSameEnds ==
    ASSUME NEW chs \in [Ch -> Channel], NEW c \in Ch, Working(chs)
    PROVE  SameEnds(Completed(chs, c).ch, chs)
  <1> DEFINE own == IF chs[c].ctrl.irq_quiet THEN {} ELSE {c}
             restarted == Started(chs, CalledBack(chs, own))
             next == IF chs[c].ctrl.chain_to # c THEN {chs[c].ctrl.chain_to} ELSE {}
             all == next \union CalledBack(restarted, Deferred(restarted, next))
  <1>1. restarted \in [Ch -> Channel] /\ SameEnds(restarted, chs)
    BY StartedKeeps, StartedSameEnds
  <1>2. Completed(chs, c).ch = Started(restarted, all)
    BY DEF Completed, StartMask
  <1> HIDE DEF restarted, all
  <1>3. SameEnds(Started(restarted, all), restarted)
    BY <1>1, StartedSameEnds
  <1> QED  BY <1>1, <1>2, <1>3 DEF SameEnds

(* The channel that moved an element moved its cursors within their bounds. *)
LEMMA MovedConfined ==
    ASSUME NEW k \in Channel, NEW new, new.read = Moved(k).read,
           new.write = Moved(k).write
    PROVE  Confined(k, new)
  <1>1. k.ctrl \in Ctrl /\ k.read \in Endpoint /\ k.write \in Endpoint
    BY DEF Channel
  <1>2. /\ k.ctrl.incr_read \in BOOLEAN /\ k.ctrl.incr_write \in BOOLEAN
        /\ k.ctrl.bytes \in {1, 2, 4}
        /\ RingOn(k, FALSE) \in Nat /\ RingOn(k, TRUE) \in Nat
        /\ RingOn(k, FALSE) # 0 => RingOn(k, FALSE) = k.ctrl.ring
        /\ RingOn(k, TRUE) # 0 => RingOn(k, TRUE) = k.ctrl.ring
    BY <1>1 DEF Ctrl, RingOn
  <1> DEFINE r == dma_advance(k.read, k.ctrl.incr_read, RingOn(k, FALSE), k.ctrl.bytes)
             w == dma_advance(k.write, k.ctrl.incr_write, RingOn(k, TRUE), k.ctrl.bytes)
  <1>3. new.read = r /\ new.write = w
    BY DEF Moved, Channel
  <1>4. r # k.read => /\ k.read[1] = "MEM" /\ k.ctrl.incr_read
                      /\ RingOn(k, FALSE) # 0 => Within(k, k.read, r)
    <2>1. r # k.read =>
            /\ k.read[1] = "MEM" /\ k.ctrl.incr_read
            /\ RingOn(k, FALSE) # 0 =>
                 /\ k.read[1] = r[1]
                 /\ k.read[2] \div RingOn(k, FALSE) = r[2] \div RingOn(k, FALSE)
      BY <1>1, <1>2, AdvanceConfined
    <2> HIDE DEF r
    <2> QED  BY <1>2, <2>1, Zenon DEF Within
  <1>5. w # k.write => /\ k.write[1] = "MEM" /\ k.ctrl.incr_write
                       /\ RingOn(k, TRUE) # 0 => Within(k, k.write, w)
    <2>1. w # k.write =>
            /\ k.write[1] = "MEM" /\ k.ctrl.incr_write
            /\ RingOn(k, TRUE) # 0 =>
                 /\ k.write[1] = w[1]
                 /\ k.write[2] \div RingOn(k, TRUE) = w[2] \div RingOn(k, TRUE)
      BY <1>1, <1>2, AdvanceConfined
    <2> HIDE DEF w
    <2> QED  BY <1>2, <2>1, Zenon DEF Within
  <1> HIDE DEF r, w
  <1> QED  BY <1>3, <1>4, <1>5 DEF Confined

(* In a bus cycle a cursor with a ring never leaves its naturally aligned  *)
(* window, and an endpoint that is a FIFO, or does not increment, never    *)
(* moves; starts, callbacks and chains move none.                          *)
THEOREM DmaCursorsConfined == Spec => CursorsConfined
  <1> DEFINE A == (\A c \in Ch : Confined(ch[c], ch'[c])) \/ ~pio_dma_tick
  <1>1. Inv /\ [Next]_vars => [A]_vars
    <2> SUFFICES ASSUME Inv, pio_dma_tick, NEW c \in Ch
                 PROVE  Confined(ch[c], ch'[c])
      OBVIOUS
    <2>1. ch \in [Ch -> Channel] /\ Working(ch) /\ ch[c] \in Channel
      BY DEF Inv, TypeOK, BusyHasWork, Working
    <2>2. CASE NobodyReady
      BY <2>2 DEF NobodyReady, Confined
    <2>3. ASSUME NEW s \in Ch, Serve(s) PROVE Confined(ch[c], ch'[c])
      <3> DEFINE moved == [ch EXCEPT ![s] = Moved(ch[s])]
      <3>1. ch' = IF moved[s].busy THEN moved ELSE Completed(moved, s).ch
        BY <2>3 DEF Serve, dma_transfer_one
      <3>2. ch[s].trans_count > 0 /\ ch[s] \in Channel
        BY <2>1, <2>3 DEF Serve, FirstInScan, Candidates, ReadyIn,
                          dma_channel_ready, Working
      <3>3. moved \in [Ch -> Channel] /\ Working(moved)
        BY <2>1, <3>2, MovedKeeps DEF Working
      <3>4. moved[c] = IF c = s THEN Moved(ch[c]) ELSE ch[c]
        BY <2>1
      <3> HIDE DEF moved
      <3>5. ch'[c].read = moved[c].read /\ ch'[c].write = moved[c].write
        BY <3>1, <3>3, CompletedSameEnds DEF SameEnds
      <3>6. CASE c = s
        BY <2>1, <3>4, <3>5, <3>6, MovedConfined
      <3>7. CASE c # s
        BY <3>4, <3>5, <3>7 DEF Confined
      <3> QED  BY <3>6, <3>7
    <2> QED  BY <2>2, <2>3 DEF pio_dma_tick
  <1>2. Init => Inv  BY InvInit
  <1>3. Inv /\ [Next]_vars => Inv'  BY InvNext
  <1> HIDE DEF A
  <1>4. Spec => [][A]_vars
    BY <1>1, <1>2, <1>3, PTL DEF Spec
  <1> QED  BY <1>4 DEF CursorsConfined, A
-----------------------------------------------------------------------------
(***************************************************************************)
(* Round robin among high-priority channels.                               *)
(***************************************************************************)

ArbInv == /\ Inv
          /\ waited \in [Ch -> Nat]
          /\ SeatApproaches

(* Scan distances are below the number of channels.                        *)
LEMMA DistanceRange ==
    ASSUME NEW a \in Ch, NEW c \in Ch
    PROVE  Distance(a, c) \in 0 .. NUM_CH - 1
  BY DmaAssumption DEF Ch, Distance

(* Once the seat moves past a channel x that the scan meets before c, it   *)
(* is closer to c.                                                         *)
LEMMA SeatCloser ==
    ASSUME NEW a \in Ch, NEW x \in Ch, NEW c \in Ch, x # c,
           Distance(a, x) <= Distance(a, c)
    PROVE  Distance((x + 1) % NUM_CH, c) + 1 <= Distance(a, c)
  <1>1. (x + 1) % NUM_CH = IF x + 1 < NUM_CH THEN x + 1 ELSE 0
    <2>1. CASE x + 1 < NUM_CH
      BY <2>1, DmaAssumption DEF Ch
    <2>2. CASE x + 1 = NUM_CH
      BY <2>2, DmaAssumption DEF Ch
    <2> QED  BY <2>1, <2>2, DmaAssumption DEF Ch
  <1> DEFINE s == (x + 1) % NUM_CH
  <1> HIDE DEF s
  <1>2. s = IF x + 1 < NUM_CH THEN x + 1 ELSE 0
    BY <1>1 DEF s
  <1>3. Distance(s, c) + 1 <= Distance(a, c)
    BY <1>2, DmaAssumption DEF Distance, Ch
  <1> QED  BY <1>3 DEF s

(* A fresh controller has kept nobody waiting.                             *)
LEMMA ArbInit == AInit => ArbInv
  <1> SUFFICES ASSUME AInit PROVE ArbInv
    OBVIOUS
  <1>1. Inv
    BY InvInit DEF AInit
  <1>2. waited = [c \in Ch |-> 0] /\ rr_next \in Ch
    BY <1>1 DEF AInit, Inv, TypeOK
  <1>3. SeatApproaches
    <2> SUFFICES ASSUME NEW c \in Ch
                 PROVE  waited[c] + Distance(rr_next, c) <= NUM_CH - 1
      BY DEF SeatApproaches
    <2>1. Distance(rr_next, c) \in 0 .. NUM_CH - 1 /\ waited[c] = 0
      BY <1>2, DistanceRange
    <2> QED  BY <2>1, DmaAssumption
  <1> QED  BY <1>1, <1>2, <1>3 DEF ArbInv

(* Serving a channel: whoever was ready and passed over sees the seat come *)
(* closer by at least the one turn it is charged.                          *)
LEMMA ServeApproaches ==
    ASSUME ArbInv, NEW x \in Ch, AServe(x)
    PROVE  ArbInv'
  <1>1. /\ Inv' /\ SameCtrl(ch', ch) /\ rr_next \in Ch /\ rr_next' \in Ch
        /\ waited \in [Ch -> Nat]
    BY ServeKeeps DEF AServe, ArbInv, Inv, TypeOK
  <1>2. rr_next' = (x + 1) % NUM_CH /\ FirstInScan(x, Candidates(dma_timers_tick))
    BY DEF AServe, Serve
  <1> DEFINE ready(c) == dma_channel_ready(dma_timers_tick, c)
  <1>3. waited' = [c \in Ch |-> IF c = x \/ ~ready(c) THEN 0
                                ELSE IF SamePriority(c, x) THEN OneMore(waited[c])
                                ELSE waited[c]]
    BY DEF AServe
  <1>4. \A n \in Nat : OneMore(n) \in Nat /\ OneMore(n) <= n + 1
    BY DEF OneMore
  <1>5. waited' \in [Ch -> Nat]
    BY <1>1, <1>3, <1>4
  <1>6. ASSUME NEW c \in Ch, ch[c].ctrl.high_priority
        PROVE  waited'[c] + Distance(rr_next', c) <= NUM_CH - 1
    <2>1. Distance(rr_next', c) \in 0 .. NUM_CH - 1 /\ Distance(rr_next, c) \in 0 .. NUM_CH - 1
      BY <1>1, DistanceRange
    <2>2. CASE c = x \/ ~ready(c)
      <3>1. waited'[c] = 0
        BY <1>3, <2>2
      <3> QED  BY <2>1, <3>1, DmaAssumption
    <2>3. CASE c # x /\ ready(c)
      <3>1. ch[c].ctrl.high_priority = TRUE
        BY <1>6 DEF ArbInv, Inv, TypeOK, Channel, Ctrl
      <3>2. c \in ReadyIn(dma_timers_tick, TRUE)
        BY <2>3, <3>1 DEF ReadyIn
      <3>3. Candidates(dma_timers_tick) = ReadyIn(dma_timers_tick, TRUE)
        BY <3>2 DEF Candidates
      <3>4. ch[x].ctrl.high_priority = TRUE /\ Distance(rr_next, x) <= Distance(rr_next, c)
        BY <1>2, <3>2, <3>3 DEF FirstInScan, ReadyIn
      <3>5. Distance(rr_next', c) + 1 <= Distance(rr_next, c)
        BY <1>1, <1>2, <2>3, <3>4, SeatCloser
      <3>6. waited'[c] = OneMore(waited[c])
        BY <1>3, <2>3, <3>1, <3>4 DEF SamePriority
      <3>7. waited[c] \in Nat /\ waited[c] + Distance(rr_next, c) <= NUM_CH - 1
        BY <1>1, <1>6 DEF ArbInv, SeatApproaches
      <3>8. waited'[c] \in Nat /\ waited'[c] <= waited[c] + 1
        BY <1>4, <3>6, <3>7
      <3> QED  BY <2>1, <3>5, <3>7, <3>8, DmaAssumption
    <2> QED  BY <2>2, <2>3
  <1>7. SeatApproaches'
    BY <1>1, <1>6 DEF SeatApproaches, SameCtrl
  <1> QED  BY <1>1, <1>5, <1>7 DEF ArbInv

(* The other steps leave the seat alone and charge nobody.                 *)
LEMMA OthersApproach ==
    ASSUME ArbInv,
           \/ AIdle \/ AConfigure \/ AControl
           \/ \E t \in Timers, q \in Fractions : AFraction(t, q)
    PROVE  ArbInv'
  <1>1. Inv /\ rr_next \in Ch /\ waited \in [Ch -> Nat] /\ ch \in [Ch -> Channel]
    BY DEF ArbInv, Inv, TypeOK
  <1>2. Inv' /\ rr_next' = rr_next
    <2>1. Next
      BY DEF AIdle, AConfigure, AControl, AFraction, Next, pio_dma_tick, Host
    <2>2. rr_next' = rr_next
      BY DEF AIdle, AConfigure, AControl, AFraction, NobodyReady, HostUnchanged,
             SmPull, pio_dma_timer_set_fraction,
             pio_dma_channel_configure, pio_dma_channel_set_enabled,
             pio_dma_start_channel_mask
    <2> QED  BY <1>1, <2>1, <2>2, InvNext
  <1>3. ASSUME waited' \in [Ch -> Nat],
               \A c \in Ch : \/ waited'[c] = 0
                             \/ waited'[c] = waited[c] /\ ch'[c].ctrl = ch[c].ctrl
        PROVE  ArbInv'
    <2>1. ASSUME NEW c \in Ch, ch'[c].ctrl.high_priority
          PROVE  waited'[c] + Distance(rr_next', c) <= NUM_CH - 1
      <3>1. Distance(rr_next, c) \in 0 .. NUM_CH - 1
        BY <1>1, DistanceRange
      <3>2. CASE waited'[c] = 0
        BY <1>2, <3>1, <3>2, DmaAssumption
      <3>3. CASE waited'[c] = waited[c] /\ ch'[c].ctrl = ch[c].ctrl
        BY <1>2, <2>1, <3>3 DEF ArbInv, SeatApproaches
      <3> QED  BY <1>3, <3>2, <3>3
    <2> QED  BY <1>2, <1>3, <2>1 DEF ArbInv, SeatApproaches
  <1>4. CASE AIdle
    BY <1>3, <1>4 DEF AIdle
  <1>5. CASE AConfigure
    <2>1. PICK c \in Ch, j \in Jobs, trigger \in BOOLEAN :
            /\ pio_dma_channel_configure(c, j, trigger)
            /\ waited' = [waited EXCEPT ![c] = 0]
      BY <1>5 DEF AConfigure
    <2> DEFINE chs == [ch EXCEPT ![c] = Configured(ch[c], j)]
               mask == IF trigger THEN {c} ELSE {}
    <2>2. ch' = StartMask(chs, mask)
      BY <2>1 DEF pio_dma_channel_configure
    <2>3. \A d \in Ch : d # c => chs[d] = ch[d]
      BY <1>1
    <2>4. \A d \in Ch : ch'[d].ctrl = chs[d].ctrl
      <3>1. \A d \in Ch : Started(chs, mask \union CalledBack(chs, Deferred(chs, mask)))[d].ctrl
                            = chs[d].ctrl
        <4> HIDE DEF chs, mask
        <4> SUFFICES ASSUME NEW d \in Ch, NEW S
                     PROVE  Started(chs, S)[d].ctrl = chs[d].ctrl
          OBVIOUS
        <4> QED  BY DEF Started
      <3> QED  BY <2>2, <3>1 DEF StartMask
    <2> HIDE DEF chs
    <2>5. \A d \in Ch : waited'[d] = 0 \/ (waited'[d] = waited[d] /\ ch'[d].ctrl = ch[d].ctrl)
      BY <1>1, <2>1, <2>3, <2>4
    <2>6. waited' \in [Ch -> Nat]
      BY <1>1, <2>1
    <2> QED  BY <1>3, <2>5, <2>6
  <1>6. CASE AControl
    <2>1. \A d \in Ch : ch'[d].ctrl = ch[d].ctrl
      <3>1. ASSUME NEW c \in Ch, NEW en \in BOOLEAN, pio_dma_channel_set_enabled(c, en)
            PROVE  \A d \in Ch : ch'[d].ctrl = ch[d].ctrl
        BY <1>1, <3>1 DEF pio_dma_channel_set_enabled, Channel
      <3>2. ASSUME NEW mask \in SUBSET Ch, pio_dma_start_channel_mask(mask)
            PROVE  \A d \in Ch : ch'[d].ctrl = ch[d].ctrl
        BY <1>1, <3>2, StartMaskKeeps
           DEF pio_dma_start_channel_mask, Inv, BusyHasWork, Working, SameCtrl
      <3> QED  BY <1>6, <3>1, <3>2 DEF AControl, SmPull
    <2> QED  BY <1>1, <1>3, <1>6, <2>1 DEF AControl
  <1>7. CASE \E t \in Timers, q \in Fractions : AFraction(t, q)
    <2>1. ch' = ch /\ waited' = waited
      BY <1>7 DEF AFraction, pio_dma_timer_set_fraction
    <2> QED  BY <1>1, <1>3, <2>1
  <1> QED  BY <1>4, <1>5, <1>6, <1>7

(* Every step of the arbiter preserves the invariant.                      *)
LEMMA ArbNext == ArbInv /\ [ANext]_avars => ArbInv'
  <1> SUFFICES ASSUME ArbInv, [ANext]_avars PROVE ArbInv'
    OBVIOUS
  <1>1. CASE UNCHANGED avars
    BY <1>1 DEF avars, vars, ArbInv, Inv, TypeOK, BusyHasWork, FifoSafe,
                SeatApproaches
  <1>2. CASE ANext
    BY <1>2, ServeApproaches, OthersApproach DEF ANext
  <1> QED  BY <1>1, <1>2

(* The seat is always as close to a high-priority channel as the turns it  *)
(* has waited require.                                                     *)
THEOREM ArbSeatApproaches == ASpec => []SeatApproaches
  <1>1. AInit => ArbInv  BY ArbInit
  <1>2. ArbInv /\ [ANext]_avars => ArbInv'  BY ArbNext
  <1>3. ArbInv => SeatApproaches  BY DEF ArbInv
  <1> QED  BY <1>1, <1>2, <1>3, PTL DEF ASpec

(* A ready high-priority channel is passed over at most NUM_CH - 1 times.  *)
THEOREM ArbHighRoundRobin == ASpec => []HighRoundRobin
  <1>1. ArbInv => HighRoundRobin
    <2> SUFFICES ASSUME ArbInv, NEW c \in Ch, ch[c].ctrl.high_priority
                 PROVE  waited[c] <= NUM_CH - 1
      BY DEF HighRoundRobin, RoundRobin
    <2>1. /\ waited[c] + Distance(rr_next, c) <= NUM_CH - 1
          /\ waited[c] \in Nat
          /\ Distance(rr_next, c) \in 0 .. NUM_CH - 1
      BY DistanceRange DEF ArbInv, SeatApproaches, Inv, TypeOK
    <2> QED  BY <2>1, DmaAssumption
  <1>2. AInit => ArbInv  BY ArbInit
  <1>3. ArbInv /\ [ANext]_avars => ArbInv'  BY ArbNext
  <1> QED  BY <1>1, <1>2, <1>3, PTL DEF ASpec
-----------------------------------------------------------------------------
(***************************************************************************)
(* The rate of the pacing timers.                                          *)
(***************************************************************************)

(* One timer q that has paced p transfers in e ticks of a window that owes *)
(* w to the time before it is within its budget.                           *)
Owed(credit) == IF credit THEN 1 ELSE 0
InBudget(p, q, e, w) ==
    /\ q.den # 0 => q.accum < q.den
    /\ (p + Owed(q.credit)) * q.den + q.accum <= e * q.num + w

PaceInv == /\ Inv
           /\ paced \in [Timers -> Nat] /\ elapsed \in [Timers -> Nat]
           /\ ahead \in [Timers -> Nat]
           /\ TimerBudget

(* The invariant says that every timer is within its budget.               *)
LEMMA BudgetEach ==
    TimerBudget <=> \A t \in Timers : InBudget(paced[t], timer[t], elapsed[t], ahead[t])
  BY DEF TimerBudget, InBudget, Pending, Owed

(* One more times.                                                         *)
LEMMA Distribute ==
    ASSUME NEW x \in Nat, NEW y \in Nat
    PROVE  x * y \in Nat /\ (x + 0) * y = x * y /\ (x + 1) * y = x * y + y
  OBVIOUS

(* A tick earns num and may turn den of it into a request; a request that  *)
(* was not used is not added to.                                           *)
LEMMA TickInBudget ==
    ASSUME NEW t \in Timers, TimersOK(timer), NEW p \in Nat, NEW e \in Nat,
           NEW w \in Nat, InBudget(p, timer[t], e, w)
    PROVE  InBudget(p, dma_timers_tick[t], e + 1, w)
  <1> DEFINE q == timer[t]
             r == dma_timers_tick[t]
             a == q.accum + q.num
             P == p * q.den
             E == e * q.num
  <1>1. /\ q \in Timer /\ q.num \in Nat /\ q.den \in Nat /\ q.accum \in Nat
        /\ q.credit \in BOOLEAN /\ q.num <= q.den /\ q.accum <= q.den
        /\ q.den # 0 => q.accum < q.den
    BY DEF TimersOK, Timer, InBudget
  <1>2. r = IF q.den = 0 THEN q
            ELSE IF a >= q.den THEN [q EXCEPT !.accum = a - q.den, !.credit = TRUE]
            ELSE [q EXCEPT !.accum = a]
    BY DEF dma_timers_tick
  <1>3. /\ P \in Nat /\ E \in Nat
        /\ (p + 0) * q.den = P /\ (p + 1) * q.den = P + q.den
        /\ (e + 1) * q.num = E + q.num
    <2> DEFINE d == q.den
               n == q.num
    <2>1. d \in Nat /\ n \in Nat
      BY <1>1
    <2> HIDE DEF d, n
    <2>2. /\ p * d \in Nat /\ (p + 0) * d = p * d /\ (p + 1) * d = p * d + d
          /\ e * n \in Nat /\ (e + 1) * n = e * n + n
      BY <2>1, Distribute
    <2> QED  BY <2>2 DEF d, n
  <1> DEFINE C == IF q.credit THEN q.den ELSE 0
  <1>8. C \in Nat /\ (p + Owed(q.credit)) * q.den = P + C
    <2>1. CASE q.credit  BY <1>1, <1>3, <2>1 DEF Owed
    <2>2. CASE ~q.credit  BY <1>1, <1>3, <2>2 DEF Owed
    <2> QED  BY <2>1, <2>2
  <1>4. P + C + q.accum <= E + w
    BY <1>8 DEF InBudget
  <1>9. P + C + a <= (E + q.num) + w
    <2> DEFINE x == q.accum
               n == q.num
    <2>1. x \in Nat /\ n \in Nat /\ P \in Nat /\ C \in Nat /\ E \in Nat
      BY <1>1, <1>3, <1>8
    <2>2. P + C + x <= E + w
      BY <1>4
    <2> HIDE DEF x, n, P, C, E
    <2>3. P + C + (x + n) <= (E + n) + w
      BY <2>1, <2>2
    <2> QED  BY <2>3 DEF x, n
  <1> HIDE DEF P, E, C, r, q
  <1>5. CASE q.den = 0
    <2>1. q.num = 0 /\ q.accum = 0 /\ r = q
      BY <1>1, <1>2, <1>5
    <2>3. (e + 1) * q.num = E
      BY <1>3, <2>1
    <2>2. (p + Owed(q.credit)) * q.den = 0
      BY <1>1, <1>5 DEF Owed
    <2>4. InBudget(p, r, e + 1, w)
      BY <1>3, <1>5, <2>1, <2>2, <2>3 DEF InBudget
    <2> QED  BY <2>4 DEF r
  <1>6. CASE q.den # 0 /\ a >= q.den
    <2>1. /\ r.credit = TRUE /\ r.den = q.den /\ r.num = q.num
          /\ r.accum = a - q.den
      BY <1>1, <1>2, <1>6 DEF Timer
    <2>2. P + q.den + (a - q.den) <= (E + q.num) + w
      <3> DEFINE d == q.den
                 n == q.num
      <3>1. d \in Nat /\ n \in Nat /\ q.accum \in Nat
        BY <1>1
      <3>4. a \in Nat /\ P \in Nat /\ C \in Nat /\ E \in Nat
        BY <3>1, <1>3, <1>8
      <3>2. P + C + a <= (E + n) + w
        BY <1>9
      <3> HIDE DEF d, n, a
      <3>3. P + d + (a - d) <= (E + n) + w
        BY <3>1, <3>2, <3>4
      <3> QED  BY <3>3 DEF d, n
    <2>4. a - q.den < q.den
      BY <1>1, <1>6
    <2>3. (p + Owed(r.credit)) * r.den = P + q.den
      BY <1>3, <2>1 DEF Owed
    <2> QED  BY <1>3, <2>1, <2>2, <2>3, <2>4 DEF InBudget, r
  <1>7. CASE q.den # 0 /\ ~(a >= q.den)
    <2>1. /\ r.credit = q.credit /\ r.den = q.den /\ r.num = q.num
          /\ r.accum = a
      BY <1>1, <1>2, <1>7 DEF Timer
    <2>4. a < q.den
      BY <1>1, <1>7
    <2>3. (p + Owed(r.credit)) * r.den = P + C
      BY <1>8, <2>1
    <2> QED  BY <1>3, <1>9, <2>1, <2>3, <2>4 DEF InBudget, r
  <1> QED  BY <1>5, <1>6, <1>7

(* A transfer spends the pending request.                                  *)
LEMMA UseInBudget ==
    ASSUME NEW q \in Timer, NEW p \in Nat, NEW e \in Nat, NEW w \in Nat,
           q.credit, InBudget(p, q, e, w)
    PROVE  InBudget(p + 1, [q EXCEPT !.credit = FALSE], e, w)
  <1> DEFINE r == [q EXCEPT !.credit = FALSE]
  <1>1. /\ r.num = q.num /\ r.den = q.den /\ r.accum = q.accum
        /\ r.credit = FALSE /\ q.credit = TRUE
    BY DEF Timer
  <1> HIDE DEF r
  <1>2. (p + 1) + 0 = p + 1
    OBVIOUS
  <1> QED  BY <1>1, <1>2 DEF InBudget, Owed, r

(* A window opened at any moment owes less than two periods.               *)
LEMMA WatchInBudget ==
    ASSUME NEW q \in Timer, NEW e \in Nat, NEW p \in Nat, NEW w \in Nat,
           InBudget(p, q, e, w), q.den # 0
    PROVE  InBudget(0, q, 0, 2 * q.den - 1)
  <1>1. /\ q.den \in Nat /\ q.num \in Nat /\ q.accum \in Nat /\ q.accum < q.den
        /\ q.credit \in BOOLEAN
    BY DEF Timer, InBudget
  <1>2. (0 + Owed(q.credit)) * q.den <= q.den /\ (0 + Owed(q.credit)) * q.den \in Nat
    BY <1>1 DEF Owed
  <1>3. 0 * q.num = 0
    BY <1>1
  <1> QED  BY <1>1, <1>2, <1>3 DEF InBudget

(* Fresh timers have paced nothing.                                        *)
LEMMA PaceInit == PInit => PaceInv
  <1> SUFFICES ASSUME PInit PROVE PaceInv
    OBVIOUS
  <1>1. Inv
    BY InvInit DEF PInit, AInit
  <1>2. TimerBudget
    BY DEF PInit, AInit, Init, pio_dma_init, TimerBudget, Pending
  <1> QED  BY <1>1, <1>2 DEF PInit, PaceInv

(* Every step keeps every timer within its budget.                         *)
LEMMA PaceNext == PaceInv /\ [PNext]_pvars => PaceInv'
  <1> SUFFICES ASSUME PaceInv, [PNext]_pvars PROVE PaceInv'
    OBVIOUS
  <1>1. /\ Inv /\ TimersOK(timer)
        /\ paced \in [Timers -> Nat] /\ elapsed \in [Timers -> Nat]
        /\ ahead \in [Timers -> Nat]
        /\ \A t \in Timers : InBudget(paced[t], timer[t], elapsed[t], ahead[t])
    BY BudgetEach DEF PaceInv, Inv, TypeOK, TimersOK
  <1>2. Inv'
    <2>1. [Next]_vars
      BY DEF PNext, PServe, PIdle, PSetFraction, PWatch, PControl, pvars, avars,
             AServe, AIdle, AConfigure, AControl, AFraction, Next,
             pio_dma_tick, Host
    <2> QED  BY <1>1, <2>1, InvNext
  <1>3. ASSUME paced' \in [Timers -> Nat], elapsed' \in [Timers -> Nat],
               ahead' \in [Timers -> Nat],
               \A t \in Timers : InBudget(paced'[t], timer'[t], elapsed'[t], ahead'[t])
        PROVE  PaceInv'
    <2>1. TimerBudget'
      BY <1>3 DEF TimerBudget, InBudget, Pending, Owed
    <2> QED  BY <1>2, <1>3, <2>1 DEF PaceInv
  <1> DEFINE tm == dma_timers_tick
  <1>4. ASSUME PTick
        PROVE  /\ elapsed' \in [Timers -> Nat] /\ ahead' = ahead
               /\ \A t \in Timers : InBudget(paced[t], tm[t], elapsed'[t], ahead[t])
    <2>1. elapsed' = [t \in Timers |-> elapsed[t] + 1] /\ ahead' = ahead
      BY <1>4 DEF PTick
    <2>2. \A t \in Timers : elapsed'[t] = elapsed[t] + 1 /\ elapsed[t] \in Nat
                            /\ paced[t] \in Nat /\ ahead[t] \in Nat
      BY <1>1, <2>1
    <2> QED  BY <1>1, <2>1, <2>2, TickInBudget
  <1>5. ASSUME NEW c \in Ch, PServe(c)
        PROVE  PaceInv'
    <2> DEFINE req == ch[c].ctrl.treq_sel
    <2>1. PTick /\ timer' = UseCredit(tm, req) /\ dma_treq_ready(tm, req)
      BY <1>5 DEF PServe, AServe, Serve, dma_transfer_one, FirstInScan, Candidates,
                  ReadyIn, dma_channel_ready
    <2>2. paced' = [t \in Timers |-> IF req = <<"TIMER", t>> THEN paced[t] + 1
                                     ELSE paced[t]]
      BY <1>5 DEF PServe
    <2>3. tm \in [Timers -> Timer]
      BY <1>1, TimersTickKeeps DEF TimersOK
    <2> HIDE DEF tm, req
    <2>4. ASSUME NEW t \in Timers
          PROVE  InBudget(paced'[t], timer'[t], elapsed'[t], ahead'[t])
      <3>1. /\ InBudget(paced[t], tm[t], elapsed'[t], ahead'[t]) /\ elapsed'[t] \in Nat
            /\ ahead'[t] \in Nat /\ paced[t] \in Nat /\ tm[t] \in Timer
        BY <1>1, <1>4, <2>1, <2>3
      <3>2. CASE req = <<"TIMER", t>>
        <4>1. tm[t].credit
          BY <2>1, <3>2 DEF dma_treq_ready
        <4>2. timer'[t] = [tm[t] EXCEPT !.credit = FALSE] /\ paced'[t] = paced[t] + 1
          BY <2>1, <2>2, <3>2 DEF UseCredit
        <4> QED  BY <3>1, <4>1, <4>2, UseInBudget
      <3>3. CASE req # <<"TIMER", t>>
        <4>1. timer'[t] = tm[t] /\ paced'[t] = paced[t]
          BY <2>1, <2>2, <3>3 DEF UseCredit
        <4> QED  BY <3>1, <4>1
      <3> QED  BY <3>2, <3>3
    <2>5. paced' \in [Timers -> Nat]
      BY <1>1, <2>2
    <2>6. ahead' \in [Timers -> Nat]
      BY <1>1, <1>4, <2>1
    <2> QED  BY <1>3, <1>4, <2>1, <2>4, <2>5, <2>6
  <1>6. CASE PIdle
    <2>1. PTick /\ timer' = tm /\ paced' = paced
      BY <1>6 DEF PIdle, AIdle, NobodyReady
    <2> QED  BY <1>1, <1>3, <1>4, <2>1
  <1>7. CASE PSetFraction
    <2>1. PICK t \in Timers, q \in Fractions : AFraction(t, q) /\ OpenWindow(t, 0)
      BY <1>7 DEF PSetFraction
    <2> DEFINE r == [num |-> q[1], den |-> q[2], accum |-> 0, credit |-> FALSE]
    <2>2. timer' = [timer EXCEPT ![t] = r]
      BY <2>1 DEF AFraction, pio_dma_timer_set_fraction
    <2>3. InBudget(0, r, 0, 0)
      BY DmaAssumption DEF InBudget, Owed
    <2> HIDE DEF r
    <2>4. /\ elapsed' = [elapsed EXCEPT ![t] = 0] /\ paced' = [paced EXCEPT ![t] = 0]
          /\ ahead' = [ahead EXCEPT ![t] = 0]
      BY <2>1 DEF OpenWindow
    <2>5. \A u \in Timers : InBudget(paced'[u], timer'[u], elapsed'[u], ahead'[u])
      BY <1>1, <2>2, <2>3, <2>4 DEF TimersOK
    <2>6. /\ paced' \in [Timers -> Nat] /\ elapsed' \in [Timers -> Nat]
          /\ ahead' \in [Timers -> Nat]
      BY <1>1, <2>4
    <2> QED  BY <1>3, <2>5, <2>6
  <1>10. CASE PWatch
    <2>1. PICK t \in Timers : /\ timer[t].den # 0
                              /\ OpenWindow(t, 2 * timer[t].den - 1)
                              /\ UNCHANGED avars
      BY <1>10 DEF PWatch
    <2> DEFINE w == 2 * timer[t].den - 1
    <2>2. timer' = timer
      BY <2>1 DEF avars, vars
    <2>3. timer[t] \in Timer /\ w \in Nat
      BY <1>1, <2>1 DEF TimersOK, Timer
    <2>4. InBudget(0, timer[t], 0, w)
      BY <1>1, <2>1, <2>3, WatchInBudget
    <2>5. /\ elapsed' = [elapsed EXCEPT ![t] = 0] /\ paced' = [paced EXCEPT ![t] = 0]
          /\ ahead' = [ahead EXCEPT ![t] = w]
      BY <2>1 DEF OpenWindow
    <2> HIDE DEF w
    <2>6. \A u \in Timers : InBudget(paced'[u], timer'[u], elapsed'[u], ahead'[u])
      BY <1>1, <2>2, <2>4, <2>5
    <2>7. /\ paced' \in [Timers -> Nat] /\ elapsed' \in [Timers -> Nat]
          /\ ahead' \in [Timers -> Nat]
      BY <1>1, <2>3, <2>5
    <2> QED  BY <1>3, <2>6, <2>7
  <1>8. CASE PControl
    <2>1. timer' = timer /\ paced' = paced /\ elapsed' = elapsed /\ ahead' = ahead
      BY <1>8 DEF PControl, AConfigure, AControl, SmPull,
                  pio_dma_channel_configure, pio_dma_start_channel_mask,
                  pio_dma_channel_set_enabled
    <2> QED  BY <1>1, <1>3, <2>1
  <1>9. CASE UNCHANGED pvars
    <2>1. timer' = timer /\ paced' = paced /\ elapsed' = elapsed /\ ahead' = ahead
      BY <1>9 DEF pvars, avars, vars
    <2> QED  BY <1>1, <1>3, <2>1
  <1> QED  BY <1>5, <1>6, <1>7, <1>8, <1>9, <1>10 DEF PNext

(* The budget, with the pending request and the phase, always holds.       *)
THEOREM PaceTimerBudget == PSpec => []TimerBudget
  <1>1. PInit => PaceInv  BY PaceInit
  <1>2. PaceInv /\ [PNext]_pvars => PaceInv'  BY PaceNext
  <1>3. PaceInv => TimerBudget  BY DEF PaceInv
  <1> QED  BY <1>1, <1>2, <1>3, PTL DEF PSpec

(* Over no window of ticks does a timer pace faster than its fraction of   *)
(* the system clock, the first phase and one pending request apart.        *)
THEOREM PaceTimerRate == PSpec => []TimerRate
  <1>1. PaceInv => TimerRate
    <2> SUFFICES ASSUME PaceInv, NEW t \in Timers
                 PROVE  paced[t] * timer[t].den <= elapsed[t] * timer[t].num + ahead[t]
      BY DEF TimerRate
    <2> DEFINE p == paced[t]
               d == timer[t].den
               a == timer[t].accum
               E == elapsed[t] * timer[t].num + ahead[t]
               b == Pending(t)
    <2>1. /\ p \in Nat /\ d \in Nat /\ a \in Nat /\ E \in Nat /\ b \in {0, 1}
          /\ (p + b) * d + a <= E
      <3>1. /\ timer[t] \in Timer /\ p \in Nat
            /\ elapsed[t] \in Nat /\ ahead[t] \in Nat
        BY DEF PaceInv, Inv, TypeOK
      <3>2. d \in Nat /\ a \in Nat /\ E \in Nat
        BY <3>1 DEF Timer
      <3>3. b \in {0, 1}
        BY DEF Pending
      <3>4. (p + b) * d + a <= E
        BY DEF PaceInv, TimerBudget
      <3> QED  BY <3>1, <3>2, <3>3, <3>4
    <2> HIDE DEF p, d, a, E, b
    <2> DEFINE X == p * d
    <2>2. X \in Nat /\ (p + 0) * d = X /\ (p + 1) * d = X + d
      BY <2>1
    <2> HIDE DEF X
    <2>3. X <= E
      BY <2>1, <2>2
    <2> QED  BY <2>3 DEF X, p, d, E
  <1>2. PInit => PaceInv  BY PaceInit
  <1>3. PaceInv /\ [PNext]_pvars => PaceInv'  BY PaceNext
  <1> QED  BY <1>1, <1>2, <1>3, PTL DEF PSpec

(* Counting ticks and paced transfers takes nothing away from the arbiter: *)
(* every behaviour of the timed model is one of PioDmaArb, so the fairness *)
(* proved there holds here.                                                *)
THEOREM PaceImplementsArb == PSpec => ASpec /\ []HighRoundRobin
  <1>1. PInit => AInit  BY DEF PInit
  <1>2. [PNext]_pvars => [ANext]_avars
    BY DEF PNext, PServe, PIdle, PSetFraction, PWatch, PControl, pvars, ANext
  <1>3. ASpec => []HighRoundRobin  BY ArbHighRoundRobin
  <1> QED  BY <1>1, <1>2, <1>3, PTL DEF PSpec, ASpec
=============================================================================
