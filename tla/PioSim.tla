------------------------------- MODULE PioSim -------------------------------
(***************************************************************************)
(* The simulator as its caller sees it: blocks of state machines stepped   *)
(* by pio_sim_tick / pio_sim_group_tick, and the host API called between   *)
(* ticks or from a block's on_tick device callback.                        *)
(*                                                                         *)
(* A tick visits the blocks in order.  `turn' is the block whose callback  *)
(* is running, or Idle between ticks; host calls happen in either place,   *)
(* the engine's own steps only move on to the next block.                  *)
(***************************************************************************)
EXTENDS PioSm, FiniteSets

CONSTANTS
    Setups,         \* what the host may start from: [prog, conf, on, host]
    Configs,        \* configurations the host applies
    HostWords,      \* words the host writes
    ExecInsns       \* instructions the host injects

ASSUME SimAssumption ==
    /\ \A su \in Setups : /\ su.prog \in [Blocks -> [PCs -> Insns]]
                          /\ su.conf \in [Blocks -> [SMs -> Confs]]
    /\ Configs \subseteq Confs /\ HostWords \subseteq Words
    /\ ExecInsns \subseteq Insns
    /\ \A w \in Words : DecodeWord(w) \in Insns

VARIABLES
    cfg, sm, reg, irq, pads,    \* the machine (see PioSm)
    insn,                       \* instruction memory of each block
    turn,                       \* Idle, or the block in its callback
    host                        \* what this host does: [story, calls, sms],
                                \* its API calls and the state machines
                                \* <<b, s>> it makes them on; never changes

vars == <<cfg, sm, reg, irq, pads, insn, turn, host>>

Idle == NUM_PIO

Machine == [cfg |-> cfg, sm |-> sm, reg |-> reg, irq |-> irq, pads |-> pads]

Become(m) == /\ cfg' = m.cfg /\ sm' = m.sm /\ reg' = m.reg
             /\ irq' = m.irq /\ pads' = m.pads

(***************************************************************************)
(* Initialisation: pio_sim_init on every block, pio_sim_group_init(_shared)*)
(* where blocks are grouped, pio_sim_load, pio_sim_sm_init with one        *)
(* configuration per state machine, and pio_sim_sm_set_enabled on the      *)
(* state machines <<b, s>> of su.on.                                       *)
(***************************************************************************)
Configured(c) ==
    [ResetSm EXCEPT !.tx.cap = TxCap(c.fifo_join), !.rx.cap = RxCap(c.fifo_join),
                    !.pc = c.wrap_bottom]

Init ==
    \E su \in Setups :
      /\ insn = su.prog
      /\ cfg = su.conf
      /\ sm = [b \in Blocks |-> [s \in SMs |->
                 [Configured(su.conf[b][s]) EXCEPT !.enabled = <<b, s>> \in su.on]]]
      /\ reg = [b \in Blocks |-> [s \in SMs |-> NoPinRegs]]
      /\ irq = [b \in Blocks |-> {}]
      /\ pads = [pd \in PadSets |-> pio_pads_init_defaults(OwnersOf(pd))]
      /\ turn = Idle
      /\ host = su.host

(***************************************************************************)
(* Stepping.                                                               *)
(***************************************************************************)

(* A block clocks the pads it owns alone after its callback; the group     *)
(* clocks shared pads once, after the last block.                          *)
ClockOwn(m, b) ==
    IF SHARED THEN m ELSE [m EXCEPT !.pads[b] = ClockPads(@)]

ClockShared(m) ==
    IF SHARED THEN [m EXCEPT !.pads[0] = ClockPads(@)] ELSE m

StartTick ==
    /\ turn = Idle
    /\ Become(TickBlock(OpenWriteWindow(Machine, Blocks), insn, 0))
    /\ turn' = 0
    /\ UNCHANGED <<insn, host>>

NextBlock ==
    /\ turn + 1 < NUM_PIO
    /\ Become(TickBlock(ClockOwn(Machine, turn), insn, turn + 1))
    /\ turn' = turn + 1
    /\ UNCHANGED <<insn, host>>

EndTick ==
    /\ turn + 1 = NUM_PIO
    /\ Become(ClockShared(ClockOwn(Machine, turn)))
    /\ turn' = Idle
    /\ UNCHANGED <<insn, host>>

Step == StartTick \/ NextBlock \/ EndTick

(***************************************************************************)
(* Host calls.                                                             *)
(***************************************************************************)
HostCall(op, m) == /\ op \in host.calls
                   /\ Become(m)
                   /\ UNCHANGED <<insn, turn, host>>

PutWord(r, w) ==
    IF fifo_full(r.tx) THEN [r EXCEPT !.fdebug = @ \union {"TXOVER"}]
                       ELSE [r EXCEPT !.tx = fifo_push(@, w)]

GetWord(r) ==
    IF fifo_empty(r.rx) THEN [r EXCEPT !.fdebug = @ \union {"RXUNDER"}]
                        ELSE [r EXCEPT !.rx = fifo_pop(@)]

pio_sim_sm_put(b, s, w) ==
    HostCall("put", SetSm(Machine, b, s, PutWord(sm[b][s], w)))

pio_sim_sm_get(b, s) ==
    HostCall("get", SetSm(Machine, b, s, GetWord(sm[b][s])))

pio_sim_sm_clear_fifos(b, s) ==
    HostCall("clear_fifos", SetSm(Machine, b, s,
        [sm[b][s] EXCEPT !.tx = fifo_clear(@), !.rx = fifo_clear(@)]))

pio_sim_sm_clear_fdebug(b, s, flags) ==
    HostCall("clear_fdebug", SetSm(Machine, b, s,
        [sm[b][s] EXCEPT !.fdebug = @ \ flags]))

pio_sim_sm_rxfifo_put(b, s, idx, w) ==
    HostCall("rxfifo_put", SetSm(Machine, b, s,
        [sm[b][s] EXCEPT !.rx.buf[idx] = w]))

(* Faulty variant: the pads are not re-resolved.                           *)
EnableMask_unresolved(m, b, mask, on) ==
    [m EXCEPT !.sm[b] = [s \in SMs |->
        IF s \in mask THEN [m.sm[b][s] EXCEPT !.enabled = on]
                      ELSE m.sm[b][s]]]

(* Enabling re-resolves the pads: direction claims follow the enable.      *)
EnableMask(m, b, mask, on) ==
    ResolvePads([m EXCEPT !.sm[b] = [s \in SMs |->
        IF s \in mask THEN [m.sm[b][s] EXCEPT !.enabled = on]
                      ELSE m.sm[b][s]]], b)

pio_sim_set_sm_mask_enabled(b, mask, on) ==
    HostCall("enable", EnableMask(Machine, b, mask, on))

pio_sim_clkdiv_restart_sm_mask(m, b, mask) ==
    [m EXCEPT !.sm[b] = [s \in SMs |->
        IF s \in mask THEN [m.sm[b][s] EXCEPT !.clk_accum = 0]
                      ELSE m.sm[b][s]]]

pio_sim_enable_sm_mask_in_sync(b, mask) ==
    HostCall("enable_in_sync",
        pio_sim_clkdiv_restart_sm_mask(EnableMask(Machine, b, mask, TRUE), b, mask))

pio_sim_sm_restart(b, s) ==
    HostCall("restart", SetSm(Machine, b, s,
        sm_reset_exec(sm[b][s], cfg[b][s].wrap_bottom)))

pio_sim_sm_set_pc(b, s, pc) ==
    HostCall("set_pc", SetSm(Machine, b, s, [sm[b][s] EXCEPT !.pc = pc]))

pio_sim_sm_exec(b, s, i) == HostCall("exec", sm_exec(Machine, b, s, i))

pio_sim_sm_set_status_value(b, s, w) ==
    HostCall("status", SetSm(Machine, b, s, [sm[b][s] EXCEPT !.status = <<w>>]))

pio_sim_sm_clear_status_value(b, s) ==
    HostCall("status", SetSm(Machine, b, s, [sm[b][s] EXCEPT !.status = <<>>]))

(* A new configuration reshapes the FIFOs, clears them if the join mode    *)
(* changes, and drops a pinned STATUS; execution state is left alone.      *)
ApplyConfig(m, b, s, c) ==
    LET r == m.sm[b][s]
        old == m.cfg[b][s].fifo_join
    IN  [m EXCEPT !.cfg[b][s] = c,
                  !.sm[b][s] = [r EXCEPT
                     !.tx = Rejoin(@, old, c.fifo_join, TxCap(c.fifo_join)),
                     !.rx = Rejoin(@, old, c.fifo_join, RxCap(c.fifo_join)),
                     !.status = <<>>]]

pio_sim_sm_set_config(b, s, c) ==
    HostCall("set_config", ApplyConfig(Machine, b, s, c))

(* pio_sim_sm_init also resets and stops the state machine; it does not    *)
(* re-resolve the pads.                                                    *)
pio_sim_sm_init(b, s, pc, c) ==
    LET m == ApplyConfig(Machine, b, s, c)
    IN  HostCall("init", SetSm(m, b, s,
          [sm_reset_exec(m.sm[b][s], pc) EXCEPT !.enabled = FALSE]))

pio_sim_sm_set_consecutive_pindirs(b, s, base, count, is_out) ==
    HostCall("pindirs", drive_pindirs(Machine, b, s, base, count,
                                      IF is_out THEN ONES ELSE ZERO))

pio_sim_irq_force(b, n, on) ==
    HostCall("irq_force", [Machine EXCEPT !.irq[b] =
                              IF on THEN @ \union {n} ELSE @ \ {n}])

SetPin(b, n, level) ==
    HostCall("set_pin", [Machine EXCEPT !.pads[PadOf(b)] =
                            pio_sim_set_pin(@, n, level)])

ReleasePin(b, n) ==
    HostCall("set_pin", [Machine EXCEPT !.pads[PadOf(b)] =
                            pio_sim_release_pin(@, n)])

Served(b) == {s \in SMs : <<b, s>> \in host.sms}

Host ==
    \E b \in {k \in Blocks : Served(k) # {}} :
      \/ \E s \in Served(b) :
           \/ \E w \in HostWords : pio_sim_sm_put(b, s, w)
           \/ pio_sim_sm_get(b, s)
           \/ pio_sim_sm_clear_fifos(b, s)
           \/ \E f \in {"TXSTALL", "RXSTALL"} : pio_sim_sm_clear_fdebug(b, s, {f})
           \/ \E k \in RegIdx, w \in HostWords : pio_sim_sm_rxfifo_put(b, s, k, w)
           \/ pio_sim_sm_restart(b, s)
           \/ \E pc \in PCs : pio_sim_sm_set_pc(b, s, pc)
           \/ \E i \in ExecInsns : pio_sim_sm_exec(b, s, i)
           \/ \E w \in HostWords : pio_sim_sm_set_status_value(b, s, w)
           \/ pio_sim_sm_clear_status_value(b, s)
           \/ \E c \in Configs : pio_sim_sm_set_config(b, s, c)
           \/ \E c \in Configs : pio_sim_sm_init(b, s, c.wrap_bottom, c)
           \/ \E base \in Pins, out \in BOOLEAN :
                pio_sim_sm_set_consecutive_pindirs(b, s, base, 1, out)
      \/ \E mask \in SUBSET Served(b), on \in BOOLEAN :
           pio_sim_set_sm_mask_enabled(b, mask, on)
      \/ \E mask \in SUBSET Served(b) : pio_sim_enable_sm_mask_in_sync(b, mask)
      \/ \E n \in Irqs, on \in BOOLEAN : pio_sim_irq_force(b, n, on)
      \/ \E n \in Pins, level \in BOOLEAN : SetPin(b, n, level)
      \/ \E n \in Pins : ReleasePin(b, n)

Next == Step \/ Host

Spec == Init /\ [][Next]_vars

(* The tick loop runs on: Step is always enabled and each of its steps,    *)
(* and no other, moves turn, so this is weak fairness of Step.             *)
TicksForever == []<>(turn = Idle) /\ []<>(turn # Idle)

(***************************************************************************)
(* Type correctness of the engine: registers, cursors, shift counts and    *)
(* PC stay in range whatever the program does and the host calls.          *)
(***************************************************************************)
KnownInsns ==
    {NoInsn} \union ExecInsns \union {DecodeWord(w) : w \in Words}
      \union UNION {{insn[b][a] : a \in PCs} : b \in Blocks}

SmOK(r, c) ==
    /\ r.enabled \in BOOLEAN /\ r.stalled \in BOOLEAN
    /\ r.pc \in PCs
    /\ {r.x, r.y, r.osr, r.isr} \subseteq Words
    /\ r.osr_count \in 0 .. WORD_BITS /\ r.isr_count \in 0 .. WORD_BITS
    /\ r.delay \in Nat /\ r.clk_accum \in Nat
    /\ r.exec_pending \in BOOLEAN /\ r.exec_insn \in KnownInsns
    /\ r.fdebug \subseteq FdebugFlags
    /\ r.tx \in Fifo(Words) /\ r.rx \in Fifo(Words)
    /\ r.status \in Seq(Words)
    /\ r.tx.cap = TxCap(c.fifo_join) /\ r.rx.cap = RxCap(c.fifo_join)

TypeOK ==
    /\ \A b \in Blocks, s \in SMs : SmOK(sm[b][s], cfg[b][s])
    /\ reg \in [Blocks -> [SMs -> PinRegs]]
    /\ irq \in [Blocks -> SUBSET Irqs]
    /\ pads \in [PadSets -> Pads]
    /\ turn \in 0 .. Idle

(***************************************************************************)
(* Properties.                                                             *)
(***************************************************************************)

(* Whatever the program shifts, pushes and moves by index and the host     *)
(* puts, gets, clears and rejoins, both rings of every state machine stay  *)
(* consistent, and a RX storage in use as a register file never queues a   *)
(* word: PUSH and autopush are held off from it, and entering the mode     *)
(* empties it.                                                             *)
RingOK(f) == f.count <= f.cap /\ f.head = (f.tail + f.count) % FIFO_MAX

FifosConsistent ==
    \A b \in Blocks, s \in SMs :
      /\ RingOK(sm[b][s].tx) /\ RingOK(sm[b][s].rx)
      /\ rx_fifo_is_register_file(cfg[b][s].fifo_join) => sm[b][s].rx.count = 0

(* Every register of every state machine stays within its width and every  *)
(* FIFO within its capacity, and the rings agree with their counts, in     *)
(* whatever order programs and host reach them.                            *)
Consistent == TypeOK /\ FifosConsistent

(* The resolved pin directions are never stale: in every state they are    *)
(* what pio_pads_resolve would compute from the current pin registers and  *)
(* enables, so no call that changes a claim may forget to re-resolve.      *)
PadDirsFresh ==
    \A pd \in PadSets :
      pads[pd].pin_dirs = ResolvedDirs(pads[pd], reg, EnabledSMs(Machine))

(* A pin nobody writes holds its latched level: the level of a pin moves   *)
(* only in a step after which some owner has it in its write window with   *)
(* that very value.  Parking or releasing a state machine, opening a new   *)
(* window or a stalled instruction without side-set never moves a level.   *)
LevelsHold ==
    [][\A b \in Blocks, n \in Pins :
         ((n \in pads[PadOf(b)].pin_levels) # (n \in pads'[PadOf(b)].pin_levels))
           => \E o \in Blocks, s \in SMs :
                /\ PadOf(o) = PadOf(b) /\ n \in reg'[o][s].wrote
                /\ (n \in reg'[o][s].val) = (n \in pads'[PadOf(b)].pin_levels)]_vars

(* A running state machine with OUT_STICKY whose clock is not divided, and *)
(* which the host leaves alone, keeps the level of every pin it drives     *)
(* unless a higher-numbered one, of its own block or of a later block on   *)
(* the same pads, writes the pin in the same tick: a lower one never gets  *)
(* it, by its program or by an injected write (pio_pads_resolve:           *)
(* re-asserting every cycle "is what gives it continuous priority").       *)
StickyPriority ==
    \A b \in Blocks, s \in SMs :
      (/\ turn = b /\ sm[b][s].enabled
       /\ cfg[b][s].out_sticky /\ cfg[b][s].div = DIV_ONE
       /\ <<b, s>> \notin host.sms) =>
        \A n \in reg[b][s].oe \intersect reg[b][s].dir :
          \/ (n \in pads[PadOf(b)].pin_levels) = (n \in reg[b][s].val)
          \/ \E o \in Blocks, t \in SMs :
               /\ PadOf(o) = PadOf(b) /\ n \in reg[o][t].wrote
               /\ o > b \/ (o = b /\ t > s)
============================================================================
