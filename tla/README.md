# A TLA+ model of pio-simulator

This directory models the library under `src/lib`: a cycle-level simulator of
the PIO blocks of the RP2040/RP2350, with its pads and function mux, its DMA
controller, the chip that joins them, the clock tree, the assembler and the host
API a test bench uses. TLC checks small instances of
every module; TLAPS proves the theorems of the `*_proofs` modules for every
value of the constants. `PROJECT.json` lists components, runs, mapped source
lines, hazards, findings and theorems.

Everything is translated from the code under `src/lib`. Names are kept where
TLA+ allows it, so `pio_sim_sm_put`, `exec_pull` or `dma_transfer_one` can be
searched for on both sides.

## 1. Inventory

The library is single-threaded. What makes it hard is what it simulates: state
machines with clocks of their own that share FIFOs, IRQ flags, pins and a bus,
while a host calls the API between ticks and, from a device callback, within
them.

| component | state it keeps | operations | interacts with |
|---|---|---|---|
| FIFO pair (`pio_sim.c`) | two rings of 8 slots, head, tail, count, capacity, join mode, sticky FDEBUG flags | put, get, clear, rejoin, debug window, pull, push, `mov rxfifo[]` | host on one end, instructions on the other, DMA as a second host |
| clock divider | 16.8 divisor, accumulator | tick, restart by mask, change of divisor | decides which state machines run in a tick |
| state machine | PC, X, Y, OSR, ISR and shift counts, delay, stall latch, pending injected word, pin registers, STATUS override | ten instructions, side-set, autopush/autopull, wrap, restart, `sm_exec` | FIFOs, IRQ flags of its own and linked blocks, pads |
| pads | resolved levels and directions, pulls, keeper, isolation latch, two-stage synchroniser, external drive | resolve, clock, set/release pin, settle | written by all owners, sampled by all |
| function mux and pad registers (`pio_gpio.c`) | FUNCSEL with routing masks, three overrides, peripheral drive, IE/OD/ISO/pulls | setters, hardware reset | between the blocks' drive and the wire |
| block, group and tick loop | instruction memory, IRQ flags, neighbours, owner list | `pio_sim_tick`, `pio_sim_group_tick`, device callback, run-until helpers | visits state machines, then blocks, in a fixed order |
| DMA (`pio_dma.c`) | channels, pacing timers, interrupt flags, round-robin seat, sniffer | configure, trigger, abort, enable, callback, tick | FIFO levels as requests; put/get as transfers |
| interrupt lines | INTE/INTF masks over FIFO levels, IRQ flags and DMA completion | setters, combinational views | hosts that act on a line instead of polling |
| chip (`pio_chip.c`) | a shared group and a DMA controller | `pio_chip_tick`: group, then DMA | FIFO levels of the tick just run are the requests of the bus cycle |
| clock tree (`pio_clk.c`) | PLL and divisor settings | PLL set-up, validation, conversions between hertz, ticks and time | gives ticks a duration, changes nothing else |
| assembler (`pio_asm.c`) | parse state, label, define and export tables, program | three passes over the source: symbols, directives, words | its words are what the engine executes |
| loader (`pio_asm.c`) | none of its own | load with relocation, load at `.origin`, configuration overlay | writes instruction memory, PC and configuration of a block |

What has to be right, by component:

* FIFO pair: whatever either end does, and across rejoins, the rings are two
  bounded queues; a register file is never mistaken for received data.
* Divider: no fraction of a clock is lost; dividers restarted together stay in
  phase.
* State machine: a retried, delayed, prefetched or injected instruction has its
  effect once; restart leaves nothing behind; stalls end.
* IRQ flags: each `irq wait` is served once; a flag sent to a linked block is
  neither lost nor doubled although blocks tick one after the other.
* Pads: cached drive and direction agree with the registers they come from; an
  unwritten pin holds; isolation freezes; inputs lag by two ticks.
* DMA: no FIFO is overrun however channels are paced; counts do not wrap; no
  completion is lost; ready channels are served; timers keep their rate. Every
  byte arrives where it belongs; the checksum covers the bytes moved and no
  others.
* Chip: back pressure from the last FIFO to the first channel never locks up;
  handlers driven by interrupt lines miss nothing.
* Clock tree: an illegal setting changes nothing; roundings go the documented
  way and no intermediate product overflows.
* Assembler: the three passes agree on what line is what slot; a word means what
  its line says; defines mean their text wherever they stand; what is refused is
  refused for a reason, and reported at its line.
* Loader: a relocated program jumps and wraps inside its own window; the overlay
  touches the fields that directives name and no other field.

## 2. Modules

| module | models | state and actions |
|---|---|---|
| `PioFifo` | `fifo_push/pop/clear`, `apply_fifo_join` | operators on a ring record |
| `FifoQueues` | the promise of the FIFO pair | two sequences, bounded by the join mode |
| `PioFifoPair` | the FIFO pair under both its ends | implements `FifoQueues` (`ImplementsQueues`) |
| `PioClkdiv`, `PioClkdivBank` | divider arithmetic of `pio_sim_tick`; a bank of dividers with restart and change | counts ticks and pulses as history |
| `PioWord` | 32-bit register arithmetic at width `WORD_BITS` | a word is a sequence of bits |
| `PioPads` | `pio_pads_t`, `pio_pads_resolve`, `pio_gpio.c` | operators on one record; a mask is a set of pins |
| `PioPadBank` | pads under arbitrary writers and every register | one action per register; `user` says who acts |
| `PioSm` | `exec_*`, `exec_one`, `sm_cycle`, `pio_sim_tick` | operators from machine to machine |
| `PioInsns` | the encoders | an instruction is a record of its fields |
| `PioSim` | blocks, groups and host API | composes `PioSm`, `PioFifo`, `PioPads`, `PioClkdiv`; one action per API call |
| `PioStream` | a program as a data path | `PioSim` with what was sent and received; run by `PioChip` |
| `PioRendezvous`, `PioTokenRing`, `PioLockstep`, composed in `PioPrograms` | programs that depend on each other | `PioSim` with one history variable or two each |
| `PioDma` | the DMA controller | FIFO ends abstracted to levels; `Serve`/`NobodyReady` are one bus cycle |
| `PioDmaArb`, `PioDmaPace` | fairness of the arbiter; rate of the timers | `PioDma` with counters, those of the rate over windows opened at any moment; `PioDmaPace` refines `PioDmaArb` |
| `PioDmaData` | the data path of a transfer: element sizes, byte order and swap; the sniffer's six calculations | operators on words and bytes |
| `PioClk` | `pio_clk.c` | operators on a tree of settings, modulo `2^CLK_BITS` |
| `PioChip` | `pio_chip.c`, the interrupt lines, the data of the DMA | composes `PioStream`, `PioDmaData`, `PioClk` and an instance of `PioDma` whose levels are the FIFOs of the blocks |
| `PioChipRef` | what the chip promises | blocks of bytes, polynomial division, exact roundings |
| `PioEncode` | the 16-bit encoders and their inverse | numbers and records of fields |
| `PioAsmExpr` | expression evaluator and define resolution | recursive operators over tokens |
| `PioAsmInsn` | one encoder per instruction, delay and side-set | operators from a line to a word or an error |
| `PioAsm` | `pio_asm_assemble` | one action per line of a pass; `pass` and `at` are where the assembler reads |
| `PioAsmLoad` | loader, `.origin`, configuration overlay | one action per call, on two state machines; a configuration is a function from the fields of `pio_sm_config` |
| `PioAsmRef` | what a source means | no passes, tables or parser state: scopes as sets of lines, defines by substitution, expressions on a precedence stack |
| `MC*` | instances | programs, jobs, setups |
| `*_proofs` | theorems | see section 5 |

How state corresponds to the code:

* Pin masks (`uint64_t`) are sets of pins. The three masks of an override name
  one mode per pin, so an override is a function from pins to modes.
* An instruction word is a record of its decoded fields. `OUT EXEC` and `MOV
  EXEC` turn a register into an instruction with the constant `DecodeWord`.
* A tick of `PioSim` is `StartTick`, one `NextBlock` per further block and
  `EndTick`. They are the code between two device callbacks (`on_tick`), which
  is where host calls may happen; host calls are also possible between ticks.
  Inside one block the state machines run in order within one step, as in the
  code.
* `host` (in `PioSim`) and `user` (in `PioPadBank`) are chosen initially and
  never change: they say which calls a host of this behaviour makes. They only
  partition the state space of one run.
* `PioDma` keeps levels instead of FIFO contents and leaves the data out; that is
  what the proofs are about. `PioChip` instantiates it with the counts of the real
  FIFOs, takes the whole control of a transfer from it and adds the data.
* A word has four bytes of `BYTE_BITS` bits (8 in the code), so every element
  size, byte swap and CRC width exists at small widths.
* In `PioChip` the host's `story` picks a plan: the jobs, memory, sniffer and
  lines it sets up before the first tick. A host without a plan ticks its block
  alone. Between the group and the DMA of one chip tick (`bus`) nothing else
  happens but device callbacks, as in `pio_chip_tick`.
* The assembler emits real 16-bit words, which `PioEncode` decodes again for the
  properties. A source line is a record with a kind; directives the code ignores
  (`.lang_opt` and the like) have no kind. An error is its tag, the name it
  mentions and its line. The build is the RP2350's.

Some modules contain definitions marked "Faulty variant": the definition next
to them with a plausible mistake. No specification uses them. Substituting one
for the correct definition makes the property `PROJECT.json` pairs it with
fail, which shows that the property depends on that piece of code.

## 3. Runs

| run | checks | instance |
|---|---|---|
| `parts` | `FifosConsistent`, `ImplementsQueues`; `RateExact`, `OnTime`, `InPhase` | a FIFO pair of depth 2 of 3 slots and two words; two dividers of 1, 3/2, 2, 7/2 over 8 ticks |
| `sim` | `Consistent`, `PadDirsFresh`, `StickyPriority`, `LevelsHold` | two blocks of two state machines on one shared pin, one-bit words; ten setups |
| `chip` | `EchoFidelity`, `DrainedMeansConsumed`, `Delivered`; `MemoryExact`, `SniffFollows`, `BlockArrives`, `StreamsOn`; `ClockExact`, `PllAllOrNothing` | one state machine, four-bit words, depth 1 of 2, three words; echo programs alone, DMA copies under every checksum, interrupt-driven hosts, a chained pair of channels, the clock tree |
| `programs` | `Paired`, `OneToken`, `Lockstep`, `KeepMeeting`, `EveryBlockServed` | three linked blocks of two state machines; 17 setups |
| `pads` | `PadsConsistent`, `SyncLag`, `IsoFreezes`, `KeeperHolds` | two blocks, one pin, three users |
| `dma` | `BusyHasWork`, `FifoSafe`, `Handover`, `CursorsConfined` | two channels, one FIFO pair of depth 1, one timer |
| `dma_share` | `HighRoundRobin`, `TimerRate` | two channels of either priority, one timer of 1/2, windows of 4 ticks opened at any moment |
| `asm` | `WithinTables`, `PassesAgree`, `EmittedMeans`, `DefinesMeanTheirText`, `RefusedForCause`, `StaysHome`, `DirectivesOnly` | every source the offered lines make up, loaded at every offset, two state machines |
| `sim_init_stale` | `PadDirsFresh`, violated | as `sim`, the host calls `pio_sim_sm_init` |
| `programs_exec` | `Paired`, violated | as `programs`, the host injects into a parked caller |
| `asm_status` | `StatusKept`, violated | a program without directives, applied |
| `dma_arb_normal` | `NormalRoundRobin`, violated | three channels |

The type invariants of the FIFO pair, the dividers and the DMA, and the
strengthenings `SeatApproaches` and `TimerBudget`, are proved for all constants
(section 5) and not repeated as runs. `Consistent` and `PadsConsistent` contain
the type invariants of `PioSim` and `PioPadBank`.

Why the bounds are enough to be interesting:

* FIFOs. Depth 2 in storage 3 makes the cursors wrap out of step with every
  capacity (0, 2 and 3), as 4 and 8 in storage 8 do after a rejoin. The theorems cover
  all depths.
* Words. One bit suffices where the properties only tell whether a count or a
  cursor is right. The echo programs use four bits shifted in two halves, so a
  word can be half shifted when the host interferes and the direction of the
  shift matters; the four bits are also the four bytes of a DMA word.
* `MCPioParts` puts the FIFO pair and the dividers, which share no state, in one
  run; a behaviour exercises one of the two.
* Dividers. Divisors in halves (`DIV_ONE = 2`) have the fractional cases; 8
  ticks see two periods of 7/2.
* Programs. Three words in flight fill TX, OSR, ISR and RX of depth 1 and
  queue on both sides. `LAPS = 4` is the smallest count at which "one ahead" and
  "one behind" differ with room to spare. Three blocks is the smallest ring in
  which next and previous differ.
* Pads. Pins are independent in every formula of `pio_pads_t` (all operations
  are bitwise), so one pin shows everything but routing of a span of pins,
  which `drive_pins` does in `PioSm`. Two blocks are needed for the mux.
* DMA. The elements of the ringed jobs have one byte in a ring of two; other
  sizes, also those that do not divide the distance to the end of the ring, are
  left to the theorem `DmaCursorsConfined`. At 1/2 a window starts with less than
  two periods, so a transfer on each of its 4 ticks already is a burst; the
  theorem `PaceTimerRate` has every fraction. A job of `SafeJobs` feeds TX on the request of RX, which never matches.
  With two channels every chain is a self-chain or a ping-pong; the finding on
  the arbiter needs three.

* Chip. Three words fill TX, OSR, ISR and RX and leave one waiting at each
  channel. Each of the six sniffer calculations runs under byte and
  half-word transfers or word transfers, with the polynomials of the code cut to
  the small width; the reference is a long division, not the same shift register.
* Clock. Ten bits, with limits scaled so that every range check can fail alone
  and the largest legal products just fit, as they do in 64 bits; 20
  "nanoseconds" to the second make every rounding, ties included, occur.
* Assembler. The tables have 3, 3, 2 and 4 entries, so each overflows. `long`
  has 20 bits and a word 17, which keeps the cases a shift, a division of the
  smallest number and a value too wide for a word make. The jobs are for
  expressions (`ExprJobs`), defines of two programs (`ScopeJobs`), labels, words
  and wrap points (`SlotJobs`), delay against side-set (`SideJobs`), every
  instruction form under each version and FIFO mode (`FormJobs`) and directives
  that are loaded and applied (`ConfigJobs`). The host's own configuration
  (`MCHostConfig`) differs from the default in every field, so an application
  that forgets one shows. The two state machines are symmetric.
* Refusals. `RefusedForCause` has a cause for every message of the assembler, said
  of the line of the error alone: a number that has no value or does not fit, a
  word no engine could read back as the line, a delay and side-set value no
  setting of the five bits holds, a version or FIFO mode that excludes it, a full
  table, a name taken twice. Operands are offered at and past the edge of their
  field, so a limit that is off by one in either direction shows.

The runs where the system never has to stop check for deadlock.

### Fairness

* `TicksForever` (`chip`, `programs`): the caller's loop keeps calling
  `pio_sim_tick`, `pio_sim_group_tick` or `pio_chip_tick`. A tick is never
  blocked, so this is weak fairness of `Step`, stated on `turn` because `Step` and
  no other action moves it. In a chip the next group tick waits for the bus cycle
  of the last one, so the DMA ticks for ever as well.
* `WF(HostGet)`: the host that waits for data reads it (`pio_sim_run_until_rx`
  followed by `pio_sim_sm_get`). `Delivered` is stated for the hosts that only put
  and get: one that stops the state machine for good may wait for ever.
* `WF(IsrGet)`, `WF(IsrPut)`, `WF(IsrBlockDone)`: a handler runs when its line is
  up, which is what an interrupt is for; the code leaves the polling of the line
  to the caller's loop.
* `BlockArrives` and `StreamsOn` are stated for hosts that leave the channels
  alone once they are set up (handlers may run, lines may be changed).
* `KeepMeeting` and `EveryBlockServed` assume that the state machines are left
  enabled from some point on.

## 4. Findings

Four runs are expected to fail; each contradicts a comment of the code.

* `dma_arb_normal`. `pio_dma_tick` keeps one `rr_next` for both priority passes
  (`pio_dma.c:507`). A high-priority channel sitting between two ready normal
  ones moves the seat in front of the same normal channel again and again. The
  header promises channels "chosen by priority-then-round-robin". For the
  high-priority channels among themselves the promise holds, and is proved.
* `programs_exec`. `pio_sim_sm_exec` clears the stall latch of the program
  (`pio_sim.c:1919`). A program parked on `irq wait` then looks as if it were
  presented for the first time and raises its flag again; the comment in
  `exec_irq` says "we raise once and merely poll thereafter".
* `sim_init_stale`. `pio_sim_sm_init` disables a running state machine without
  re-resolving the pads (`pio_sim.c:602`), unlike `pio_sim_sm_set_enabled`,
  whose comment explains why it must.
* `asm_status`. `pio_asm_apply_program_config` re-applies a whole configuration
  through `pio_sim_sm_set_config`, which ends a fixed STATUS value
  (`pio_sim.c:570`), even if the program has no `.mov_status` and no directive at
  all. `pio_asm.h:153` says "Only directives that were present take effect", and
  `pio_sim.h:429` that the value is "Runtime, not part of the config struct" and
  cleared with `pio_sim_sm_clear_status_value`. `DirectivesOnly` states what the
  code does: the 27 fields of the configuration as the directives tell, the
  fixed STATUS value ended.

Further observations are built into the properties instead of being
violated:

* The write window opens at the start of a tick (`pio_sim.c:1735-1740`), so
  between ticks the flags of the last tick are still up, and a pin write
  injected with `pio_sim_sm_exec` into a lower state machine loses against a
  write of the previous tick.
* `OUT_STICKY` re-asserts on the state machine's own cycles (`pio_sim.c:1761`),
  so with a divisor above one other state machines get its pins in between.
  `StickyPriority` is therefore stated for a divisor of one. It also leaves out
  pins that a later block on the same pads has written: the host may inject a
  write there from the callback of the block in front, and the proof of the
  stronger statement failed on just this case (setup `StickyUnder` has the
  opposite one, an injected write from below, which loses).
* The depth check of the expression evaluator is in `expr_reverse`
  (`pio_asm.c:469`, "bounds all recursion"); a run of unary minus signs recurses
  at `pio_asm.c:294` without passing it. The length of a line bounds the run.
* `.fifo` accepts the register-file modes by the `.pio_version` seen so far, so
  the order of the two directives matters.
* A `PUBLIC` define that stands after the selected program is not seen by it.
* `%}` outside a verbatim block opens one. `.wrap` may stand before
  `.wrap_target`; a label may stand after the last instruction. Of two delay or
  side-set modifiers the leftmost wins.
* `pio_clk_ns_to_ticks` works with the clock rounded to whole hertz, so
  `ClockExact` compares it with that; a legal RP2040 tree with the largest divider
  and the slowest crystal can round to 0 Hz, for which the conversions return 0.

## 5. Proofs

All proofs are by an inductive invariant: it holds initially, every step
preserves it, and it implies the property. One lemma per operator says what
it keeps; the step lemma has one case per action.

| module | theorems | inductive invariant |
|---|---|---|
| `PioFifoPair_proofs` | `FifoTypes`, `FifoConsistency`, `FifoRefinement` | `TypeOK /\ FifosConsistent` |
| `PioClkdivBank_proofs` | `ClkdivTypes`, `ClkdivRateExact`, `ClkdivOnTime`, `ClkdivInPhase` | `TypeOK /\ RateExact /\ Settled` |
| `PioDma_proofs` (about `PioDma`, `PioDmaArb`, `PioDmaPace`) | `DmaTypes`, `DmaBusyHasWork`, `DmaFifoSafe`, `DmaHandover`, `DmaCursorsConfined` | `TypeOK /\ BusyHasWork /\ FifoSafe` |
| | `ArbSeatApproaches`, `ArbHighRoundRobin` | the above with `SeatApproaches` |
| | `PaceTimerBudget`, `PaceTimerRate`, `PaceImplementsArb` | the DMA invariant with `TimerBudget` |
| `PioPads_proofs` | lemmas on `PioPads` and on chains of steps, for the next two | |
| `PioPadBank_proofs` | `PadsStayConsistent`, `PadsSyncLag`, `PadsIsoFreezes`, `PadsKeeperHolds` | `TypeOK`, the routing masks agree with FUNCSEL, directions are fresh, the flip-flops hold the views of the last two clocks |
| `PioSim_proofs` | `EngineConsistent`, `EngineDirsFresh`, `EngineLevelsHold`, `EngineStickyPriority` | `Inv`, below |
| `PioPrograms_proofs` | `RingOneToken`, `TwinsInLockstep`, `MeetingPaired` | `Inv` with `RingsTurn`, `TwinsAgree`, `MeetingsAgree`, below |
| `PioChip_proofs` | `ChipClockExact`, `ChipPllAllOrNothing` | `ClkOK`: every setting passed the checks of the setters |
| | `ChipDrained` | `DrainInv`, below |

* `FifoRefinement` is the refinement of `FifoQueues` by `PioFifoPair`. The
  abstract queue is `Contents(f)`, the slots from tail to head. The proof needs
  that no two queued words share a slot (`SlotsApart`), then that a push appends
  (`PushAppends`), a pop takes the tail (`PopTails`) and a write through the
  debug window changes at most one queued word (`StorePokes`).
* `ClkdivOnTime` is not inductive: it follows from `RateExact`, an exact
  balance, and `Settled`, which bounds the accumulator. `ClkdivInPhase` follows
  because a quotient and a remainder are unique (`SameQuotient`).
* `DmaBusyHasWork` needs that a NULL trigger starts nothing, whether it comes
  from the host, a chain or a callback. `DmaHandover` is an action property
  proved from the invariant.
* `ArbHighRoundRobin`: a bound on turns is not inductive; `SeatApproaches` is.
  Every time a ready high-priority channel is passed over by another one the
  seat comes closer to it.
* `PaceTimerRate`: a window may be opened at any moment and starts with a phase
  short of a period and at most one pending request, so requests left unused
  before it never come out as a burst. `TimerBudget` also counts the request that
  is pending and the phase that is gathered, and bounds the phase, which is what a
  new window needs.
* `DmaCursorsConfined` is an action property of a bus cycle: a cursor with a ring
  stays in its aligned window, and a FIFO endpoint or one that does not
  increment does not move.
* The pads. `PadsStayConsistent` has the mux, the directions and the
  registers' types in one invariant, as none is inductive alone: a direction is
  fresh only relative to the routing masks. `PadsIsoFreezes` and
  `PadsKeeperHolds` are action properties that need the invariant for the types
  and, for the keeper, for what the pad drives.

The engine (`PioSim_proofs`) is proved for every number of blocks, state
machines, pins, flags and word bits, shared pads or not, every program, every
configuration, every `DecodeWord` and every host. Its invariant `Inv` has five
parts:

1. `MachineOK`: every record has its type, the FIFOs of a state machine have
   the shape its configuration gives them and consistent cursors, and pads keep
   their owners. This gives `EngineConsistent`.
2. `PadsFresh`, as long as the host does not call `pio_sim_sm_init`: directions
   are what `pio_pads_resolve` would compute. `EngineDirsFresh` carries the same
   condition; the run `sim_init_stale` shows that it is needed.
3. `Settled`: so are the levels. It says that resolving again would
   change nothing, and unlike the directions it survives `pio_sim_sm_init`,
   because level claims do not depend on enables.
4. `Wired`: the engine never reroutes a pin, so every write window counts.
5. `Reasserted`: while block `turn` is in its callback, each of its enabled,
   sticky and undivided state machines that the host does not call on has every
   pin it drives in its write window.

The argument goes up the call graph. A lemma per handler shows that it yields a
well-formed machine, touches no other block and leaves directions fresh
(`Outcomes`, `Evolves`); another that it writes the pins of its own state machine
at most once and resolves the pads if it does (`PinStep`). An instruction with
its side-set is two such writes, of which the second withdraws no claim, so a
level that moved is still claimed at the end (`TwoPinSteps`, `Shifts`). A tick
of a block is a chain of `SmTick`s from `OpenWriteWindow` (`TickIsChain`); by
induction along it, windows not yet reached are empty, every level that moved
is claimed, and the sticky state machines passed so far have re-asserted
(`Ticked`). `EngineLevelsHold` and `EngineStickyPriority` follow from what the
final `ResolvePads` does with the claims: it picks the highest
(`HighestOutranks`). A host call changes only state machines it serves (`Touches`).

The function that runs a tick is recursive, and the induction theorems of the
library take an operator as parameter. Both inductions here are over sets
instead: a set of naturals that has 0 and successors is all of them, by its
least missing element (`SetInduction`), and a chain of steps of any length
exists (`ChainExists`). The lemmas on FIFO records are those of
`PioFifoPair_proofs`, taken through an instance (`Pair`).

Three programs on this engine are proved in `PioPrograms_proofs`, whatever their
dividers, delays, side-sets and pins are:

* `RingOneToken`, for every number of blocks in a ring and every host that starts
  and stops them. The invariant binds the PC of a block to the token: a block
  past its wait holds it, and nobody else does, nor is any flag 0 up. Only a
  completed instruction moves a PC or a flag, so each `SmTick` leaves the token
  where it is or moves it one place (`TokenStep`), although within one tick of the
  group a flag can be raised, seen and taken. Nothing is ever injected in a ring
  (`exec_pending` is part of the invariant); the other state machines are
  disabled, and the ticks, pads and delays of a block leave the token alone
  (`Idles`).
* `TwinsInLockstep` is about two runs rather than one. From the same record, the same
  configuration, the same flags and the same pads two state machines with the
  same program produce the same record (one lemma per handler, up to
  `CyclesAgree` and `TicksAgree`), provided the program only looks at its
  surroundings. What is left is that the host keeps the records equal: a restart
  forgets everything but the phase of the divider, and a synchronous start
  restarts the dividers (`Together`). The proof needs no assumption on the number
  of state machines in a block.
* `MeetingPaired`, for either order in which a tick visits the two and a host that
  stops, starts and injects. The counters alone are not inductive: the invariant
  says that the flag is up exactly while the caller is parked and not yet
  answered (`Parked`), and adds whether the server is ahead. A step can let the
  server pass only when it is not ahead, and the caller only when it is
  (`MeetStep`), so two passes in one tick also balance (`BothPass`), modulo
  `LAPS` too. The theorem assumes `~EXEC_PARKED`: a word injected into a parked
  caller clears its stall mark, and the caller raises the flag again, which is the
  finding of `programs_exec`.

`TokenRings`, `LookingTwins` and `Meetings` state what the theorems ask of the programs.
`Meetings` wants an `irq wait` and a `wait 1 irq` that address the same flag of
block 0, absolutely or relative to the state machine, each followed by one
instruction that works on registers or pins; so must the injected words. `TokenRings`
wants a `wait 1 irq 0`, an instruction that only works on registers and pins, and
an `irq next` or `irq prev`; `LookingTwins` wants equal programs and configurations
without FIFO access and pin writes. TLC checks on every run of
`MCPioPrograms` that its instances meet them.

`ChipClockExact` and `ChipPllAllOrNothing` are proved for all settings of the
clock tree and all word widths wide enough for the limits (`ClkAssumption`). Each
conversion is a division split so that no intermediate product overflows: the
quotient and the remainder of the clock are scaled apart. The proof shows that
the parts stay below `2^CLK_BITS`, then that the split division is the division
(`PioChipRef` states the rounding without it). Both theorems are under
`NeverStops`, which says that no legal tree rounds to 0 Hz. It excludes the RP2040
tree of section 4, for which the code returns 0 and `ClockExact` states a
division by zero; `MCPioChip` checks `NeverStops` for its limits.

`ChipDrained` is proved for every word width, FIFO depth and number of state machines,
every program and configuration within the idiom, and a host that puts, gets, stops,
injects and rewrites the configuration between any two ticks. `DrainedMeansConsumed` alone is not inductive: a state
with the flag down says nothing. What a step keeps is `Consumed`, for every number of
words sent, and for a program that may throw away a word in use also `Whole`: none
ever is. One lemma per handler shows that it keeps both (`Carries`), up to the
tick of a state machine and then along the chain of a tick (`BlockFollows`).
The point of the argument is `Ready`: the background refill at the start of a cycle
leaves the OSR exhausted only when TX is empty, so the OUT that follows in the same
cycle raises TXSTALL only then.

`DrainIdiom` says what programs that is for, as far as autopull is concerned; TLC checks that
the instances meet it. Each part is needed; programs and hosts without it violate the property:

* no OUT is injected: `pio_sim_sm_exec` runs it without the background refill, and it
  raises TXSTALL over a word that waits in TX;
* every PULL blocks and nothing else refills the OSR (`mov osr`, `mov osr, rxfifo[]`);
* either every PULL is `ifempty`, or every OUT takes a whole word: a plain PULL on an
  empty TX stalls, and so raises the flag, with part of a word still in the OSR.

Assumptions are those of the modules, named and evaluated by TLC on every run:
`FifoAssumption`, `WordAssumption`, `WordBitsAssumption`, `DivAssumption`,
`BankAssumption` of `PioClkdivBank` (divisors are at least one, which the
decoding of a zero integer part guarantees) and of `PioPadBank` (one
shared set of pads, whose users act for existing blocks), `PadsAssumption` (at least one block, state
machine and pin), `SmAssumption`, `SimAssumption` (programs, configurations,
host words and `DecodeWord` are well typed), `DmaAssumption` (notably
`num <= den` for timers), `PaceAssumption`, `TwoAssumption` (a meeting has two
partners), `LapsAssumption` (the counters wrap), `ClkAssumption` (limits are ordered and their products fit, as they
do in 64 bits), `ClockCallAssumption` (the arguments of conversions).

Only model-checked:

* what the echo programs achieve on the engine: `EchoFidelity`;
* the data of the chip: bytes moved (`MemoryExact`) and checksums
  (`SniffFollows`). Their references are recursive definitions over data of any
  length, which needs an induction the provers here cannot carry out;
* the assembler and the loader (all properties of `asm`). The grammar is
  recursive, and so are the operators that follow it; expressions use the bitwise
  operators;
* all liveness (`Delivered`, `BlockArrives`, `StreamsOn`, `KeepMeeting`,
  `EveryBlockServed`): the proof system has no reasoning about fairness and
  ENABLED here.

## 6. Not modelled

* The text level of the assembler: tokenising, letter case, number syntax,
  names longer than the tables keep, the wording of messages, and what a failed
  assembly leaves in its output. There is no disassembler.
* The trace hook, the counter of unwritten fetches and plain getters only
  observe. `DRIVE`, `SLEWFAST` and `SCHMITT` are stored without digital effect.
* Floating-point rounding of `clock_div` settings next to the upper clamp.
* Timers with `num > den`, whose 32-bit phase grows until it wraps, and
  callbacks that NULL-trigger their own quiet channel, which recurse.
* `pio_sim_init`, neighbours and GPIO base after set-up. `pio_sim_load` is an
  action of `PioAsmLoad` only: while `PioSim` runs, memory is fixed.
* DMA lines 2 and 3 and the second set of PIO lines: copies of the ones modelled.
* The RP2040 build, apart from the capacity differences the constants express.

## 7. Plan

What is left, in this order:

1. A proof of `EchoFidelity`: the invariant follows a word from TX through
   OSR, ISR and RX, where `DrainInv` only counts.
2. The steps of `PioChip` as steps of `PioDma`, so that the theorems about the
   controller carry over to the chip.
3. A history of injected words in `PioSim`: what `pio_sim_sm_exec` overwrites.
