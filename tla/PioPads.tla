------------------------------ MODULE PioPads ------------------------------
(***************************************************************************)
(* The electrical state of the GPIOs (pio_pads_t) and the function mux and *)
(* pad registers in front of it (pio_gpio.c), as operators on a record.    *)
(* A 64-bit mask of pins is the set of the pins whose bit is set.  The     *)
(* three masks of an override (invert / low / high) always name one mode   *)
(* per pin, so an override is a function from pins to modes.               *)
(*                                                                         *)
(* Each block b has, for each state machine s, the pin registers           *)
(* reg[b][s]: val (out_pin_val), oe (out_pin_oe), wrote (wrote_this_cycle) *)
(* and dir (dir_driven).                                                   *)
(***************************************************************************)
EXTENDS Integers, Sequences

CONSTANTS
    NUM_PIO,        \* blocks (PIO_SIM_NUM_PIO)
    NUM_SM,         \* state machines per block (PIO_SIM_NUM_SM)
    NUM_PINS,       \* physical GPIOs (PIO_SIM_NUM_PINS)
    SHARED          \* TRUE: one pad set for all blocks (group_init_shared)

ASSUME PadsAssumption ==
    /\ NUM_PIO \in Nat \ {0} /\ NUM_SM \in Nat \ {0}
    /\ NUM_PINS \in Nat \ {0}
    /\ SHARED \in BOOLEAN

Blocks == 0 .. NUM_PIO - 1
SMs    == 0 .. NUM_SM - 1
Pins   == 0 .. NUM_PINS - 1

(* The pad set a block drives and samples.                                 *)
PadOf(b) == IF SHARED THEN 0 ELSE b
PadSets  == IF SHARED THEN {0} ELSE Blocks

(***************************************************************************)
(* FUNCSEL values: 0 .. NUM_PIO-1 select the PIO in that owner slot.       *)
(***************************************************************************)
FUNC_PERIPH == NUM_PIO          \* any other peripheral
FUNC_NULL   == NUM_PIO + 1
FUNC_LEGACY == NUM_PIO + 2      \* simulator-only: every owner may drive
Funcs       == 0 .. NUM_PIO + 2

Overrides == {"NORMAL", "INVERT", "LOW", "HIGH"}

PinRegs == [val : SUBSET Pins, oe : SUBSET Pins,
            wrote : SUBSET Pins, dir : SUBSET Pins]

NoPinRegs == [val |-> {}, oe |-> {}, wrote |-> {}, dir |-> {}]

Pads ==
    [pin_levels : SUBSET Pins, pin_dirs : SUBSET Pins,
     sync0 : SUBSET Pins, sync1 : SUBSET Pins, sync_bypass : SUBSET Pins,
     ext_drive : SUBSET Pins, ext_levels : SUBSET Pins,
     pad_ie : SUBSET Pins, pad_od : SUBSET Pins,
     pad_pue : SUBSET Pins, pad_pde : SUBSET Pins, keep_state : SUBSET Pins,
     pad_iso : SUBSET Pins, iso_levels : SUBSET Pins, iso_oe : SUBSET Pins,
     funcsel : [Pins -> Funcs], pio_func_mask : [Blocks -> SUBSET Pins],
     periph_sel_mask : SUBSET Pins,
     periph_oe : SUBSET Pins, periph_level : SUBSET Pins,
     outover : [Pins -> Overrides], oeover : [Pins -> Overrides],
     inover : [Pins -> Overrides], owners : Seq(Blocks)]

(* A zeroed pad set with the simulator's defaults.                         *)
pio_pads_init_defaults(owners) ==
    [pin_levels |-> {}, pin_dirs |-> {},
     sync0 |-> {}, sync1 |-> {}, sync_bypass |-> {},
     ext_drive |-> {}, ext_levels |-> {},
     pad_ie |-> Pins, pad_od |-> {},
     pad_pue |-> {}, pad_pde |-> {}, keep_state |-> {},
     pad_iso |-> {}, iso_levels |-> {}, iso_oe |-> {},
     funcsel |-> [n \in Pins |-> FUNC_LEGACY],
     pio_func_mask |-> [o \in Blocks |-> Pins],
     periph_sel_mask |-> {}, periph_oe |-> {}, periph_level |-> {},
     outover |-> [n \in Pins |-> "NORMAL"],
     oeover  |-> [n \in Pins |-> "NORMAL"],
     inover  |-> [n \in Pins |-> "NORMAL"],
     owners |-> owners]

(* A block alone owns its embedded pads; in a shared group all own one set. *)
OwnersOf(pd) == IF SHARED THEN [i \in 1 .. NUM_PIO |-> i - 1] ELSE <<pd>>

(***************************************************************************)
(* From chip-side drive to the level on the wire and the PIO's input view. *)
(***************************************************************************)
ApplyOverride(over, S) ==
    {n \in Pins : \/ over[n] = "HIGH"
                  \/ over[n] = "INVERT" /\ n \notin S
                  \/ over[n] = "NORMAL" /\ n \in S}

pio_pads_chip_drive(p) ==
    LET per_oe == (p.periph_oe \intersect p.periph_sel_mask) \ p.pin_dirs
        lvl0 == (p.pin_levels \intersect p.pin_dirs)
                  \union (p.periph_level \intersect per_oe)
        lvl  == ApplyOverride(p.outover, lvl0)
        oe   == ApplyOverride(p.oeover, p.pin_dirs \union per_oe) \ p.pad_od
    IN  [oe  |-> (oe \ p.pad_iso) \union (p.iso_oe \intersect p.pad_iso),
         lvl |-> (lvl \ p.pad_iso) \union (p.iso_levels \intersect p.pad_iso)]

(* The wires under the chip's drive d: what the chip drives wins, then the *)
(* outside, then the pulls.                                                *)
LiveUnder(p, d) ==
    LET ext == p.ext_drive \ d.oe
        undriven == Pins \ (d.oe \union ext)
    IN  (d.lvl \intersect d.oe)
          \union (p.ext_levels \intersect ext)
          \union ((p.pad_pue \ p.pad_pde) \intersect undriven)
          \union (p.keep_state \intersect p.pad_pue \intersect p.pad_pde
                    \intersect undriven)

pads_live(p) == LiveUnder(p, pio_pads_chip_drive(p))

pads_input_view(p) ==
    ApplyOverride(p.inover, (pads_live(p) \intersect p.pad_ie) \ p.pad_iso)

(* Faulty variant: the keeper forgets pins that nobody drives.             *)
pads_update_keeper_forgets(p) ==
    LET d == pio_pads_chip_drive(p)
    IN  [p EXCEPT !.keep_state = (d.lvl \intersect d.oe)
                    \union ((p.ext_levels \intersect p.ext_drive) \ d.oe)]

KeptUnder(p, d) ==
    LET driven == d.oe \union p.ext_drive
        level  == (d.lvl \intersect d.oe)
                    \union ((p.ext_levels \intersect p.ext_drive) \ d.oe)
    IN  [p EXCEPT !.keep_state = (@ \ driven) \union level]

pads_update_keeper(p) == KeptUnder(p, pio_pads_chip_drive(p))

(* Faulty variant: the first flip-flop is clocked before the second.       *)
ClockPads_swapped(p) ==
    LET k == pads_update_keeper(p)
    IN  [k EXCEPT !.sync0 = pads_input_view(k), !.sync1 = pads_input_view(k)]

(* The end of a system tick: keeper first, then both flip-flops.           *)
ClockSync(p) == [p EXCEPT !.sync1 = p.sync0, !.sync0 = pads_input_view(p)]

ClockPads(p) == ClockSync(pads_update_keeper(p))

pio_sim_sync_settle(p) ==
    [p EXCEPT !.sync0 = pads_input_view(p), !.sync1 = pads_input_view(p)]

(* Pins a state machine samples as high.                                   *)
pio_input_level(p) ==
    (p.sync1 \ p.sync_bypass) \union (pads_input_view(p) \intersect p.sync_bypass)

(***************************************************************************)
(* pio_pads_resolve: the last claimant in scan order wins, so of a set of  *)
(* claims <<owner slot, state machine>> the highest decides.  enabled(b,s) *)
(* tells whether the state machine runs.                                   *)
(***************************************************************************)
Slots0(p) == 0 .. Len(p.owners) - 1

Highest(S) == CHOOSE c \in S : \A d \in S :
                d[1] < c[1] \/ (d[1] = c[1] /\ d[2] <= c[2])

RegAt(p, reg, c) == reg[p.owners[c[1] + 1]][c[2]]

LevelClaims(p, reg, n) ==
    {c \in Slots0(p) \X SMs : /\ n \in p.pio_func_mask[c[1]]
                              /\ n \in RegAt(p, reg, c).wrote}

DirClaims(p, reg, enabled, n, on) ==
    {c \in Slots0(p) \X SMs : /\ n \in p.pio_func_mask[c[1]]
                              /\ n \in RegAt(p, reg, c).dir
                              /\ enabled[p.owners[c[1] + 1]][c[2]] = on}

(* Faulty variant: a pin nobody writes falls low.                          *)
ResolvedLevels_unlatched(p, reg) ==
    {n \in Pins :
       LET claims == LevelClaims(p, reg, n)
       IN  claims # {} /\ n \in RegAt(p, reg, Highest(claims)).val}

ResolvedLevels(p, reg) ==
    {n \in Pins :
       LET claims == LevelClaims(p, reg, n)
       IN  IF claims = {} THEN n \in p.pin_levels
           ELSE n \in RegAt(p, reg, Highest(claims)).val}

(* Directions: running state machines outrank parked ones.                 *)
ResolvedDirs(p, reg, enabled) ==
    {n \in Pins :
       LET run  == DirClaims(p, reg, enabled, n, TRUE)
           park == DirClaims(p, reg, enabled, n, FALSE)
       IN  \/ run # {} /\ n \in RegAt(p, reg, Highest(run)).oe
           \/ run = {} /\ park # {} /\ n \in RegAt(p, reg, Highest(park)).oe}

pio_pads_resolve(p, reg, enabled) ==
    [p EXCEPT !.pin_dirs = ResolvedDirs(p, reg, enabled),
              !.pin_levels = ResolvedLevels(p, reg)]

(***************************************************************************)
(* Pin registers of one state machine under its pin instructions.  span is *)
(* the set of physical pins addressed, high the ones given a 1.            *)
(***************************************************************************)
WriteLevels(q, span, high) ==
    [q EXCEPT !.val = (@ \ span) \union high, !.wrote = @ \union span]

WriteDirs(q, span, high) ==
    [q EXCEPT !.oe = (@ \ span) \union high, !.dir = @ \union span]

ReleaseSpan(q, span) ==
    [q EXCEPT !.oe = @ \ span, !.wrote = @ \ span, !.dir = @ \ span]

(***************************************************************************)
(* IO_BANK0 / PADS_BANK0 registers.                                        *)
(***************************************************************************)
SetTo(S, n, on) == IF on THEN S \union {n} ELSE S \ {n}

(* Faulty variant: a peripheral stays selected.                            *)
RouteFuncsel_keeps_periph(p) ==
    [p EXCEPT
       !.pio_func_mask = [o \in Blocks |->
            {n \in Pins : p.funcsel[n] \in {o, FUNC_LEGACY}}],
       !.periph_sel_mask = @ \union {n \in Pins : p.funcsel[n] = FUNC_PERIPH}]

(* The routing caches; the caller resolves the pads in the same call.      *)
RouteFuncsel(p) ==
    [p EXCEPT
       !.pio_func_mask = [o \in Blocks |->
            {n \in Pins : p.funcsel[n] \in {o, FUNC_LEGACY}}],
       !.periph_sel_mask = {n \in Pins : p.funcsel[n] = FUNC_PERIPH}]

pio_pads_apply_funcsel(p, reg, enabled) ==
    pio_pads_resolve(RouteFuncsel(p), reg, enabled)

pio_sim_gpio_set_function(p, reg, enabled, n, f) ==
    pio_pads_apply_funcsel([p EXCEPT !.funcsel[n] = f], reg, enabled)

(* Faulty variant: ISO is set before the drive is sampled.                 *)
pad_set_iso_late(p, n, iso) ==
    LET q == [p EXCEPT !.pad_iso = SetTo(@, n, iso)]
        d == pio_pads_chip_drive(q)
    IN  IF iso /\ n \notin p.pad_iso
        THEN [q EXCEPT !.iso_oe = SetTo(@, n, n \in d.oe),
                       !.iso_levels = SetTo(@, n, n \in d.lvl)]
        ELSE q

(* Raising ISO latches the drive as it is while ISO is still clear.        *)
pio_sim_pad_set_iso(p, n, iso) ==
    LET d == pio_pads_chip_drive(p)
        latched == IF iso /\ n \notin p.pad_iso
                   THEN [p EXCEPT !.iso_oe = SetTo(@, n, n \in d.oe),
                                  !.iso_levels = SetTo(@, n, n \in d.lvl)]
                   ELSE p
    IN  [latched EXCEPT !.pad_iso = SetTo(@, n, iso)]

pio_sim_pads_reset_hw(p) ==
    [p EXCEPT !.pad_ie = Pins, !.pad_od = {}, !.pad_pue = {}, !.pad_pde = Pins,
              !.keep_state = {}, !.pad_iso = Pins,
              !.iso_oe = {}, !.iso_levels = {}]

pio_sim_set_pin(p, n, level) ==
    [p EXCEPT !.ext_drive = @ \union {n}, !.ext_levels = SetTo(@, n, level)]

pio_sim_release_pin(p, n) == [p EXCEPT !.ext_drive = @ \ {n}]
============================================================================
