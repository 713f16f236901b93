------------------------- MODULE PioPadBank_proofs -------------------------
(***************************************************************************)
(* Proofs about the pads for every number of blocks, state machines and    *)
(* pins and every mix of users.                                            *)
(***************************************************************************)
EXTENDS PioPadBank, PioPads_proofs, TLAPS

(***************************************************************************)
(* The inductive invariant.  DirsFresh says what the cached directions     *)
(* are; for the mux to be exclusive the routing caches they are computed   *)
(* from must agree with FUNCSEL, and for the synchroniser to lag by two    *)
(* ticks both flip-flops must hold what the history holds.                 *)
(***************************************************************************)
Routed(q) ==
    /\ q.owners = OwnersOf(0)
    /\ q.pio_func_mask = [o \in Blocks |->
                            {n \in Pins : q.funcsel[n] \in {o, FUNC_LEGACY}}]
    /\ q.periph_sel_mask = {n \in Pins : q.funcsel[n] = FUNC_PERIPH}

Synced ==
    /\ hist \in (SUBSET Pins) \X (SUBSET Pins)
    /\ p.sync0 = hist[1] /\ p.sync1 = hist[2]

Inv == TypeOK /\ user \in Users /\ Routed(p) /\ DirsFresh /\ Synced

(* The shared pad set is owned by every block, in order.                   *)
LEMMA OwnersType ==
    /\ OwnersOf(0) \in Seq(Blocks) /\ Len(OwnersOf(0)) = NUM_PIO
    /\ \A i \in Blocks : OwnersOf(0)[i + 1] = i
  <1>1. OwnersOf(0) = [i \in 1 .. NUM_PIO |-> i - 1]
    BY BankAssumption DEF OwnersOf
  <1>2. \A i \in 1 .. NUM_PIO : i - 1 \in Blocks
    BY PadsAssumption DEF Blocks
  <1>3. [i \in 1 .. NUM_PIO |-> i - 1] \in Seq(Blocks)
    BY <1>2, PadsAssumption
  <1>4. Len([i \in 1 .. NUM_PIO |-> i - 1]) = NUM_PIO
    BY PadsAssumption
  <1>5. \A i \in Blocks : [j \in 1 .. NUM_PIO |-> j - 1][i + 1] = i
    BY PadsAssumption DEF Blocks
  <1> QED  BY <1>1, <1>3, <1>4, <1>5

(***************************************************************************)
(* What the operations leave alone.                                        *)
(***************************************************************************)

(* A register write other than FUNCSEL, ISO and the reset touches neither  *)
(* the caches nor a latch.                                                 *)
PlainWrite ==
    \E n \in Pins :
      \/ \E o \in Overrides : \/ pio_sim_gpio_set_outover(n, o)
                              \/ pio_sim_gpio_set_oeover(n, o)
                              \/ pio_sim_gpio_set_inover(n, o)
      \/ \E v, w \in BOOLEAN : \/ pio_sim_gpio_set_periph_output(n, v, w)
                               \/ pio_sim_pad_set_pulls(n, v, w)
      \/ \E v \in BOOLEAN : \/ pio_sim_pad_set_input_enable(n, v)
                            \/ pio_sim_pad_set_output_disable(n, v)
                            \/ SetPin(n, v)
                            \/ SetBypass(n, v)
      \/ ReleasePin(n)

Frame(q, r) ==
    /\ q \in Pads /\ SameRouting(q, r) /\ SameDirs(q, r) /\ SameSync(q, r)
    /\ SameIso(q, r) /\ SameKeeper(q, r)

LEMMA SetToType ==
    ASSUME NEW S \in SUBSET Pins, NEW n \in Pins, NEW v
    PROVE  SetTo(S, n, v) \in SUBSET Pins
  BY DEF SetTo

LEMMA PlainFrame ==
    ASSUME p \in Pads, PlainWrite
    PROVE  Frame(p', p) /\ UNCHANGED <<reg, on, hist>>
  <1> USE DEF Frame, SameRouting, SameDirs, SameSync, SameIso, SameKeeper
  <1>1. ASSUME NEW n \in Pins, NEW o \in Overrides
        PROVE  /\ Frame([p EXCEPT !.outover[n] = o], p)
               /\ Frame([p EXCEPT !.oeover[n] = o], p)
               /\ Frame([p EXCEPT !.inover[n] = o], p)
    BY DEF Pads
  <1>2. ASSUME NEW n \in Pins, NEW A \in SUBSET Pins, NEW B \in SUBSET Pins
        PROVE  /\ Frame([p EXCEPT !.periph_oe = A, !.periph_level = B], p)
               /\ Frame([p EXCEPT !.pad_pue = A, !.pad_pde = B], p)
               /\ Frame([p EXCEPT !.pad_ie = A], p)
               /\ Frame([p EXCEPT !.pad_od = A], p)
               /\ Frame([p EXCEPT !.ext_drive = A, !.ext_levels = B], p)
               /\ Frame([p EXCEPT !.ext_drive = A], p)
               /\ Frame([p EXCEPT !.sync_bypass = A], p)
    BY DEF Pads
  <1> HIDE DEF Frame, SameRouting, SameDirs, SameSync, SameIso, SameKeeper
  <1>3. /\ p.periph_oe \in SUBSET Pins /\ p.periph_level \in SUBSET Pins
        /\ p.pad_pue \in SUBSET Pins /\ p.pad_pde \in SUBSET Pins
        /\ p.pad_ie \in SUBSET Pins /\ p.pad_od \in SUBSET Pins
        /\ p.ext_drive \in SUBSET Pins /\ p.ext_levels \in SUBSET Pins
        /\ p.sync_bypass \in SUBSET Pins
    BY DEF Pads
  <1>4. ASSUME NEW n \in Pins, NEW o \in Overrides,
               \/ pio_sim_gpio_set_outover(n, o) \/ pio_sim_gpio_set_oeover(n, o)
               \/ pio_sim_gpio_set_inover(n, o)
        PROVE  Frame(p', p) /\ UNCHANGED <<reg, on, hist>>
    BY <1>1, <1>4 DEF Host, pio_sim_gpio_set_outover, pio_sim_gpio_set_oeover,
                      pio_sim_gpio_set_inover
  <1>5. ASSUME NEW n \in Pins, NEW v \in BOOLEAN, NEW w \in BOOLEAN,
               \/ pio_sim_gpio_set_periph_output(n, v, w)
               \/ pio_sim_pad_set_pulls(n, v, w)
        PROVE  Frame(p', p) /\ UNCHANGED <<reg, on, hist>>
    <2>1. /\ SetTo(p.periph_oe, n, v) \in SUBSET Pins
          /\ SetTo(p.periph_level, n, w) \in SUBSET Pins
          /\ SetTo(p.pad_pue, n, v) \in SUBSET Pins
          /\ SetTo(p.pad_pde, n, w) \in SUBSET Pins
      BY <1>3, SetToType
    <2>2. CASE pio_sim_gpio_set_periph_output(n, v, w)
      BY <1>2, <2>1, <2>2 DEF Host, pio_sim_gpio_set_periph_output
    <2>3. CASE pio_sim_pad_set_pulls(n, v, w)
      BY <1>2, <2>1, <2>3 DEF Host, pio_sim_pad_set_pulls
    <2> QED  BY <1>5, <2>2, <2>3
  <1>6. ASSUME NEW n \in Pins, NEW v \in BOOLEAN,
               \/ pio_sim_pad_set_input_enable(n, v)
               \/ pio_sim_pad_set_output_disable(n, v) \/ SetBypass(n, v)
        PROVE  Frame(p', p) /\ UNCHANGED <<reg, on, hist>>
    BY <1>2, <1>3, <1>6, SetToType
       DEF Host, pio_sim_pad_set_input_enable, pio_sim_pad_set_output_disable, SetBypass
  <1>7. ASSUME NEW n \in Pins, NEW v \in BOOLEAN, SetPin(n, v) \/ ReleasePin(n)
        PROVE  Frame(p', p) /\ UNCHANGED <<reg, on, hist>>
    <2>1. p.ext_drive \union {n} \in SUBSET Pins /\ p.ext_drive \ {n} \in SUBSET Pins
      BY <1>3
    <2> QED  BY <1>2, <1>3, <1>7, <2>1, SetToType
                DEF Host, SetPin, ReleasePin, pio_sim_set_pin, pio_sim_release_pin
  <1> QED  BY <1>4, <1>5, <1>6, <1>7 DEF PlainWrite

(* Isolating a pad or clearing its isolation moves its latch only.         *)
LEMMA IsoFrame ==
    ASSUME p \in Pads, NEW n \in Pins, NEW iso \in BOOLEAN
    PROVE  LET q == pio_sim_pad_set_iso(p, n, iso)
               d == pio_pads_chip_drive(p)
               rising == iso /\ n \notin p.pad_iso
           IN  /\ q \in Pads /\ SameRouting(q, p) /\ SameDirs(q, p)
               /\ SameSync(q, p) /\ SameKeeper(q, p)
               /\ q.pad_iso = SetTo(p.pad_iso, n, iso)
               /\ q.iso_oe = IF rising THEN SetTo(p.iso_oe, n, n \in d.oe) ELSE p.iso_oe
               /\ q.iso_levels = IF rising THEN SetTo(p.iso_levels, n, n \in d.lvl)
                                 ELSE p.iso_levels
  <1> DEFINE d == pio_pads_chip_drive(p)
             rising == iso /\ n \notin p.pad_iso
             a == SetTo(p.pad_iso, n, iso)
             o == SetTo(p.iso_oe, n, n \in d.oe)
             l == SetTo(p.iso_levels, n, n \in d.lvl)
             q == pio_sim_pad_set_iso(p, n, iso)
  <1>1. p.pad_iso \in SUBSET Pins /\ p.iso_oe \in SUBSET Pins /\ p.iso_levels \in SUBSET Pins
    BY DEF Pads
  <1>2. a \in SUBSET Pins /\ o \in SUBSET Pins /\ l \in SUBSET Pins
    BY <1>1, SetToType
  <1>3. rising => q = [[p EXCEPT !.iso_oe = o, !.iso_levels = l] EXCEPT !.pad_iso = a]
    <2>1. [p EXCEPT !.iso_oe = o, !.iso_levels = l].pad_iso = p.pad_iso
      BY DEF Pads
    <2> QED  BY <2>1 DEF pio_sim_pad_set_iso
  <1>4. ~rising => q = [p EXCEPT !.pad_iso = a]
    BY DEF pio_sim_pad_set_iso
  <1> HIDE DEF a, o, l, q
  <1>5. CASE rising
    <2>1. /\ q \in Pads /\ SameRouting(q, p) /\ SameDirs(q, p)
          /\ SameSync(q, p) /\ SameKeeper(q, p)
          /\ q.pad_iso = a /\ q.iso_oe = o /\ q.iso_levels = l
      <3> DEFINE h == [p EXCEPT !.iso_oe = o, !.iso_levels = l]
      <3>1. /\ h \in Pads /\ SameRouting(h, p) /\ SameDirs(h, p)
            /\ SameSync(h, p) /\ SameKeeper(h, p)
            /\ h.iso_oe = o /\ h.iso_levels = l
        BY <1>2 DEF Pads, SameRouting, SameDirs, SameSync, SameKeeper
      <3>2. q = [h EXCEPT !.pad_iso = a]
        BY <1>3, <1>5
      <3> HIDE DEF h
      <3>3. /\ q \in Pads /\ SameRouting(q, h) /\ SameDirs(q, h)
            /\ SameSync(q, h) /\ SameKeeper(q, h)
            /\ q.pad_iso = a /\ q.iso_oe = h.iso_oe /\ q.iso_levels = h.iso_levels
        BY <1>2, <3>1, <3>2 DEF Pads, SameRouting, SameDirs, SameSync, SameKeeper
      <3> QED
        BY <3>1, <3>3 DEF SameRouting, SameDirs, SameSync, SameKeeper
    <2> QED  BY <1>5, <2>1 DEF a, o, l, q
  <1>6. CASE ~rising
    <2>1. /\ q \in Pads /\ SameRouting(q, p) /\ SameDirs(q, p)
          /\ SameSync(q, p) /\ SameKeeper(q, p)
          /\ q.pad_iso = a /\ q.iso_oe = p.iso_oe /\ q.iso_levels = p.iso_levels
      BY <1>2, <1>4, <1>6 DEF Pads, SameRouting, SameDirs, SameSync, SameKeeper
    <2> QED  BY <1>6, <2>1 DEF a, q
  <1> QED  BY <1>5, <1>6

(* The hardware reset touches the pad registers, not the mux.              *)
LEMMA ResetFrame ==
    ASSUME p \in Pads
    PROVE  LET q == pio_sim_pads_reset_hw(p)
           IN  /\ q \in Pads /\ SameRouting(q, p) /\ SameDirs(q, p) /\ SameSync(q, p)
               /\ q.pad_pue = {}
  BY DEF Pads, pio_sim_pads_reset_hw, SameRouting, SameDirs, SameSync

(* Settling moves the flip-flops only.                                     *)
LEMMA SettleFrame ==
    ASSUME p \in Pads
    PROVE  LET q == pio_sim_sync_settle(p)
           IN  /\ q \in Pads /\ SameRouting(q, p) /\ SameDirs(q, p)
               /\ SameIso(q, p) /\ SameKeeper(q, p)
               /\ pads_input_view(p) \in SUBSET Pins
               /\ q.sync0 = pads_input_view(p) /\ q.sync1 = pads_input_view(p)
  <1> DEFINE v == pads_input_view(p)
  <1>1. v \in SUBSET Pins
    BY DEF pads_input_view, ApplyOverride
  <1>2. pio_sim_sync_settle(p) = [p EXCEPT !.sync0 = v, !.sync1 = v]
    BY DEF pio_sim_sync_settle
  <1> HIDE DEF v
  <1>3. LET q == [p EXCEPT !.sync0 = v, !.sync1 = v]
        IN  /\ q \in Pads /\ SameRouting(q, p) /\ SameDirs(q, p)
            /\ SameIso(q, p) /\ SameKeeper(q, p) /\ q.sync0 = v /\ q.sync1 = v
    BY <1>1 DEF Pads, SameRouting, SameDirs, SameIso, SameKeeper
  <1> QED  BY <1>1, <1>2, <1>3 DEF v

(* A function change reroutes before it resolves.                          *)
LEMMA FunctionFrame ==
    ASSUME p \in Pads, Routed(p), NEW n \in Pins, NEW f \in Funcs
    PROVE  LET q == pio_sim_gpio_set_function(p, reg, on, n, f)
           IN  /\ q \in Pads /\ Routed(q) /\ SameSync(q, p)
               /\ SameIso(q, p) /\ SameKeeper(q, p)
               /\ q.pin_dirs = ResolvedDirs(q, reg, on)
  <1> DEFINE g == [p EXCEPT !.funcsel[n] = f]
             m == [o \in Blocks |-> {i \in Pins : g.funcsel[i] \in {o, FUNC_LEGACY}}]
             h == {i \in Pins : g.funcsel[i] = FUNC_PERIPH}
             r == [g EXCEPT !.pio_func_mask = m, !.periph_sel_mask = h]
             q == pio_pads_resolve(r, reg, on)
  <1>1. /\ g \in Pads /\ g.owners = p.owners
        /\ SameSync(g, p) /\ SameIso(g, p) /\ SameKeeper(g, p)
    BY DEF Pads, SameSync, SameIso, SameKeeper
  <1>2. m \in [Blocks -> SUBSET Pins] /\ h \in SUBSET Pins
    OBVIOUS
  <1>3. q = pio_sim_gpio_set_function(p, reg, on, n, f)
    BY DEF pio_sim_gpio_set_function, pio_pads_apply_funcsel, RouteFuncsel
  <1> HIDE DEF g
  <1>4. /\ r \in Pads /\ Routed(r)
        /\ SameSync(r, p) /\ SameIso(r, p) /\ SameKeeper(r, p)
    <2>1. g.owners = OwnersOf(0)
      BY <1>1 DEF Routed
    <2>2. r.funcsel = g.funcsel
      BY <1>1 DEF Pads
    <2> HIDE DEF m, h
    <2>3. /\ r \in Pads /\ r.owners = g.owners /\ r.pio_func_mask = m
          /\ r.periph_sel_mask = h
          /\ SameSync(r, p) /\ SameIso(r, p) /\ SameKeeper(r, p)
      BY <1>1, <1>2 DEF Pads, SameSync, SameIso, SameKeeper
    <2> QED  BY <2>1, <2>2, <2>3 DEF Routed, m, h
  <1> HIDE DEF r
  <1>5. /\ q \in Pads /\ q.pin_dirs = ResolvedDirs(r, reg, on)
        /\ SameRouting(q, r) /\ SameSync(q, r) /\ SameIso(q, r) /\ SameKeeper(q, r)
    BY <1>4, ResolveFrame
  <1> HIDE DEF q
  <1>6. Routed(q)
    BY <1>4, <1>5 DEF Routed, SameRouting
  <1>7. ResolvedDirs(r, reg, on) = ResolvedDirs(q, reg, on)
    BY <1>4, <1>5, <1>6, OwnersType, DirsDepend DEF Routed, SameRouting
  <1> QED
    BY <1>3, <1>4, <1>5, <1>6, <1>7 DEF SameSync, SameIso, SameKeeper

(***************************************************************************)
(* The invariant holds initially and is preserved.                         *)
(***************************************************************************)
LEMMA InvInit == Init => Inv
  <1> SUFFICES ASSUME Init PROVE Inv
    OBVIOUS
  <1> DEFINE own == OwnersOf(0)
             m == [o \in Blocks |-> Pins]
             fs == [n \in Pins |-> FUNC_LEGACY]
             ov == [n \in Pins |-> "NORMAL"]
  <1>1. own \in Seq(Blocks)
    BY OwnersType
  <1>2. /\ m \in [Blocks -> SUBSET Pins] /\ fs \in [Pins -> Funcs]
        /\ ov \in [Pins -> Overrides]
    BY PadsAssumption DEF FUNC_LEGACY, Funcs, Overrides
  <1>3. /\ p \in Pads /\ p.owners = own /\ p.funcsel = fs /\ p.pio_func_mask = m
        /\ p.periph_sel_mask = {} /\ p.pin_dirs = {} /\ p.sync0 = {} /\ p.sync1 = {}
    <2>1. p = pio_pads_init_defaults(own)
      BY DEF Init
    <2> HIDE DEF own
    <2> QED  BY <1>1, <1>2, <2>1 DEF pio_pads_init_defaults, Pads
  <1>4. /\ reg \in [Blocks -> [SMs -> PinRegs]] /\ on \in [Blocks -> [SMs -> BOOLEAN]]
        /\ \A b \in Blocks, s \in SMs : reg[b][s].dir = {}
    BY DEF Init, NoPinRegs, PinRegs
  <1>5. Routed(p)
    <2>1. \A n \in Pins : fs[n] = FUNC_LEGACY /\ FUNC_LEGACY # FUNC_PERIPH
      BY PadsAssumption DEF FUNC_LEGACY, FUNC_PERIPH
    <2> HIDE DEF fs
    <2>2. m = [o \in Blocks |-> {n \in Pins : fs[n] \in {o, FUNC_LEGACY}}]
      BY <2>1
    <2>3. {n \in Pins : fs[n] = FUNC_PERIPH} = {}
      BY <2>1
    <2> QED  BY <1>3, <2>2, <2>3 DEF Routed
  <1>6. DirsFresh
    <2>1. Slots0(p) = Blocks
      BY <1>3, OwnersType DEF Slots0, Blocks
    <2>2. \A c \in Blocks \X SMs : RegAt(p, reg, c).dir = {}
      BY <1>3, <1>4, OwnersType DEF RegAt
    <2>3. \A n, v : DirClaims(p, reg, on, n, v) = {}
      BY <2>1, <2>2 DEF DirClaims
    <2>4. ResolvedDirs(p, reg, on) = {}
      BY <2>3 DEF ResolvedDirs
    <2> QED  BY <1>3, <2>4 DEF DirsFresh
  <1>7. Synced /\ user \in Users
    BY <1>3 DEF Init, Synced
  <1> QED  BY <1>3, <1>4, <1>5, <1>6, <1>7 DEF Inv, TypeOK

(* A step that re-resolves keeps the invariant.                            *)
LEMMA ResolveKeeps ==
    ASSUME Inv, reg' \in [Blocks -> [SMs -> PinRegs]],
           on' \in [Blocks -> [SMs -> BOOLEAN]],
           p' = pio_pads_resolve(p, reg', on'), UNCHANGED <<hist, user>>
    PROVE  /\ Inv'
           /\ SameIso(p', p) /\ SameKeeper(p', p)
  <1>1. /\ p' \in Pads /\ p'.pin_dirs = ResolvedDirs(p, reg', on')
        /\ SameRouting(p', p) /\ SameSync(p', p)
        /\ SameIso(p', p) /\ SameKeeper(p', p)
    BY ResolveFrame DEF Inv, TypeOK
  <1>2. Routed(p) /\ Routed(p')
    BY <1>1 DEF Inv, Routed, SameRouting
  <1>3. ResolvedDirs(p, reg', on') = ResolvedDirs(p', reg', on')
    BY <1>1, <1>2, OwnersType, DirsDepend DEF Routed, SameRouting
  <1>4. Synced'
    BY <1>1 DEF Inv, Synced, SameSync
  <1> QED
    BY <1>1, <1>2, <1>3, <1>4 DEF Inv, TypeOK, DirsFresh

(* A step that keeps the routing, the directions and what a state machine  *)
(* says of them keeps the caches fresh.                                    *)
LEMMA FrameKeeps ==
    ASSUME Inv, p' \in Pads, SameRouting(p', p), SameDirs(p', p),
           reg' \in [Blocks -> [SMs -> PinRegs]],
           \A b \in Blocks, s \in SMs : /\ reg'[b][s].dir = reg[b][s].dir
                                        /\ reg'[b][s].oe = reg[b][s].oe,
           UNCHANGED <<on, user>>, Synced'
    PROVE  Inv'
  <1>1. Routed(p) /\ Routed(p')
    BY DEF Inv, Routed, SameRouting
  <1>2. ResolvedDirs(p', reg', on) = ResolvedDirs(p, reg, on)
    <2>1. p.owners \in Seq(Blocks) /\ p'.owners = p.owners
      BY <1>1, OwnersType DEF Routed
    <2>2. \A i \in 1 .. Len(p.owners) : p.owners[i] \in Blocks
      BY <2>1
    <2> QED  BY <2>1, <2>2, DirsDepend DEF SameRouting
  <1> QED
    BY <1>1, <1>2 DEF Inv, TypeOK, DirsFresh, SameDirs

(* Pin writes, releases and enables by the state machines.                 *)
LEMMA SmStepKeeps ==
    ASSUME Inv, SmStep, UNCHANGED user
    PROVE  Inv' /\ SameIso(p', p) /\ SameKeeper(p', p)
  <1>1. PICK b \in user.blocks, s \in SMs :
          \/ \E n \in Pins, v \in BOOLEAN : WritePin(b, s, n, v) \/ WriteDir(b, s, n, v)
          \/ \E n \in Pins : Release(b, s, n)
          \/ \E v \in BOOLEAN : SetEnabled(b, s, v)
    BY DEF SmStep
  <1>2. b \in Blocks
    BY BankAssumption DEF Inv
  <1>3. /\ reg \in [Blocks -> [SMs -> PinRegs]] /\ on \in [Blocks -> [SMs -> BOOLEAN]]
        /\ reg[b][s] \in PinRegs
    BY <1>2 DEF Inv, TypeOK
  <1>4. ASSUME NEW q \in PinRegs, SetReg(b, s, q)
        PROVE  Inv' /\ SameIso(p', p) /\ SameKeeper(p', p)
    <2>1. /\ reg' = [reg EXCEPT ![b][s] = q] /\ p' = pio_pads_resolve(p, reg', on)
          /\ UNCHANGED <<on, hist>>
      BY <1>4 DEF SetReg
    <2>2. reg' \in [Blocks -> [SMs -> PinRegs]]
      BY <1>2, <1>3, <2>1
    <2> QED  BY <1>3, <2>1, <2>2, ResolveKeeps
  <1>5. ASSUME NEW n \in Pins, NEW v \in BOOLEAN
        PROVE  /\ WriteLevels(reg[b][s], {n}, IF v THEN {n} ELSE {}) \in PinRegs
               /\ WriteDirs(reg[b][s], {n}, IF v THEN {n} ELSE {}) \in PinRegs
               /\ ReleaseSpan(reg[b][s], {n}) \in PinRegs
    BY <1>3 DEF WriteLevels, WriteDirs, ReleaseSpan, PinRegs
  <1>6. ASSUME NEW n \in Pins, NEW v \in BOOLEAN,
               WritePin(b, s, n, v) \/ WriteDir(b, s, n, v) \/ Release(b, s, n)
        PROVE  Inv' /\ SameIso(p', p) /\ SameKeeper(p', p)
    BY <1>4, <1>5, <1>6 DEF WritePin, WriteDir, Release
  <1>7. ASSUME NEW v \in BOOLEAN, SetEnabled(b, s, v)
        PROVE  Inv' /\ SameIso(p', p) /\ SameKeeper(p', p)
    <2>1. /\ on' = [on EXCEPT ![b][s] = v] /\ p' = pio_pads_resolve(p, reg, on')
          /\ UNCHANGED <<reg, hist>>
      BY <1>7 DEF SetEnabled
    <2>2. on' \in [Blocks -> [SMs -> BOOLEAN]]
      BY <1>2, <1>3, <2>1
    <2> QED  BY <1>3, <2>1, <2>2, ResolveKeeps
  <1> QED  BY <1>1, <1>6, <1>7

(* The end of a tick.                                                      *)
LEMMA TickKeeps ==
    ASSUME Inv, Tick, UNCHANGED user
    PROVE  /\ Inv' /\ SameIso(p', p)
           /\ p'.keep_state = pads_update_keeper(p).keep_state
  <1>1. /\ p' = ClockPads(p) /\ UNCHANGED on
        /\ hist' = <<pads_input_view(pads_update_keeper(p)), hist[1]>>
        /\ reg' = [b \in Blocks |-> [s \in SMs |-> [reg[b][s] EXCEPT !.wrote = {}]]]
    BY DEF Tick
  <1>2. /\ p' \in Pads /\ SameRouting(p', p) /\ SameDirs(p', p) /\ SameIso(p', p)
        /\ p'.keep_state = pads_update_keeper(p).keep_state
        /\ p'.sync0 = pads_input_view(pads_update_keeper(p))
        /\ p'.sync0 \in SUBSET Pins /\ p'.sync1 = p.sync0
    BY <1>1, ClockFrame DEF Inv, TypeOK
  <1>3. Synced'
    BY <1>1, <1>2 DEF Inv, Synced
  <1>4. /\ reg' \in [Blocks -> [SMs -> PinRegs]]
        /\ \A b \in Blocks, s \in SMs : /\ reg'[b][s].dir = reg[b][s].dir
                                        /\ reg'[b][s].oe = reg[b][s].oe
    <2>1. ASSUME NEW b \in Blocks, NEW s \in SMs
          PROVE  LET q == [reg[b][s] EXCEPT !.wrote = {}]
                 IN  q \in PinRegs /\ q.dir = reg[b][s].dir /\ q.oe = reg[b][s].oe
      <3>1. reg[b][s] \in PinRegs
        BY DEF Inv, TypeOK
      <3> QED  BY <3>1 DEF PinRegs
    <2> QED  BY <1>1, <2>1
  <1> QED  BY <1>1, <1>2, <1>3, <1>4, FrameKeeps

(* The registers, the reset and the settling of the synchroniser.          *)
LEMMA HostKeeps ==
    ASSUME Inv, Registers \/ ResetHw \/ Settle, UNCHANGED user
    PROVE  Inv'
  <1>1. p \in Pads /\ reg \in [Blocks -> [SMs -> PinRegs]] /\ Routed(p)
    BY DEF Inv, TypeOK
  <1>2. ASSUME p' \in Pads, SameRouting(p', p), SameDirs(p', p), SameSync(p', p),
               UNCHANGED <<reg, on, hist>>
        PROVE  Inv'
    <2>1. Synced'
      BY <1>2 DEF Inv, Synced, SameSync
    <2> QED  BY <1>1, <1>2, <2>1, FrameKeeps
  <1>3. CASE PlainWrite
    BY <1>1, <1>2, <1>3, PlainFrame DEF Frame
  <1>4. ASSUME NEW n \in Pins, NEW v \in BOOLEAN, SetIso(n, v) PROVE Inv'
    BY <1>1, <1>2, <1>4, IsoFrame DEF SetIso, Host
  <1>5. CASE ResetHw
    BY <1>1, <1>2, <1>5, ResetFrame DEF ResetHw, Host
  <1>6. ASSUME NEW n \in Pins, NEW f \in Funcs, SetFunction(n, f) PROVE Inv'
    <2>1. p' = pio_sim_gpio_set_function(p, reg, on, n, f) /\ UNCHANGED <<reg, on, hist>>
      BY <1>6 DEF SetFunction, Host
    <2>2. /\ p' \in Pads /\ Routed(p') /\ SameSync(p', p)
          /\ p'.pin_dirs = ResolvedDirs(p', reg, on)
      BY <1>1, <2>1, FunctionFrame
    <2>3. Synced'
      BY <2>1, <2>2 DEF Inv, Synced, SameSync
    <2> QED  BY <2>1, <2>2, <2>3 DEF Inv, TypeOK, DirsFresh
  <1>7. CASE Settle
    <2>1. /\ p' = pio_sim_sync_settle(p) /\ UNCHANGED <<reg, on>>
          /\ hist' = <<pads_input_view(p), pads_input_view(p)>>
      BY <1>7 DEF Settle
    <2>2. /\ p' \in Pads /\ SameRouting(p', p) /\ SameDirs(p', p)
          /\ pads_input_view(p) \in SUBSET Pins
          /\ p'.sync0 = pads_input_view(p) /\ p'.sync1 = pads_input_view(p)
      BY <1>1, <2>1, SettleFrame
    <2>3. Synced'
      BY <2>1, <2>2 DEF Synced
    <2> QED  BY <1>1, <2>1, <2>2, <2>3, FrameKeeps
  <1> QED
    BY <1>3, <1>4, <1>5, <1>6, <1>7 DEF Registers, PlainWrite

(* Every step preserves the invariant.                                     *)
LEMMA InvNext == Inv /\ [Next]_vars => Inv'
  <1> SUFFICES ASSUME Inv, [Next]_vars PROVE Inv'
    OBVIOUS
  <1>1. CASE UNCHANGED vars
    BY <1>1 DEF vars, Inv, TypeOK, Routed, DirsFresh, Synced
  <1>2. CASE Next
    BY <1>2, SmStepKeeps, TickKeeps, HostKeeps DEF Next
  <1> QED  BY <1>1, <1>2

(***************************************************************************)
(* Consistency of the bank.                                                *)
(***************************************************************************)

(* A pin that is driven has a claimant that is routed to it.               *)
LEMMA DrivenIsClaimed ==
    ASSUME Inv, NEW n \in Pins, n \in p.pin_dirs
    PROVE  \E b \in Blocks :
              /\ \E s \in SMs : n \in reg[b][s].oe \intersect reg[b][s].dir
              /\ p.funcsel[n] \in {b, FUNC_LEGACY}
  <1>1. Slots0(p) = Blocks /\ Routed(p)
    BY OwnersType DEF Inv, Routed, Slots0, Blocks
  <1>2. n \in ResolvedDirs(p, reg, on)
    BY DEF Inv, DirsFresh
  <1>3. PICK v \in BOOLEAN : /\ DirClaims(p, reg, on, n, v) # {}
                             /\ n \in RegAt(p, reg, Highest(DirClaims(p, reg, on, n, v))).oe
    BY <1>2 DEF ResolvedDirs
  <1> DEFINE S == DirClaims(p, reg, on, n, v)
             c == Highest(S)
  <1>4. S \in SUBSET (Blocks \X SMs)
    BY <1>1 DEF DirClaims
  <1>5. c \in S
    <2> HIDE DEF S
    <2> QED  BY <1>3, <1>4, HighestIn, PadsAssumption DEF Blocks, SMs, S
  <1> HIDE DEF c
  <1>6. c \in Blocks \X SMs /\ n \in p.pio_func_mask[c[1]] /\ n \in RegAt(p, reg, c).dir
    BY <1>1, <1>5 DEF DirClaims
  <1>7. RegAt(p, reg, c) = reg[c[1]][c[2]]
    BY <1>1, <1>6, OwnersType DEF RegAt, Routed
  <1>8. p.funcsel[n] \in {c[1], FUNC_LEGACY}
    BY <1>1, <1>6 DEF Routed
  <1>9. n \in reg[c[1]][c[2]].oe \intersect reg[c[1]][c[2]].dir
    BY <1>3, <1>6, <1>7 DEF c
  <1> QED  BY <1>6, <1>8, <1>9

(* The mux is exclusive whenever the caches are fresh.                     *)
LEMMA InvMux == Inv => MuxExclusive
  <1> SUFFICES ASSUME Inv, NEW n \in Pins
               PROVE  LET f == p.funcsel[n]
                          Drives(b) == \E s \in SMs :
                                         n \in reg[b][s].oe \intersect reg[b][s].dir
                      IN  /\ n \in p.pin_dirs =>
                               \E b \in Blocks : Drives(b) /\ f \in {b, FUNC_LEGACY}
                          /\ (f = FUNC_NULL /\ p.oeover[n] = "NORMAL"
                                /\ n \notin p.pad_iso)
                               => n \notin pio_pads_chip_drive(p).oe
                          /\ f # FUNC_PERIPH => n \notin p.periph_sel_mask
    BY DEF MuxExclusive
  <1>1. n \in p.pin_dirs =>
          \E b \in Blocks :
             /\ \E s \in SMs : n \in reg[b][s].oe \intersect reg[b][s].dir
             /\ p.funcsel[n] \in {b, FUNC_LEGACY}
    BY DrivenIsClaimed
  <1>2. p.funcsel[n] # FUNC_PERIPH => n \notin p.periph_sel_mask
    BY DEF Inv, Routed
  <1>3. ASSUME p.funcsel[n] = FUNC_NULL, p.oeover[n] = "NORMAL", n \notin p.pad_iso
        PROVE  n \notin pio_pads_chip_drive(p).oe
    <2>1. n \notin p.pin_dirs
      <3>1. \A b \in Blocks : FUNC_NULL \notin {b, FUNC_LEGACY}
        BY PadsAssumption DEF FUNC_NULL, FUNC_LEGACY, Blocks
      <3> QED  BY <1>1, <1>3, <3>1
    <2>2. n \notin p.periph_sel_mask
      BY <1>2, <1>3, PadsAssumption DEF FUNC_NULL, FUNC_PERIPH
    <2> QED  BY <1>3, <2>1, <2>2 DEF pio_pads_chip_drive, ApplyOverride
  <1> QED  BY <1>1, <1>2, <1>3

(* The pad bank is consistent after every register write, pin write,       *)
(* enable, reset and tick: it is well formed, nobody drives through the    *)
(* mux who is not selected, and the cached masks and directions agree with *)
(* the registers pio_pads_resolve derives them from.                       *)
THEOREM PadsStayConsistent == Spec => []PadsConsistent
  <1>1. Init => Inv  BY InvInit
  <1>2. Inv /\ [Next]_vars => Inv'  BY InvNext
  <1>3. Inv => PadsConsistent
    BY InvMux DEF PadsConsistent, Inv
  <1> QED  BY <1>1, <1>2, <1>3, PTL DEF Spec

(* A state machine sees a pin two tick ends late, whatever is done to the  *)
(* pin, its overrides or its isolation in between.                         *)
THEOREM PadsSyncLag == Spec => []SyncLag
  <1>1. Init => Inv  BY InvInit
  <1>2. Inv /\ [Next]_vars => Inv'  BY InvNext
  <1>3. Inv => SyncLag
    BY DEF Inv, Synced, SyncLag, pio_input_level
  <1> QED  BY <1>1, <1>2, <1>3, PTL DEF Spec

(***************************************************************************)
(* Isolation and the bus keeper.                                           *)
(***************************************************************************)

(* The drive of an isolated pad is its latch.                              *)
LEMMA IsolatedDrive ==
    ASSUME NEW q, NEW n \in q.pad_iso
    PROVE  LET d == pio_pads_chip_drive(q)
           IN  (n \in d.oe <=> n \in q.iso_oe) /\ (n \in d.lvl <=> n \in q.iso_levels)
  BY DEF pio_pads_chip_drive

(* While both pulls are on and nobody drives, the wire is the keeper's     *)
(* state.                                                                  *)
LEMMA KeptLevel ==
    ASSUME NEW q, NEW n \in Pins, Kept(q, n)
    PROVE  n \in pads_live(q) <=> n \in q.keep_state
  <1> DEFINE d == pio_pads_chip_drive(q)
  <1>1. /\ n \in q.pad_pue /\ n \in q.pad_pde /\ n \notin q.ext_drive /\ n \notin d.oe
    BY DEF Kept
  <1> HIDE DEF d
  <1>2. n \in LiveUnder(q, d) <=> n \in q.keep_state
    BY <1>1 DEF LiveUnder
  <1> QED  BY <1>2 DEF pads_live, d

(* What a step does to the latches: only raising or clearing ISO and the   *)
(* reset move the isolation latches, only a tick and the reset move the    *)
(* keeper.                                                                 *)
LEMMA LatchesMove ==
    ASSUME Inv, Next
    PROVE  /\ \/ SameIso(p', p) \/ ResetHw
              \/ \E n \in Pins, v \in BOOLEAN : SetIso(n, v)
           /\ SameKeeper(p', p) \/ ResetHw \/ Tick
  <1>1. p \in Pads /\ Routed(p) /\ UNCHANGED user
    BY DEF Inv, TypeOK, Next
  <1>2. CASE SmStep
    BY <1>1, <1>2, SmStepKeeps
  <1>3. CASE Tick
    BY <1>1, <1>3, TickKeeps
  <1>4. CASE Settle
    BY <1>1, <1>4, SettleFrame DEF Settle
  <1>5. CASE PlainWrite
    BY <1>1, <1>5, PlainFrame DEF Frame
  <1>6. ASSUME NEW n \in Pins, NEW v \in BOOLEAN, SetIso(n, v)
        PROVE  SameKeeper(p', p)
    BY <1>1, <1>6, IsoFrame DEF SetIso, Host
  <1>7. ASSUME NEW n \in Pins, NEW f \in Funcs, SetFunction(n, f)
        PROVE  SameIso(p', p) /\ SameKeeper(p', p)
    BY <1>1, <1>7, FunctionFrame DEF SetFunction, Host
  <1> QED
    BY <1>2, <1>3, <1>4, <1>5, <1>6, <1>7 DEF Next, Registers, PlainWrite

(* Isolation holds the pad's drive from the call that raises ISO until it  *)
(* is cleared, whatever the state machines, the mux, the overrides and OD  *)
(* do.                                                                     *)
THEOREM PadsIsoFreezes == Spec => IsoFreezes
  <1> DEFINE A == \A n \in Pins :
                    (n \in p'.pad_iso /\ ~ResetHw) =>
                      LET d == pio_pads_chip_drive(p)
                          e == pio_pads_chip_drive(p')
                      IN  /\ (n \in d.oe) = (n \in e.oe)
                          /\ (n \in d.lvl) = (n \in e.lvl)
  <1>1. Inv /\ [Next]_vars => [A]_vars
    <2> SUFFICES ASSUME Inv, Next, NEW n \in Pins, n \in p'.pad_iso, ~ResetHw
                 PROVE  /\ n \in pio_pads_chip_drive(p).oe
                             <=> n \in pio_pads_chip_drive(p').oe
                        /\ n \in pio_pads_chip_drive(p).lvl
                             <=> n \in pio_pads_chip_drive(p').lvl
      OBVIOUS
    <2>1. /\ n \in pio_pads_chip_drive(p').oe <=> n \in p'.iso_oe
          /\ n \in pio_pads_chip_drive(p').lvl <=> n \in p'.iso_levels
      BY IsolatedDrive
    <2>2. n \in p.pad_iso => /\ n \in pio_pads_chip_drive(p).oe <=> n \in p.iso_oe
                             /\ n \in pio_pads_chip_drive(p).lvl <=> n \in p.iso_levels
      BY IsolatedDrive
    <2>3. CASE SameIso(p', p)
      BY <2>1, <2>2, <2>3 DEF SameIso
    <2>4. ASSUME NEW m \in Pins, NEW v \in BOOLEAN, SetIso(m, v)
          PROVE  /\ n \in pio_pads_chip_drive(p).oe
                      <=> n \in pio_pads_chip_drive(p').oe
                 /\ n \in pio_pads_chip_drive(p).lvl
                      <=> n \in pio_pads_chip_drive(p').lvl
      <3> DEFINE d == pio_pads_chip_drive(p)
                 rising == v /\ m \notin p.pad_iso
      <3>1. /\ p'.pad_iso = SetTo(p.pad_iso, m, v)
            /\ p'.iso_oe = IF rising THEN SetTo(p.iso_oe, m, m \in d.oe) ELSE p.iso_oe
            /\ p'.iso_levels = IF rising THEN SetTo(p.iso_levels, m, m \in d.lvl)
                               ELSE p.iso_levels
        BY <2>4, IsoFrame DEF SetIso, Host, Inv, TypeOK
      <3> HIDE DEF d
      <3>2. n \in p.pad_iso => (n \in d.oe <=> n \in p.iso_oe)
                                 /\ (n \in d.lvl <=> n \in p.iso_levels)
        BY <2>2 DEF d
      <3>3. (n \in d.oe <=> n \in p'.iso_oe) /\ (n \in d.lvl <=> n \in p'.iso_levels)
        BY <3>1, <3>2 DEF SetTo
      <3> QED  BY <2>1, <3>3 DEF d
    <2> QED  BY <2>3, <2>4, LatchesMove
  <1>2. Init => Inv  BY InvInit
  <1>3. Inv /\ [Next]_vars => Inv'  BY InvNext
  <1> HIDE DEF A
  <1>4. Spec => [][A]_vars
    BY <1>1, <1>2, <1>3, PTL DEF Spec
  <1> QED  BY <1>4 DEF IsoFreezes, A

(* While both pulls are on and nobody drives, the level of the wire does   *)
(* not move, across ticks and whatever else changes on the pad.            *)
THEOREM PadsKeeperHolds == Spec => KeeperHolds
  <1> DEFINE A == \A n \in Pins :
                    (Kept(p, n) /\ Kept(p', n)) =>
                      ((n \in pads_live(p)) = (n \in pads_live(p')))
  <1>1. Inv /\ [Next]_vars => [A]_vars
    <2> SUFFICES ASSUME Inv, Next, NEW n \in Pins, Kept(p, n), Kept(p', n)
                 PROVE  n \in pads_live(p) <=> n \in pads_live(p')
      OBVIOUS
    <2>1. /\ n \in pads_live(p) <=> n \in p.keep_state
          /\ n \in pads_live(p') <=> n \in p'.keep_state
      BY KeptLevel
    <2>2. CASE SameKeeper(p', p)
      BY <2>1, <2>2 DEF SameKeeper
    <2>3. CASE ResetHw
      <3>1. p'.pad_pue = {}
        BY <2>3, ResetFrame DEF ResetHw, Host, Inv, TypeOK
      <3> QED  BY <3>1 DEF Kept
    <2>4. CASE Tick
      <3> DEFINE d == pio_pads_chip_drive(p)
      <3>1. p'.keep_state = pads_update_keeper(p).keep_state
        BY <2>4, TickKeeps DEF Next
      <3>2. n \notin d.oe /\ n \notin p.ext_drive
        BY DEF Kept
      <3> HIDE DEF d
      <3>3. pads_update_keeper(p).keep_state
              = (p.keep_state \ (d.oe \union p.ext_drive))
                  \union ((d.lvl \intersect d.oe)
                          \union ((p.ext_levels \intersect p.ext_drive) \ d.oe))
        BY DEF pads_update_keeper, KeptUnder, d, Inv, TypeOK, Pads
      <3>4. n \in p'.keep_state <=> n \in p.keep_state
        BY <3>1, <3>2, <3>3
      <3> QED  BY <2>1, <3>4
    <2> QED  BY <2>2, <2>3, <2>4, LatchesMove
  <1>2. Init => Inv  BY InvInit
  <1>3. Inv /\ [Next]_vars => Inv'  BY InvNext
  <1> HIDE DEF A
  <1>4. Spec => [][A]_vars
    BY <1>1, <1>2, <1>3, PTL DEF Spec
  <1> QED  BY <1>4 DEF KeeperHolds, A
============================================================================
