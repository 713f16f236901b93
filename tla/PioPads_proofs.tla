-------------------------- MODULE PioPads_proofs --------------------------
(***************************************************************************)
(* Facts about the pad operators that the proofs about the pad bank and    *)
(* about the engine share: the highest claim exists, the resolved          *)
(* directions depend on the claims alone, and what resolving the pads and  *)
(* clocking them leave as it was.                                          *)
(***************************************************************************)
EXTENDS PioPads, WellFoundedInduction, TLAPS

(***************************************************************************)
(* Naturals, and the highest claim.                                        *)
(***************************************************************************)

(* Every set of naturals has a least member.                               *)
LEMMA Least ==
    ASSUME NEW T \in SUBSET Nat, T # {}
    PROVE  \E x \in T : \A y \in T : x <= y
  <1>1. \E x \in T : \A y \in T : ~(<<y, x>> \in OpToRel(<, Nat))
    <2> DEFINE R == OpToRel(<, Nat)
    <2>1. IsWellFoundedOn(R, Nat)
      BY NatLessThanWellFounded
    <2> HIDE DEF R
    <2>2. \E x \in T : \A y \in T : ~(<<y, x>> \in R)
      BY <2>1, WFMin
    <2> QED  BY <2>2 DEF R
  <1>2. PICK x \in T : \A y \in T : ~(<<y, x>> \in OpToRel(<, Nat))
    BY <1>1
  <1>3. \A y \in T : x <= y
    <2>1. OpToRel(<, Nat) = {ss \in Nat \X Nat : ss[1] < ss[2]}
      BY DEF OpToRel
    <2>2. \A y \in T : y < x => <<y, x>> \in OpToRel(<, Nat)
      <3> HIDE DEF OpToRel
      <3> QED  BY <2>1
    <2>3. \A y \in T : ~(y < x)
      BY <1>2, <2>2, Zenon
    <2> QED  BY <2>3
  <1> QED  BY <1>3

(* Induction, with the property as a set.                                  *)
LEMMA SetInduction ==
    ASSUME NEW S, 0 \in S, \A n \in Nat : n \in S => n + 1 \in S
    PROVE  Nat \subseteq S
  <1> SUFFICES ASSUME Nat \ S # {} PROVE FALSE
    OBVIOUS
  <1>1. PICK x \in Nat \ S : \A y \in Nat \ S : x <= y
    BY Least
  <1>2. x # 0 /\ x - 1 \in Nat /\ x - 1 \in S
    BY <1>1
  <1> QED  BY <1>1, <1>2

(* A chain of N steps from a, the k-th by F[k - 1].                        *)
IsChain(f, a, F, N) == f[0] = a /\ \A k \in 1 .. N : f[k] = F[k - 1][f[k - 1]]

(* Steps within a set can be chained.                                      *)
LEMMA ChainExists ==
    ASSUME NEW X, NEW a \in X, NEW F \in [Nat -> [X -> X]], NEW N \in Nat
    PROVE  \E f \in [0 .. N -> X] : IsChain(f, a, F, N)
  <1> DEFINE S == {n \in Nat : \E g \in [0 .. n -> X] : IsChain(g, a, F, n)}
  <1>1. 0 \in S
    <2>1. [k \in 0 .. 0 |-> a] \in [0 .. 0 -> X]
      OBVIOUS
    <2>2. IsChain([k \in 0 .. 0 |-> a], a, F, 0)
      BY DEF IsChain
    <2> QED  BY <2>1, <2>2
  <1>2. ASSUME NEW n \in Nat, n \in S PROVE n + 1 \in S
    <2>1. PICK g \in [0 .. n -> X] : IsChain(g, a, F, n)
      BY <1>2
    <2> DEFINE h == [k \in 0 .. n + 1 |-> IF k <= n THEN g[k] ELSE F[n][g[n]]]
    <2>2. g[n] \in X /\ F[n][g[n]] \in X
      BY <2>1
    <2>3. h \in [0 .. n + 1 -> X]
      BY <2>2
    <2>4. h[0] = a
      BY <2>1 DEF IsChain
    <2>5. ASSUME NEW k \in 1 .. n + 1 PROVE h[k] = F[k - 1][h[k - 1]]
      <3>1. CASE k <= n
        BY <2>1, <3>1 DEF IsChain
      <3>2. CASE k = n + 1
        BY <3>2
      <3> QED  BY <3>1, <3>2
    <2> HIDE DEF h
    <2>6. IsChain(h, a, F, n + 1)
      BY <2>4, <2>5 DEF IsChain
    <2>7. \E f \in [0 .. n + 1 -> X] : IsChain(f, a, F, n + 1)
      BY <2>3, <2>6
    <2>8. n + 1 \in Nat
      OBVIOUS
    <2> QED  BY <2>7, <2>8, Zenon
  <1> HIDE DEF S
  <1>3. Nat \subseteq S
    BY <1>1, <1>2, SetInduction
  <1> QED  BY <1>3 DEF S

(* Every bounded set of naturals has a greatest member.                    *)
LEMMA Greatest ==
    ASSUME NEW N \in Nat, NEW T \in SUBSET (0 .. N), T # {}
    PROVE  \E x \in T : \A y \in T : y <= x
  <1> DEFINE U == {N - x : x \in T}
  <1>1. U \in SUBSET Nat /\ U # {}
    <2>1. \A x \in T : N - x \in Nat
      OBVIOUS
    <2> QED  BY <2>1
  <1>2. PICK u \in U : \A v \in U : u <= v
    BY <1>1, Least
  <1>3. PICK x \in T : u = N - x
    BY <1>2
  <1>4. \A y \in T : u <= N - y
    BY <1>2
  <1> QED  BY <1>3, <1>4

(* Highest picks a member: of any claims there are, one is last in scan    *)
(* order.                                                                  *)
LEMMA HighestIn ==
    ASSUME NEW M \in Nat, NEW N \in Nat,
           NEW S \in SUBSET ((0 .. M) \X (0 .. N)), S # {}
    PROVE  Highest(S) \in S
  <1> DEFINE I == {c[1] : c \in S}
  <1>1. I \in SUBSET (0 .. M) /\ I # {}
    OBVIOUS
  <1>2. PICK i \in I : \A y \in I : y <= i
    BY <1>1, Greatest
  <1> DEFINE C == {c \in S : c[1] = i}
             J == {c[2] : c \in C}
  <1>3. J \in SUBSET (0 .. N) /\ J # {}
    BY <1>2
  <1>4. PICK j \in J : \A y \in J : y <= j
    BY <1>3, Greatest
  <1>5. PICK c \in S : c[1] = i /\ c[2] = j
    BY <1>4
  <1>6. ASSUME NEW d \in S
        PROVE  d[1] < c[1] \/ (d[1] = c[1] /\ d[2] <= c[2])
    <2>1. d[1] \in 0 .. M /\ i \in 0 .. M /\ d[1] <= i
      BY <1>1, <1>2
    <2>2. d[1] = i => d[2] <= j
      BY <1>4
    <2> QED  BY <1>5, <2>1, <2>2
  <1>7. \E e \in S : \A d \in S : d[1] < e[1] \/ (d[1] = e[1] /\ d[2] <= e[2])
    BY <1>6
  <1> QED  BY <1>7 DEF Highest

(* Of the claims of a pad set, one is picked.                              *)
LEMMA ClaimPicked ==
    ASSUME NEW q, Len(q.owners) \in Nat, NEW S \in SUBSET (Slots0(q) \X SMs), S # {}
    PROVE  Highest(S) \in S
  <1>1. Len(q.owners) - 1 \in Nat /\ NUM_SM - 1 \in Nat
    BY PadsAssumption DEF Slots0
  <1> QED  BY <1>1, HighestIn DEF Slots0, SMs

(***************************************************************************)
(* What the operations leave alone.                                        *)
(***************************************************************************)

(* The registers behind the routing caches, the directions and the         *)
(* synchroniser.                                                           *)
SameRouting(q, r) ==
    /\ q.owners = r.owners /\ q.funcsel = r.funcsel
    /\ q.pio_func_mask = r.pio_func_mask /\ q.periph_sel_mask = r.periph_sel_mask

SameDirs(q, r) == q.pin_dirs = r.pin_dirs

SameSync(q, r) == q.sync0 = r.sync0 /\ q.sync1 = r.sync1

(* The latches of isolation and of the bus keeper.                         *)
SameIso(q, r) ==
    /\ q.pad_iso = r.pad_iso /\ q.iso_oe = r.iso_oe /\ q.iso_levels = r.iso_levels

SameKeeper(q, r) == q.keep_state = r.keep_state

(* Resolving writes the levels and the directions and nothing else.        *)
LEMMA ResolveFrame ==
    ASSUME NEW q \in Pads, NEW r, NEW e
    PROVE  LET z == pio_pads_resolve(q, r, e)
           IN  /\ z \in Pads /\ z.pin_dirs = ResolvedDirs(q, r, e)
               /\ SameRouting(z, q) /\ SameSync(z, q)
               /\ SameIso(z, q) /\ SameKeeper(z, q)
  <1> DEFINE d == ResolvedDirs(q, r, e)
             l == ResolvedLevels(q, r)
             z == [q EXCEPT !.pin_dirs = d, !.pin_levels = l]
  <1>1. d \in SUBSET Pins /\ l \in SUBSET Pins
    BY DEF ResolvedDirs, ResolvedLevels
  <1> HIDE DEF d, l
  <1>2. /\ z \in Pads /\ z.pin_dirs = d
        /\ SameRouting(z, q) /\ SameSync(z, q) /\ SameIso(z, q) /\ SameKeeper(z, q)
    BY <1>1 DEF Pads, SameRouting, SameSync, SameIso, SameKeeper
  <1> QED  BY <1>2 DEF pio_pads_resolve, d, l

(* Directions depend on the owners, the routing masks, and the oe, dir and *)
(* enable of the owners' state machines only.                              *)
LEMMA DirsDepend ==
    ASSUME NEW q, NEW z, NEW r, NEW w, NEW e, NEW f,
           q.owners \in Seq(Blocks), z.owners = q.owners,
           z.pio_func_mask = q.pio_func_mask,
           \A i \in 1 .. Len(q.owners), s \in SMs :
              /\ w[q.owners[i]][s].dir = r[q.owners[i]][s].dir
              /\ w[q.owners[i]][s].oe = r[q.owners[i]][s].oe
              /\ f[q.owners[i]][s] = e[q.owners[i]][s]
    PROVE  ResolvedDirs(z, w, f) = ResolvedDirs(q, r, e)
  <1> DEFINE D == Slots0(q) \X SMs
  <1>1. Slots0(z) = Slots0(q) /\ Len(q.owners) \in Nat
    BY DEF Slots0
  <1>2. \A c \in D : /\ RegAt(z, w, c).dir = RegAt(q, r, c).dir
                     /\ RegAt(z, w, c).oe = RegAt(q, r, c).oe
                     /\ f[z.owners[c[1] + 1]][c[2]] = e[q.owners[c[1] + 1]][c[2]]
    <2> SUFFICES ASSUME NEW c \in D
                 PROVE  /\ RegAt(z, w, c).dir = RegAt(q, r, c).dir
                        /\ RegAt(z, w, c).oe = RegAt(q, r, c).oe
                        /\ f[z.owners[c[1] + 1]][c[2]] = e[q.owners[c[1] + 1]][c[2]]
      OBVIOUS
    <2>1. c[1] + 1 \in 1 .. Len(q.owners) /\ c[2] \in SMs
      BY <1>1 DEF Slots0
    <2> QED  BY <2>1 DEF RegAt
  <1>3. \A n, v : DirClaims(z, w, f, n, v) = DirClaims(q, r, e, n, v)
    <2> TAKE n, v
    <2>1. DirClaims(z, w, f, n, v)
            = {c \in D : /\ n \in q.pio_func_mask[c[1]]
                         /\ n \in RegAt(z, w, c).dir
                         /\ f[z.owners[c[1] + 1]][c[2]] = v}
      BY <1>1 DEF DirClaims
    <2>2. DirClaims(q, r, e, n, v)
            = {c \in D : /\ n \in q.pio_func_mask[c[1]]
                         /\ n \in RegAt(q, r, c).dir
                         /\ e[q.owners[c[1] + 1]][c[2]] = v}
      BY DEF DirClaims
    <2> HIDE DEF D
    <2> QED  BY <1>2, <2>1, <2>2
  <1>4. ASSUME NEW n, NEW v, DirClaims(q, r, e, n, v) # {}
        PROVE  RegAt(z, w, Highest(DirClaims(q, r, e, n, v))).oe
                 = RegAt(q, r, Highest(DirClaims(q, r, e, n, v))).oe
    <2> DEFINE S == DirClaims(q, r, e, n, v)
    <2>1. S \in SUBSET D /\ S # {}
      BY <1>4 DEF DirClaims
    <2>2. Highest(S) \in S
      BY <1>1, <2>1, ClaimPicked
    <2> HIDE DEF S
    <2>3. Highest(S) \in D
      BY <2>1, <2>2
    <2>4. RegAt(z, w, Highest(S)).oe = RegAt(q, r, Highest(S)).oe
      BY <1>2, <2>3
    <2> QED  BY <2>4 DEF S
  <1>5. ASSUME NEW n \in Pins
        PROVE  n \in ResolvedDirs(z, w, f) <=> n \in ResolvedDirs(q, r, e)
    <2> DEFINE run == DirClaims(q, r, e, n, TRUE)
               park == DirClaims(q, r, e, n, FALSE)
    <2>1. DirClaims(z, w, f, n, TRUE) = run /\ DirClaims(z, w, f, n, FALSE) = park
      BY <1>3
    <2>2. /\ run # {} => RegAt(z, w, Highest(run)).oe = RegAt(q, r, Highest(run)).oe
          /\ park # {} => RegAt(z, w, Highest(park)).oe = RegAt(q, r, Highest(park)).oe
      BY <1>4
    <2>3. n \in ResolvedDirs(z, w, f) <=>
            \/ run # {} /\ n \in RegAt(z, w, Highest(run)).oe
            \/ run = {} /\ park # {} /\ n \in RegAt(z, w, Highest(park)).oe
      BY <2>1 DEF ResolvedDirs
    <2>4. n \in ResolvedDirs(q, r, e) <=>
            \/ run # {} /\ n \in RegAt(q, r, Highest(run)).oe
            \/ run = {} /\ park # {} /\ n \in RegAt(q, r, Highest(park)).oe
      BY DEF ResolvedDirs
    <2> HIDE DEF run, park
    <2> QED  BY <2>2, <2>3, <2>4
  <1>6. ResolvedDirs(z, w, f) \subseteq Pins /\ ResolvedDirs(q, r, e) \subseteq Pins
    BY DEF ResolvedDirs
  <1> QED  BY <1>5, <1>6

(* The end of a tick moves the keeper and the flip-flops only.             *)
LEMMA ClockFrame ==
    ASSUME NEW p \in Pads
    PROVE  LET q == ClockPads(p)
           IN  /\ q \in Pads /\ SameRouting(q, p) /\ SameDirs(q, p) /\ SameIso(q, p)
               /\ q.pin_levels = p.pin_levels
               /\ q.keep_state = pads_update_keeper(p).keep_state
               /\ q.sync0 = pads_input_view(pads_update_keeper(p))
               /\ q.sync0 \in SUBSET Pins
               /\ q.sync1 = p.sync0
  <1> DEFINE k == pads_update_keeper(p)
             s == k.keep_state
             v == pads_input_view(k)
  <1>1. /\ k \in Pads /\ SameRouting(k, p) /\ SameDirs(k, p) /\ SameIso(k, p)
        /\ SameSync(k, p) /\ k.pin_levels = p.pin_levels
    <2> DEFINE d == pio_pads_chip_drive(p)
               x == (p.keep_state \ (d.oe \union p.ext_drive))
                      \union ((d.lvl \intersect d.oe)
                              \union ((p.ext_levels \intersect p.ext_drive) \ d.oe))
    <2>1. d.oe \in SUBSET Pins /\ d.lvl \in SUBSET Pins
      <3>1. \A over, S : ApplyOverride(over, S) \in SUBSET Pins
        BY DEF ApplyOverride
      <3>2. p.iso_oe \in SUBSET Pins /\ p.iso_levels \in SUBSET Pins
        BY DEF Pads
      <3> QED  BY <3>1, <3>2 DEF pio_pads_chip_drive
    <2>2. p.keep_state \in SUBSET Pins /\ p.ext_levels \in SUBSET Pins
      BY DEF Pads
    <2> HIDE DEF d
    <2>3. x \in SUBSET Pins
      BY <2>1, <2>2
    <2>4. k = [p EXCEPT !.keep_state = x]
      BY DEF d, pads_update_keeper, KeptUnder
    <2> HIDE DEF x, k
    <2> QED  BY <2>3, <2>4 DEF Pads, SameRouting, SameDirs, SameIso, SameSync
  <1>2. v \in SUBSET Pins
    BY DEF pads_input_view, ApplyOverride
  <1>3. ClockPads(p) = [k EXCEPT !.sync1 = k.sync0, !.sync0 = v]
    BY DEF ClockPads, ClockSync
  <1> HIDE DEF k, v
  <1>4. /\ ClockPads(p) \in Pads /\ SameRouting(ClockPads(p), k)
        /\ SameDirs(ClockPads(p), k) /\ SameIso(ClockPads(p), k)
        /\ ClockPads(p).pin_levels = k.pin_levels
        /\ ClockPads(p).keep_state = k.keep_state
        /\ ClockPads(p).sync0 = v /\ ClockPads(p).sync1 = k.sync0
    <2> DEFINE u == k.sync0
               z == [k EXCEPT !.sync1 = u, !.sync0 = v]
    <2>1. k \in Pads /\ u \in SUBSET Pins
      BY <1>1 DEF Pads
    <2> HIDE DEF u
    <2>2. /\ z \in Pads /\ SameRouting(z, k) /\ SameDirs(z, k) /\ SameIso(z, k)
          /\ z.pin_levels = k.pin_levels
          /\ z.keep_state = k.keep_state /\ z.sync0 = v /\ z.sync1 = u
      BY <1>2, <2>1 DEF Pads, SameRouting, SameDirs, SameIso
    <2> QED  BY <1>3, <2>2 DEF u
  <1>5. k.sync0 = p.sync0
    BY <1>1 DEF SameSync
  <1> QED
    BY <1>1, <1>2, <1>4, <1>5 DEF k, v, SameRouting, SameDirs, SameIso
============================================================================
