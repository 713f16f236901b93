------------------------- MODULE PioPrograms_proofs -------------------------
(***************************************************************************)
(* Proofs about state machines that depend on each other, for every number *)
(* of blocks and state machines, every divider, delay and host.            *)
(***************************************************************************)
EXTENDS PioPrograms, PioSim_proofs, FiniteSetTheorems

(***************************************************************************)
(* What handlers leave alone.                                              *)
(***************************************************************************)

(* z differs from m in its pin registers and pads only.                    *)
PinsOnly(m, z) == z.cfg = m.cfg /\ z.sm = m.sm /\ z.irq = m.irq

(* So does a machine whose pads are resolved, or whose pins are driven.    *)
LEMMA DrivesPinsOnly ==
    ASSUME NEW m, m \in Machines, NEW b
    PROVE  /\ PinsOnly(m, ResolvePads(m, b))
           /\ \A s, base, count, w : PinsOnly(m, drive_pins(m, b, s, base, count, w))
           /\ \A s, base, count, w : PinsOnly(m, drive_pindirs(m, b, s, base, count, w))
  BY DEF PinsOnly, ResolvePads, drive_pins, drive_pindirs, Machines

(* So does a side-set.                                                     *)
LEMMA SideSetPinsOnly ==
    ASSUME NEW m, m \in Machines, NEW b, NEW s, NEW i
    PROVE  PinsOnly(m, SideSet(m, b, s, i))
  <1>1. PinsOnly(m, m)
    BY DEF PinsOnly
  <1> QED  BY <1>1, DrivesPinsOnly DEF SideSet

(* An instruction with its side-set: the outcome is the handler's, but for *)
(* pins.                                                                   *)
LEMMA ExecOneIs ==
    ASSUME NEW m, MachineOK(m), NEW b \in Blocks, NEW s \in SMs, InsnOK, NEW i \in Insns
    PROVE  LET h == Execute(m, b, s, i)
               e == exec_one(m, b, s, i)
           IN  /\ PinsOnly(h.m, e.m) /\ e.stalled = h.stalled
               /\ e.set_pc = h.set_pc /\ e.next_pc = h.next_pc
               /\ MachineOK(h.m) /\ MachineOK(e.m) /\ h.m \in Machines
  <1> DEFINE h == Execute(m, b, s, i)
             z == SideSet(h.m, b, s, i)
  <1>1. h \in Outcomes(m, b) /\ exec_one(m, b, s, i) \in Outcomes(m, b)
    BY ExecuteOutcome, ExecOneOutcome
  <1>2. exec_one(m, b, s, i) = [h EXCEPT !.m = z]
    BY DEF exec_one
  <1> HIDE DEF h
  <1>3. PinsOnly(h.m, z)
    BY <1>1, SideSetPinsOnly DEF Outcomes
  <1> HIDE DEF z
  <1>4. /\ [h EXCEPT !.m = z].m = z /\ [h EXCEPT !.m = z].stalled = h.stalled
        /\ [h EXCEPT !.m = z].set_pc = h.set_pc
        /\ [h EXCEPT !.m = z].next_pc = h.next_pc
    BY <1>1 DEF Outcomes
  <1>5. MachineOK(h.m) /\ MachineOK(exec_one(m, b, s, i).m) /\ h.m \in Machines
    BY <1>1 DEF Outcomes, Evolves, Frames
  <1> QED  BY <1>2, <1>3, <1>4, <1>5 DEF h

(***************************************************************************)
(* The token ring.                                                         *)
(***************************************************************************)
At(m, b) == m.sm[b][0].pc
Up(m, b) == 0 \in m.irq[b]

(* Instruction memory holds the ring's program, and machine m runs it.     *)
RingCode ==
    /\ LINKED /\ INSN_COUNT > 2
    /\ \A b \in Blocks : Takes(insn[b][0]) /\ Works(insn[b][1]) /\ Passes_on(insn[b][2])

RunsRing(m) ==
    \A b \in Blocks :
      /\ At(m, b) \in 0 .. 2 /\ ~m.sm[b][0].exec_pending
      /\ m.cfg[b][0].wrap_bottom = 0 /\ m.cfg[b][0].wrap_top = 2
      /\ \A s \in SMs \ {0} : ~m.sm[b][s].enabled

(* One flag is up and nobody works, or one block works and no flag is up.  *)
HasToken(m, b) ==
    /\ \A o \in Blocks : o # b => ~Up(m, o) /\ At(m, o) = 0
    /\ Up(m, b) <=> (At(m, b) = 0)

Token(m, out) ==
    IF out THEN \E b \in Blocks : HasToken(m, b)
    ELSE \A b \in Blocks : ~Up(m, b) /\ At(m, b) = 0

(* What a step of block b does to the token: nothing, work on, take the    *)
(* flag, or raise another's.                                               *)
TokenStep(m, z, b) ==
    /\ \A o \in Blocks \ {b} : At(z, o) = At(m, o)
    /\ \/ /\ \A o \in Blocks : Up(z, o) <=> Up(m, o)
          /\ At(z, b) = At(m, b) \/ (At(m, b) = 1 /\ At(z, b) = 2)
       \/ /\ At(m, b) = 0 /\ At(z, b) = 1 /\ Up(m, b)
          /\ \A o \in Blocks : Up(z, o) <=> (Up(m, o) /\ o # b)
       \/ /\ At(m, b) = 2 /\ At(z, b) = 0
          /\ \E t \in Blocks : \A o \in Blocks : Up(z, o) <=> (Up(m, o) \/ o = t)

(* Such a step neither loses nor copies the token.                         *)
LEMMA TokenKept ==
    ASSUME NEW m, NEW z, NEW b \in Blocks, NEW out \in BOOLEAN,
           Token(m, out), TokenStep(m, z, b)
    PROVE  Token(z, out)
  <1>1. CASE ~out
    BY <1>1 DEF Token, TokenStep
  <1>2. CASE out
    <2>1. PICK c \in Blocks : HasToken(m, c)
      BY <1>2 DEF Token
    <2>2. CASE /\ \A o \in Blocks : Up(z, o) <=> Up(m, o)
               /\ At(z, b) = At(m, b) \/ (At(m, b) = 1 /\ At(z, b) = 2)
      <3>1. HasToken(z, c)
        BY <2>1, <2>2 DEF HasToken, TokenStep
      <3> QED  BY <1>2, <3>1 DEF Token
    <2>3. CASE /\ At(m, b) = 0 /\ At(z, b) = 1 /\ Up(m, b)
               /\ \A o \in Blocks : Up(z, o) <=> (Up(m, o) /\ o # b)
      <3>1. b = c
        BY <2>1, <2>3 DEF HasToken
      <3>2. HasToken(z, b)
        BY <2>1, <2>3, <3>1 DEF HasToken, TokenStep
      <3> QED  BY <1>2, <3>2 DEF Token
    <2>4. CASE At(m, b) = 2 /\ At(z, b) = 0
      <3>1. b = c /\ \A o \in Blocks : ~Up(m, o)
        BY <2>1, <2>4 DEF HasToken
      <3>2. PICK t \in Blocks : \A o \in Blocks : Up(z, o) <=> (Up(m, o) \/ o = t)
        BY <2>4 DEF TokenStep
      <3>3. HasToken(z, t)
        BY <2>1, <2>4, <3>1, <3>2 DEF HasToken, TokenStep
      <3> QED  BY <1>2, <3>3 DEF Token
    <2> QED  BY <2>2, <2>3, <2>4 DEF TokenStep
  <1> QED  BY <1>1, <1>2

(* Two records are at the same place of the program: PC, stall latch and   *)
(* the mark of a pending word agree.                                       *)
Sits(q, r) == q.pc = r.pc /\ q.exec_pending = r.exec_pending /\ q.stalled = r.stalled

(* z differs from m in pins, flags and the data registers of block b.      *)
KeepsPlace(m, z, b) ==
    z.cfg = m.cfg /\ \A t \in SMs : Sits(z.sm[b][t], m.sm[b][t])

(* State machine 0 exists, and flag 0 is flag 0 for it.                    *)
LEMMA ZeroSm ==
    /\ 0 \in SMs
    /\ \A mode \in {"SELF", "NEXT", "PREV"} : resolve_irq_index(0, mode, 0) = 0
  BY PadsAssumption DEF SMs, resolve_irq_index

(* exec_wait: a `wait 1 irq' on a flag of the own block takes it, or       *)
(* stalls.                                                                 *)
TakesFlag(i, b, s, n) ==
    /\ i.op = "WAIT" /\ i.src = "IRQ" /\ i.pol = TRUE
    /\ irq_target_block(b, i.mode) = {b} /\ n = resolve_irq_index(s, i.mode, i.idx)

LEMMA TakeRuns ==
    ASSUME NEW m, MachineOK(m), NEW b \in Blocks, NEW s \in SMs, NEW i, NEW n,
           TakesFlag(i, b, s, n)
    PROVE  LET h == Execute(m, b, s, i)
           IN  /\ KeepsPlace(m, h.m, b) /\ ~h.set_pc
               /\ n \notin m.irq[b] => h.stalled /\ h.m.irq = m.irq
               /\ n \in m.irq[b] =>
                    /\ ~h.stalled
                    /\ \A o \in Blocks : h.m.irq[o] = IF o = b THEN m.irq[o] \ {n}
                                                      ELSE m.irq[o]
  <1> DEFINE g == [t \in Blocks |-> IF t \in {b} THEN m.irq[t] \ {n} ELSE m.irq[t]]
             z == [m EXCEPT !.irq = g]
  <1>1. Execute(m, b, s, i) = exec_wait(m, b, s, i)
    BY DEF Execute, TakesFlag
  <1>2. exec_wait(m, b, s, i) = IF n \in m.irq[b] THEN Done(z) ELSE Stall(m)
    <2>1. exec_wait(m, b, s, i)
            = IF \E t \in {b} : (n \in m.irq[t]) = TRUE THEN Done(IF TRUE THEN z ELSE m)
              ELSE Stall(m)
      BY DEF exec_wait, TakesFlag
    <2> HIDE DEF z
    <2> QED  BY <2>1
  <1>3. z.irq = g /\ z.cfg = m.cfg /\ z.sm = m.sm
    BY DEF MachineOK, Machines
  <1> HIDE DEF z
  <1>4. KeepsPlace(m, z, b) /\ KeepsPlace(m, m, b)
    BY <1>3 DEF KeepsPlace, Sits
  <1> QED  BY <1>1, <1>2, <1>3, <1>4 DEF Done, Stall

(* exec_mov, exec_set: work on registers or pins.                          *)
LEMMA WorkRuns ==
    ASSUME NEW m, MachineOK(m), NEW b \in Blocks, NEW s \in SMs, NEW i, Works(i)
    PROVE  LET h == Execute(m, b, s, i)
           IN  /\ KeepsPlace(m, h.m, b) /\ ~h.set_pc /\ ~h.stalled
               /\ h.m.irq = m.irq
  <1> DEFINE r == m.sm[b][s]
             Fine(z) == KeepsPlace(m, z, b) /\ z.irq = m.irq
  <1>1. m \in Machines /\ r \in SmRecs
    BY SmRecAt
  <1>2. \A z : PinsOnly(m, z) => Fine(z)
    BY DEF PinsOnly, KeepsPlace, Sits
  <1>3. ASSUME NEW q, Sits(q, r)
        PROVE  Fine(SetSm(m, b, s, q))
    <2> DEFINE f == [m.sm EXCEPT ![b][s] = q]
               z == [m EXCEPT !.sm = f]
    <2>1. \A t \in SMs : f[b][t] = IF t = s THEN q ELSE m.sm[b][t]
      BY <1>1 DEF Machines
    <2> HIDE DEF f
    <2>2. z.sm = f /\ z.cfg = m.cfg /\ z.irq = m.irq
      BY <1>1 DEF Machines
    <2>3. SetSm(m, b, s, q) = z
      BY <1>1 DEF SetSm, f, Machines
    <2> HIDE DEF z, r
    <2>4. \A t \in SMs : Sits(z.sm[b][t], m.sm[b][t])
      BY <1>3, <2>1, <2>2 DEF Sits, r
    <2> QED  BY <2>2, <2>3, <2>4 DEF KeepsPlace
  <1>4. ASSUME NEW v
        PROVE  /\ Fine(SetSm(m, b, s, [r EXCEPT !.x = v]))
               /\ Fine(SetSm(m, b, s, [r EXCEPT !.y = v]))
               /\ Fine(SetSm(m, b, s, [r EXCEPT !.isr = v, !.isr_count = 0]))
               /\ Fine(SetSm(m, b, s, [r EXCEPT !.osr = v, !.osr_count = 0]))
    <2> HIDE DEF r, Fine
    <2>1. /\ Sits([r EXCEPT !.x = v], r) /\ Sits([r EXCEPT !.y = v], r)
          /\ Sits([r EXCEPT !.isr = v, !.isr_count = 0], r)
          /\ Sits([r EXCEPT !.osr = v, !.osr_count = 0], r)
      BY <1>1 DEF Sits, SmRecs
    <2> QED  BY <1>3, <2>1
  <1>5. ASSUME NEW base, NEW count, NEW w
        PROVE  Fine(drive_pins(m, b, s, base, count, w))
               /\ Fine(drive_pindirs(m, b, s, base, count, w))
    BY <1>1, <1>2, DrivesPinsOnly
  <1>6. Fine(m)
    BY DEF KeepsPlace, Sits
  <1> DEFINE Good(h) == Fine(h.m) /\ ~h.set_pc /\ ~h.stalled
  <1>7. \A z : Fine(z) => Good(Done(z))
    <2> HIDE DEF Fine
    <2> QED  BY DEF Done
  <1> HIDE DEF Fine, Good
  <1>8. CASE i.op = "MOV"
    <2>1. ASSUME NEW v, NEW dst, dst \notin {"EXEC", "PC"}
          PROVE  Good(mov_store(m, b, s, dst, v))
      BY <1>4, <1>5, <1>6, <1>7, <2>1, Zenon DEF mov_store
    <2>2. Good(exec_mov(m, b, s, i))
      BY <2>1 DEF exec_mov, Works
    <2>3. Execute(m, b, s, i) = exec_mov(m, b, s, i)
      BY <1>8 DEF Execute
    <2> QED  BY <2>2, <2>3 DEF Good, Fine
  <1>9. CASE i.op = "SET"
    <2>1. Good(exec_set(m, b, s, i))
      BY <1>4, <1>5, <1>6, <1>7, Zenon DEF exec_set
    <2>2. Execute(m, b, s, i) = exec_set(m, b, s, i)
      BY <1>9 DEF Execute
    <2> QED  BY <2>1, <2>2 DEF Good, Fine
  <1> QED  BY <1>8, <1>9 DEF Works

(* exec_irq: the flag of the neighbour goes up.                            *)
LEMMA PassRuns ==
    ASSUME NEW m, MachineOK(m), NEW b \in Blocks, NEW i, Passes_on(i), LINKED
    PROVE  LET h == Execute(m, b, 0, i)
           IN  /\ KeepsPlace(m, h.m, b) /\ ~h.set_pc /\ ~h.stalled
               /\ \E t \in Blocks : \A o \in Blocks : Up(h.m, o) <=> (Up(m, o) \/ o = t)
  <1>1. PICK t \in Blocks : irq_target_block(b, i.mode) = {t}
    <2>1. /\ (b + 1) % NUM_PIO \in Blocks
          /\ (b + NUM_PIO - 1) % NUM_PIO \in Blocks
      BY PadsAssumption DEF Blocks
    <2> QED  BY <2>1 DEF Passes_on, irq_target_block
  <1> DEFINE g == [o \in Blocks |-> IF o \in {t} THEN m.irq[o] \union {0} ELSE m.irq[o]]
             z == [m EXCEPT !.irq = g]
  <1>2. Execute(m, b, 0, i) = Done(z)
    <2>1. resolve_irq_index(0, i.mode, i.idx) = 0 /\ ~i.clr /\ ~i.wait
      BY ZeroSm DEF Passes_on
    <2>2. {t} # {}
      OBVIOUS
    <2>3. Execute(m, b, 0, i) = exec_irq(m, b, 0, i)
      BY DEF Passes_on, Execute
    <2> QED  BY <1>1, <2>1, <2>2, <2>3 DEF exec_irq
  <1>3. z.irq = g /\ z.cfg = m.cfg /\ z.sm = m.sm
    BY DEF MachineOK, Machines
  <1> HIDE DEF z
  <1>4. /\ KeepsPlace(m, z, b)
        /\ \A o \in Blocks : Up(z, o) <=> (Up(m, o) \/ o = t)
    BY <1>3 DEF KeepsPlace, Sits, Up
  <1> QED  BY <1>2, <1>4 DEF Done

(* Writing the record of a state machine.                                  *)
LEMMA SetAt ==
    ASSUME NEW m, m \in Machines, NEW b \in Blocks, NEW s \in SMs, NEW q
    PROVE  LET z == SetSm(m, b, s, q)
           IN  /\ z.cfg = m.cfg /\ z.irq = m.irq /\ z.pads = m.pads
               /\ z.sm[b][s] = q
               /\ \A o \in Blocks, t \in SMs : o # b \/ t # s => z.sm[o][t] = m.sm[o][t]
               /\ \A t \in SMs \ {s} : z.sm[b][t] = m.sm[b][t]
  <1> DEFINE f == [m.sm EXCEPT ![b][s] = q]
             z == [m EXCEPT !.sm = f]
  <1>1. f[b][s] = q
    BY DEF Machines
  <1>2. /\ \A o \in Blocks, t \in SMs : o # b \/ t # s => f[o][t] = m.sm[o][t]
        /\ \A t \in SMs \ {s} : f[b][t] = m.sm[b][t]
    BY DEF Machines
  <1>3. SetSm(m, b, s, q) = z
    BY DEF SetSm, Machines
  <1> HIDE DEF f
  <1>4. z.sm = f /\ z.cfg = m.cfg /\ z.irq = m.irq /\ z.pads = m.pads
    BY DEF Machines
  <1> HIDE DEF z
  <1> QED  BY <1>1, <1>2, <1>3, <1>4

LEMMA SetIs ==
    ASSUME NEW m, m \in Machines, NEW b \in Blocks, NEW s \in SMs, NEW q,
           NEW z, z = SetSm(m, b, s, q)
    PROVE  /\ z.irq = m.irq /\ z.cfg = m.cfg /\ z.sm[b][s] = q
           /\ \A t \in SMs \ {s} : z.sm[b][t] = m.sm[b][t]
  BY SetAt

(* A step of block b keeps the ring running if state machine 0 stays in    *)
(* its program with nothing pending.                                       *)
LEMMA StillRuns ==
    ASSUME NEW m, NEW z, NEW b \in Blocks, RunsRing(m), Evolves(m, z, b),
           At(z, b) \in 0 .. 2, ~z.sm[b][0].exec_pending
    PROVE  RunsRing(z) /\ \A o \in Blocks \ {b} : At(z, o) = At(m, o)
  BY DEF RunsRing, Evolves, Frames, At

(* No word is pending, and x is what the instruction at the PC does: it    *)
(* neither jumps nor touches a PC.                                         *)
GoesOn(m, b, s, x) ==
    /\ ~m.sm[b][s].exec_pending
    /\ x = Execute(m, b, s, insn[b][m.sm[b][s].pc])
    /\ KeepsPlace(m, x.m, b) /\ ~x.set_pc

(* The cycle is then a delay, a stall or a step along the program.         *)
LEMMA CycleIs ==
    ASSUME NEW m, MachineOK(m), NEW b \in Blocks, NEW s \in SMs, InsnOK,
           NEW x, GoesOn(m, b, s, x)
    PROVE  LET r == m.sm[b][s]
               c == m.cfg[b][s]
               z == DelayOrExecute(m, insn, b, s)
               q == z.sm[b][s]
           IN  /\ \A t \in SMs \ {s} : Sits(z.sm[b][t], m.sm[b][t])
               /\ ~q.exec_pending
               /\ r.delay > 0 => z.irq = m.irq /\ Sits(q, r)
               /\ ~(r.delay > 0) =>
                    /\ z.irq = x.m.irq /\ (q.stalled <=> x.stalled)
                    /\ q.pc = IF x.stalled THEN r.pc
                              ELSE IF r.pc = c.wrap_top THEN c.wrap_bottom
                              ELSE (r.pc + 1) % INSN_COUNT
  <1> DEFINE r == m.sm[b][s]
             c == m.cfg[b][s]
             i == insn[b][r.pc]
             h == exec_one(m, b, s, i)
             y == h.m
             p == y.sm[b][s]
             z == DelayOrExecute(m, insn, b, s)
  <1>1. r \in SmRecs /\ m \in Machines /\ r.exec_pending = FALSE /\ r.pc \in PCs
    BY SmRecAt, Zenon DEF SmRecs, GoesOn
  <1>2. i \in Insns
    BY <1>1 DEF InsnOK
  <1>3. CASE r.delay > 0
    <2> DEFINE q == [r EXCEPT !.delay = @ - 1]
    <2>1. z = SetSm(m, b, s, q)
      BY <1>3, ZenonT(60) DEF DelayOrExecute
    <2>2. Sits(q, r)
      BY <1>1 DEF Sits, SmRecs
    <2> HIDE DEF z, q
    <2>3. z.irq = m.irq /\ z.sm[b][s] = q
          /\ \A t \in SMs \ {s} : z.sm[b][t] = m.sm[b][t]
      <3> HIDE DEF r
      <3> QED  BY <1>1, <2>1, SetIs
    <2> HIDE DEF r
    <2> QED  BY <1>1, <1>3, <2>2, <2>3 DEF Sits, r, z
  <1>4. CASE ~(r.delay > 0)
    <2>1. /\ PinsOnly(x.m, y) /\ h.stalled = x.stalled /\ ~h.set_pc
          /\ MachineOK(y) /\ y \in Machines
      <3>1. x = Execute(m, b, s, i) /\ ~x.set_pc
        BY Zenon DEF GoesOn
      <3> HIDE DEF i
      <3> QED  BY <1>2, <3>1, ExecOneIs DEF MachineOK
    <2> HIDE DEF h
    <2>2. z = IF h.stalled
              THEN SetSm(y, b, s, [p EXCEPT !.stalled = TRUE])
              ELSE Commit(h, b, s, i, FALSE)
      BY <1>1, <1>4, ZenonT(60) DEF DelayOrExecute, h
    <2> HIDE DEF z, y, i
    <2>3. /\ Sits(p, r) /\ y.cfg[b][s] = c /\ y.irq = x.m.irq /\ p \in SmRecs
          /\ \A t \in SMs \ {s} : Sits(y.sm[b][t], m.sm[b][t])
      <3>1. p \in SmRecs
        BY <2>1, SmRecAt
      <3> QED  BY <2>1, <3>1, Zenon DEF PinsOnly, KeepsPlace, GoesOn
    <2>4. ASSUME NEW q, z = SetSm(y, b, s, q)
          PROVE  /\ z.irq = x.m.irq /\ z.sm[b][s] = q
                 /\ \A t \in SMs \ {s} : Sits(z.sm[b][t], m.sm[b][t])
      <3>1. /\ z.irq = y.irq /\ z.sm[b][s] = q
            /\ \A t \in SMs \ {s} : z.sm[b][t] = y.sm[b][t]
        BY <2>1, <2>4, SetIs, SMTT(30)
      <3> QED  BY <2>3, <3>1
    <2>5. CASE h.stalled
      <3> DEFINE q == [p EXCEPT !.stalled = TRUE]
      <3>1. q.pc = p.pc /\ q.exec_pending = p.exec_pending /\ q.stalled = TRUE
        <4> HIDE DEF p
        <4> QED  BY <2>3 DEF SmRecs
      <3>2. z = SetSm(y, b, s, q)
        BY <2>2, <2>5
      <3> HIDE DEF q, p, r, c
      <3> QED  BY <1>1, <1>4, <2>1, <2>3, <2>4, <2>5, <3>1, <3>2 DEF Sits, r, c, z
    <2>6. CASE ~h.stalled
      <3> DEFINE next == IF p.pc = c.wrap_top THEN c.wrap_bottom ELSE (p.pc + 1) % INSN_COUNT
                 pend == p.exec_pending /\ ~FALSE
                 dl == IF p.exec_pending /\ ~FALSE THEN 0 ELSE i.delay
                 q == [p EXCEPT !.stalled = FALSE, !.pc = next, !.exec_pending = pend,
                                !.delay = dl]
      <3>1. Commit(h, b, s, i, FALSE) = SetSm(y, b, s, q)
        <4> HIDE DEF c
        <4> QED  BY <2>1, <2>3 DEF Commit, y
      <3>2. z = SetSm(y, b, s, q)
        BY <2>2, <2>6, <3>1
      <3> HIDE DEF next, pend, dl
      <3>3. q.pc = next /\ q.exec_pending = pend /\ q.stalled = FALSE
        <4> HIDE DEF p
        <4> QED  BY <2>3 DEF SmRecs
      <3>4. /\ next = IF r.pc = c.wrap_top THEN c.wrap_bottom ELSE (r.pc + 1) % INSN_COUNT
            /\ pend = FALSE
        BY <1>1, <2>3 DEF Sits, next, pend
      <3> HIDE DEF q, p, r, c
      <3>5. /\ z.irq = x.m.irq /\ z.sm[b][s] = q
            /\ \A t \in SMs \ {s} : Sits(z.sm[b][t], m.sm[b][t])
        BY <2>4, <3>2
      <3>6. ~x.stalled
        BY <2>1, <2>6
      <3> HIDE DEF z
      <3> QED  BY <1>4, <3>3, <3>4, <3>5, <3>6 DEF r, c, z
    <2> QED  BY <2>5, <2>6
  <1> QED  BY <1>3, <1>4

(* A cycle of the ring's state machine: a delay, or one of the three       *)
(* instructions.                                                           *)
LEMMA RingCycle ==
    ASSUME NEW m, MachineOK(m), NEW b \in Blocks, InsnOK, RingCode, RunsRing(m)
    PROVE  LET z == DelayOrExecute(m, insn, b, 0)
           IN  RunsRing(z) /\ TokenStep(m, z, b)
  <1> DEFINE r == m.sm[b][0]
             i == insn[b][r.pc]
             x == Execute(m, b, 0, i)
             z == DelayOrExecute(m, insn, b, 0)
  <1>1. /\ Evolves(m, z, b) /\ r.pc = At(m, b)
    BY ZeroSm, CycleEvolves DEF At
  <1>2. /\ r.pc \in {0, 1, 2} /\ ~r.exec_pending
        /\ m.cfg[b][0].wrap_bottom = 0 /\ m.cfg[b][0].wrap_top = 2
    BY <1>1 DEF RunsRing
  <1>3. \A o \in Blocks \ {b} : At(z, o) = At(m, o)
    <2> HIDE DEF z
    <2> QED  BY <1>1 DEF At, Evolves, Frames
  <1> SUFFICES /\ At(z, b) \in 0 .. 2 /\ ~z.sm[b][0].exec_pending
               /\ TokenStep(m, z, b)
    BY <1>1, StillRuns
  <1>4. ASSUME KeepsPlace(m, x.m, b), ~x.set_pc
        PROVE  /\ ~z.sm[b][0].exec_pending
               /\ \/ z.irq = m.irq /\ At(z, b) = r.pc
                  \/ z.irq = x.m.irq /\ x.stalled /\ At(z, b) = r.pc
                  \/ /\ z.irq = x.m.irq /\ ~x.stalled
                     /\ At(z, b) = IF r.pc = 2 THEN 0 ELSE r.pc + 1
    <2> HIDE DEF z
    <2>1. \A k \in {0, 1} : (k + 1) % INSN_COUNT = k + 1
      BY SmAssumption DEF RingCode
    <2>2. /\ ~z.sm[b][0].exec_pending
          /\ r.delay > 0 => z.irq = m.irq /\ z.sm[b][0].pc = r.pc
          /\ ~(r.delay > 0) =>
               /\ z.irq = x.m.irq
               /\ z.sm[b][0].pc = IF x.stalled THEN r.pc
                                  ELSE IF r.pc = 2 THEN 0 ELSE (r.pc + 1) % INSN_COUNT
      <3> HIDE DEF x
      <3>1. x = Execute(m, b, 0, insn[b][m.sm[b][0].pc])
        BY DEF x
      <3>2. /\ ~z.sm[b][0].exec_pending
            /\ r.delay > 0 => z.irq = m.irq /\ Sits(z.sm[b][0], r)
            /\ ~(r.delay > 0) =>
                 /\ z.irq = x.m.irq
                 /\ z.sm[b][0].pc = IF x.stalled THEN r.pc
                                    ELSE IF r.pc = m.cfg[b][0].wrap_top
                                    THEN m.cfg[b][0].wrap_bottom
                                    ELSE (r.pc + 1) % INSN_COUNT
        <4>1. GoesOn(m, b, 0, x)
          BY <1>2, <1>4, <3>1, Zenon DEF GoesOn
        <4> QED  BY <4>1, ZeroSm, CycleIs DEF z
      <3> HIDE DEF r
      <3> QED  BY <1>2, <3>2 DEF Sits
    <2> HIDE DEF r, x
    <2> QED  BY <1>2, <2>1, <2>2 DEF At
  <1> HIDE DEF z, x, i
  <1>5. CASE r.pc = 0
    <2>1. TakesFlag(i, b, 0, 0)
      BY <1>5, ZeroSm DEF RingCode, Takes, i, irq_target_block, TakesFlag
    <2>2. /\ KeepsPlace(m, x.m, b) /\ ~x.set_pc
          /\ ~Up(m, b) => x.stalled /\ x.m.irq = m.irq
          /\ Up(m, b) => /\ ~x.stalled
                         /\ \A o \in Blocks : Up(x.m, o) <=> (Up(m, o) /\ o # b)
      <3>1. x = Execute(m, b, 0, i)
        BY DEF x
      <3> HIDE DEF r
      <3>2. /\ KeepsPlace(m, x.m, b) /\ ~x.set_pc
            /\ 0 \notin m.irq[b] => x.stalled /\ x.m.irq = m.irq
            /\ 0 \in m.irq[b] =>
                 /\ ~x.stalled
                 /\ \A o \in Blocks : x.m.irq[o] = IF o = b THEN m.irq[o] \ {0}
                                                   ELSE m.irq[o]
        BY <2>1, <3>1, ZeroSm, TakeRuns, ZenonT(60)
      <3> QED  BY <3>2 DEF Up
    <2> HIDE DEF r
    <2> QED  BY <1>1, <1>3, <1>4, <1>5, <2>2 DEF TokenStep, Up
  <1>6. CASE r.pc = 1
    <2>1. Works(i)
      BY <1>6 DEF RingCode, i
    <2>2. KeepsPlace(m, x.m, b) /\ ~x.set_pc /\ ~x.stalled /\ x.m.irq = m.irq
      BY <2>1, ZeroSm, WorkRuns DEF x
    <2> HIDE DEF r
    <2> QED  BY <1>1, <1>3, <1>4, <1>6, <2>2 DEF TokenStep, Up
  <1>7. CASE r.pc = 2
    <2>1. Passes_on(i) /\ LINKED
      BY <1>7 DEF RingCode, i
    <2>2. /\ KeepsPlace(m, x.m, b) /\ ~x.set_pc /\ ~x.stalled
          /\ \E t \in Blocks : \A o \in Blocks : Up(x.m, o) <=> (Up(m, o) \/ o = t)
      BY <2>1, PassRuns DEF x
    <2> HIDE DEF r
    <2> QED  BY <1>1, <1>3, <1>4, <1>7, <2>2 DEF TokenStep, Up
  <1> QED  BY <1>2, <1>5, <1>6, <1>7

(* A step of block b that leaves flags and places alone.                   *)
Idles(m, z, b) == Evolves(m, z, b) /\ z.irq = m.irq /\ KeepsPlace(m, z, b)

LEMMA IdlesTwice ==
    ASSUME NEW m, NEW y, NEW z, NEW b, Idles(m, y, b), Idles(y, z, b)
    PROVE  Idles(m, z, b)
  <1>1. Evolves(m, z, b)
    BY EvolvesTrans DEF Idles
  <1> QED  BY <1>1 DEF Idles, KeepsPlace, Sits

(* It keeps the ring running, alone or before and after another step.      *)
LEMMA IdlesRun ==
    ASSUME NEW m, NEW z, NEW b \in Blocks, Idles(m, z, b), RunsRing(m)
    PROVE  RunsRing(z) /\ TokenStep(m, z, b)
  <1>1. At(z, b) = At(m, b) /\ At(z, b) \in 0 .. 2 /\ ~z.sm[b][0].exec_pending
    BY ZeroSm DEF Idles, RunsRing, KeepsPlace, Sits, At
  <1>2. RunsRing(z) /\ \A o \in Blocks \ {b} : At(z, o) = At(m, o)
    BY <1>1, StillRuns DEF Idles
  <1> QED  BY <1>1, <1>2 DEF Idles, TokenStep, Up

LEMMA IdlesAround ==
    ASSUME NEW m, NEW y, NEW x, NEW z, NEW b \in Blocks, RunsRing(m),
           Idles(m, y, b), TokenStep(y, x, b), RunsRing(x), Idles(x, z, b)
    PROVE  RunsRing(z) /\ TokenStep(m, z, b)
  <1>1. /\ \A o \in Blocks \ {b} : At(y, o) = At(m, o)
        /\ \A o \in Blocks \ {b} : At(z, o) = At(x, o)
        /\ RunsRing(z)
    BY IdlesRun DEF TokenStep
  <1>2. /\ At(y, b) = At(m, b) /\ At(z, b) = At(x, b)
        /\ \A o \in Blocks : Up(y, o) <=> Up(m, o)
        /\ \A o \in Blocks : Up(z, o) <=> Up(x, o)
    BY ZeroSm DEF Idles, KeepsPlace, Sits, At, Up
  <1> QED  BY <1>1, <1>2 DEF TokenStep

(* Writing a record of block b that stays at its place.                    *)
LEMMA SetIdles ==
    ASSUME NEW m, MachineOK(m), NEW b \in Blocks, NEW s \in SMs, NEW q,
           Evolves(m, SetSm(m, b, s, q), b), Sits(q, m.sm[b][s])
    PROVE  Idles(m, SetSm(m, b, s, q), b)
  <1> DEFINE z == SetSm(m, b, s, q)
  <1>1. /\ z.cfg = m.cfg /\ z.irq = m.irq /\ z.sm[b][s] = q
        /\ \A t \in SMs \ {s} : z.sm[b][t] = m.sm[b][t]
    BY SetAt DEF MachineOK
  <1> HIDE DEF z
  <1>2. KeepsPlace(m, z, b)
    BY <1>1 DEF KeepsPlace, Sits
  <1> QED  BY <1>1, <1>2 DEF Idles, z

(* The steps of a cycle around the instruction: the divider, the           *)
(* background refill and the re-assertion of OUT_STICKY.                   *)
LEMMA DividerIdles ==
    ASSUME NEW m, MachineOK(m), NEW b \in Blocks, NEW s \in SMs
    PROVE  LET r == m.sm[b][s]
           IN  Idles(m, SetSm(m, b, s, [r EXCEPT !.clk_accum =
                                          div_next(@, m.cfg[b][s].div)]), b)
  <1> DEFINE r == m.sm[b][s]
             a == div_next(r.clk_accum, m.cfg[b][s].div)
             q == [r EXCEPT !.clk_accum = a]
  <1>1. r \in SmRecs /\ m.cfg[b][s] \in Confs
    BY SmRecAt
  <1>2. a \in Nat
    <2>1. r.clk_accum \in Nat /\ m.cfg[b][s].div \in Nat /\ DIV_ONE \in Nat
      BY <1>1, DivAssumption DEF SmRecs, Confs
    <2> HIDE DEF r
    <2> QED  BY <2>1 DEF div_next, div_due
  <1> HIDE DEF a
  <1>3. /\ q \in SmRecs /\ q.enabled = r.enabled /\ q.tx = r.tx /\ q.rx = r.rx
        /\ Sits(q, r)
    BY <1>1, <1>2 DEF SmRecs, Sits
  <1> HIDE DEF q
  <1>4. Idles(m, SetSm(m, b, s, q), b)
    BY <1>3, StoreSm, SetIdles
  <1> QED  BY <1>4 DEF q, a

LEMMA RefillIdles ==
    ASSUME NEW m, MachineOK(m), NEW b \in Blocks, NEW s \in SMs
    PROVE  Idles(m, BackgroundRefill(m, b, s), b)
  <1> DEFINE r == m.sm[b][s]
             q == osr_refill(r)
  <1>1. Evolves(m, BackgroundRefill(m, b, s), b) /\ r \in SmRecs
    BY RefillEvolves, SmRecAt
  <1>2. BackgroundRefill(m, b, s) \in {m, SetSm(m, b, s, q)}
    BY DEF BackgroundRefill
  <1>3. Sits(q, r)
    <2> HIDE DEF r
    <2> QED  BY <1>1 DEF q, osr_refill, SmRecs, Sits
  <1> HIDE DEF q
  <1>4. CASE BackgroundRefill(m, b, s) = m
    BY <1>1, <1>4 DEF Idles, KeepsPlace, Sits
  <1>5. CASE BackgroundRefill(m, b, s) = SetSm(m, b, s, q)
    BY <1>1, <1>3, <1>5, SetIdles
  <1> QED  BY <1>2, <1>4, <1>5

LEMMA ReassertIdles ==
    ASSUME NEW m, MachineOK(m), NEW b \in Blocks, NEW s \in SMs
    PROVE  LET z == [m EXCEPT !.reg[b][s].wrote = @ \union m.reg[b][s].oe]
           IN  Idles(m, z, b)
  <1> DEFINE v == m.reg[b][s].wrote \union m.reg[b][s].oe
             f == [m.reg EXCEPT ![b][s].wrote = v]
             z == [m EXCEPT !.reg = f]
  <1>1. v \in SUBSET Pins /\ m \in Machines
    BY SmRecAt DEF PinRegs
  <1>2. [m EXCEPT !.reg[b][s].wrote = @ \union m.reg[b][s].oe] = z
    BY <1>1 DEF Machines
  <1>3. [m EXCEPT !.reg[b][s].wrote = v] = z
    BY <1>1 DEF Machines
  <1> HIDE DEF v, f
  <1>4. z.sm = m.sm /\ z.irq = m.irq /\ z.cfg = m.cfg
    BY <1>1 DEF Machines
  <1> HIDE DEF z
  <1>5. Evolves(m, z, b)
    BY <1>1, <1>3, SetWroteEvolves
  <1> QED  BY <1>2, <1>4, <1>5 DEF Idles, KeepsPlace, Sits

(* A tick of a state machine: its divider only, or a cycle between two     *)
(* steps that leave flags and places alone.                                *)
LEMMA TickIs ==
    ASSUME NEW m, MachineOK(m), NEW b \in Blocks, NEW s \in SMs, InsnOK
    PROVE  LET z == SmTick(m, insn, b, s)
           IN  \/ Idles(m, z, b)
               \/ /\ m.sm[b][s].enabled
                  /\ \E y : LET x == DelayOrExecute(y, insn, b, s)
                            IN  /\ MachineOK(y) /\ MachineOK(x)
                                /\ Idles(m, y, b) /\ Evolves(y, x, b) /\ Idles(x, z, b)
  <1> DEFINE r == m.sm[b][s]
             c == m.cfg[b][s]
             m1 == SetSm(m, b, s, [r EXCEPT !.clk_accum = div_next(@, c.div)])
             m2 == BackgroundRefill(m1, b, s)
             m3 == DelayOrExecute(m2, insn, b, s)
             m4 == [m3 EXCEPT !.reg[b][s].wrote = @ \union m3.reg[b][s].oe]
  <1>1. /\ SmTick(m, insn, b, s) \in {m1, m3, m4}
        /\ SmTick(m, insn, b, s) # m1 => r.enabled
    BY ZenonT(60) DEF SmTick, sm_cycle
  <1>2. Idles(m, m1, b) /\ MachineOK(m1)
    BY DividerIdles DEF Idles, Evolves, Frames
  <1> HIDE DEF m1
  <1>3. Idles(m1, m2, b) /\ MachineOK(m2)
    BY <1>2, RefillIdles DEF Idles, Evolves, Frames
  <1> HIDE DEF m2
  <1>4. Idles(m, m2, b)
    BY <1>2, <1>3, IdlesTwice
  <1>5. Evolves(m2, m3, b) /\ MachineOK(m3)
    <2>1. Evolves(m2, m3, b)
      BY <1>3, CycleEvolves
    <2> HIDE DEF m3
    <2> QED  BY <2>1 DEF Evolves, Frames
  <1>6. Idles(m3, m4, b) /\ Idles(m3, m3, b)
    <2> HIDE DEF m3
    <2> QED  BY <1>5, ReassertIdles, EvolvesRefl DEF Idles, KeepsPlace, Sits
  <1> HIDE DEF m4
  <1> QED  BY <1>1, <1>2, <1>3, <1>4, <1>5, <1>6

(* A tick of a state machine of a ring: only number 0 does anything.       *)
LEMMA RingTick ==
    ASSUME NEW m, MachineOK(m), NEW b \in Blocks, NEW s \in SMs, InsnOK, RingCode,
           RunsRing(m)
    PROVE  LET z == SmTick(m, insn, b, s)
           IN  RunsRing(z) /\ TokenStep(m, z, b)
  <1> DEFINE z == SmTick(m, insn, b, s)
  <1>1. CASE Idles(m, z, b)
    BY <1>1, IdlesRun
  <1>2. CASE ~Idles(m, z, b)
    <2>1. /\ m.sm[b][s].enabled
          /\ \E y : LET x == DelayOrExecute(y, insn, b, s)
                    IN  /\ MachineOK(y) /\ MachineOK(x)
                        /\ Idles(m, y, b) /\ Evolves(y, x, b) /\ Idles(x, z, b)
      <3> HIDE DEF z
      <3> QED  BY <1>2, TickIs DEF z
    <2> HIDE DEF z
    <2>2. PICK y : LET x == DelayOrExecute(y, insn, b, s)
                   IN  /\ MachineOK(y) /\ MachineOK(x)
                       /\ Idles(m, y, b) /\ Evolves(y, x, b) /\ Idles(x, z, b)
      BY <2>1
    <2> DEFINE x == DelayOrExecute(y, insn, b, s)
    <2>3. s = 0
      BY <2>1 DEF RunsRing
    <2>4. RunsRing(y)
      BY <2>2, IdlesRun
    <2>5. RunsRing(x) /\ TokenStep(y, x, b)
      BY <2>2, <2>3, <2>4, RingCycle, SMTT(30)
    <2> HIDE DEF x
    <2> QED  BY <2>2, <2>5, IdlesAround DEF x, z
  <1> QED  BY <1>1, <1>2

(* A tick of block b: its state machines in turn.                          *)
LEMMA RingBlock ==
    ASSUME NEW m, MachineOK(m), NEW b \in Blocks, InsnOK, RingCode, RunsRing(m),
           NEW out \in BOOLEAN, Token(m, out)
    PROVE  LET z == TickBlock(m, insn, b)
           IN  RunsRing(z) /\ Token(z, out)
  <1> DEFINE Ok(z) == RunsRing(z) /\ Token(z, out)
  <1>1. PICK g : TickChain(g, m, b)
    BY TickIsChain
  <1>2. NUM_SM \in Nat /\ NUM_SM \in 0 .. NUM_SM /\ 0 \in 0 .. NUM_SM
    BY PadsAssumption
  <1> DEFINE S == {k \in Nat : k <= NUM_SM => Ok(g[k])}
  <1>3. 0 \in S
    <2> DEFINE z == OpenWriteWindow(m, {b})
    <2>1. z.sm = m.sm /\ z.cfg = m.cfg /\ z.irq = m.irq
      BY WindowFrame
    <2> HIDE DEF z
    <2>2. Ok(z)
      BY <2>1 DEF RunsRing, Token, HasToken, At, Up
    <2> QED  BY <1>1, <2>2 DEF TickChain, z
  <1>4. ASSUME NEW k \in Nat, k \in S PROVE k + 1 \in S
    <2> SUFFICES ASSUME k + 1 <= NUM_SM PROVE Ok(g[k + 1])
      OBVIOUS
    <2>1. k \in SMs /\ k \in 0 .. NUM_SM /\ Ok(g[k])
      BY <1>2, <1>4 DEF SMs
    <2>2. MachineOK(g[k]) /\ g[k + 1] = SmTick(g[k], insn, b, k)
      BY <1>1, <2>1 DEF TickChain, Evolves, Frames
    <2>3. RunsRing(g[k + 1]) /\ TokenStep(g[k], g[k + 1], b)
      BY <2>1, <2>2, RingTick
    <2>4. Token(g[k + 1], out)
      BY <2>1, <2>3, TokenKept
    <2> QED  BY <2>3, <2>4
  <1> HIDE DEF S
  <1>5. Nat \subseteq S
    BY <1>3, <1>4, SetInduction
  <1>6. Ok(g[NUM_SM])
    BY <1>2, <1>5 DEF S
  <1>7. PinsOnly(g[NUM_SM], TickBlock(m, insn, b))
    <2>1. g[NUM_SM] \in Machines
      BY <1>1, <1>2 DEF TickChain, Evolves, Frames, MachineOK
    <2> QED  BY <1>1, <2>1, DrivesPinsOnly DEF TickChain
  <1> QED  BY <1>6, <1>7 DEF PinsOnly, RunsRing, Token, HasToken, At, Up

(***************************************************************************)
(* The ring under its host.                                                *)
(***************************************************************************)
Turning(m) == RunsRing(m) /\ Token(m, launched)

RingInv ==
    /\ Inv /\ RingCode /\ launched \in BOOLEAN /\ Blocks \X {0} \subseteq host.sms
    /\ Turning(Machine)

(* Machines that differ in pins only turn the same ring.                   *)
LEMMA PinsTurn ==
    ASSUME NEW m, NEW z, PinsOnly(m, z), Turning(m)
    PROVE  Turning(z)
  BY DEF PinsOnly, Turning, RunsRing, Token, HasToken, At, Up

(* Opening the write windows and clocking the pads touch pins only.        *)
LEMMA TickEdges ==
    ASSUME NEW m, MachineOK(m), NEW b \in Blocks
    PROVE  /\ PinsOnly(m, OpenWriteWindow(m, Blocks)) /\ PinsOnly(m, ClockOwn(m, b))
           /\ PinsOnly(m, ClockShared(ClockOwn(m, b)))
           /\ MachineOK(OpenWriteWindow(m, Blocks)) /\ MachineOK(ClockOwn(m, b))
  <1>1. PinsOnly(m, OpenWriteWindow(m, Blocks)) /\ MachineOK(OpenWriteWindow(m, Blocks))
    BY WindowFrame DEF PinsOnly
  <1>2. PinsOnly(m, ClockOwn(m, b)) /\ ClockOwn(m, b) \in Machines
        /\ MachineOK(ClockOwn(m, b))
    <2>1. MachineOK(ClockOwn(m, b))
      BY ClocksOK DEF Touches
    <2>2. PinsOnly(m, ClockOwn(m, b))
      BY DEF PinsOnly, ClockOwn, MachineOK, Machines
    <2> QED  BY <2>1, <2>2 DEF MachineOK
  <1>3. ASSUME NEW y \in Machines PROVE PinsOnly(y, ClockShared(y))
    BY DEF PinsOnly, ClockShared, Machines
  <1>4. PinsOnly(ClockOwn(m, b), ClockShared(ClockOwn(m, b)))
    BY <1>2, <1>3
  <1> QED  BY <1>1, <1>2, <1>4 DEF PinsOnly

(* A tick of a block keeps the ring turning.                               *)
LEMMA RingStep ==
    ASSUME RingInv, Step, UNCHANGED launched
    PROVE  Turning(Machine)'
  <1>1. MachineOK(Machine) /\ InsnOK /\ RingCode /\ Turning(Machine) /\ launched \in BOOLEAN
    BY DEF RingInv, Inv
  <1>2. ASSUME NEW z, MachineOK(z), Become(z), UNCHANGED insn, Turning(z)
        PROVE  Turning(Machine)'
    <2>1. Machine' = z
      BY <1>2, BecomeOK
    <2> QED  BY <1>2, <2>1 DEF Turning
  <1>3. ASSUME NEW m, MachineOK(m), Turning(m), NEW b \in Blocks
        PROVE  MachineOK(TickBlock(m, insn, b)) /\ Turning(TickBlock(m, insn, b))
    <2>1. MachineOK(TickBlock(m, insn, b))
      BY <1>1, <1>3, TickBlockEvolves DEF Evolves, Frames
    <2> QED  BY <1>1, <1>3, <2>1, RingBlock DEF Turning
  <1>4. CASE StartTick
    <2> DEFINE y == OpenWriteWindow(Machine, Blocks)
    <2>1. 0 \in Blocks
      BY PadsAssumption DEF Blocks
    <2>2. MachineOK(y) /\ Turning(y)
      BY <1>1, <2>1, TickEdges, PinsTurn
    <2>3. Become(TickBlock(y, insn, 0)) /\ UNCHANGED insn
      BY <1>4 DEF StartTick
    <2> HIDE DEF y
    <2> QED  BY <1>2, <1>3, <2>1, <2>2, <2>3
  <1>5. CASE NextBlock
    <2> DEFINE y == ClockOwn(Machine, turn)
               b == turn + 1
    <2>1. turn \in Blocks /\ b \in Blocks
      BY <1>5, PadsAssumption DEF NextBlock, RingInv, Inv, Blocks, Idle
    <2>2. MachineOK(y) /\ Turning(y)
      BY <1>1, <2>1, TickEdges, PinsTurn
    <2>3. Become(TickBlock(y, insn, b)) /\ UNCHANGED insn
      BY <1>5 DEF NextBlock
    <2> HIDE DEF y, b
    <2> QED  BY <1>2, <1>3, <2>1, <2>2, <2>3
  <1>6. CASE EndTick
    <2> DEFINE z == ClockShared(ClockOwn(Machine, turn))
    <2>1. turn \in Blocks
      BY <1>6, PadsAssumption DEF EndTick, RingInv, Inv, Blocks, Idle
    <2>2. MachineOK(z) /\ Turning(z)
      BY <1>1, <2>1, TickEdges, PinsTurn, ClocksOK DEF Touches
    <2>3. Become(z) /\ UNCHANGED insn
      BY <1>6 DEF EndTick
    <2> HIDE DEF z
    <2> QED  BY <1>2, <2>2, <2>3
  <1> QED  BY <1>4, <1>5, <1>6 DEF Step

(* Stopping and starting state machine 0 of a block.                       *)
LEMMA RingEnable ==
    ASSUME RingInv, NEW b \in Blocks, NEW on \in BOOLEAN,
           pio_sim_set_sm_mask_enabled(b, {0}, on), UNCHANGED launched
    PROVE  RingInv'
  <1> DEFINE m == Machine
             z == EnableMask(m, b, {0}, on)
  <1>1. /\ HostCall("enable", z) /\ Become(z) /\ UNCHANGED <<insn, turn, host>>
        /\ MachineOK(m) /\ m \in Machines
    BY DEF pio_sim_set_sm_mask_enabled, HostCall, RingInv, Inv, MachineOK
  <1>2. Inv'
    <2>1. {0} \in SUBSET Served(b) /\ Served(b) # {}
      BY ZeroSm DEF RingInv, Served
    <2>2. Host
      BY <2>1 DEF Host
    <2> QED  BY <2>2, HostSafe DEF RingInv, Safe
  <1> DEFINE f == [s \in SMs |-> IF s \in {0} THEN [m.sm[b][s] EXCEPT !.enabled = on]
                                ELSE m.sm[b][s]]
             g == [m.sm EXCEPT ![b] = f]
             y == [m EXCEPT !.sm = g]
  <1>3. /\ f[0].pc = m.sm[b][0].pc /\ f[0].exec_pending = m.sm[b][0].exec_pending
        /\ \A s \in SMs \ {0} : f[s] = m.sm[b][s]
    <2>1. m.sm[b][0] \in SmRecs
      BY <1>1, ZeroSm, SmRecAt
    <2> DEFINE r == m.sm[b][0]
    <2>2. f[0] = [r EXCEPT !.enabled = on]
      BY ZeroSm
    <2> HIDE DEF r
    <2>3. [r EXCEPT !.enabled = on].pc = r.pc
          /\ [r EXCEPT !.enabled = on].exec_pending = r.exec_pending
      BY <2>1 DEF SmRecs, r
    <2> QED  BY <2>2, <2>3 DEF r
  <1>4. /\ g[b] = f /\ \A o \in Blocks \ {b} : g[o] = m.sm[o]
    <2> HIDE DEF f
    <2> QED  BY <1>1 DEF Machines
  <1>5. z = ResolvePads(y, b)
    BY <1>1 DEF EnableMask, Machines
  <1>6. /\ y.sm = g /\ y.cfg = m.cfg /\ y.irq = m.irq
        /\ PinsOnly(y, z)
    <2>1. y.sm = g /\ y.cfg = m.cfg /\ y.irq = m.irq
      <3> HIDE DEF f, g
      <3> QED  BY <1>1 DEF Machines
    <2>2. PinsOnly(y, ResolvePads(y, b))
      <3>1. \A p : PinsOnly(y, [y EXCEPT !.pads[PadOf(b)] = p])
        <4> HIDE DEF f, g
        <4> QED  BY <1>1 DEF PinsOnly, Machines
      <3> HIDE DEF y
      <3> QED  BY <3>1 DEF ResolvePads
    <2> QED  BY <1>5, <2>1, <2>2
  <1> HIDE DEF f, g, y
  <1>7. Turning(y)
    <2>1. \A o \in Blocks : /\ At(y, o) = At(m, o) /\ (Up(y, o) <=> Up(m, o))
                            /\ y.sm[o][0].exec_pending = m.sm[o][0].exec_pending
                            /\ \A s \in SMs \ {0} : y.sm[o][s] = m.sm[o][s]
      BY <1>3, <1>4, <1>6 DEF At, Up
    <2>2. Turning(m) /\ launched \in BOOLEAN
      BY DEF RingInv
    <2>3. RunsRing(y)
      BY <1>6, <2>1, <2>2 DEF Turning, RunsRing
    <2>4. Token(y, launched)
      BY <2>1, <2>2 DEF Turning, Token, HasToken
    <2> QED  BY <2>3, <2>4 DEF Turning
  <1>8. Turning(z)
    BY <1>6, <1>7, PinsTurn
  <1>9. Machine' = z
    <2>1. MachineOK(z)
      BY <1>1, EnableOK DEF Touches
    <2> HIDE DEF z
    <2> QED  BY <1>1, <2>1, BecomeOK
  <1> HIDE DEF z
  <1>10. Turning(Machine)'
    BY <1>8, <1>9 DEF Turning
  <1> QED  BY <1>1, <1>2, <1>10 DEF RingInv, RingCode

(* Launching the token raises the one flag.                                *)
LEMMA RingLaunch ==
    ASSUME RingInv, Launch
    PROVE  RingInv'
  <1>1. PICK b \in Blocks : pio_sim_irq_force(b, 0, TRUE)
    BY DEF Launch
  <1> DEFINE m == Machine
             z == [m EXCEPT !.irq[b] = @ \union {0}]
  <1>2. Become(z) /\ UNCHANGED <<insn, turn, host>> /\ ~launched /\ launched' = TRUE
    BY <1>1 DEF pio_sim_irq_force, HostCall, Launch
  <1>3. Inv' /\ m \in Machines
    <2>1. Served(b) # {} /\ 0 \in Irqs
      BY ZeroSm, SmAssumption DEF RingInv, Served, Irqs
    <2>2. Host
      BY <1>1, <2>1 DEF Host
    <2> QED  BY <2>2, HostSafe DEF RingInv, Safe, Inv, MachineOK
  <1> DEFINE g == [m.irq EXCEPT ![b] = @ \union {0}]
  <1>4. z = [m EXCEPT !.irq = g]
    BY <1>3 DEF Machines
  <1>5. /\ Machine'.irq = g /\ Machine'.sm = m.sm /\ Machine'.cfg = m.cfg
    <2>1. z.irq = g /\ z.sm = m.sm /\ z.cfg = m.cfg
      BY <1>3, <1>4 DEF Machines
    <2> HIDE DEF g, z
    <2> QED  BY <1>2, <2>1 DEF Become, Machine
  <1>6. \A o \in Blocks : 0 \in g[o] <=> (0 \in m.irq[o] \/ o = b)
    BY <1>3 DEF Machines
  <1> HIDE DEF g, z, m
  <1>7. Turning(m)
    BY DEF RingInv, m
  <1>8. RunsRing(Machine)'
    BY <1>5, <1>7 DEF Turning, RunsRing, At
  <1>9. Token(Machine, launched)'
    <2>1. \A o \in Blocks : ~(0 \in m.irq[o]) /\ m.sm[o][0].pc = 0
      BY <1>2, <1>7 DEF Turning, Token, Up, At
    <2>2. HasToken(Machine, b)'
      BY <1>5, <1>6, <2>1 DEF HasToken, Up, At
    <2> QED  BY <1>2, <2>2 DEF Token
  <1>10. Turning(Machine)'
    BY <1>8, <1>9 DEF Turning
  <1> QED  BY <1>2, <1>3, <1>10 DEF RingInv, RingCode

(* The ring under the programs' specification.                             *)
RingsTurn == Passing => RingInv

LEMMA RingStarts == TokenRings /\ PInit => RingsTurn
  <1> SUFFICES ASSUME TokenRings, PInit, Passing PROVE RingInv
    BY DEF RingsTurn
  <1>1. Inv
    BY InitInv DEF PInit
  <1>2. PICK su \in Setups :
          /\ insn = su.prog /\ cfg = su.conf /\ host = su.host
          /\ irq = [b \in Blocks |-> {}]
          /\ sm = [b \in Blocks |-> [s \in SMs |->
               [Configured(su.conf[b][s]) EXCEPT !.enabled = <<b, s>> \in su.on]]]
    BY Zenon DEF PInit, Init
  <1>3. RingSetup(su) /\ LINKED /\ INSN_COUNT > 2
    BY <1>2 DEF TokenRings, Passing
  <1>4. RingCode
    BY <1>2, <1>3 DEF RingCode, RingSetup
  <1>5. ASSUME NEW b \in Blocks, NEW s \in SMs
        PROVE  /\ sm[b][s].pc = su.conf[b][s].wrap_bottom /\ ~sm[b][s].exec_pending
               /\ sm[b][s].enabled <=> <<b, s>> \in su.on
    <2> DEFINE e == <<b, s>> \in su.on
               c == su.conf[b][s]
    <2>1. sm[b][s] = [Configured(c) EXCEPT !.enabled = e]
      BY <1>2
    <2> HIDE DEF e, c
    <2>2. LET q == [Configured(c) EXCEPT !.enabled = e]
          IN  q.pc = c.wrap_bottom /\ q.exec_pending = FALSE /\ q.enabled = e
      BY DEF Configured, ResetSm
    <2> QED  BY <2>1, <2>2 DEF e, c
  <1>6. RunsRing(Machine)
    <2>1. ASSUME NEW b \in Blocks, NEW s \in SMs \ {0} PROVE ~sm[b][s].enabled
      BY <1>3, <1>5 DEF RingSetup
    <2> QED  BY <1>2, <1>3, <1>5, <2>1, ZeroSm, MachineIs DEF RunsRing, RingSetup, At
  <1>7. Token(Machine, FALSE)
    <2> SUFFICES ASSUME NEW b \in Blocks PROVE ~Up(Machine, b) /\ At(Machine, b) = 0
      BY DEF Token
    <2>1. irq[b] = {}
      BY <1>2
    <2>2. su.conf[b][0].wrap_bottom = 0
      BY <1>3 DEF RingSetup
    <2>3. sm[b][0].pc = 0
      BY <1>5, <2>2, ZeroSm
    <2> QED  BY <2>1, <2>3, MachineIs DEF At, Up
  <1>8. launched = FALSE /\ Blocks \X {0} \subseteq host.sms
    BY <1>2, <1>3 DEF PInit, RingSetup
  <1> QED  BY <1>1, <1>4, <1>6, <1>7, <1>8 DEF RingInv, Turning

LEMMA RingGoesOn == RingsTurn /\ [PNext]_pvars => RingsTurn'
  <1> SUFFICES ASSUME RingsTurn, [PNext]_pvars, Passing' PROVE RingInv'
    BY DEF RingsTurn
  <1>1. UNCHANGED host
    BY DEF PNext, RNext, TNext, LNext, Step, StartTick, NextBlock, EndTick, Launch, StopOrGo,
           StartOrStop, Restart, InSync, Surroundings, HostCall, pvars, vars,
           pio_sim_set_sm_mask_enabled, pio_sim_sm_exec, pio_sim_irq_force,
           pio_sim_sm_restart, pio_sim_enable_sm_mask_in_sync, SetPin
  <1>2. Passing /\ RingInv
    BY <1>1 DEF Passing, RingsTurn
  <1>3. CASE Launch
    BY <1>2, <1>3, RingLaunch
  <1>4. CASE StopOrGo
    BY <1>2, <1>4, RingEnable DEF StopOrGo
  <1>5. CASE Step /\ UNCHANGED launched
    <2>1. Turning(Machine)' /\ Inv'
      BY <1>2, <1>5, RingStep, StepSafe DEF RingInv, Safe
    <2>2. UNCHANGED insn
      BY <1>5 DEF Step, StartTick, NextBlock, EndTick
    <2> QED  BY <1>1, <1>2, <1>5, <2>1, <2>2 DEF RingInv, RingCode
  <1>6. CASE UNCHANGED pvars
    <2>1. UNCHANGED vars /\ UNCHANGED launched
      BY <1>6 DEF pvars, ring
    <2>2. Inv'
      BY <1>2, <2>1, NextInv DEF RingInv
    <2>3. Machine' = Machine /\ UNCHANGED <<insn, host>>
      BY <2>1 DEF vars, Machine
    <2>4. Turning(Machine)'
      BY <1>2, <2>1, <2>3 DEF RingInv, Turning
    <2> QED  BY <1>2, <2>1, <2>2, <2>3, <2>4 DEF RingInv, RingCode
  <1> QED  BY <1>2, <1>3, <1>4, <1>5, <1>6 DEF PNext, TNext, Passing

(* One flag up, or one block at work, and never both.                      *)
LEMMA RingCounts == RingsTurn => OneToken
  <1> SUFFICES ASSUME RingInv
               PROVE  Cardinality({b \in Blocks : 0 \in irq[b]})
                        + Cardinality({b \in Blocks : Holding(b)})
                        = IF launched THEN 1 ELSE 0
    BY DEF RingsTurn, OneToken
  <1> DEFINE U == {b \in Blocks : 0 \in irq[b]}
             H == {b \in Blocks : Holding(b)}
  <1>1. \A b \in Blocks : /\ b \in U <=> Up(Machine, b)
                          /\ b \in H <=> At(Machine, b) # 0
    BY MachineIs DEF RingInv, Turning, RunsRing, Up, At, Holding
  <1>2. U \subseteq Blocks /\ H \subseteq Blocks /\ Token(Machine, launched)
        /\ launched \in BOOLEAN
    BY DEF RingInv, Turning
  <1> HIDE DEF U, H
  <1>3. /\ Cardinality({}) = 0
        /\ \A b : Cardinality({b}) = 1
    BY FS_EmptySet, FS_Singleton
  <1>4. CASE ~launched
    <2>1. U = {} /\ H = {}
      BY <1>1, <1>2, <1>4 DEF Token
    <2> QED  BY <1>3, <1>4, <2>1 DEF U, H
  <1>5. CASE launched
    <2>1. PICK b \in Blocks : HasToken(Machine, b)
      BY <1>2, <1>5 DEF Token
    <2>2. (U = {b} /\ H = {}) \/ (U = {} /\ H = {b})
      BY <1>1, <1>2, <2>1 DEF HasToken
    <2>3. Cardinality(U) + Cardinality(H) = 1
      BY <1>3, <2>2
    <2> QED  BY <1>5, <2>3 DEF U, H
  <1> QED  BY <1>2, <1>4, <1>5

(* In every ring of linked blocks whose programs wait for flag 0, work and *)
(* raise a neighbour's, the token launched by the host is never lost or    *)
(* copied, for every number of blocks, direction, divider and delay, and   *)
(* however the host stops and starts blocks (pio_sim_group_tick: a flag    *)
(* raised for a later block is seen in the same tick, for an earlier one   *)
(* in the next; exec_wait takes the flag it sees; exec_irq raises one).    *)
THEOREM RingOneToken == TokenRings => (PSpec => []OneToken)
  <1>1. TokenRings /\ PInit => RingsTurn
    BY RingStarts
  <1>2. RingsTurn /\ [PNext]_pvars => RingsTurn'
    BY RingGoesOn
  <1>3. RingsTurn => OneToken
    BY RingCounts
  <1> QED  BY <1>1, <1>2, <1>3, PTL DEF PSpec

(***************************************************************************)
(* Twins: what an instruction that only looks does to a state machine of   *)
(* block 0 is a function of its record, its configuration, flags and pads. *)
(***************************************************************************)

(* State machine s of m is in the situation of state machine t of z.       *)
Alike(m, s, z, t) ==
    /\ MachineOK(m) /\ MachineOK(z)
    /\ m.sm[0][s] = z.sm[0][t] /\ m.cfg[0][s] = z.cfg[0][t]
    /\ m.irq = z.irq /\ m.pads = z.pads

(* q is r but for its registers, PC, delay and stall.                      *)
Dry(q, r) ==
    /\ q.tx = r.tx /\ q.rx = r.rx /\ q.fdebug = r.fdebug /\ q.status = r.status
    /\ q.enabled = r.enabled /\ q.exec_pending = r.exec_pending

(* The outcomes h and k are the same write of one record.                  *)
Agree(m, s, h, z, t, k) ==
    /\ \E q : /\ h.m = SetSm(m, 0, s, q) /\ k.m = SetSm(z, 0, t, q)
              /\ Dry(q, m.sm[0][s])
    /\ k.stalled = h.stalled /\ k.set_pc = h.set_pc /\ k.next_pc = h.next_pc

LEMMA ZeroBlock == 0 \in Blocks
  BY PadsAssumption DEF Blocks

(* Writing back what is there.                                             *)
LEMMA SetSame ==
    ASSUME NEW m, m \in Machines, NEW s \in SMs
    PROVE  SetSm(m, 0, s, m.sm[0][s]) = m
  <1> DEFINE f == [m.sm EXCEPT ![0][s] = m.sm[0][s]]
  <1>1. f = m.sm
    BY ZeroBlock DEF Machines
  <1>2. SetSm(m, 0, s, m.sm[0][s]) = [m EXCEPT !.sm = f]
    BY DEF SetSm, Machines
  <1> HIDE DEF f
  <1> QED  BY <1>1, <1>2 DEF Machines

(* The ways the handlers concerned return.                                 *)
LEMMA ReturnsAgree ==
    ASSUME NEW m, NEW z, NEW s \in SMs, NEW t \in SMs, Alike(m, s, z, t)
    PROVE  /\ Agree(m, s, Done(m), z, t, Done(z))
           /\ Agree(m, s, Stall(m), z, t, Stall(z))
           /\ \A pc : Agree(m, s, JumpTo(m, pc), z, t, JumpTo(z, pc))
           /\ \A q, pc : Dry(q, m.sm[0][s]) =>
                /\ Agree(m, s, Done(SetSm(m, 0, s, q)), z, t, Done(SetSm(z, 0, t, q)))
                /\ Agree(m, s, JumpTo(SetSm(m, 0, s, q), pc),
                         z, t, JumpTo(SetSm(z, 0, t, q), pc))
  <1>1. /\ SetSm(m, 0, s, m.sm[0][s]) = m /\ SetSm(z, 0, t, m.sm[0][s]) = z
        /\ Dry(m.sm[0][s], m.sm[0][s])
    BY SetSame DEF Alike, MachineOK, Dry
  <1>2. ASSUME NEW q, NEW pc, Dry(q, m.sm[0][s])
        PROVE  /\ Agree(m, s, Done(SetSm(m, 0, s, q)), z, t, Done(SetSm(z, 0, t, q)))
               /\ Agree(m, s, Stall(SetSm(m, 0, s, q)), z, t, Stall(SetSm(z, 0, t, q)))
               /\ Agree(m, s, JumpTo(SetSm(m, 0, s, q), pc),
                        z, t, JumpTo(SetSm(z, 0, t, q), pc))
    <2> DEFINE x == SetSm(m, 0, s, q)
               y == SetSm(z, 0, t, q)
    <2>1. \E p : x = SetSm(m, 0, s, p) /\ y = SetSm(z, 0, t, p) /\ Dry(p, m.sm[0][s])
      BY <1>2
    <2> HIDE DEF x, y
    <2>2. /\ Agree(m, s, Done(x), z, t, Done(y)) /\ Agree(m, s, Stall(x), z, t, Stall(y))
          /\ Agree(m, s, JumpTo(x, pc), z, t, JumpTo(y, pc))
      BY <2>1 DEF Agree, Done, Stall, JumpTo
    <2> QED  BY <2>2 DEF x, y
  <1>3. \A pc : /\ Agree(m, s, Done(m), z, t, Done(z))
                /\ Agree(m, s, Stall(m), z, t, Stall(z))
                /\ Agree(m, s, JumpTo(m, pc), z, t, JumpTo(z, pc))
    BY <1>1, <1>2, Zenon
  <1> QED  BY <1>2, <1>3

(* What they read.                                                         *)
LEMMA ReadsAgree ==
    ASSUME NEW m, NEW z, NEW s, NEW t, Alike(m, s, z, t)
    PROVE  /\ \A view : PinHigh(m, 0, view) <=> PinHigh(z, 0, view)
           /\ \A src : read_source(m, 0, s, src) = read_source(z, 0, t, src)
  <1>1. \A view : PinHigh(m, 0, view) <=> PinHigh(z, 0, view)
    BY DEF Alike, PinHigh
  <1>2. read_in_pins(m, 0, s) = read_in_pins(z, 0, t)
    BY <1>1 DEF Alike, read_in_pins
  <1>3. read_status(m, 0, s) = read_status(z, 0, t)
    BY DEF Alike, read_status
  <1> QED  BY <1>1, <1>2, <1>3 DEF Alike, read_source

(* Register writes leave the rest of a record alone.                       *)
LEMMA RegistersDry ==
    ASSUME NEW r \in SmRecs
    PROVE  /\ Dry(r, r)
           /\ \A v : Dry([r EXCEPT !.x = v], r) /\ Dry([r EXCEPT !.y = v], r)
           /\ \A v, n : /\ Dry([r EXCEPT !.isr = v, !.isr_count = n], r)
                        /\ Dry([r EXCEPT !.osr = v, !.osr_count = n], r)
  <1>1. ASSUME NEW v, NEW n
        PROVE  /\ Dry([r EXCEPT !.x = v], r) /\ Dry([r EXCEPT !.y = v], r)
               /\ Dry([r EXCEPT !.isr = v, !.isr_count = n], r)
               /\ Dry([r EXCEPT !.osr = v, !.osr_count = n], r)
    BY DEF Dry, SmRecs
  <1> QED  BY <1>1 DEF Dry

(* exec_jmp.                                                               *)
LEMMA JmpAgrees ==
    ASSUME NEW m, NEW z, NEW s \in SMs, NEW t \in SMs, Alike(m, s, z, t), NEW i
    PROVE  Agree(m, s, exec_jmp(m, 0, s, i), z, t, exec_jmp(z, 0, t, i))
  <1> DEFINE T(y, r, c) ==
               CASE i.cond = "ALWAYS" -> TRUE
                 [] i.cond = "NOTX"   -> r.x = ZERO
                 [] i.cond = "XDEC"   -> r.x # ZERO
                 [] i.cond = "NOTY"   -> r.y = ZERO
                 [] i.cond = "YDEC"   -> r.y # ZERO
                 [] i.cond = "XNEY"   -> r.x # r.y
                 [] i.cond = "PIN"    -> PinHigh(y, 0, c.jmp_pin)
                 [] i.cond = "NOTOSRE" -> r.osr_count < c.pull_thresh
             E(y, k, r, c) ==
               LET w == CASE i.cond = "XDEC" ->
                               SetSm(y, 0, k, [r EXCEPT !.x = Decrement(@)])
                          [] i.cond = "YDEC" ->
                               SetSm(y, 0, k, [r EXCEPT !.y = Decrement(@)])
                          [] OTHER -> y
               IN  IF T(y, r, c) THEN JumpTo(w, i.addr) ELSE Done(w)
             r == m.sm[0][s]
             c == m.cfg[0][s]
  <1>1. /\ exec_jmp(m, 0, s, i) = E(m, s, r, c)
        /\ exec_jmp(z, 0, t, i) = E(z, t, z.sm[0][t], z.cfg[0][t])
    BY Zenon DEF exec_jmp
  <1>2. r = z.sm[0][t] /\ c = z.cfg[0][t] /\ r \in SmRecs
    BY ZeroBlock, SmRecAt DEF Alike
  <1>3. T(m, r, c) = T(z, r, c)
    BY ReadsAgree
  <1> HIDE DEF T
  <1>4. \/ T(m, r, c) /\ T(z, r, c)
        \/ ~T(m, r, c) /\ ~T(z, r, c)
    BY <1>3
  <1>5. Agree(m, s, E(m, s, r, c), z, t, E(z, t, r, c))
    <2> HIDE DEF r, c
    <2>1. Dry([r EXCEPT !.x = Decrement(@)], r) /\ Dry([r EXCEPT !.y = Decrement(@)], r)
      BY <1>2, RegistersDry, Zenon
    <2>2. \A q, pc : Dry(q, r) =>
            /\ Agree(m, s, Done(SetSm(m, 0, s, q)), z, t, Done(SetSm(z, 0, t, q)))
            /\ Agree(m, s, JumpTo(SetSm(m, 0, s, q), pc),
                     z, t, JumpTo(SetSm(z, 0, t, q), pc))
      BY ReturnsAgree DEF r
    <2>3. Agree(m, s, Done(m), z, t, Done(z))
          /\ \A pc : Agree(m, s, JumpTo(m, pc), z, t, JumpTo(z, pc))
      BY ReturnsAgree
    <2>4. CASE i.cond = "XDEC"
      BY <1>4, <2>1, <2>2, <2>4
    <2>5. CASE i.cond = "YDEC"
      BY <1>4, <2>1, <2>2, <2>5
    <2>6. CASE i.cond \notin {"XDEC", "YDEC"}
      BY <1>4, <2>3, <2>6
    <2> QED  BY <2>4, <2>5, <2>6, SMTT(30)
  <1> HIDE DEF E
  <1> QED  BY <1>1, <1>2, <1>5, Zenon

(* exec_wait on a pin.                                                     *)
LEMMA WaitAgrees ==
    ASSUME NEW m, NEW z, NEW s \in SMs, NEW t \in SMs, Alike(m, s, z, t), NEW i,
           i.src \in {"GPIO", "PIN", "JMPPIN"}
    PROVE  Agree(m, s, exec_wait(m, 0, s, i), z, t, exec_wait(z, 0, t, i))
  <1> DEFINE c == m.cfg[0][s]
  <1>1. /\ \A view : PinHigh(m, 0, view) <=> PinHigh(z, 0, view)
        /\ z.cfg[0][t] = c
    BY ReadsAgree DEF Alike
  <1>2. /\ Agree(m, s, Done(m), z, t, Done(z))
        /\ Agree(m, s, Stall(m), z, t, Stall(z))
    BY ReturnsAgree
  <1>3. \/ /\ exec_wait(m, 0, s, i) = Done(m)
           /\ exec_wait(z, 0, t, i) = Done(z)
        \/ /\ exec_wait(m, 0, s, i) = Stall(m)
           /\ exec_wait(z, 0, t, i) = Stall(z)
    <2> HIDE DEF c
    <2>1. CASE i.src = "GPIO"
      <3>1. /\ exec_wait(m, 0, s, i)
                  = IF PinHigh(m, 0, i.idx) = i.pol THEN Done(m) ELSE Stall(m)
            /\ exec_wait(z, 0, t, i)
                  = IF PinHigh(z, 0, i.idx) = i.pol THEN Done(z) ELSE Stall(z)
        BY <2>1, Zenon DEF exec_wait
      <3>2. PinHigh(m, 0, i.idx) = PinHigh(z, 0, i.idx)
        BY DEF Alike, PinHigh
      <3> QED  BY <3>1, <3>2, Zenon
    <2>2. CASE i.src = "PIN"
      BY <1>1, <2>2 DEF exec_wait, c
    <2>3. CASE i.src = "JMPPIN"
      <3> DEFINE n == c.jmp_pin + i.idx
      <3>1. /\ exec_wait(m, 0, s, i)
                  = IF PinHigh(m, 0, n) = i.pol THEN Done(m) ELSE Stall(m)
            /\ exec_wait(z, 0, t, i)
                  = IF PinHigh(z, 0, n) = i.pol THEN Done(z) ELSE Stall(z)
        BY <1>1, <2>3, Zenon DEF exec_wait, c
      <3>2. PinHigh(m, 0, n) = PinHigh(z, 0, n)
        BY DEF Alike, PinHigh
      <3> QED  BY <3>1, <3>2, Zenon
    <2> QED  BY <2>1, <2>2, <2>3
  <1> QED  BY <1>2, <1>3

(* exec_mov, exec_set and the destinations of exec_out.                    *)
LEMMA StoresAgree ==
    ASSUME NEW m, NEW z, NEW s \in SMs, NEW t \in SMs, Alike(m, s, z, t), NEW v, NEW cnt,
           NEW i
    PROVE  /\ \A dst \in {"X", "Y", "PC", "ISR", "OSR"} :
                Agree(m, s, mov_store(m, 0, s, dst, v), z, t, mov_store(z, 0, t, dst, v))
           /\ i.dst \in {"X", "Y"} =>
                Agree(m, s, exec_set(m, 0, s, i), z, t, exec_set(z, 0, t, i))
           /\ \A dst \in {"X", "Y", "NULL", "PC", "ISR"} :
                Agree(m, s, out_store(m, 0, s, dst, v, cnt),
                      z, t, out_store(z, 0, t, dst, v, cnt))
  <1> DEFINE r == m.sm[0][s]
  <1>1. z.sm[0][t] = r /\ r \in SmRecs
    BY ZeroBlock, SmRecAt, SMTT(30) DEF Alike
  <1>2. \A w, n : /\ Dry([r EXCEPT !.x = w], r) /\ Dry([r EXCEPT !.y = w], r)
                  /\ Dry([r EXCEPT !.isr = w, !.isr_count = n], r)
                  /\ Dry([r EXCEPT !.osr = w, !.osr_count = n], r)
    BY <1>1, RegistersDry, Zenon
  <1>3. /\ Agree(m, s, Done(m), z, t, Done(z))
        /\ \A pc : Agree(m, s, JumpTo(m, pc), z, t, JumpTo(z, pc))
        /\ \A q : Dry(q, r) =>
              Agree(m, s, Done(SetSm(m, 0, s, q)), z, t, Done(SetSm(z, 0, t, q)))
    BY ReturnsAgree
  <1>4. ASSUME NEW dst \in {"X", "Y", "PC", "ISR", "OSR"}
        PROVE  Agree(m, s, mov_store(m, 0, s, dst, v), z, t, mov_store(z, 0, t, dst, v))
    <2> HIDE DEF r
    <2> QED  BY <1>1, <1>2, <1>3, ZenonT(60) DEF mov_store, r
  <1>5. ASSUME i.dst \in {"X", "Y"}
        PROVE  Agree(m, s, exec_set(m, 0, s, i), z, t, exec_set(z, 0, t, i))
    BY <1>1, <1>2, <1>3, <1>5, ZenonT(60) DEF exec_set
  <1>6. ASSUME NEW dst \in {"X", "Y", "NULL", "PC", "ISR"}
        PROVE  Agree(m, s, out_store(m, 0, s, dst, v, cnt),
                     z, t, out_store(z, 0, t, dst, v, cnt))
    BY <1>1, <1>2, <1>3, ZenonT(60) DEF out_store
  <1> QED  BY <1>4, <1>5, <1>6

(* Writing a record twice.                                                 *)
LEMMA SetTwice ==
    ASSUME NEW m, m \in Machines, NEW s \in SMs, NEW p, NEW q
    PROVE  SetSm(SetSm(m, 0, s, p), 0, s, q) = SetSm(m, 0, s, q)
  <1> DEFINE f == [m.sm EXCEPT ![0][s] = p]
             g == [f EXCEPT ![0][s] = q]
             y == [m EXCEPT !.sm = f]
  <1>1. g = [m.sm EXCEPT ![0][s] = q]
    BY ZeroBlock DEF Machines
  <1>2. SetSm(m, 0, s, p) = y /\ SetSm(m, 0, s, q) = [m EXCEPT !.sm = g]
    BY <1>1 DEF SetSm, Machines
  <1>3. SetSm(y, 0, s, q) = [y EXCEPT !.sm[0][s] = q]
    BY DEF SetSm
  <1> HIDE DEF f
  <1>4. y.sm = f /\ [y EXCEPT !.sm[0][s] = q] = [y EXCEPT !.sm = g]
    BY DEF Machines
  <1> HIDE DEF g
  <1>5. [y EXCEPT !.sm = g] = [m EXCEPT !.sm = g]
    BY DEF Machines
  <1> QED  BY <1>2, <1>3, <1>4, <1>5

(* A write, then a step that agrees: the whole agrees.                     *)
LEMMA AgreeAfter ==
    ASSUME NEW m, NEW z, NEW s \in SMs, NEW t \in SMs, Alike(m, s, z, t),
           NEW p, Dry(p, m.sm[0][s]), NEW h, NEW k,
           Agree(SetSm(m, 0, s, p), s, h, SetSm(z, 0, t, p), t, k)
    PROVE  Agree(m, s, h, z, t, k)
  <1> DEFINE x == SetSm(m, 0, s, p)
             y == SetSm(z, 0, t, p)
  <1>1. m \in Machines /\ z \in Machines
    BY DEF Alike, MachineOK
  <1>2. x.sm[0][s] = p
    BY <1>1, ZeroBlock, SetAt
  <1> HIDE DEF x, y
  <1>3. PICK q : h.m = SetSm(x, 0, s, q) /\ k.m = SetSm(y, 0, t, q) /\ Dry(q, x.sm[0][s])
    BY DEF Agree, x, y
  <1>4. h.m = SetSm(m, 0, s, q) /\ k.m = SetSm(z, 0, t, q)
    BY <1>1, <1>3, SetTwice DEF x, y
  <1>5. Dry(q, m.sm[0][s])
    BY <1>2, <1>3 DEF Dry
  <1> QED  BY <1>4, <1>5 DEF Agree

(* exec_in without autopush.                                               *)
LEMMA InAgrees ==
    ASSUME NEW m, NEW z, NEW s \in SMs, NEW t \in SMs, Alike(m, s, z, t), NEW i,
           ~m.cfg[0][s].autopush
    PROVE  Agree(m, s, exec_in(m, 0, s, i), z, t, exec_in(z, 0, t, i))
  <1> DEFINE r == m.sm[0][s]
             c == m.cfg[0][s]
             data == mask_n(read_source(m, 0, s, i.src), i.cnt)
             q == [r EXCEPT !.isr = ShiftIn(c, @, data, i.cnt),
                            !.isr_count = Saturate(@ + i.cnt)]
  <1>1. /\ z.sm[0][t] = r /\ r \in SmRecs /\ z.cfg[0][t] = c /\ c.autopush = FALSE
        /\ read_source(z, 0, t, i.src) = read_source(m, 0, s, i.src)
    <2>1. c.autopush = FALSE
      BY ZeroBlock, SmRecAt DEF Alike, Confs
    <2>2. z.sm[0][t] = r /\ r \in SmRecs /\ z.cfg[0][t] = c
      BY ZeroBlock, SmRecAt DEF Alike
    <2>3. read_source(z, 0, t, i.src) = read_source(m, 0, s, i.src)
      BY ReadsAgree
    <2> QED  BY <2>1, <2>2, <2>3
  <1>2. /\ exec_in(m, 0, s, i) = Done(SetSm(m, 0, s, q))
        /\ exec_in(z, 0, t, i) = Done(SetSm(z, 0, t, q))
    BY <1>1, ZenonT(60) DEF exec_in
  <1>3. Dry(q, r)
    <2> HIDE DEF r
    <2> QED  BY <1>1, RegistersDry
  <1> HIDE DEF q
  <1> QED  BY <1>2, <1>3, ReturnsAgree

(* exec_out without autopull.                                              *)
LEMMA OutAgrees ==
    ASSUME NEW m, NEW z, NEW s \in SMs, NEW t \in SMs, Alike(m, s, z, t), NEW i,
           ~m.cfg[0][s].autopull, i.cnt \in 1 .. WORD_BITS,
           i.dst \in {"X", "Y", "NULL", "PC", "ISR"}
    PROVE  Agree(m, s, exec_out(m, 0, s, i), z, t, exec_out(z, 0, t, i))
  <1> DEFINE r == m.sm[0][s]
             c == m.cfg[0][s]
             val == ShiftOutValue(c, r.osr, i.cnt)
             p == [r EXCEPT !.osr = ShiftOutRest(c, @, i.cnt),
                            !.osr_count = Saturate(@ + i.cnt)]
             x == SetSm(m, 0, s, p)
             y == SetSm(z, 0, t, p)
  <1>1. z.sm[0][t] = r /\ r \in SmRecs /\ z.cfg[0][t] = c /\ c.autopull = FALSE
    <2>1. c.autopull = FALSE
      BY ZeroBlock, SmRecAt, SMTT(30) DEF Alike, Confs
    <2> QED  BY <2>1, ZeroBlock, SmRecAt DEF Alike
  <1>2. MachineOK(x) /\ MachineOK(y) /\ m \in Machines /\ z \in Machines
    <2>1. Evolves(m, SetSm(m, 0, s, p), 0)
      BY ZeroBlock, OutShifted, ZenonT(60) DEF Alike
    <2>2. Evolves(z, SetSm(z, 0, t, p), 0)
      BY <1>1, ZeroBlock, OutShifted, ZenonT(60) DEF Alike
    <2> QED  BY <2>1, <2>2, ZenonT(60) DEF Evolves, Frames, Alike, MachineOK
  <1>3. Dry(p, r)
    <2> HIDE DEF r
    <2> QED  BY <1>1, RegistersDry
  <1>4. /\ exec_out(m, 0, s, i) = out_store(x, 0, s, i.dst, val, i.cnt)
        /\ exec_out(z, 0, t, i) = out_store(y, 0, t, i.dst, val, i.cnt)
    BY <1>1, Zenon DEF exec_out
  <1> HIDE DEF p
  <1>5. Alike(x, s, y, t)
    BY <1>1, <1>2, ZeroBlock, SetAt DEF Alike
  <1>6. Agree(x, s, out_store(x, 0, s, i.dst, val, i.cnt),
              y, t, out_store(y, 0, t, i.dst, val, i.cnt))
    <2> HIDE DEF x, y, val
    <2> QED  BY <1>5, StoresAgree
  <1> QED  BY <1>3, <1>4, <1>6, AgreeAfter

(* So whatever the twins execute, they do the same.                        *)
LEMMA ExecutesAgree ==
    ASSUME NEW m, NEW z, NEW s \in SMs, NEW t \in SMs, Alike(m, s, z, t),
           NEW i \in Insns, Looks(i), InsnOK,
           ~m.cfg[0][s].autopush, ~m.cfg[0][s].autopull
    PROVE  Agree(m, s, exec_one(m, 0, s, i), z, t, exec_one(z, 0, t, i))
  <1>1. Agree(m, s, Execute(m, 0, s, i), z, t, Execute(z, 0, t, i))
    <2>1. CASE i.op = "JMP"
      BY <2>1, JmpAgrees DEF Execute
    <2>2. CASE i.op = "IN"
      BY <2>2, InAgrees DEF Execute
    <2>3. CASE i.op = "WAIT" /\ i.src # "IRQ"
      BY <2>3, InsnFields, WaitAgrees DEF Execute
    <2>4. CASE i.op = "SET" /\ i.dst \in {"X", "Y"}
      BY <2>4, StoresAgree DEF Execute
    <2>5. CASE i.op = "OUT" /\ i.dst \in {"X", "Y", "NULL", "PC", "ISR"}
      BY <2>5, InsnFields, OutAgrees DEF Execute
    <2>6. CASE i.op = "MOV" /\ i.dst \in {"X", "Y", "PC", "ISR", "OSR"}
      <3> DEFINE v == MovOp(i.mop, read_source(m, 0, s, i.src))
      <3>1. /\ Execute(m, 0, s, i) = mov_store(m, 0, s, i.dst, v)
            /\ Execute(z, 0, t, i) = mov_store(z, 0, t, i.dst, v)
        BY <2>6, ReadsAgree DEF Execute, exec_mov
      <3> HIDE DEF v
      <3> QED  BY <2>6, <3>1, StoresAgree, SMTT(30)
    <2> QED  BY <2>1, <2>2, <2>3, <2>4, <2>5, <2>6 DEF Looks
  <1>2. /\ Execute(m, 0, s, i) \in Outcomes(m, 0)
        /\ Execute(z, 0, t, i) \in Outcomes(z, 0)
    BY ZeroBlock, ExecuteOutcome DEF Alike
  <1>3. ASSUME NEW y, NEW k, Execute(y, 0, k, i) \in Outcomes(y, 0)
        PROVE  exec_one(y, 0, k, i) = Execute(y, 0, k, i)
    <2> DEFINE h == Execute(y, 0, k, i)
    <2>1. exec_one(y, 0, k, i) = [h EXCEPT !.m = h.m]
      BY DEF exec_one, SideSet, Looks
    <2> HIDE DEF h
    <2>2. [h EXCEPT !.m = h.m] = h
      BY <1>3 DEF Outcomes, h
    <2> QED  BY <2>1, <2>2 DEF h
  <1> QED  BY <1>1, <1>2, <1>3

(* A cycle of the twins.                                                   *)
LEMMA CyclesAgree ==
    ASSUME NEW m, NEW z, NEW s \in SMs, NEW t \in SMs, Alike(m, s, z, t), InsnOK,
           \A a \in PCs : Looks(insn[0][a]),
           ~m.cfg[0][s].autopush, ~m.cfg[0][s].autopull, ~m.sm[0][s].exec_pending
    PROVE  \E q : /\ sm_cycle(m, insn, 0, s) = SetSm(m, 0, s, q)
                  /\ sm_cycle(z, insn, 0, t) = SetSm(z, 0, t, q)
                  /\ Dry(q, m.sm[0][s])
  <1> DEFINE r == m.sm[0][s]
             c == m.cfg[0][s]
             i == insn[0][r.pc]
             h == exec_one(m, 0, s, i)
             k == exec_one(z, 0, t, i)
  <1>1. /\ z.sm[0][t] = r /\ z.cfg[0][t] = c /\ r \in SmRecs /\ c.autopull = FALSE
        /\ r.exec_pending = FALSE /\ m \in Machines /\ z \in Machines
        /\ MachineOK(m) /\ MachineOK(z)
    <2>1. /\ r \in SmRecs /\ c \in Confs
          /\ m \in Machines /\ z \in Machines
      BY ZeroBlock, SmRecAt DEF Alike, MachineOK
    <2> QED  BY <2>1 DEF Alike, SmRecs, Confs
  <1>2. r.pc \in PCs /\ r.delay \in Nat /\ i \in Insns /\ Looks(i)
    <2>1. r.pc \in PCs /\ r.delay \in Nat
      BY <1>1 DEF SmRecs
    <2> QED  BY <2>1, ZeroBlock DEF InsnOK
  <1>3. /\ sm_cycle(m, insn, 0, s) = DelayOrExecute(m, insn, 0, s)
        /\ sm_cycle(z, insn, 0, t) = DelayOrExecute(z, insn, 0, t)
    BY <1>1, Zenon DEF sm_cycle, BackgroundRefill
  <1>4. CASE r.delay > 0
    <2> DEFINE q == [r EXCEPT !.delay = @ - 1]
    <2>1. /\ DelayOrExecute(m, insn, 0, s) = SetSm(m, 0, s, q)
          /\ DelayOrExecute(z, insn, 0, t) = SetSm(z, 0, t, q)
      BY <1>1, <1>4, Zenon DEF DelayOrExecute
    <2>2. Dry(q, r)
      <3> HIDE DEF r
      <3> QED  BY <1>1 DEF Dry, SmRecs
    <2> HIDE DEF q
    <2> QED  BY <1>3, <2>1, <2>2
  <1>5. CASE ~(r.delay > 0)
    <2>1. /\ DelayOrExecute(m, insn, 0, s)
               = IF h.stalled THEN SetSm(h.m, 0, s, [h.m.sm[0][s] EXCEPT !.stalled = TRUE])
                 ELSE Commit(h, 0, s, i, FALSE)
          /\ DelayOrExecute(z, insn, 0, t)
               = IF k.stalled THEN SetSm(k.m, 0, t, [k.m.sm[0][t] EXCEPT !.stalled = TRUE])
                 ELSE Commit(k, 0, t, i, FALSE)
      BY <1>1, <1>5, Zenon DEF DelayOrExecute
    <2>2. Agree(m, s, h, z, t, k)
      <3> HIDE DEF i
      <3> QED  BY <1>2, ExecutesAgree
    <2>3. MachineOK(h.m) /\ h.m \in Machines /\ k.m \in Machines
      <3> HIDE DEF i
      <3>1. h \in Outcomes(m, 0) /\ k \in Outcomes(z, 0)
        BY <1>1, <1>2, ZeroBlock, ExecOneOutcome
      <3> HIDE DEF h, k
      <3> QED  BY <3>1 DEF Outcomes, Evolves, Frames, MachineOK
    <2> HIDE DEF h, k, i
    <2>4. PICK p : h.m = SetSm(m, 0, s, p) /\ k.m = SetSm(z, 0, t, p) /\ Dry(p, r)
      BY <2>2 DEF Agree
    <2>5. /\ k.stalled = h.stalled /\ k.set_pc = h.set_pc /\ k.next_pc = h.next_pc
      BY <2>2 DEF Agree
    <2>6. /\ h.m.sm[0][s] = p /\ k.m.sm[0][t] = p
          /\ h.m.cfg[0][s] = c /\ k.m.cfg[0][t] = c
      <3> HIDE DEF r
      <3> QED  BY <1>1, <2>4, ZeroBlock, SetAt
    <2>7. p \in SmRecs
      BY <2>3, <2>6, ZeroBlock, SmRecAt
    <2>8. \A q : /\ SetSm(h.m, 0, s, q) = SetSm(m, 0, s, q)
                /\ SetSm(k.m, 0, t, q) = SetSm(z, 0, t, q)
      BY <1>1, <2>4, SetTwice
    <2>9. CASE h.stalled
      <3> DEFINE q == [p EXCEPT !.stalled = TRUE]
      <3>1. Dry(q, r)
        <4> HIDE DEF r
        <4> QED  BY <2>4, <2>7 DEF Dry, SmRecs
      <3>2. /\ DelayOrExecute(m, insn, 0, s) = SetSm(m, 0, s, q)
            /\ DelayOrExecute(z, insn, 0, t) = SetSm(z, 0, t, q)
        BY <2>1, <2>5, <2>6, <2>8, <2>9
      <3> HIDE DEF q
      <3> QED  BY <1>3, <3>1, <3>2
    <2>10. CASE ~h.stalled
      <3> DEFINE next == CASE h.set_pc -> h.next_pc
                           [] ~h.set_pc /\ FALSE -> p.pc
                           [] ~h.set_pc /\ ~FALSE /\ p.pc = c.wrap_top -> c.wrap_bottom
                           [] OTHER -> (p.pc + 1) % INSN_COUNT
                 q == [p EXCEPT !.stalled = FALSE, !.pc = next,
                                !.exec_pending = @ /\ ~FALSE,
                                !.delay = IF p.exec_pending /\ ~FALSE THEN 0 ELSE i.delay]
      <3>1. Commit(h, 0, s, i, FALSE) = SetSm(h.m, 0, s, q)
        BY <2>6, Zenon DEF Commit
      <3>2. Commit(k, 0, t, i, FALSE) = SetSm(k.m, 0, t, q)
        BY <2>5, <2>6, Zenon DEF Commit
      <3>3. Dry(q, r)
        <4> HIDE DEF r, next
        <4>1. p.exec_pending \in BOOLEAN
          BY <2>7 DEF SmRecs
        <4> QED  BY <2>4, <2>7, <4>1 DEF Dry, SmRecs
      <3> HIDE DEF q
      <3>4. /\ DelayOrExecute(m, insn, 0, s) = SetSm(m, 0, s, q)
            /\ DelayOrExecute(z, insn, 0, t) = SetSm(z, 0, t, q)
        BY <2>1, <2>5, <2>8, <2>10, <3>1, <3>2
      <3> QED  BY <1>3, <3>3, <3>4
    <2> QED  BY <2>9, <2>10
  <1> QED  BY <1>4, <1>5

(* y is m after state machine s of block 0, and no other, became q; pins   *)
(* registers may differ, pads and flags do not.                            *)
Became(m, y, s, q) ==
    /\ y.cfg = m.cfg /\ y.irq = m.irq /\ y.pads = m.pads /\ y.sm[0][s] = q
    /\ \A u \in SMs : u # s => y.sm[0][u] = m.sm[0][u]

(* A stopped state machine only has its divider run on.                    *)
Rests(q, r) == ~r.enabled => \E a \in Nat : q = [r EXCEPT !.clk_accum = a]

(* Block 0 runs twins on machine m.                                        *)
TwinCode == InsnOK /\ \A a \in PCs : Looks(insn[0][a])

RunsTwins(m) ==
    \A s \in SMs : /\ m.cfg[0][s] = m.cfg[0][0]
                   /\ ~m.cfg[0][s].autopush /\ ~m.cfg[0][s].autopull
                   /\ ~m.sm[0][s].exec_pending

(* A tick of the twins.                                                    *)
LEMMA TicksAgree ==
    ASSUME NEW m, NEW z, NEW s \in SMs, NEW t \in SMs, Alike(m, s, z, t), TwinCode,
           ~m.cfg[0][s].autopush, ~m.cfg[0][s].autopull, ~m.sm[0][s].exec_pending
    PROVE  \E q : /\ Became(m, SmTick(m, insn, 0, s), s, q)
                  /\ Became(z, SmTick(z, insn, 0, t), t, q)
                  /\ Dry(q, m.sm[0][s]) /\ Rests(q, m.sm[0][s])
  <1> DEFINE r == m.sm[0][s]
             c == m.cfg[0][s]
             a == div_next(r.clk_accum, c.div)
             p == [r EXCEPT !.clk_accum = a]
             x == SetSm(m, 0, s, p)
             y == SetSm(z, 0, t, p)
             due == div_due(r.clk_accum, c.div) /\ r.enabled
             Held(v, u) == IF ~c.out_sticky THEN v
                           ELSE [v EXCEPT !.reg[0][u].wrote = @ \union v.reg[0][u].oe]
  <1>1. /\ z.sm[0][t] = r /\ z.cfg[0][t] = c /\ r \in SmRecs /\ c \in Confs
        /\ m \in Machines /\ z \in Machines /\ MachineOK(m) /\ MachineOK(z)
    BY ZeroBlock, SmRecAt DEF Alike, MachineOK
  <1>2. /\ SmTick(m, insn, 0, s) = IF due THEN Held(sm_cycle(x, insn, 0, s), s) ELSE x
        /\ SmTick(z, insn, 0, t) = IF due THEN Held(sm_cycle(y, insn, 0, t), t) ELSE y
    BY <1>1, ZenonT(60) DEF SmTick
  <1>3. /\ MachineOK(x) /\ MachineOK(y) /\ x \in Machines /\ y \in Machines
        /\ Dry(p, r) /\ a \in Nat
    <2>1. Idles(m, SetSm(m, 0, s, p), 0)
      BY <1>1, ZeroBlock, DividerIdles
    <2>2. Idles(z, SetSm(z, 0, t, p), 0)
      <3>1. SetSm(z, 0, t, p) = SetSm(z, 0, t, [z.sm[0][t] EXCEPT !.clk_accum =
                                                 div_next(@, z.cfg[0][t].div)])
        BY <1>1
      <3> QED  BY <1>1, <3>1, ZeroBlock, DividerIdles
    <2>3. a \in Nat
      <3>1. r.clk_accum \in Nat /\ c.div \in Nat /\ DIV_ONE \in Nat
        BY <1>1, DivAssumption DEF SmRecs, Confs
      <3> HIDE DEF r, c
      <3> QED  BY <3>1 DEF div_next, div_due
    <2>4. Dry(p, r)
      <3> HIDE DEF r, a
      <3> QED  BY <1>1 DEF Dry, SmRecs
    <2> QED  BY <2>1, <2>2, <2>3, <2>4, Zenon DEF Idles, Evolves, Frames, MachineOK
  <1> HIDE DEF p
  <1>4. Alike(x, s, y, t) /\ x.sm[0][s] = p /\ x.cfg[0][s] = c
    BY <1>1, <1>3, ZeroBlock, SetAt DEF Alike
  <1>5. \A q : Became(m, SetSm(m, 0, s, q), s, q) /\ Became(z, SetSm(z, 0, t, q), t, q)
    BY <1>1, ZeroBlock, SetAt DEF Became
  <1>6. CASE ~due
    <2>1. Rests(p, r)
      BY <1>3 DEF Rests, p
    <2>2. SmTick(m, insn, 0, s) = x /\ SmTick(z, insn, 0, t) = y
      BY <1>2, <1>6
    <2> QED  BY <1>3, <1>5, <2>1, <2>2, SMTT(30)
  <1>7. CASE due
    <2>1. ~p.exec_pending
      <3> HIDE DEF r
      <3> QED  BY <1>3 DEF Dry, r
    <2>2. PICK q : /\ sm_cycle(x, insn, 0, s) = SetSm(x, 0, s, q)
                   /\ sm_cycle(y, insn, 0, t) = SetSm(y, 0, t, q)
                   /\ Dry(q, p)
      <3> HIDE DEF x, y
      <3> QED  BY <1>4, <2>1, CyclesAgree DEF TwinCode
    <2>3. SetSm(x, 0, s, q) = SetSm(m, 0, s, q) /\ SetSm(y, 0, t, q) = SetSm(z, 0, t, q)
      BY <1>1, SetTwice
    <2>4. ASSUME NEW v \in Machines, NEW w, NEW u, Became(v, w, u, q),
                 w \in [cfg : {w.cfg}, sm : {w.sm}, reg : {w.reg}, irq : {w.irq},
                        pads : {w.pads}]
          PROVE  Became(v, Held(w, u), u, q)
      <3> HIDE DEF c
      <3> QED  BY <2>4 DEF Became
    <2>5. \A v \in Machines : \A k : LET w == SetSm(v, 0, k, q)
            IN  w \in [cfg : {w.cfg}, sm : {w.sm}, reg : {w.reg}, irq : {w.irq},
                       pads : {w.pads}]
      BY DEF SetSm, Machines
    <2>6. /\ Became(m, SmTick(m, insn, 0, s), s, q)
          /\ Became(z, SmTick(z, insn, 0, t), t, q)
      <3> DEFINE f == SetSm(m, 0, s, q)
                 g == SetSm(z, 0, t, q)
      <3>1. SmTick(m, insn, 0, s) = Held(f, s) /\ SmTick(z, insn, 0, t) = Held(g, t)
        BY <1>2, <1>7, <2>2, <2>3
      <3>2. Became(m, f, s, q) /\ Became(z, g, t, q)
        BY <1>5
      <3>3. /\ f \in [cfg : {f.cfg}, sm : {f.sm}, reg : {f.reg}, irq : {f.irq},
                      pads : {f.pads}]
            /\ g \in [cfg : {g.cfg}, sm : {g.sm}, reg : {g.reg}, irq : {g.irq},
                      pads : {g.pads}]
        BY <1>1, <2>5
      <3> HIDE DEF f, g, Held
      <3> QED  BY <1>1, <2>4, <3>1, <3>2, <3>3
    <2>7. Dry(q, r) /\ Rests(q, r)
      <3> HIDE DEF r
      <3> QED  BY <1>3, <1>7, <2>2 DEF Dry, Rests
    <2> QED  BY <2>6, <2>7
  <1> QED  BY <1>6, <1>7

(* A tick of block 0.                                                      *)
LEMMA TwinBlock ==
    ASSUME NEW m, MachineOK(m), TwinCode, RunsTwins(m)
    PROVE  LET z == TickBlock(m, insn, 0)
           IN  /\ z.cfg = m.cfg
               /\ \A s \in SMs : /\ Dry(z.sm[0][s], m.sm[0][s])
                                 /\ Rests(z.sm[0][s], m.sm[0][s])
               /\ \A s, t \in SMs : m.sm[0][s] = m.sm[0][t] => z.sm[0][s] = z.sm[0][t]
  <1>1. PICK g : TickChain(g, m, 0)
    BY ZeroBlock, TickIsChain DEF TwinCode
  <1>2. NUM_SM \in Nat /\ NUM_SM \in 0 .. NUM_SM /\ 0 \in 0 .. NUM_SM
    BY PadsAssumption
  <1>3. \A k \in 0 .. NUM_SM : MachineOK(g[k])
    BY <1>1 DEF TickChain, Evolves, Frames
  <1> DEFINE Ok(k) == /\ g[k].cfg = m.cfg /\ g[k].irq = m.irq /\ g[k].pads = m.pads
                      /\ \A u \in SMs : u >= k => g[k].sm[0][u] = m.sm[0][u]
                      /\ \A u \in SMs : u < k => g[k].sm[0][u] = g[u + 1].sm[0][u]
             S == {k \in Nat : k <= NUM_SM => Ok(k)}
  <1>4. 0 \in S
    <2> DEFINE z == OpenWriteWindow(m, {0})
    <2>1. z.sm = m.sm /\ z.cfg = m.cfg /\ z.irq = m.irq /\ z.pads = m.pads
      BY WindowFrame
    <2> HIDE DEF z
    <2>2. g[0] = z
      BY <1>1 DEF TickChain, z
    <2> QED  BY <1>2, <2>1, <2>2 DEF SMs
  <1>5. ASSUME NEW k \in SMs, Ok(k), NEW j \in SMs, Ok(j), m.sm[0][k] = m.sm[0][j]
        PROVE  \E q : /\ Became(g[k], g[k + 1], k, q) /\ Became(g[j], g[j + 1], j, q)
                      /\ Dry(q, m.sm[0][k]) /\ Rests(q, m.sm[0][k])
    <2>1. k \in 0 .. NUM_SM /\ j \in 0 .. NUM_SM /\ k >= k /\ j >= j
      BY <1>2 DEF SMs
    <2>2. Alike(g[k], k, g[j], j) /\ g[k].sm[0][k] = m.sm[0][k]
      BY <1>3, <1>5, <2>1 DEF Alike, RunsTwins
    <2>3. /\ ~g[k].cfg[0][k].autopush /\ ~g[k].cfg[0][k].autopull
          /\ ~g[k].sm[0][k].exec_pending
      BY <1>5, <2>2 DEF RunsTwins
    <2>4. g[k + 1] = SmTick(g[k], insn, 0, k) /\ g[j + 1] = SmTick(g[j], insn, 0, j)
      BY <1>1 DEF TickChain
    <2> QED  BY <2>2, <2>3, <2>4, TicksAgree
  <1>6. ASSUME NEW k \in Nat, k \in S PROVE k + 1 \in S
    <2> SUFFICES ASSUME k + 1 <= NUM_SM PROVE Ok(k + 1)
      OBVIOUS
    <2>1. k \in SMs /\ Ok(k)
      BY <1>2, <1>6 DEF SMs
    <2>2. PICK q : Became(g[k], g[k + 1], k, q)
      BY <1>5, <2>1
    <2>3. \A u \in SMs : /\ u >= k + 1 => u >= k /\ u # k
                         /\ u < k + 1 => u < k \/ u = k
                         /\ u < k => u # k
      BY <2>1 DEF SMs
    <2> QED  BY <2>1, <2>2, <2>3 DEF Became
  <1> HIDE DEF S, Ok
  <1>7. Nat \subseteq S
    BY <1>4, <1>6, SetInduction
  <1>8. \A k \in 0 .. NUM_SM : Ok(k)
    BY <1>2, <1>7 DEF S
  <1> DEFINE z == TickBlock(m, insn, 0)
  <1>9. PinsOnly(g[NUM_SM], z)
    <2>1. g[NUM_SM] \in Machines
      BY <1>2, <1>3 DEF MachineOK
    <2> QED  BY <1>1, <2>1, DrivesPinsOnly DEF TickChain
  <1> HIDE DEF z
  <1>10. \A u \in SMs : z.sm[0][u] = g[u + 1].sm[0][u] /\ Ok(u)
    <2>1. \A u \in SMs : u < NUM_SM /\ u \in 0 .. NUM_SM
      BY <1>2 DEF SMs
    <2> QED  BY <1>2, <1>8, <1>9, <2>1 DEF Ok, PinsOnly
  <1>11. \A s, t \in SMs : m.sm[0][s] = m.sm[0][t] =>
           \E q : /\ z.sm[0][s] = q /\ z.sm[0][t] = q
                  /\ Dry(q, m.sm[0][s]) /\ Rests(q, m.sm[0][s])
    BY <1>5, <1>10 DEF Became
  <1>12. z.cfg = m.cfg
    BY <1>2, <1>8, <1>9 DEF Ok, PinsOnly
  <1> QED  BY <1>11, <1>12 DEF z

(***************************************************************************)
(* The twins under their host.                                             *)
(***************************************************************************)

(* A record as a stopped state machine has it after a restart.             *)
Restarted(r, c) == \E a : r = [Configured(c) EXCEPT !.clk_accum = a]

(* FIFOs nobody used, no sticky flag and no pinned STATUS.                 *)
Untouched(r, c) ==
    /\ r.tx = Configured(c).tx /\ r.rx = Configured(c).rx
    /\ r.fdebug = {} /\ r.status = <<>>

Together(m, fr, sy) ==
    LET c == m.cfg[0][0]
    IN  /\ RunsTwins(m)
        /\ \A s \in SMs : Untouched(m.sm[0][s], c)
        /\ \A s \in fr : Restarted(m.sm[0][s], c)
        /\ sy => \A s, t \in SMs : m.sm[0][s] = m.sm[0][t]

TwinInv ==
    /\ Inv /\ TwinCode /\ {0} \X SMs \subseteq host.sms
    /\ fresh \subseteq SMs /\ synced \in BOOLEAN
    /\ Together(Machine, fresh, synced)

(* What pio_sim_sm_init leaves of a state machine.                         *)
LEMMA ConfiguredIs ==
    ASSUME NEW c
    PROVE  LET q == Configured(c)
           IN  /\ q = [enabled |-> FALSE, pc |-> c.wrap_bottom, x |-> ZERO, y |-> ZERO,
                       osr |-> ZERO, isr |-> ZERO, osr_count |-> WORD_BITS,
                       isr_count |-> 0, delay |-> 0, stalled |-> FALSE,
                       exec_pending |-> FALSE, exec_insn |-> NoInsn, clk_accum |-> 0,
                       fdebug |-> {}, tx |-> q.tx, rx |-> q.rx, status |-> <<>>]
               /\ fifo_clear(q.tx) = q.tx /\ fifo_clear(q.rx) = q.rx
  <1> DEFINE f(cap) == [EmptyFifo(ZERO) EXCEPT !.cap = cap]
             q == [enabled |-> FALSE, pc |-> c.wrap_bottom, x |-> ZERO, y |-> ZERO,
                   osr |-> ZERO, isr |-> ZERO, osr_count |-> WORD_BITS,
                   isr_count |-> 0, delay |-> 0, stalled |-> FALSE,
                   exec_pending |-> FALSE, exec_insn |-> NoInsn, clk_accum |-> 0,
                   fdebug |-> {}, tx |-> f(TxCap(c.fifo_join)),
                   rx |-> f(RxCap(c.fifo_join)), status |-> <<>>]
  <1>1. Configured(c) = q
    <2> DEFINE e == EmptyFifo(ZERO)
    <2>1. ResetSm = [enabled |-> FALSE, pc |-> 0, x |-> ZERO, y |-> ZERO,
                     osr |-> ZERO, isr |-> ZERO, osr_count |-> WORD_BITS,
                     isr_count |-> 0, delay |-> 0, stalled |-> FALSE,
                     exec_pending |-> FALSE, exec_insn |-> NoInsn, clk_accum |-> 0,
                     fdebug |-> {}, tx |-> e, rx |-> e, status |-> <<>>]
      BY DEF ResetSm
    <2> HIDE DEF e
    <2>2. f(TxCap(c.fifo_join)) = [e EXCEPT !.cap = TxCap(c.fifo_join)]
          /\ f(RxCap(c.fifo_join)) = [e EXCEPT !.cap = RxCap(c.fifo_join)]
      BY DEF e
    <2> DEFINE tc == TxCap(c.fifo_join)
               rc == RxCap(c.fifo_join)
    <2>3. Configured(c) = [ResetSm EXCEPT !.tx.cap = tc, !.rx.cap = rc,
                                          !.pc = c.wrap_bottom]
      BY DEF Configured
    <2> HIDE DEF tc, rc
    <2>4. Configured(c)
            = [enabled |-> FALSE, pc |-> c.wrap_bottom, x |-> ZERO, y |-> ZERO,
               osr |-> ZERO, isr |-> ZERO, osr_count |-> WORD_BITS,
               isr_count |-> 0, delay |-> 0, stalled |-> FALSE,
               exec_pending |-> FALSE, exec_insn |-> NoInsn, clk_accum |-> 0,
               fdebug |-> {}, tx |-> [e EXCEPT !.cap = tc],
               rx |-> [e EXCEPT !.cap = rc], status |-> <<>>]
      <3> DEFINE r == ResetSm
                 x == [e EXCEPT !.cap = tc]
                 y == [e EXCEPT !.cap = rc]
      <3>1. r.tx = e /\ r.rx = e
        BY <2>1
      <3>2. Configured(c) = [r EXCEPT !.tx = x, !.rx = y, !.pc = c.wrap_bottom]
        <4> HIDE DEF r
        <4> QED  BY <2>3, <3>1 DEF r
      <3> HIDE DEF x, y
      <3> QED  BY <2>1, <3>2, ZenonT(60) DEF x, y
    <2> HIDE DEF f
    <2> QED  BY <2>2, <2>4 DEF tc, rc
  <1>2. \A n : fifo_clear(f(n)) = f(n)
    <2> DEFINE buf == [i \in Slots |-> ZERO]
    <2>1. EmptyFifo(ZERO) = [buf |-> buf, head |-> 0, tail |-> 0, count |-> 0,
                             cap |-> FIFO_DEPTH]
      BY DEF EmptyFifo
    <2> HIDE DEF buf
    <2>2. ASSUME NEW n
          PROVE  f(n) = [buf |-> buf, head |-> 0, tail |-> 0, count |-> 0, cap |-> n]
      BY <2>1
    <2> SUFFICES ASSUME NEW n PROVE fifo_clear(f(n)) = f(n)
      OBVIOUS
    <2> DEFINE g == f(n)
    <2>3. g = [buf |-> buf, head |-> 0, tail |-> 0, count |-> 0, cap |-> n]
      BY <2>2
    <2> HIDE DEF g
    <2>4. g \in [buf : {buf}, head : {0}, tail : {0}, count : {0}, cap : {n}]
      BY <2>3
    <2>5. [g EXCEPT !.head = 0, !.tail = 0, !.count = 0] = g
      BY <2>4
    <2> QED  BY <2>5, Zenon DEF fifo_clear, g
  <1> HIDE DEF f
  <1> QED  BY <1>1, <1>2

(* Restarting a stopped state machine leaves nothing of its past.          *)
LEMMA RestartForgets ==
    ASSUME NEW c, NEW r \in SmRecs, Untouched(r, c)
    PROVE  LET q == sm_reset_exec(r, c.wrap_bottom)
           IN  /\ Untouched(q, c) /\ ~q.exec_pending
               /\ ~r.enabled => Restarted(q, c)
  <1> DEFINE q == sm_reset_exec(r, c.wrap_bottom)
             d == Configured(c)
  <1>1. /\ d = [enabled |-> FALSE, pc |-> c.wrap_bottom, x |-> ZERO, y |-> ZERO,
                osr |-> ZERO, isr |-> ZERO, osr_count |-> WORD_BITS,
                isr_count |-> 0, delay |-> 0, stalled |-> FALSE,
                exec_pending |-> FALSE, exec_insn |-> NoInsn, clk_accum |-> 0,
                fdebug |-> {}, tx |-> d.tx, rx |-> d.rx, status |-> <<>>]
        /\ fifo_clear(d.tx) = d.tx /\ fifo_clear(d.rx) = d.rx
    BY ConfiguredIs
  <1> HIDE DEF d
  <1>2. /\ r.tx = d.tx /\ r.rx = d.rx /\ r.fdebug = {} /\ r.status = <<>>
    BY DEF Untouched, d
  <1>3. q = [enabled |-> r.enabled, pc |-> c.wrap_bottom, x |-> ZERO, y |-> ZERO,
             osr |-> ZERO, isr |-> ZERO, osr_count |-> WORD_BITS,
             isr_count |-> 0, delay |-> 0, stalled |-> FALSE,
             exec_pending |-> FALSE, exec_insn |-> NoInsn, clk_accum |-> 0,
             fdebug |-> {}, tx |-> d.tx, rx |-> d.rx, status |-> <<>>]
    <2>1. /\ fifo_clear(r.tx) = d.tx /\ fifo_clear(r.rx) = d.rx
      BY <1>1, <1>2
    <2> DEFINE u == fifo_clear(r.tx)
               v == fifo_clear(r.rx)
    <2>2. q = [r EXCEPT !.pc = c.wrap_bottom, !.x = ZERO, !.y = ZERO, !.osr = ZERO,
                        !.isr = ZERO, !.osr_count = WORD_BITS, !.isr_count = 0,
                        !.delay = 0, !.stalled = FALSE, !.exec_pending = FALSE,
                        !.exec_insn = NoInsn, !.clk_accum = 0, !.tx = u, !.rx = v]
      BY Zenon DEF sm_reset_exec
    <2> HIDE DEF q, u, v
    <2>3. q = [enabled |-> r.enabled, pc |-> c.wrap_bottom, x |-> ZERO, y |-> ZERO,
               osr |-> ZERO, isr |-> ZERO, osr_count |-> WORD_BITS,
               isr_count |-> 0, delay |-> 0, stalled |-> FALSE,
               exec_pending |-> FALSE, exec_insn |-> NoInsn, clk_accum |-> 0,
               fdebug |-> r.fdebug, tx |-> u, rx |-> v, status |-> r.status]
      BY <2>2 DEF SmRecs
    <2> QED  BY <1>2, <2>1, <2>3 DEF u, v
  <1> HIDE DEF q
  <1>4. Untouched(q, c) /\ ~q.exec_pending
    BY <1>3 DEF Untouched, d
  <1>5. ASSUME ~r.enabled PROVE Restarted(q, c)
    <2>1. r.enabled = FALSE
      BY <1>5 DEF SmRecs
    <2>2. q = d
      BY <1>1, <1>3, <2>1
    <2>3. [d EXCEPT !.clk_accum = 0] = d
      BY <1>1
    <2> QED  BY <2>2, <2>3 DEF Restarted, d
  <1> QED  BY <1>4, <1>5 DEF q

(* Restarted records start alike.                                          *)
LEMMA StartedAlike ==
    ASSUME NEW c, NEW r, NEW q, Restarted(r, c), Restarted(q, c)
    PROVE  [[r EXCEPT !.enabled = TRUE] EXCEPT !.clk_accum = 0]
             = [[q EXCEPT !.enabled = TRUE] EXCEPT !.clk_accum = 0]
  <1> DEFINE d == Configured(c)
             e == [[d EXCEPT !.enabled = TRUE] EXCEPT !.clk_accum = 0]
  <1>1. d = [enabled |-> FALSE, pc |-> c.wrap_bottom, x |-> ZERO, y |-> ZERO,
             osr |-> ZERO, isr |-> ZERO, osr_count |-> WORD_BITS,
             isr_count |-> 0, delay |-> 0, stalled |-> FALSE,
             exec_pending |-> FALSE, exec_insn |-> NoInsn, clk_accum |-> 0,
             fdebug |-> {}, tx |-> d.tx, rx |-> d.rx, status |-> <<>>]
    BY ConfiguredIs
  <1>2. PICK a, k : r = [d EXCEPT !.clk_accum = a] /\ q = [d EXCEPT !.clk_accum = k]
    BY DEF Restarted
  <1> HIDE DEF d
  <1>3. ASSUME NEW v
        PROVE  [[[d EXCEPT !.clk_accum = v] EXCEPT !.enabled = TRUE]
                  EXCEPT !.clk_accum = 0] = e
    BY <1>1
  <1> HIDE DEF e
  <1> QED  BY <1>2, <1>3

(* A record that only had its divider run on is still restarted.           *)
LEMMA RestsRestarted ==
    ASSUME NEW c, NEW r, NEW q, Restarted(r, c), Rests(q, r)
    PROVE  Restarted(q, c)
  <1> DEFINE d == Configured(c)
  <1>1. d = [enabled |-> FALSE, pc |-> c.wrap_bottom, x |-> ZERO, y |-> ZERO,
             osr |-> ZERO, isr |-> ZERO, osr_count |-> WORD_BITS,
             isr_count |-> 0, delay |-> 0, stalled |-> FALSE,
             exec_pending |-> FALSE, exec_insn |-> NoInsn, clk_accum |-> 0,
             fdebug |-> {}, tx |-> d.tx, rx |-> d.rx, status |-> <<>>]
    BY ConfiguredIs
  <1>2. PICK a : r = [d EXCEPT !.clk_accum = a]
    BY DEF Restarted
  <1> HIDE DEF d
  <1>3. r.enabled = FALSE
    BY <1>1, <1>2
  <1>4. PICK k : q = [r EXCEPT !.clk_accum = k]
    BY <1>3 DEF Rests
  <1>5. q = [d EXCEPT !.clk_accum = k]
    BY <1>1, <1>2, <1>4
  <1> QED  BY <1>5 DEF Restarted, d

(* Ticks of block 0, ticks of the others, and steps on pins only.          *)
LEMMA TogetherTicks ==
    ASSUME NEW m, MachineOK(m), TwinCode, NEW fr \in SUBSET SMs, NEW sy \in BOOLEAN,
           Together(m, fr, sy), NEW b \in Blocks
    PROVE  Together(TickBlock(m, insn, b), fr, sy)
  <1> DEFINE z == TickBlock(m, insn, b)
  <1>1. CASE b = 0
    <2>1. /\ z.cfg = m.cfg
          /\ \A s \in SMs : /\ Dry(z.sm[0][s], m.sm[0][s])
                            /\ Rests(z.sm[0][s], m.sm[0][s])
          /\ \A s, t \in SMs : m.sm[0][s] = m.sm[0][t] => z.sm[0][s] = z.sm[0][t]
      BY <1>1, TwinBlock DEF Together
    <2> HIDE DEF z
    <2>2. RunsTwins(z)
      BY <2>1 DEF Together, RunsTwins, Dry
    <2>3. \A s \in SMs : Untouched(z.sm[0][s], m.cfg[0][0])
      BY <2>1 DEF Together, Untouched, Dry
    <2>4. \A s \in fr : Restarted(z.sm[0][s], m.cfg[0][0])
      BY <2>1, RestsRestarted DEF Together
    <2> QED  BY <2>1, <2>2, <2>3, <2>4 DEF Together, z
  <1>2. CASE b # 0
    <2>1. Evolves(m, z, b)
      BY TickBlockEvolves DEF TwinCode
    <2> HIDE DEF z
    <2>2. z.cfg = m.cfg /\ z.sm[0] = m.sm[0]
      BY <1>2, <2>1, ZeroBlock DEF Evolves, Frames
    <2> QED  BY <2>2 DEF Together, RunsTwins, z
  <1> QED  BY <1>1, <1>2

LEMMA PinsTogether ==
    ASSUME NEW m, NEW z, PinsOnly(m, z), NEW fr, NEW sy, Together(m, fr, sy)
    PROVE  Together(z, fr, sy)
  BY DEF PinsOnly, Together, RunsTwins

(* What enabling and restarting dividers write into block 0.               *)
LEMMA EnableWrites ==
    ASSUME NEW m, MachineOK(m), NEW K, NEW on \in BOOLEAN
    PROVE  LET z == EnableMask(m, 0, K, on)
           IN  /\ MachineOK(z) /\ z.cfg = m.cfg /\ z.irq = m.irq
               /\ \A s \in SMs : z.sm[0][s] = IF s \in K
                                              THEN [m.sm[0][s] EXCEPT !.enabled = on]
                                              ELSE m.sm[0][s]
  <1> DEFINE z == EnableMask(m, 0, K, on)
             f == [s \in SMs |-> IF s \in K THEN [m.sm[0][s] EXCEPT !.enabled = on]
                                 ELSE m.sm[0][s]]
             g == [m.sm EXCEPT ![0] = f]
             y == [m EXCEPT !.sm = g]
  <1>1. m \in Machines /\ MachineOK(z)
    BY ZeroBlock, EnableOK DEF Touches, MachineOK
  <1>2. z = ResolvePads(y, 0)
    BY <1>1 DEF EnableMask, Machines
  <1>3. \A s \in SMs : f[s] = IF s \in K THEN [m.sm[0][s] EXCEPT !.enabled = on]
                              ELSE m.sm[0][s]
    OBVIOUS
  <1> HIDE DEF f
  <1>4. g[0] = f
    BY <1>1, ZeroBlock DEF Machines
  <1> HIDE DEF g
  <1>5. y.sm = g /\ y.cfg = m.cfg /\ y.irq = m.irq
    BY <1>1 DEF Machines
  <1>6. \A p : LET x == [y EXCEPT !.pads[PadOf(0)] = p]
                 IN  x.cfg = y.cfg /\ x.sm = y.sm /\ x.irq = y.irq
    BY <1>1 DEF Machines
  <1> HIDE DEF y
  <1>7. z.cfg = y.cfg /\ z.sm = y.sm /\ z.irq = y.irq
    BY <1>2, <1>6 DEF ResolvePads
  <1> HIDE DEF z
  <1>8. z.sm[0] = f /\ z.cfg = m.cfg /\ z.irq = m.irq
    BY <1>4, <1>5, <1>7
  <1> QED  BY <1>1, <1>3, <1>8 DEF z

LEMMA RestartWrites ==
    ASSUME NEW m, MachineOK(m)
    PROVE  LET z == pio_sim_clkdiv_restart_sm_mask(m, 0, SMs)
           IN  /\ MachineOK(z) /\ z.cfg = m.cfg
               /\ \A s \in SMs : z.sm[0][s] = [m.sm[0][s] EXCEPT !.clk_accum = 0]
  <1> DEFINE z == pio_sim_clkdiv_restart_sm_mask(m, 0, SMs)
             f == [s \in SMs |-> IF s \in SMs THEN [m.sm[0][s] EXCEPT !.clk_accum = 0]
                                 ELSE m.sm[0][s]]
             g == [m.sm EXCEPT ![0] = f]
  <1>1. m \in Machines /\ MachineOK(z) /\ z.cfg = m.cfg
    BY ZeroBlock, RestartClockOK DEF Evolves, Frames, MachineOK
  <1>2. z = [m EXCEPT !.sm = g]
    BY <1>1 DEF pio_sim_clkdiv_restart_sm_mask, Machines
  <1>3. \A s \in SMs : f[s] = [m.sm[0][s] EXCEPT !.clk_accum = 0]
    OBVIOUS
  <1> HIDE DEF f
  <1>4. g[0] = f
    BY <1>1, ZeroBlock DEF Machines
  <1> HIDE DEF g, z
  <1>5. z.sm[0] = f
    BY <1>1, <1>2, <1>4 DEF Machines
  <1> QED  BY <1>1, <1>3, <1>5 DEF z

(* Enabling touches nothing else of a record.                              *)
LEMMA EnabledRecord ==
    ASSUME NEW r \in SmRecs, NEW on \in BOOLEAN, NEW c, NEW k \in Nat
    PROVE  /\ Untouched(r, c) => /\ Untouched([r EXCEPT !.enabled = on], c)
                                 /\ Untouched([r EXCEPT !.clk_accum = k], c)
           /\ [r EXCEPT !.enabled = on].exec_pending = r.exec_pending
           /\ [r EXCEPT !.clk_accum = k].exec_pending = r.exec_pending
           /\ [r EXCEPT !.enabled = on] \in SmRecs
           /\ Restarted(r, c) => r.enabled = FALSE /\ [r EXCEPT !.enabled = FALSE] = r
  <1>1. /\ Untouched(r, c) => /\ Untouched([r EXCEPT !.enabled = on], c)
                              /\ Untouched([r EXCEPT !.clk_accum = k], c)
        /\ [r EXCEPT !.enabled = on].exec_pending = r.exec_pending
        /\ [r EXCEPT !.clk_accum = k].exec_pending = r.exec_pending
        /\ [r EXCEPT !.enabled = on] \in SmRecs
    BY DEF Untouched, SmRecs
  <1>2. ASSUME Restarted(r, c) PROVE r.enabled = FALSE
    <2> DEFINE d == Configured(c)
    <2>1. d = [enabled |-> FALSE, pc |-> c.wrap_bottom, x |-> ZERO, y |-> ZERO,
               osr |-> ZERO, isr |-> ZERO, osr_count |-> WORD_BITS,
               isr_count |-> 0, delay |-> 0, stalled |-> FALSE,
               exec_pending |-> FALSE, exec_insn |-> NoInsn, clk_accum |-> 0,
               fdebug |-> {}, tx |-> d.tx, rx |-> d.rx, status |-> <<>>]
      BY ConfiguredIs
    <2>2. PICK a : r = [d EXCEPT !.clk_accum = a]
      BY <1>2 DEF Restarted
    <2> HIDE DEF d
    <2> QED  BY <2>1, <2>2
  <1>3. r.enabled = FALSE => [r EXCEPT !.enabled = FALSE] = r
    BY DEF SmRecs
  <1> QED  BY <1>1, <1>2, <1>3

(* A tick of a block keeps the twins together.                             *)
LEMMA TwinStep ==
    ASSUME TwinInv, Step, UNCHANGED twins
    PROVE  Together(Machine, fresh, synced)'
  <1> DEFINE T(m) == Together(m, fresh, synced)
  <1>1. /\ MachineOK(Machine) /\ TwinCode /\ T(Machine)
        /\ fresh \in SUBSET SMs /\ synced \in BOOLEAN
    BY DEF TwinInv, Inv
  <1>2. ASSUME NEW z, MachineOK(z), Become(z), UNCHANGED insn, T(z)
        PROVE  Together(Machine, fresh, synced)'
    <2>1. Machine' = z /\ fresh' = fresh /\ synced' = synced
      BY <1>2, BecomeOK DEF twins
    <2> QED  BY <1>2, <2>1 DEF Together, RunsTwins
  <1>3. ASSUME NEW m, MachineOK(m), T(m), NEW b \in Blocks
        PROVE  MachineOK(TickBlock(m, insn, b)) /\ T(TickBlock(m, insn, b))
    <2>1. MachineOK(TickBlock(m, insn, b))
      BY <1>1, <1>3, TickBlockEvolves DEF Evolves, Frames, TwinCode
    <2> QED  BY <1>1, <1>3, <2>1, TogetherTicks
  <1>4. ASSUME NEW m, NEW z, PinsOnly(m, z), T(m)
        PROVE  T(z)
    BY <1>4, PinsTogether
  <1> HIDE DEF T
  <1>5. CASE StartTick
    <2> DEFINE y == OpenWriteWindow(Machine, Blocks)
    <2>1. MachineOK(y) /\ T(y)
      BY <1>1, <1>4, ZeroBlock, TickEdges
    <2>2. Become(TickBlock(y, insn, 0)) /\ UNCHANGED insn
      BY <1>5 DEF StartTick
    <2> HIDE DEF y
    <2> QED  BY <1>2, <1>3, <2>1, <2>2, ZeroBlock
  <1>6. CASE NextBlock
    <2> DEFINE y == ClockOwn(Machine, turn)
               b == turn + 1
    <2>1. turn \in Blocks /\ b \in Blocks
      BY <1>6, PadsAssumption DEF NextBlock, TwinInv, Inv, Blocks, Idle
    <2>2. MachineOK(y) /\ T(y)
      BY <1>1, <1>4, <2>1, TickEdges
    <2>3. Become(TickBlock(y, insn, b)) /\ UNCHANGED insn
      BY <1>6 DEF NextBlock
    <2> HIDE DEF y, b
    <2> QED  BY <1>2, <1>3, <2>1, <2>2, <2>3
  <1>7. CASE EndTick
    <2> DEFINE z == ClockShared(ClockOwn(Machine, turn))
    <2>1. turn \in Blocks
      BY <1>7, PadsAssumption DEF EndTick, TwinInv, Inv, Blocks, Idle
    <2>2. MachineOK(z) /\ T(z)
      BY <1>1, <1>4, <2>1, TickEdges, ClocksOK DEF Touches
    <2>3. Become(z) /\ UNCHANGED insn
      BY <1>7 DEF EndTick
    <2> HIDE DEF z
    <2> QED  BY <1>2, <2>2, <2>3
  <1> QED  BY <1>5, <1>6, <1>7 DEF Step

(* A call that keeps the twins together.                                   *)
LEMMA TwinCall ==
    ASSUME TwinInv, NEW z, MachineOK(z), Become(z), UNCHANGED <<insn, host>>, Inv',
           fresh' \subseteq SMs, synced' \in BOOLEAN, Together(z, fresh', synced')
    PROVE  TwinInv'
  <1>1. Machine' = z
    BY BecomeOK
  <1>2. Together(Machine, fresh, synced)'
    BY <1>1 DEF Together, RunsTwins
  <1>3. TwinCode'
    BY DEF TwinInv, TwinCode, InsnOK
  <1> QED  BY <1>2, <1>3 DEF TwinInv

(* The host serves all of block 0.                                         *)
LEMMA TwinsServed == TwinInv => Served(0) = SMs /\ SMs # {}
  BY ZeroSm DEF TwinInv, Served

(* Stopping or starting one.                                               *)
LEMMA TwinStartOrStop == TwinInv /\ StartOrStop => TwinInv'
  <1> SUFFICES ASSUME TwinInv, StartOrStop PROVE TwinInv'
    OBVIOUS
  <1>1. PICK s \in SMs, on \in BOOLEAN :
          /\ pio_sim_set_sm_mask_enabled(0, {s}, on)
          /\ fresh' = IF on THEN fresh \ {s} ELSE fresh
          /\ synced' = FALSE
    BY DEF StartOrStop
  <1> DEFINE m == Machine
             z == EnableMask(m, 0, {s}, on)
  <1>2. Become(z) /\ UNCHANGED <<insn, turn, host>>
    BY <1>1 DEF pio_sim_set_sm_mask_enabled, HostCall
  <1>3. Inv' /\ MachineOK(m) /\ Together(m, fresh, synced) /\ fresh \subseteq SMs
    <2>1. {s} \in SUBSET Served(0) /\ Served(0) # {}
      BY TwinsServed
    <2>2. Host
      BY <1>1, <2>1, ZeroBlock DEF Host
    <2> QED  BY <2>2, HostSafe DEF TwinInv, Inv, Safe
  <1>4. /\ MachineOK(z) /\ z.cfg = m.cfg
        /\ \A t \in SMs : z.sm[0][t] = IF t \in {s} THEN [m.sm[0][t] EXCEPT !.enabled = on]
                                       ELSE m.sm[0][t]
    BY <1>3, EnableWrites
  <1>5. \A t \in SMs : m.sm[0][t] \in SmRecs
    BY <1>3, ZeroBlock, SmRecAt
  <1> HIDE DEF m, z
  <1> DEFINE c == m.cfg[0][0]
  <1>6. ASSUME NEW t \in SMs
        PROVE  /\ Untouched(z.sm[0][t], c) /\ ~z.sm[0][t].exec_pending
               /\ t \in fresh' => Restarted(z.sm[0][t], c)
    <2> DEFINE r == m.sm[0][t]
    <2>1. /\ Untouched(r, c) /\ ~r.exec_pending /\ r \in SmRecs
          /\ t \in fresh => Restarted(r, c)
      BY <1>3, <1>5 DEF Together, RunsTwins
    <2>2. z.sm[0][t] = IF t = s THEN [r EXCEPT !.enabled = on] ELSE r
      BY <1>4
    <2> HIDE DEF r, c
    <2>3. CASE t = s /\ on
      BY <1>1, <2>1, <2>2, <2>3, EnabledRecord
    <2>4. CASE t = s /\ ~on
      <3>1. z.sm[0][t] = [r EXCEPT !.enabled = FALSE]
        BY <2>2, <2>4
      <3> QED  BY <1>1, <2>1, <2>4, <3>1, EnabledRecord
    <2>5. CASE t # s
      BY <1>1, <2>1, <2>2, <2>5
    <2> QED  BY <2>3, <2>4, <2>5
  <1>7. Together(z, fresh', synced')
    <2>1. fresh' \subseteq SMs /\ z.cfg = m.cfg /\ synced' = FALSE
      BY <1>1, <1>3, <1>4
    <2> QED  BY <1>3, <1>6, <2>1 DEF Together, RunsTwins
  <1> QED  BY <1>1, <1>2, <1>3, <1>4, <1>7, TwinCall

(* Restarting one.                                                         *)
LEMMA TwinRestart == TwinInv /\ Restart => TwinInv'
  <1> SUFFICES ASSUME TwinInv, Restart PROVE TwinInv'
    OBVIOUS
  <1>1. PICK s \in SMs :
          /\ pio_sim_sm_restart(0, s)
          /\ fresh' = IF Stopped(s) THEN fresh \union {s} ELSE fresh
          /\ synced' = FALSE
    BY DEF Restart
  <1> DEFINE m == Machine
             p == m.sm[0][s]
             q == sm_reset_exec(p, m.cfg[0][s].wrap_bottom)
             z == SetSm(m, 0, s, q)
  <1>2. Become(z) /\ UNCHANGED <<insn, turn, host>>
    BY <1>1, MachineIs DEF pio_sim_sm_restart, HostCall
  <1>3. Inv' /\ MachineOK(m) /\ Together(m, fresh, synced) /\ fresh \subseteq SMs
    <2>1. s \in Served(0) /\ Served(0) # {}
      BY TwinsServed
    <2>2. Host
      BY <1>1, <2>1, ZeroBlock, SMTT(30) DEF Host
    <2> QED  BY <2>2, HostSafe DEF TwinInv, Inv, Safe
  <1>4. MachineOK(z)
    <2>1. Replaces(q, p, m.cfg[0][s])
      <3>1. p \in SmRecs /\ m.cfg[0][s] \in Confs /\ Fits(p, m.cfg[0][s])
        BY <1>3, ZeroBlock, SmRecAt
      <3>2. m.cfg[0][s].wrap_bottom \in PCs /\ ZERO \in Words /\ InsnOK
        BY <3>1 DEF TwinInv, Inv, Confs, ZERO, Words
      <3> HIDE DEF m
      <3> QED  BY <3>1, <3>2, ExecCalls
    <2>2. Evolves(m, z, 0)
      BY <1>3, <2>1, ZeroBlock, StoreSm, SMTT(30) DEF Replaces
    <2> QED  BY <2>2 DEF Evolves, Frames
  <1>5. /\ z.cfg = m.cfg /\ z.sm[0][s] = q
        /\ \A t \in SMs : t # s => z.sm[0][t] = m.sm[0][t]
    BY <1>3, ZeroBlock, SetAt DEF MachineOK
  <1> DEFINE c == m.cfg[0][0]
  <1>6. /\ p \in SmRecs /\ Untouched(p, c) /\ m.cfg[0][s] = c
        /\ s \in fresh => Restarted(p, c)
        /\ Stopped(s) <=> ~p.enabled
    BY <1>3, ZeroBlock, SmRecAt, MachineIs DEF Together, RunsTwins, Stopped
  <1> HIDE DEF m, z, c, p
  <1>7. /\ Untouched(q, c) /\ ~q.exec_pending
        /\ ~p.enabled => Restarted(q, c)
    BY <1>6, RestartForgets
  <1>8. s \in fresh => ~p.enabled
    BY <1>6, EnabledRecord
  <1> HIDE DEF q
  <1>9. ASSUME NEW t \in SMs
        PROVE  /\ Untouched(z.sm[0][t], c) /\ ~z.sm[0][t].exec_pending
               /\ t \in fresh' => Restarted(z.sm[0][t], c)
    <2>1. CASE t = s
      BY <1>1, <1>5, <1>6, <1>7, <1>8, <2>1
    <2>2. CASE t # s
      BY <1>1, <1>3, <1>5, <2>2 DEF Together, RunsTwins, c
    <2> QED  BY <2>1, <2>2
  <1>10. Together(z, fresh', synced')
    <2>1. fresh' \subseteq SMs /\ z.cfg = m.cfg /\ synced' = FALSE
      BY <1>1, <1>3, <1>5
    <2> QED  BY <1>3, <1>9, <2>1 DEF Together, RunsTwins, c
  <1> QED  BY <1>1, <1>2, <1>3, <1>4, <1>10, TwinCall

(* Starting both in sync.                                                  *)
LEMMA TwinInSync == TwinInv /\ InSync => TwinInv'
  <1> SUFFICES ASSUME TwinInv, InSync PROVE TwinInv'
    OBVIOUS
  <1> DEFINE m == Machine
             y == EnableMask(m, 0, SMs, TRUE)
             z == pio_sim_clkdiv_restart_sm_mask(y, 0, SMs)
             c == m.cfg[0][0]
             w(r) == [[r EXCEPT !.enabled = TRUE] EXCEPT !.clk_accum = 0]
  <1>1. Become(z) /\ UNCHANGED <<insn, turn, host>>
        /\ fresh' = {} /\ synced' = (fresh = SMs)
    BY DEF InSync, pio_sim_enable_sm_mask_in_sync, HostCall
  <1>2. Inv' /\ MachineOK(m) /\ Together(m, fresh, synced) /\ fresh \subseteq SMs
    <2>1. SMs \in SUBSET Served(0) /\ Served(0) # {}
      BY TwinsServed
    <2>2. Host
      BY <2>1, ZeroBlock, SMTT(30) DEF Host, InSync
    <2> QED  BY <2>2, HostSafe DEF TwinInv, Inv, Safe
  <1>3. /\ MachineOK(z) /\ z.cfg = m.cfg
        /\ \A s \in SMs : z.sm[0][s] = w(m.sm[0][s])
    <2>1. /\ MachineOK(y) /\ y.cfg = m.cfg
          /\ \A s \in SMs : y.sm[0][s] = [m.sm[0][s] EXCEPT !.enabled = TRUE]
      BY <1>2, EnableWrites
    <2> HIDE DEF y, m
    <2>2. /\ MachineOK(z) /\ z.cfg = y.cfg
          /\ \A s \in SMs : z.sm[0][s] = [y.sm[0][s] EXCEPT !.clk_accum = 0]
      BY <2>1, RestartWrites
    <2> QED  BY <2>1, <2>2
  <1>4. \A s \in SMs : /\ m.sm[0][s] \in SmRecs /\ Untouched(m.sm[0][s], c)
                       /\ ~m.sm[0][s].exec_pending
                       /\ s \in fresh => Restarted(m.sm[0][s], c)
    BY <1>2, ZeroBlock, SmRecAt DEF Together, RunsTwins
  <1> HIDE DEF m, z
  <1>5. ASSUME NEW s \in SMs
        PROVE  Untouched(z.sm[0][s], c) /\ ~z.sm[0][s].exec_pending
    <2> DEFINE r == m.sm[0][s]
               e == [r EXCEPT !.enabled = TRUE]
    <2>1. /\ Untouched(r, c) /\ r \in SmRecs /\ ~r.exec_pending
      BY <1>4
    <2> HIDE DEF r, c
    <2>2. e \in SmRecs /\ Untouched(e, c) /\ ~e.exec_pending
      BY <2>1, EnabledRecord
    <2> HIDE DEF e
    <2>3. Untouched([e EXCEPT !.clk_accum = 0], c) /\ ~[e EXCEPT !.clk_accum = 0].exec_pending
      BY <2>2, EnabledRecord
    <2> QED  BY <1>3, <2>3 DEF e, r
  <1>6. ASSUME fresh = SMs, NEW s \in SMs, NEW t \in SMs
        PROVE  z.sm[0][s] = z.sm[0][t]
    <2>1. w(m.sm[0][s]) = w(m.sm[0][t])
      BY <1>4, <1>6, StartedAlike, ZenonT(60)
    <2> QED  BY <1>3, <2>1
  <1>7. Together(z, fresh', synced')
    <2> HIDE DEF w
    <2> QED  BY <1>1, <1>2, <1>3, <1>5, <1>6 DEF Together, RunsTwins
  <1>8. synced' \in BOOLEAN /\ fresh' \subseteq SMs
    BY <1>1
  <1> QED  BY <1>1, <1>2, <1>3, <1>7, <1>8, TwinCall

(* An input that changes.                                                  *)
LEMMA TwinSurroundings == TwinInv /\ Surroundings => TwinInv'
  <1> SUFFICES ASSUME TwinInv, Surroundings PROVE TwinInv'
    OBVIOUS
  <1>1. PICK level \in BOOLEAN : SetPin(0, 0, level)
    BY DEF Surroundings
  <1>2. Inv' /\ MachineOK(Machine)
    <2>1. Served(0) # {} /\ 0 \in Pins
      BY TwinsServed, PadsAssumption, SmAssumption DEF Pins
    <2>2. Host
      BY <1>1, <2>1, ZeroBlock DEF Host
    <2> QED  BY <2>2, HostSafe DEF TwinInv, Inv, Safe
  <1>3. UNCHANGED <<insn, host, fresh, synced>> /\ cfg' = cfg /\ sm' = sm
    <2> DEFINE m == Machine
               p == pio_sim_set_pin(m.pads[PadOf(0)], 0, level)
               z == [m EXCEPT !.pads[PadOf(0)] = p]
    <2>1. Become(z) /\ UNCHANGED <<insn, host>>
      BY <1>1 DEF SetPin, HostCall
    <2> HIDE DEF p
    <2>2. z.cfg = cfg /\ z.sm = sm
      BY DEF Machine
    <2> HIDE DEF z
    <2> QED  BY <2>1, <2>2 DEF Become, Surroundings
  <1>4. Together(Machine, fresh, synced)'
    BY <1>3, MachineIs DEF TwinInv, Together, RunsTwins, Machine
  <1>5. TwinCode'
    BY <1>3 DEF TwinInv, TwinCode, InsnOK
  <1> QED  BY <1>2, <1>3, <1>4, <1>5 DEF TwinInv

(* The twins under the programs' specification.                            *)
Twinned == host.story = "twins"

TwinsAgree == IF Twinned THEN TwinInv ELSE synced = FALSE

LEMMA TwinsStart == LookingTwins /\ PInit => TwinsAgree
  <1> SUFFICES ASSUME LookingTwins, PInit, Twinned PROVE TwinInv
    BY DEF TwinsAgree, PInit
  <1>1. Inv
    BY InitInv DEF PInit
  <1>2. PICK su \in Setups :
          /\ insn = su.prog /\ cfg = su.conf /\ host = su.host
          /\ sm = [b \in Blocks |-> [s \in SMs |->
               [Configured(su.conf[b][s]) EXCEPT !.enabled = <<b, s>> \in su.on]]]
    BY Zenon DEF PInit, Init
  <1>3. TwinSetup(su)
    BY <1>2 DEF LookingTwins, Twinned
  <1>4. TwinCode
    BY <1>1, <1>2, <1>3 DEF TwinCode, TwinSetup, Inv
  <1>5. ASSUME NEW s \in SMs
        PROVE  Untouched(sm[0][s], su.conf[0][s]) /\ ~sm[0][s].exec_pending
    <2> DEFINE e == <<0, s>> \in su.on
               c == su.conf[0][s]
               d == Configured(c)
    <2>1. sm[0][s] = [d EXCEPT !.enabled = e]
      BY <1>2, ZeroBlock
    <2>2. d = [enabled |-> FALSE, pc |-> c.wrap_bottom, x |-> ZERO, y |-> ZERO,
               osr |-> ZERO, isr |-> ZERO, osr_count |-> WORD_BITS,
               isr_count |-> 0, delay |-> 0, stalled |-> FALSE,
               exec_pending |-> FALSE, exec_insn |-> NoInsn, clk_accum |-> 0,
               fdebug |-> {}, tx |-> d.tx, rx |-> d.rx, status |-> <<>>]
      BY ConfiguredIs
    <2> HIDE DEF d, e, c
    <2>3. LET q == [d EXCEPT !.enabled = e]
          IN  /\ q.tx = d.tx /\ q.rx = d.rx /\ q.fdebug = {} /\ q.status = <<>>
              /\ q.exec_pending = FALSE
      BY <2>2
    <2> QED  BY <2>1, <2>3 DEF Untouched, c, d
  <1>6. \A s \in SMs : /\ cfg[0][s] = cfg[0][0] /\ ~cfg[0][s].autopush
                       /\ ~cfg[0][s].autopull
    BY <1>2, <1>3, ZeroSm DEF TwinSetup
  <1>7. Together(Machine, {}, FALSE)
    BY <1>2, <1>5, <1>6, MachineIs DEF Together, RunsTwins
  <1>8. fresh = {} /\ synced = FALSE /\ {0} \X SMs \subseteq host.sms
    BY <1>2, <1>3 DEF PInit, TwinSetup
  <1> QED  BY <1>1, <1>4, <1>7, <1>8 DEF TwinInv

LEMMA TwinsGoOn == TwinsAgree /\ [PNext]_pvars => TwinsAgree'
  <1> SUFFICES ASSUME TwinsAgree, [PNext]_pvars PROVE TwinsAgree'
    OBVIOUS
  <1>1. UNCHANGED host
    BY DEF PNext, RNext, TNext, LNext, Step, StartTick, NextBlock, EndTick, Launch, StopOrGo,
           StartOrStop, Restart, InSync, Surroundings, HostCall, pvars, vars,
           pio_sim_set_sm_mask_enabled, pio_sim_sm_exec, pio_sim_irq_force,
           pio_sim_sm_restart, pio_sim_enable_sm_mask_in_sync, SetPin
  <1>2. CASE ~Twinned
    <2>1. UNCHANGED synced
      BY <1>2 DEF PNext, Twinned, pvars, twins
    <2> QED  BY <1>1, <1>2, <2>1 DEF TwinsAgree, Twinned
  <1> SUFFICES ASSUME Twinned PROVE TwinInv'
    BY <1>1, <1>2 DEF TwinsAgree, Twinned
  <1>3. TwinInv
    BY DEF TwinsAgree
  <1>4. CASE StartOrStop \/ Restart \/ InSync \/ Surroundings
    BY <1>3, <1>4, TwinStartOrStop, TwinRestart, TwinInSync, TwinSurroundings
  <1>5. CASE Step /\ UNCHANGED <<fresh, synced>>
    <2>1. Together(Machine, fresh, synced)' /\ Inv'
      BY <1>3, <1>5, TwinStep, StepSafe DEF TwinInv, Safe, twins
    <2>2. UNCHANGED insn
      BY <1>5 DEF Step, StartTick, NextBlock, EndTick
    <2>3. TwinCode'
      BY <1>3, <2>2 DEF TwinInv, TwinCode, InsnOK
    <2> QED  BY <1>1, <1>3, <1>5, <2>1, <2>3 DEF TwinInv
  <1>6. CASE UNCHANGED pvars
    <2>1. UNCHANGED vars /\ UNCHANGED <<fresh, synced>>
      BY <1>6 DEF pvars, twins
    <2>2. Inv'
      BY <1>3, <2>1, NextInv DEF TwinInv
    <2>3. Machine' = Machine /\ UNCHANGED <<insn, host>>
      BY <2>1 DEF vars, Machine
    <2>4. Together(Machine, fresh, synced)'
      BY <1>3, <2>1, <2>3 DEF TwinInv, Together, RunsTwins
    <2>5. TwinCode'
      BY <1>3, <2>3 DEF TwinInv, TwinCode, InsnOK
    <2> QED  BY <1>3, <2>1, <2>2, <2>3, <2>4, <2>5 DEF TwinInv
  <1> QED  BY <1>3, <1>4, <1>5, <1>6 DEF PNext, LNext, Twinned

LEMMA TwinsLockstep == TwinsAgree => Lockstep
  <1> SUFFICES ASSUME TwinInv, synced
               PROVE  \A s \in SMs : [sm[0][s] EXCEPT !.fdebug = {}]
                                       = [sm[0][0] EXCEPT !.fdebug = {}]
    BY DEF TwinsAgree, Lockstep
  <1>1. \A s, t \in SMs : sm[0][s] = sm[0][t]
    BY MachineIs DEF TwinInv, Together
  <1> QED  BY <1>1, ZeroSm

(* Any number of state machines with one configuration and a program that  *)
(* looks, branches and computes, started in sync after a restart of each   *)
(* while it was stopped, run in lockstep for every such program, divider   *)
(* and delay, whatever the other blocks run: the restart leaves nothing    *)
(* behind (sm_reset_exec), the dividers that ran on meanwhile are brought  *)
(* together (pio_sim_clkdiv_restart_sm_mask), and in one tick of the block *)
(* each sees what the others see (pio_sim_tick clocks the pads after all). *)
THEOREM TwinsInLockstep == LookingTwins => (PSpec => []Lockstep)
  <1>1. LookingTwins /\ PInit => TwinsAgree
    BY TwinsStart
  <1>2. TwinsAgree /\ [PNext]_pvars => TwinsAgree'
    BY TwinsGoOn
  <1>3. TwinsAgree => Lockstep
    BY TwinsLockstep
  <1> QED  BY <1>1, <1>2, <1>3, PTL DEF PSpec

(***************************************************************************)
(* The rendezvous.                                                         *)
(***************************************************************************)

(* exec_irq: a waiting call raises its flag when it is first presented and *)
(* then polls until the flag is down.                                      *)
CallsWith(i, s, n) ==
    /\ i.op = "IRQ" /\ i.wait /\ ~i.clr
    /\ irq_target_block(0, i.mode) = {0} /\ n = resolve_irq_index(s, i.mode, i.idx)

LEMMA CallRuns ==
    ASSUME NEW m, MachineOK(m), NEW s \in SMs, NEW i, NEW n, CallsWith(i, s, n)
    PROVE  LET h == Execute(m, 0, s, i)
           IN  /\ KeepsPlace(m, h.m, 0) /\ ~h.set_pc
               /\ ~m.sm[0][s].stalled => h.stalled /\ n \in h.m.irq[0]
               /\ m.sm[0][s].stalled => h.m.irq = m.irq /\ (h.stalled <=> n \in m.irq[0])
  <1> DEFINE g == [t \in Blocks |-> IF t \in {0} THEN m.irq[t] \union {n} ELSE m.irq[t]]
             z == [m EXCEPT !.irq = g]
             x == IF m.sm[0][s].stalled THEN m ELSE z
  <1>1. Execute(m, 0, s, i) = IF n \in x.irq[0] THEN Stall(x) ELSE Done(x)
    <2>1. Execute(m, 0, s, i) = exec_irq(m, 0, s, i)
      BY DEF Execute, CallsWith
    <2>2. exec_irq(m, 0, s, i) = IF \E t \in {0} : n \in x.irq[t] THEN Stall(x) ELSE Done(x)
      BY DEF exec_irq, CallsWith
    <2> HIDE DEF x
    <2> QED  BY <2>1, <2>2
  <1>2. z.irq = g /\ z.cfg = m.cfg /\ z.sm = m.sm
    BY DEF MachineOK, Machines
  <1>3. n \in g[0]
    BY ZeroBlock
  <1> HIDE DEF z, g
  <1>4. KeepsPlace(m, z, 0) /\ KeepsPlace(m, m, 0)
    BY <1>2 DEF KeepsPlace, Sits
  <1> QED  BY <1>1, <1>2, <1>3, <1>4 DEF Done, Stall

(* Machine m runs a meeting: each state machine of block 0 is at one of    *)
(* the two words of its program, and the other blocks are stopped.         *)
SitsIn(m, c, n, s) ==
    LET k == m.cfg[0][s]
        r == m.sm[0][s]
    IN  /\ k.wrap_top = k.wrap_bottom + 1
        /\ r.pc = k.wrap_bottom \/ r.pc = k.wrap_top
        /\ ~r.exec_pending
        /\ s = c => CallsWith(insn[0][k.wrap_bottom], s, n)
        /\ s # c => TakesFlag(insn[0][k.wrap_bottom], 0, s, n)
        /\ Works(insn[0][k.wrap_top])

RunsMeeting(m, c, n) ==
    /\ \A s \in SMs : SitsIn(m, c, n, s)
    /\ \A b \in Blocks \ {0}, s \in SMs : ~m.sm[b][s].enabled

(* The flag is up while the caller is parked and nobody has answered;      *)
(* `ahead' says that the server has, and the caller has not seen it.       *)
Parked(m, c, n, ahead) ==
    /\ m.sm[0][c].stalled => m.sm[0][c].pc = m.cfg[0][c].wrap_bottom
    /\ n \in m.irq[0] <=> (m.sm[0][c].stalled /\ ~ahead)
    /\ ahead => m.sm[0][c].stalled

Meets(m, c, n, ahead) == RunsMeeting(m, c, n) /\ Parked(m, c, n, ahead)

(* What a step of state machine s does to `ahead', u before and v after:   *)
(* only the caller passes while the server is ahead, only the server       *)
(* while it is not.                                                        *)
Left(m, z, s) == /\ m.sm[0][s].pc = m.cfg[0][s].wrap_bottom
                 /\ z.sm[0][s].pc # m.cfg[0][s].wrap_bottom

MeetStep(m, z, c, s, u, v) ==
    /\ z.cfg = m.cfg
    /\ \A t \in SMs \ {s} : z.sm[0][t].pc = m.sm[0][t].pc
    /\ Left(m, z, s) => (u <=> s = c) /\ (v <=> s # c)
    /\ ~Left(m, z, s) => (v <=> u)

(* Steps after which everybody sits where he sat, and the flags are as     *)
(* they were.                                                              *)
SameSeats(m, z) ==
    /\ z.cfg = m.cfg /\ z.irq = m.irq
    /\ \A s \in SMs : Sits(z.sm[0][s], m.sm[0][s])
    /\ \A b \in Blocks \ {0}, s \in SMs : z.sm[b][s].enabled = m.sm[b][s].enabled

LEMMA SeatsKept ==
    ASSUME NEW m, NEW z, SameSeats(m, z), NEW c \in SMs, NEW n, NEW u, Meets(m, c, n, u)
    PROVE  Meets(z, c, n, u)
  <1>1. RunsMeeting(z, c, n)
    BY DEF SameSeats, Meets, RunsMeeting, SitsIn, Sits
  <1>2. Parked(z, c, n, u)
    BY DEF SameSeats, Meets, Parked, Sits
  <1> QED  BY <1>1, <1>2 DEF Meets

LEMMA SeatsAre ==
    ASSUME NEW m, NEW z
    PROVE  /\ PinsOnly(m, z) => SameSeats(m, z)
           /\ Idles(m, z, 0) => SameSeats(m, z)
           /\ \A b \in Blocks \ {0} : Idles(m, z, b) => SameSeats(m, z)
  <1>1. PinsOnly(m, z) => SameSeats(m, z)
    BY DEF PinsOnly, SameSeats, Sits
  <1>2. Idles(m, z, 0) => SameSeats(m, z)
    BY DEF Idles, Evolves, Frames, KeepsPlace, SameSeats
  <1>3. ASSUME NEW b \in Blocks \ {0}, Idles(m, z, b) PROVE SameSeats(m, z)
    <2>1. z.cfg = m.cfg /\ z.irq = m.irq
      BY <1>3 DEF Idles, KeepsPlace
    <2>2. \A s \in SMs : Sits(z.sm[0][s], m.sm[0][s])
      BY <1>3, ZeroBlock DEF Idles, Evolves, Frames, Sits
    <2>3. \A o \in Blocks \ {0}, s \in SMs : z.sm[o][s].enabled = m.sm[o][s].enabled
      BY <1>3 DEF Idles, Evolves, Frames
    <2> QED  BY <2>1, <2>2, <2>3 DEF SameSeats
  <1> QED  BY <1>1, <1>2, <1>3

(* A cycle of one of the two.                                              *)
LEMMA MeetCycle ==
    ASSUME NEW m, MachineOK(m), InsnOK, NEW c \in SMs, NEW s \in SMs, NEW n,
           NEW u \in BOOLEAN, Meets(m, c, n, u)
    PROVE  LET z == DelayOrExecute(m, insn, 0, s)
           IN  \E v \in BOOLEAN : Meets(z, c, n, v) /\ MeetStep(m, z, c, s, u, v)
  <1> DEFINE r == m.sm[0][s]
             k == m.cfg[0][s]
             i == insn[0][r.pc]
             x == Execute(m, 0, s, i)
             z == DelayOrExecute(m, insn, 0, s)
             q == z.sm[0][s]
             v == IF Left(m, z, s) THEN s # c ELSE u
  <1>1. /\ k.wrap_bottom \in Nat /\ k.wrap_bottom # k.wrap_top
        /\ (k.wrap_bottom + 1) % INSN_COUNT = k.wrap_top
        /\ r.stalled \in BOOLEAN
    <2>1. k \in Confs /\ r \in SmRecs
      BY ZeroBlock, SmRecAt
    <2>2. k.wrap_bottom \in PCs /\ k.wrap_top \in PCs /\ r.stalled \in BOOLEAN
      BY <2>1 DEF Confs, SmRecs
    <2>3. k.wrap_top = k.wrap_bottom + 1
      BY DEF Meets, RunsMeeting, SitsIn
    <2> HIDE DEF k, r
    <2> QED  BY <2>2, <2>3, SmAssumption DEF PCs
  <1>2. /\ z.cfg = m.cfg
        /\ \A b \in Blocks \ {0}, t \in SMs : z.sm[b][t].enabled = m.sm[b][t].enabled
    <2>1. Evolves(m, z, 0)
      BY ZeroBlock, CycleEvolves
    <2> HIDE DEF z
    <2> QED  BY <2>1 DEF Evolves, Frames
  <1>3. SitsIn(m, c, n, s) /\ Parked(m, c, n, u)
    BY Zenon DEF Meets, RunsMeeting
  <1>4. /\ KeepsPlace(m, x.m, 0) /\ ~x.set_pc
        /\ r.pc = k.wrap_top => ~x.stalled /\ x.m.irq = m.irq
        /\ r.pc # k.wrap_top /\ s = c =>
             /\ ~r.stalled => x.stalled /\ n \in x.m.irq[0]
             /\ r.stalled => x.m.irq = m.irq /\ (x.stalled <=> n \in m.irq[0])
        /\ r.pc # k.wrap_top /\ s # c =>
             /\ x.stalled => n \notin m.irq[0] /\ x.m.irq = m.irq
             /\ ~x.stalled => n \in m.irq[0] /\ n \notin x.m.irq[0]
    <2>1. CASE r.pc = k.wrap_top
      <3>1. Works(i)
        BY <1>3, <2>1 DEF SitsIn
      <3>2. KeepsPlace(m, x.m, 0) /\ ~x.set_pc /\ ~x.stalled /\ x.m.irq = m.irq
        <4> HIDE DEF i
        <4> QED  BY <3>1, ZeroBlock, WorkRuns, SMTT(30)
      <3> HIDE DEF x, r, k
      <3> QED  BY <2>1, <3>2, SMTT(30)
    <2>2. CASE r.pc # k.wrap_top /\ s = c
      <3>1. CallsWith(i, s, n)
        BY <1>3, <2>2 DEF SitsIn
      <3>2. /\ KeepsPlace(m, x.m, 0) /\ ~x.set_pc
            /\ ~r.stalled => x.stalled /\ n \in x.m.irq[0]
            /\ r.stalled => x.m.irq = m.irq /\ (x.stalled <=> n \in m.irq[0])
        <4> HIDE DEF i
        <4> QED  BY <3>1, CallRuns, SMTT(30)
      <3> HIDE DEF x, r, k
      <3> QED  BY <2>2, <3>2
    <2>3. CASE r.pc # k.wrap_top /\ s # c
      <3>1. TakesFlag(i, 0, s, n)
        BY <1>3, <2>3 DEF SitsIn
      <3>2. /\ KeepsPlace(m, x.m, 0) /\ ~x.set_pc
            /\ n \notin m.irq[0] => x.stalled /\ x.m.irq = m.irq
            /\ n \in m.irq[0] =>
                 /\ ~x.stalled
                 /\ \A o \in Blocks : x.m.irq[o] = IF o = 0 THEN m.irq[o] \ {n}
                                                   ELSE m.irq[o]
        <4> HIDE DEF i
        <4> QED  BY <3>1, ZeroBlock, TakeRuns
      <3> HIDE DEF x, r, k
      <3> QED  BY <2>3, <3>2, ZeroBlock
    <2> QED  BY <2>1, <2>2, <2>3, Zenon
  <1>5. /\ \A t \in SMs \ {s} : Sits(z.sm[0][t], m.sm[0][t])
        /\ ~q.exec_pending
        /\ \/ z.irq = m.irq /\ Sits(q, r)
           \/ z.irq = x.m.irq /\ x.stalled /\ q.stalled /\ q.pc = r.pc
           \/ /\ z.irq = x.m.irq /\ ~x.stalled /\ ~q.stalled
              /\ q.pc = IF r.pc = k.wrap_top THEN k.wrap_bottom ELSE k.wrap_top
    <2>1. x = Execute(m, 0, s, insn[0][m.sm[0][s].pc])
      BY Zenon DEF x
    <2> HIDE DEF x
    <2>2. (r.pc = k.wrap_bottom \/ r.pc = k.wrap_top) /\ ~r.exec_pending
      BY <1>3 DEF SitsIn
    <2>3. GoesOn(m, 0, s, x)
      BY <1>4, <2>1, <2>2, Zenon DEF GoesOn
    <2>4. /\ \A t \in SMs \ {s} : Sits(z.sm[0][t], m.sm[0][t])
          /\ ~q.exec_pending
          /\ r.delay > 0 => z.irq = m.irq /\ Sits(q, r)
          /\ ~(r.delay > 0) =>
               /\ z.irq = x.m.irq /\ (q.stalled <=> x.stalled)
               /\ q.pc = IF x.stalled THEN r.pc
                         ELSE IF r.pc = k.wrap_top THEN k.wrap_bottom
                         ELSE (r.pc + 1) % INSN_COUNT
      BY <2>3, ZeroBlock, CycleIs
    <2> HIDE DEF r, z, k
    <2> QED  BY <1>1, <2>2, <2>4
  <1> HIDE DEF z, x
  <1>6. RunsMeeting(z, c, n)
    <2>1. SitsIn(z, c, n, s)
      <3>1. q.pc = k.wrap_bottom \/ q.pc = k.wrap_top
        BY <1>3, <1>5, Zenon DEF SitsIn, Sits
      <3> QED  BY <1>2, <1>3, <1>5, <3>1, Zenon DEF SitsIn
    <2>2. ASSUME NEW t \in SMs \ {s} PROVE SitsIn(z, c, n, t)
      <3>1. SitsIn(m, c, n, t)
        BY DEF Meets, RunsMeeting
      <3> QED  BY <1>2, <1>5, <3>1, Zenon DEF SitsIn, Sits
    <2> QED  BY <1>2, <2>1, <2>2, Zenon DEF RunsMeeting, Meets
  <1>7. Left(m, z, s) <=> /\ r.pc = k.wrap_bottom
                          /\ q.pc # k.wrap_bottom
    BY SMTT(30) DEF Left
  <1>8. r.pc = k.wrap_bottom \/ r.pc = k.wrap_top
    BY <1>3 DEF SitsIn
  <1>9. CASE s = c
    <2>1. /\ r.stalled => r.pc = k.wrap_bottom
          /\ n \in m.irq[0] <=> (r.stalled /\ ~u)
          /\ u => r.stalled
      BY <1>3, <1>9 DEF Parked
    <2>2. /\ Left(m, z, s) => u
          /\ q.stalled => q.pc = k.wrap_bottom
          /\ n \in z.irq[0] <=> (q.stalled /\ ~v)
          /\ v => q.stalled
      <3>1. v <=> IF Left(m, z, s) THEN s # c ELSE u
        OBVIOUS
      <3> HIDE DEF r, q, k, v
      <3>2. CASE z.irq = m.irq /\ Sits(q, r)
        BY <1>7, <1>8, <1>9, <2>1, <3>1, <3>2 DEF Sits
      <3>3. CASE z.irq = x.m.irq /\ x.stalled /\ q.stalled /\ q.pc = r.pc
        BY <1>1, <1>4, <1>7, <1>8, <1>9, <2>1, <3>1, <3>3
      <3>4. CASE /\ z.irq = x.m.irq /\ ~x.stalled /\ ~q.stalled
                 /\ q.pc = IF r.pc = k.wrap_top THEN k.wrap_bottom ELSE k.wrap_top
        BY <1>1, <1>4, <1>7, <1>8, <1>9, <2>1, <3>1, <3>4
      <3> QED  BY <1>5, <3>2, <3>3, <3>4
    <2> HIDE DEF v
    <2>3. Parked(z, c, n, v)
      BY <1>2, <1>9, <2>2, SMTT(30) DEF Parked
    <2>4. MeetStep(m, z, c, s, u, v)
      BY <1>2, <1>5, <1>9, <2>2 DEF MeetStep, Sits, v
    <2> QED  BY <1>6, <2>3, <2>4 DEF Meets, v, z
  <1>10. CASE s # c
    <2> DEFINE p == m.sm[0][c]
    <2>1. /\ n \in m.irq[0] <=> (p.stalled /\ ~u)
          /\ u => p.stalled
          /\ Sits(z.sm[0][c], p)
      BY <1>3, <1>5, <1>10 DEF Parked
    <2>2. /\ Left(m, z, s) => ~u
          /\ n \in z.irq[0] <=> (p.stalled /\ ~v)
          /\ v => p.stalled
      <3>1. v <=> IF Left(m, z, s) THEN s # c ELSE u
        OBVIOUS
      <3> HIDE DEF r, q, k, p, v
      <3>2. CASE z.irq = m.irq /\ Sits(q, r)
        BY <1>7, <1>8, <1>10, <2>1, <3>1, <3>2 DEF Sits
      <3>3. CASE z.irq = x.m.irq /\ x.stalled /\ q.stalled /\ q.pc = r.pc
        BY <1>1, <1>4, <1>7, <1>8, <1>10, <2>1, <3>1, <3>3
      <3>4. CASE /\ z.irq = x.m.irq /\ ~x.stalled /\ ~q.stalled
                 /\ q.pc = IF r.pc = k.wrap_top THEN k.wrap_bottom ELSE k.wrap_top
        BY <1>1, <1>4, <1>7, <1>8, <1>10, <2>1, <3>1, <3>4
      <3> QED  BY <1>5, <3>2, <3>3, <3>4
    <2> HIDE DEF v
    <2>3. Parked(z, c, n, v)
      BY <1>2, <1>3, <2>1, <2>2, SMTT(30) DEF Parked, Sits
    <2>4. MeetStep(m, z, c, s, u, v)
      BY <1>2, <1>5, <1>10, <2>2 DEF MeetStep, Sits, v
    <2> QED  BY <1>6, <2>3, <2>4 DEF Meets, v, z
  <1> QED  BY <1>9, <1>10

(* A tick of one of the two.                                               *)
LEMMA MeetTick ==
    ASSUME NEW m, MachineOK(m), InsnOK, NEW c \in SMs, NEW s \in SMs, NEW n,
           NEW u \in BOOLEAN, Meets(m, c, n, u)
    PROVE  LET z == SmTick(m, insn, 0, s)
           IN  \E v \in BOOLEAN : Meets(z, c, n, v) /\ MeetStep(m, z, c, s, u, v)
  <1> DEFINE z == SmTick(m, insn, 0, s)
  <1>1. \/ Idles(m, z, 0)
        \/ /\ m.sm[0][s].enabled
           /\ \E y : LET x == DelayOrExecute(y, insn, 0, s)
                     IN  /\ MachineOK(y) /\ MachineOK(x)
                         /\ Idles(m, y, 0) /\ Evolves(y, x, 0) /\ Idles(x, z, 0)
    BY ZeroBlock, TickIs
  <1> HIDE DEF z
  <1>2. CASE Idles(m, z, 0)
    <2>1. SameSeats(m, z)
      BY <1>2, SeatsAre
    <2>2. Meets(z, c, n, u)
      BY <2>1, SeatsKept
    <2>3. MeetStep(m, z, c, s, u, u)
      BY <2>1 DEF SameSeats, Sits, MeetStep, Left
    <2> QED  BY <2>2, <2>3 DEF z
  <1>3. CASE ~Idles(m, z, 0)
    <2>1. PICK y : LET x == DelayOrExecute(y, insn, 0, s)
                   IN  /\ MachineOK(y) /\ MachineOK(x)
                       /\ Idles(m, y, 0) /\ Evolves(y, x, 0) /\ Idles(x, z, 0)
      BY <1>1, <1>3
    <2> DEFINE x == DelayOrExecute(y, insn, 0, s)
    <2>2. SameSeats(m, y) /\ SameSeats(x, z) /\ MachineOK(y)
      BY <2>1, SeatsAre
    <2>3. Meets(y, c, n, u)
      BY <2>2, SeatsKept
    <2>4. PICK v \in BOOLEAN : Meets(x, c, n, v) /\ MeetStep(y, x, c, s, u, v)
      BY <2>2, <2>3, MeetCycle
    <2> HIDE DEF x
    <2>5. Meets(z, c, n, v)
      BY <2>2, <2>4, SeatsKept
    <2>6. MeetStep(m, z, c, s, u, v)
      <3>1. /\ y.cfg = m.cfg /\ z.cfg = x.cfg
            /\ \A t \in SMs : y.sm[0][t].pc = m.sm[0][t].pc /\ z.sm[0][t].pc = x.sm[0][t].pc
        BY <2>2 DEF SameSeats, Sits
      <3> QED  BY <2>4, <3>1 DEF MeetStep, Left
    <2> QED  BY <2>5, <2>6 DEF z
  <1> QED  BY <1>2, <1>3

(* The counters after a step: equal, but for the one the server is ahead.  *)
Balanced(p, c, ahead) == p[1 - c] = IF ahead THEN (p[c] + 1) % LAPS ELSE p[c]

Counted(p, m, z) == [s \in SMs |-> IF Left(m, z, s) THEN (p[s] + 1) % LAPS ELSE p[s]]

(* A tick lets each of the two pass once at most, in either order.         *)
LEMMA BothPass ==
    ASSUME SMs = {0, 1}, NEW m, NEW y, NEW z, NEW c \in SMs, NEW p,
           NEW u \in BOOLEAN, NEW v \in BOOLEAN, NEW w \in BOOLEAN,
           MeetStep(m, y, c, 0, u, v), MeetStep(y, z, c, 1, v, w), Balanced(p, c, u)
    PROVE  Balanced(Counted(p, m, z), c, w)
  <1> DEFINE l0 == Left(m, y, 0)
             l1 == Left(y, z, 1)
             q == Counted(p, m, z)
             F(k) == (k + 1) % LAPS
  <1>1. Left(m, z, 0) <=> l0
    BY DEF MeetStep, Left
  <1>2. Left(m, z, 1) <=> l1
    BY DEF MeetStep, Left
  <1>3. /\ q[0] = IF l0 THEN F(p[0]) ELSE p[0]
        /\ q[1] = IF l1 THEN F(p[1]) ELSE p[1]
    BY <1>1, <1>2 DEF Counted
  <1>4. /\ l0 => (u <=> 0 = c) /\ (v <=> 0 # c)
        /\ ~l0 => (v <=> u)
        /\ l1 => (v <=> 1 = c) /\ (w <=> 1 # c)
        /\ ~l1 => (w <=> v)
    BY DEF MeetStep
  <1> HIDE DEF F, q, l0, l1
  <1>5. CASE c = 0
    <2>1. p[1] = IF u THEN F(p[0]) ELSE p[0]
      BY <1>5 DEF Balanced, F
    <2>2. q[1] = IF w THEN F(q[0]) ELSE q[0]
      BY <1>3, <1>4, <1>5, <2>1
    <2> QED  BY <1>5, <2>2 DEF Balanced, F, q
  <1>6. CASE c = 1
    <2>1. p[0] = IF u THEN F(p[1]) ELSE p[1]
      BY <1>6 DEF Balanced, F
    <2>2. q[0] = IF w THEN F(q[1]) ELSE q[1]
      BY <1>3, <1>4, <1>6, <2>1
    <2> QED  BY <1>6, <2>2 DEF Balanced, F, q
  <1> QED  BY <1>5, <1>6

(* A tick of block 0.                                                      *)
LEMMA MeetBlock ==
    ASSUME NEW m, MachineOK(m), InsnOK, NEW c \in SMs, NEW n, NEW p,
           NEW u \in BOOLEAN, Meets(m, c, n, u), Balanced(p, c, u)
    PROVE  LET z == TickBlock(m, insn, 0)
           IN  \E w \in BOOLEAN : Meets(z, c, n, w) /\ Balanced(Counted(p, m, z), c, w)
  <1>1. PICK g : TickChain(g, m, 0)
    BY ZeroBlock, TickIsChain
  <1>2. NUM_SM = 2 /\ SMs = {0, 1} /\ 0 \in 0 .. NUM_SM /\ 1 \in 0 .. NUM_SM /\ 2 \in 0 .. NUM_SM
    BY TwoAssumption DEF SMs
  <1>3. /\ g[0] = OpenWriteWindow(m, {0}) /\ TickBlock(m, insn, 0) = ResolvePads(g[2], 0)
        /\ g[1] = SmTick(g[0], insn, 0, 0) /\ g[2] = SmTick(g[1], insn, 0, 1)
        /\ MachineOK(g[0]) /\ MachineOK(g[1]) /\ MachineOK(g[2])
    <2>1. \A k \in 0 .. NUM_SM : MachineOK(g[k])
      BY <1>1 DEF TickChain, Evolves, Frames
    <2>2. g[0 + 1] = SmTick(g[0], insn, 0, 0) /\ g[1 + 1] = SmTick(g[1], insn, 0, 1)
      BY <1>1, <1>2 DEF TickChain
    <2>3. g[0] = OpenWriteWindow(m, {0}) /\ TickBlock(m, insn, 0) = ResolvePads(g[NUM_SM], 0)
      BY <1>1 DEF TickChain
    <2>4. 0 + 1 = 1 /\ 1 + 1 = 2
      OBVIOUS
    <2> QED  BY <1>2, <2>1, <2>2, <2>3, <2>4
  <1> DEFINE z == TickBlock(m, insn, 0)
  <1>4. PinsOnly(m, g[0]) /\ PinsOnly(g[2], z)
    <2>1. PinsOnly(m, g[0])
      <3> DEFINE o == OpenWriteWindow(m, {0})
      <3>1. o.cfg = m.cfg /\ o.sm = m.sm /\ o.irq = m.irq
        BY WindowFrame
      <3> HIDE DEF o
      <3> QED  BY <1>3, <3>1 DEF PinsOnly, o
    <2>2. g[2] \in Machines
      BY <1>3 DEF MachineOK
    <2> QED  BY <1>3, <2>1, <2>2, DrivesPinsOnly
  <1> HIDE DEF z
  <1>5. Meets(g[0], c, n, u)
    BY <1>4, SeatsAre, SeatsKept
  <1>6. PICK v \in BOOLEAN : Meets(g[1], c, n, v) /\ MeetStep(g[0], g[1], c, 0, u, v)
    BY <1>2, <1>3, <1>5, MeetTick
  <1>7. PICK w \in BOOLEAN : Meets(g[2], c, n, w) /\ MeetStep(g[1], g[2], c, 1, v, w)
    BY <1>2, <1>3, <1>6, MeetTick
  <1>8. Meets(z, c, n, w)
    BY <1>4, <1>7, SeatsAre, SeatsKept
  <1>9. Balanced(Counted(p, g[0], g[2]), c, w)
    BY <1>2, <1>6, <1>7, BothPass, SMTT(30)
  <1>10. Counted(p, g[0], g[2]) = Counted(p, m, z)
    BY <1>4 DEF Counted, Left, PinsOnly
  <1> QED  BY <1>8, <1>9, <1>10 DEF z

(* A tick of another block: nobody runs there.                             *)
LEMMA MeetOther ==
    ASSUME NEW m, MachineOK(m), InsnOK, NEW b \in Blocks \ {0}, NEW c \in SMs, NEW n,
           NEW u \in BOOLEAN, Meets(m, c, n, u)
    PROVE  SameSeats(m, TickBlock(m, insn, b))
  <1>1. PICK g : TickChain(g, m, b)
    BY TickIsChain
  <1>2. NUM_SM = 2 /\ SMs = {0, 1} /\ 0 \in 0 .. NUM_SM /\ 1 \in 0 .. NUM_SM /\ 2 \in 0 .. NUM_SM
    BY TwoAssumption DEF SMs
  <1>3. /\ g[0] = OpenWriteWindow(m, {b}) /\ TickBlock(m, insn, b) = ResolvePads(g[2], b)
        /\ g[1] = SmTick(g[0], insn, b, 0) /\ g[2] = SmTick(g[1], insn, b, 1)
        /\ MachineOK(g[0]) /\ MachineOK(g[1]) /\ MachineOK(g[2])
    <2>1. \A k \in 0 .. NUM_SM : MachineOK(g[k])
      BY <1>1 DEF TickChain, Evolves, Frames
    <2>2. g[0 + 1] = SmTick(g[0], insn, b, 0) /\ g[1 + 1] = SmTick(g[1], insn, b, 1)
      BY <1>1, <1>2 DEF TickChain
    <2>3. g[0] = OpenWriteWindow(m, {b}) /\ TickBlock(m, insn, b) = ResolvePads(g[NUM_SM], b)
      BY <1>1 DEF TickChain
    <2>4. 0 + 1 = 1 /\ 1 + 1 = 2
      OBVIOUS
    <2> QED  BY <1>2, <2>1, <2>2, <2>3, <2>4
  <1>4. SameSeats(m, g[0])
    <2> DEFINE o == OpenWriteWindow(m, {b})
    <2>1. o.cfg = m.cfg /\ o.sm = m.sm /\ o.irq = m.irq
      BY WindowFrame
    <2> HIDE DEF o
    <2>2. PinsOnly(m, o)
      BY <2>1 DEF PinsOnly
    <2> QED  BY <1>3, <2>2, SeatsAre DEF o
  <1>5. ASSUME NEW y, MachineOK(y), Meets(y, c, n, u), NEW s \in SMs
        PROVE  SameSeats(y, SmTick(y, insn, b, s))
    <2>1. ~y.sm[b][s].enabled
      BY <1>5 DEF Meets, RunsMeeting
    <2>2. Idles(y, SmTick(y, insn, b, s), b)
      BY <1>5, <2>1, TickIs
    <2> QED  BY <2>2, SeatsAre
  <1>6. Meets(g[0], c, n, u)
    BY <1>4, SeatsKept
  <1>7. SameSeats(g[0], g[1])
    BY <1>2, <1>3, <1>5, <1>6
  <1>8. Meets(g[1], c, n, u)
    BY <1>6, <1>7, SeatsKept
  <1>9. SameSeats(g[1], g[2])
    BY <1>2, <1>3, <1>5, <1>8
  <1>10. SameSeats(g[2], TickBlock(m, insn, b))
    <2>1. g[2] \in Machines
      BY <1>3 DEF MachineOK
    <2>2. PinsOnly(g[2], ResolvePads(g[2], b))
      BY <2>1, DrivesPinsOnly
    <2> QED  BY <1>3, <2>2, SeatsAre
  <1> QED  BY <1>4, <1>7, <1>9, <1>10 DEF SameSeats, Sits

(***************************************************************************)
(* The rendezvous under its host.                                          *)
(***************************************************************************)
MeetInv ==
    /\ Inv /\ {0} \X SMs \subseteq host.sms /\ passed \in [SMs -> 0 .. LAPS - 1]
    /\ \E c \in SMs, n \in Irqs, ahead \in BOOLEAN :
         Meets(Machine, c, n, ahead) /\ Balanced(passed, c, ahead)

(* A step from m to z keeps the meeting and the balance of its counters.   *)
KeepsBalance(m, z) ==
    \A c \in SMs, n \in Irqs, u \in BOOLEAN :
      Meets(m, c, n, u) /\ Balanced(passed, c, u) =>
        \E w \in BOOLEAN : Meets(z, c, n, w) /\ Balanced(Counted(passed, m, z), c, w)

LEMMA TwoSeats == SMs = {0, 1}
  BY TwoAssumption DEF SMs

(* Nobody passes where everybody stays.                                    *)
LEMMA StillBalanced ==
    ASSUME NEW m, NEW z, SameSeats(m, z)
    PROVE  KeepsBalance(m, z)
  <1> SUFFICES ASSUME NEW c \in SMs, NEW n, NEW u \in BOOLEAN,
                      Meets(m, c, n, u), Balanced(passed, c, u)
               PROVE  Meets(z, c, n, u) /\ Balanced(Counted(passed, m, z), c, u)
    BY DEF KeepsBalance
  <1>1. \A s \in SMs : ~Left(m, z, s)
    BY DEF SameSeats, Sits, Left
  <1>2. \A s \in SMs : Counted(passed, m, z)[s] = passed[s]
    BY <1>1 DEF Counted
  <1>3. 1 - c \in SMs
    BY TwoSeats
  <1> QED  BY <1>2, <1>3, SeatsKept DEF Balanced

(* Such a step keeps the invariant.                                        *)
LEMMA MeetAfter ==
    ASSUME MeetInv, NEW z, MachineOK(z), Become(z), UNCHANGED <<insn, host>>, Inv', Count,
           KeepsBalance(Machine, z)
    PROVE  MeetInv'
  <1>1. Machine' = z
    BY BecomeOK
  <1>2. passed' = Counted(passed, Machine, z)
    <2>1. \A s \in SMs : Passes(s) <=> Left(Machine, z, s)
      BY <1>1, MachineIs DEF Passes, Left, Machine
    <2> QED  BY <2>1 DEF Count, Counted
  <1>3. passed' \in [SMs -> 0 .. LAPS - 1]
    <2>1. \A k \in 0 .. LAPS - 1 : (k + 1) % LAPS \in 0 .. LAPS - 1
      BY LapsAssumption
    <2> QED  BY <1>2, <2>1 DEF MeetInv, Counted
  <1>4. PICK c \in SMs, n \in Irqs, w \in BOOLEAN :
          Meets(z, c, n, w) /\ Balanced(Counted(passed, Machine, z), c, w)
    BY DEF MeetInv, KeepsBalance
  <1>5. Meets(Machine, c, n, w)'
    BY <1>1, <1>4 DEF Meets, RunsMeeting, SitsIn, Parked
  <1>6. Balanced(passed, c, w)'
    BY <1>2, <1>4 DEF Balanced
  <1> QED  BY <1>3, <1>5, <1>6 DEF MeetInv

(* A tick of a block.                                                      *)
LEMMA MeetStepOn == MeetInv /\ Step /\ Count => MeetInv'
  <1> SUFFICES ASSUME MeetInv, Step, Count PROVE MeetInv'
    OBVIOUS
  <1> DEFINE m == Machine
  <1>1. MachineOK(m) /\ InsnOK
    BY DEF MeetInv, Inv
  <1>2. Inv' /\ UNCHANGED <<insn, host>>
    BY StepSafe DEF MeetInv, Safe, Step, StartTick, NextBlock, EndTick
  <1>3. PICK c \in SMs, n \in Irqs, u \in BOOLEAN : Meets(m, c, n, u)
    BY DEF MeetInv
  <1>4. CASE StartTick
    <2> DEFINE y == OpenWriteWindow(m, Blocks)
               z == TickBlock(y, insn, 0)
    <2>1. SameSeats(m, y) /\ MachineOK(y)
      BY <1>1, ZeroBlock, TickEdges, SeatsAre
    <2>2. Become(z)
      BY <1>4 DEF StartTick
    <2> HIDE DEF m, y
    <2>3. MachineOK(z)
      <3>1. Evolves(y, z, 0)
        BY <1>1, <2>1, ZeroBlock, TickBlockEvolves
      <3> HIDE DEF z
      <3> QED  BY <3>1 DEF Evolves, Frames
    <2>4. KeepsBalance(m, z)
      <3> SUFFICES ASSUME NEW d \in SMs, NEW k \in Irqs, NEW v \in BOOLEAN,
                          Meets(m, d, k, v), Balanced(passed, d, v)
                   PROVE  \E w \in BOOLEAN : Meets(z, d, k, w)
                                              /\ Balanced(Counted(passed, m, z), d, w)
        BY DEF KeepsBalance
      <3>1. Meets(y, d, k, v)
        BY <2>1, SeatsKept
      <3>2. PICK w \in BOOLEAN : Meets(z, d, k, w) /\ Balanced(Counted(passed, y, z), d, w)
        BY <1>1, <2>1, <3>1, MeetBlock
      <3> HIDE DEF z
      <3>3. Counted(passed, y, z) = Counted(passed, m, z)
        BY <2>1 DEF SameSeats, Sits, Counted, Left
      <3> QED  BY <3>2, <3>3
    <2> HIDE DEF z
    <2> QED  BY <1>2, <2>2, <2>3, <2>4, MeetAfter DEF m
  <1>5. CASE NextBlock
    <2> DEFINE y == ClockOwn(m, turn)
               b == turn + 1
               z == TickBlock(y, insn, b)
    <2>1. turn \in Blocks /\ b \in Blocks \ {0}
      BY <1>5, PadsAssumption DEF NextBlock, MeetInv, Inv, Blocks, Idle
    <2>2. SameSeats(m, y) /\ MachineOK(y)
      BY <1>1, <2>1, TickEdges, SeatsAre
    <2>3. Become(z)
      BY <1>5 DEF NextBlock
    <2> HIDE DEF m, y, b
    <2>4. MachineOK(z)
      <3>1. Evolves(y, z, b)
        BY <1>1, <2>1, <2>2, TickBlockEvolves
      <3> HIDE DEF z
      <3> QED  BY <3>1 DEF Evolves, Frames
    <2>5. SameSeats(y, z)
      BY <1>1, <1>3, <2>1, <2>2, SeatsKept, MeetOther
    <2> HIDE DEF z
    <2>6. KeepsBalance(m, z)
      BY <2>2, <2>5, StillBalanced DEF SameSeats, Sits
    <2> QED  BY <1>2, <2>3, <2>4, <2>6, MeetAfter DEF m
  <1>6. CASE EndTick
    <2> DEFINE z == ClockShared(ClockOwn(m, turn))
    <2>1. turn \in Blocks
      BY <1>6, PadsAssumption DEF EndTick, MeetInv, Inv, Blocks, Idle
    <2>2. SameSeats(m, z) /\ MachineOK(z)
      BY <1>1, <2>1, TickEdges, SeatsAre, ClocksOK DEF Touches
    <2>3. Become(z)
      BY <1>6 DEF EndTick
    <2> HIDE DEF z
    <2> QED  BY <1>2, <2>2, <2>3, StillBalanced, MeetAfter
  <1> QED  BY <1>4, <1>5, <1>6 DEF Step

(* The host serves both.                                                   *)
LEMMA MeetServed == MeetInv => Served(0) = SMs /\ SMs # {}
  BY ZeroSm DEF MeetInv, Served

(* Stopping or starting either.                                            *)
LEMMA MeetEnable ==
    ASSUME MeetInv, NEW s \in SMs, NEW on \in BOOLEAN,
           pio_sim_set_sm_mask_enabled(0, {s}, on), Count
    PROVE  MeetInv'
  <1> DEFINE m == Machine
             z == EnableMask(m, 0, {s}, on)
  <1>1. Become(z) /\ UNCHANGED <<insn, host>> /\ MachineOK(m)
    BY DEF pio_sim_set_sm_mask_enabled, HostCall, MeetInv, Inv
  <1>2. Inv'
    <2>1. {s} \in SUBSET Served(0) /\ Served(0) # {}
      BY MeetServed
    <2>2. Host
      BY <2>1, ZeroBlock DEF Host
    <2> QED  BY <2>2, HostSafe DEF MeetInv, Safe
  <1>3. /\ MachineOK(z) /\ z.cfg = m.cfg /\ z.irq = m.irq
        /\ \A t \in SMs : z.sm[0][t] = IF t \in {s} THEN [m.sm[0][t] EXCEPT !.enabled = on]
                                       ELSE m.sm[0][t]
    BY <1>1, EnableWrites
  <1>4. \A b \in Blocks \ {0}, t \in SMs : z.sm[b][t].enabled = m.sm[b][t].enabled
    BY <1>1, ZeroBlock, EnableOK DEF Touches
  <1> HIDE DEF z
  <1>5. ASSUME NEW t \in SMs PROVE Sits(z.sm[0][t], m.sm[0][t])
    <2> DEFINE r == m.sm[0][t]
    <2>1. r \in SmRecs
      BY <1>1, ZeroBlock, SmRecAt
    <2>2. z.sm[0][t] = r \/ z.sm[0][t] = [r EXCEPT !.enabled = on]
      BY <1>3
    <2> HIDE DEF r
    <2>3. Sits([r EXCEPT !.enabled = on], r) /\ Sits(r, r)
      BY <2>1 DEF SmRecs, Sits
    <2> QED  BY <2>2, <2>3 DEF r
  <1>6. SameSeats(m, z)
    BY <1>3, <1>4, <1>5 DEF SameSeats
  <1> QED  BY <1>1, <1>2, <1>3, <1>6, StillBalanced, MeetAfter

(* Injecting a word that works on registers or pins into a state machine   *)
(* that is not stalled.                                                    *)
LEMMA MeetExec ==
    ASSUME MeetInv, NEW s \in SMs, NEW i \in ExecInsns, Works(i), ~sm[0][s].stalled,
           pio_sim_sm_exec(0, s, i), Count
    PROVE  MeetInv'
  <1> DEFINE m == Machine
             r == m.sm[0][s]
             x == Execute(m, 0, s, i)
             h == exec_one(m, 0, s, i)
             z == sm_exec(m, 0, s, i)
  <1>1. Become(z) /\ UNCHANGED <<insn, host>> /\ MachineOK(m) /\ m \in Machines /\ InsnOK
    BY DEF pio_sim_sm_exec, HostCall, MeetInv, Inv, MachineOK
  <1>2. Inv'
    <2>1. s \in Served(0)
      BY MeetServed
    <2>2. Host
      BY <2>1, ZeroBlock DEF Host
    <2> QED  BY <2>2, HostSafe DEF MeetInv, Safe
  <1>3. MachineOK(z)
        /\ \A b \in Blocks \ {0}, t \in SMs : z.sm[b][t].enabled = m.sm[b][t].enabled
    <2>1. Evolves(m, z, 0)
      BY <1>1, ZeroBlock, SmExecEvolves
    <2> HIDE DEF z
    <2> QED  BY <2>1 DEF Evolves, Frames
  <1>4. SetSm(m, 0, s, [r EXCEPT !.stalled = FALSE]) = m
    <2>1. r \in SmRecs /\ ~r.stalled
      BY <1>1, ZeroBlock, SmRecAt, MachineIs
    <2> HIDE DEF r
    <2>2. [r EXCEPT !.stalled = FALSE] = r
      BY <2>1 DEF SmRecs
    <2> QED  BY <1>1, <2>2, SetSame DEF r
  <1>5. /\ KeepsPlace(m, x.m, 0) /\ x.m.irq = m.irq /\ ~x.set_pc /\ ~x.stalled
        /\ PinsOnly(x.m, h.m) /\ h.stalled = x.stalled /\ h.set_pc = x.set_pc
        /\ MachineOK(h.m)
    <2>1. i \in Insns
      BY SimAssumption
    <2> QED  BY <1>1, <2>1, ZeroBlock, WorkRuns, ExecOneIs
  <1>6. z = h.m
    <2> DEFINE q == h.m.sm[0][s]
    <2>1. z = SetSm(h.m, 0, s, IF h.stalled
                               THEN [q EXCEPT !.exec_pending = TRUE, !.exec_insn = i,
                                              !.stalled = TRUE]
                               ELSE [q EXCEPT !.pc = IF h.set_pc THEN h.next_pc ELSE @])
      BY <1>4, Zenon DEF sm_exec
    <2> HIDE DEF z, x
    <2>2. q \in SmRecs /\ h.m \in Machines
      BY <1>5, ZeroBlock, SmRecAt
    <2> HIDE DEF h
    <2>3. z = SetSm(h.m, 0, s, [q EXCEPT !.pc = @])
      BY <1>5, <2>1
    <2> HIDE DEF q
    <2>4. [q EXCEPT !.pc = @] = q
      BY <2>2 DEF SmRecs
    <2> QED  BY <2>2, <2>3, <2>4, SetSame DEF q
  <1> HIDE DEF z, h, x
  <1>7. SameSeats(m, z)
    BY <1>3, <1>5, <1>6 DEF SameSeats, KeepsPlace, PinsOnly
  <1> QED  BY <1>1, <1>2, <1>3, <1>7, StillBalanced, MeetAfter DEF z

(* The meetings under the programs' specification.                         *)
MeetingsAgree == Meeting => MeetInv

LEMMA MeetStarts == Meetings /\ PInit => MeetingsAgree
  <1> SUFFICES ASSUME Meetings, PInit, Meeting PROVE MeetInv
    BY DEF MeetingsAgree
  <1>1. Inv
    BY InitInv DEF PInit
  <1>2. PICK su \in Setups :
          /\ insn = su.prog /\ cfg = su.conf /\ host = su.host
          /\ irq = [b \in Blocks |-> {}]
          /\ sm = [b \in Blocks |-> [s \in SMs |->
               [Configured(su.conf[b][s]) EXCEPT !.enabled = <<b, s>> \in su.on]]]
    BY Zenon DEF PInit, Init
  <1>3. MeetSetup(su)
    BY <1>2, Zenon DEF Meetings, Meeting
  <1>4. PICK c \in SMs, n \in Irqs :
          /\ Summons(insn[0][cfg[0][c].wrap_bottom], c, n)
          /\ Answers(insn[0][cfg[0][1 - c].wrap_bottom], 1 - c, n)
    BY <1>2, <1>3, Zenon DEF MeetSetup
  <1>5. ASSUME NEW b \in Blocks, NEW s \in SMs
        PROVE  /\ sm[b][s].pc = cfg[b][s].wrap_bottom /\ ~sm[b][s].exec_pending
               /\ ~sm[b][s].stalled
               /\ sm[b][s].enabled <=> <<b, s>> \in su.on
    <2> DEFINE e == <<b, s>> \in su.on
               k == su.conf[b][s]
    <2>1. sm[b][s] = [Configured(k) EXCEPT !.enabled = e]
      BY <1>2
    <2> HIDE DEF e, k
    <2>2. LET q == [Configured(k) EXCEPT !.enabled = e]
          IN  /\ q.pc = k.wrap_bottom /\ q.exec_pending = FALSE /\ q.stalled = FALSE
              /\ q.enabled = e
      BY DEF Configured, ResetSm
    <2> QED  BY <1>2, <2>1, <2>2 DEF e, k
  <1>6. ASSUME NEW i \in Insns, NEW s \in SMs
        PROVE  /\ Summons(i, s, n) => CallsWith(i, s, n)
               /\ Answers(i, s, n) => TakesFlag(i, 0, s, n)
    <2>1. i.op \in {"IRQ", "WAIT"} => i.idx \in Nat
      BY SmAssumption DEF Insns, Irqs
    <2>2. ASSUME i.idx \in Nat, OnFlag(i, s, n)
          PROVE  /\ irq_target_block(0, i.mode) = {0}
                 /\ n = resolve_irq_index(s, i.mode, i.idx)
      <3>1. irq_target_block(0, i.mode) = {0}
        BY <2>2, Zenon DEF OnFlag, irq_target_block
      <3>2. n = resolve_irq_index(s, i.mode, i.idx)
        <4>1. n \in Nat
          BY SmAssumption DEF Irqs
        <4>2. CASE i.mode = "REL"
          <5> DEFINE k == i.idx
          <5>1. n \div 2 = k \div 2 /\ n % 2 = (k + s) % 2
            BY <2>2, <4>2, TwoAssumption DEF OnFlag
          <5>2. k \in Nat /\ s \in {0, 1}
            BY <2>2, TwoSeats
          <5> HIDE DEF k
          <5>3. n = ((k \div 2) * 2) + (((k % 2) + s) % 2)
            BY <4>1, <5>1, <5>2
          <5> QED  BY <4>2, <5>3, TwoAssumption DEF resolve_irq_index, k
        <4>3. CASE i.mode # "REL"
          BY <2>2, <4>3 DEF OnFlag, resolve_irq_index
        <4> QED  BY <4>2, <4>3
      <3> QED  BY <3>1, <3>2
    <2> QED  BY <2>1, <2>2, Zenon DEF Summons, Answers, CallsWith, TakesFlag
  <1>7. ASSUME NEW s \in SMs PROVE SitsIn(Machine, c, n, s)
    <2> DEFINE k == cfg[0][s]
    <2>1. /\ k.wrap_top = k.wrap_bottom + 1
          /\ Works(insn[0][k.wrap_top])
      BY <1>2, <1>3, Zenon DEF MeetSetup
    <2>2. s = c \/ s = 1 - c
      BY TwoSeats
    <2>3. /\ s = c => CallsWith(insn[0][k.wrap_bottom], s, n)
          /\ s # c => TakesFlag(insn[0][k.wrap_bottom], 0, s, n)
      <3>1. insn[0][k.wrap_bottom] \in Insns
        <4>1. k \in Confs
          BY <1>1, ZeroBlock, SmRecAt, MachineIs DEF Inv
        <4>2. k.wrap_bottom \in PCs
          BY <4>1 DEF Confs
        <4> QED  BY <1>1, <4>2, ZeroBlock DEF Inv, InsnOK
      <3> QED  BY <1>4, <1>6, <2>2, <3>1
    <2>4. sm[0][s].pc = k.wrap_bottom /\ ~sm[0][s].exec_pending
      BY <1>5, ZeroBlock, Zenon
    <2> QED  BY <2>1, <2>3, <2>4, MachineIs, Zenon DEF SitsIn
  <1>8. ASSUME NEW b \in Blocks \ {0}, NEW s \in SMs PROVE ~sm[b][s].enabled
    BY <1>3, <1>5, Zenon DEF MeetSetup
  <1>9. Meets(Machine, c, n, FALSE)
    <2>1. ~sm[0][c].stalled /\ irq[0] = {}
      BY <1>2, <1>5, ZeroBlock
    <2>2. Parked(Machine, c, n, FALSE)
      BY <2>1, MachineIs DEF Parked
    <2> QED  BY <1>7, <1>8, <2>2, MachineIs DEF Meets, RunsMeeting
  <1>10. passed \in [SMs -> 0 .. LAPS - 1] /\ Balanced(passed, c, FALSE)
    <2>1. passed = [s \in SMs |-> 0] /\ 1 - c \in SMs /\ 0 \in 0 .. LAPS - 1
      BY TwoSeats, LapsAssumption, SMTT(30) DEF PInit
    <2> QED  BY <2>1 DEF Balanced
  <1>11. {0} \X SMs \subseteq host.sms
    BY <1>2, <1>3, Zenon DEF MeetSetup
  <1> QED  BY <1>1, <1>9, <1>10, <1>11 DEF MeetInv

LEMMA MeetGoesOn ==
    Meetings /\ ~EXEC_PARKED /\ MeetingsAgree /\ [PNext]_pvars => MeetingsAgree'
  <1> SUFFICES ASSUME Meetings, ~EXEC_PARKED, MeetingsAgree, [PNext]_pvars, Meeting'
               PROVE  MeetInv'
    BY DEF MeetingsAgree
  <1>1. UNCHANGED host
    BY DEF PNext, RNext, TNext, LNext, Step, StartTick, NextBlock, EndTick, Launch, StopOrGo,
           StartOrStop, Restart, InSync, Surroundings, HostCall, pvars, vars,
           pio_sim_set_sm_mask_enabled, pio_sim_sm_exec, pio_sim_irq_force,
           pio_sim_sm_restart, pio_sim_enable_sm_mask_in_sync, SetPin
  <1>2. Meeting /\ MeetInv
    BY <1>1 DEF Meeting, MeetingsAgree
  <1>3. CASE Step /\ Count
    BY <1>2, <1>3, MeetStepOn
  <1>4. CASE Count /\ \E s \in SMs, on \in BOOLEAN : pio_sim_set_sm_mask_enabled(0, {s}, on)
    BY <1>2, <1>4, MeetEnable
  <1>5. CASE Count /\ \E s \in SMs, i \in ExecInsns :
               /\ EXEC_PARKED \/ ~sm[0][s].stalled
               /\ pio_sim_sm_exec(0, s, i)
    <2>1. PICK s \in SMs, i \in ExecInsns : ~sm[0][s].stalled /\ pio_sim_sm_exec(0, s, i)
      BY <1>5
    <2>2. Works(i)
      BY DEF Meetings
    <2> QED  BY <1>2, <1>5, <2>1, <2>2, MeetExec
  <1>6. CASE UNCHANGED pvars
    <2>1. UNCHANGED vars /\ UNCHANGED passed
      BY <1>6 DEF pvars, meet
    <2>2. Inv'
      BY <1>2, <2>1, NextInv DEF MeetInv
    <2>3. Machine' = Machine /\ UNCHANGED <<insn, host>>
      BY <2>1 DEF vars, Machine
    <2>4. PICK c \in SMs, n \in Irqs, u \in BOOLEAN :
            Meets(Machine, c, n, u) /\ Balanced(passed, c, u)
      BY <1>2 DEF MeetInv
    <2>5. Meets(Machine, c, n, u)' /\ Balanced(passed, c, u)'
      BY <2>1, <2>3, <2>4 DEF Meets, RunsMeeting, SitsIn, Parked, Balanced
    <2> QED  BY <1>2, <2>1, <2>2, <2>3, <2>5 DEF MeetInv
  <1> QED  BY <1>2, <1>3, <1>4, <1>5, <1>6, Zenon DEF PNext, RNext, Meeting

(* The server is level with the caller, or one ahead, also where the       *)
(* counters wrap.                                                          *)
LEMMA AheadByOne ==
    ASSUME NEW k \in 0 .. LAPS - 1
    PROVE  (((k + 1) % LAPS) - k) % LAPS \in {0, 1} /\ (k - k) % LAPS \in {0, 1}
  <1> USE LapsAssumption
  <1>1. CASE k + 1 < LAPS
    <2>1. (k + 1) % LAPS = k + 1
      BY <1>1
    <2>2. (k + 1) - k = 1
      OBVIOUS
    <2>3. 1 % LAPS \in {0, 1}
      BY <1>1
    <2> QED  BY <2>1, <2>2, <2>3
  <1>2. CASE k + 1 = LAPS
    <2>1. (k + 1) % LAPS = 0
      BY <1>2
    <2>2. CASE LAPS = 1
      <3>1. k = 0
        BY <1>2, <2>2
      <3> QED  BY <2>1, <2>2, <3>1
    <2>3. CASE LAPS > 1
      <3>1. 0 - k = 1 + (-1) * LAPS
        BY <1>2
      <3>2. (1 + (-1) * LAPS) % LAPS = 1
        BY <2>3
      <3> QED  BY <2>1, <3>1, <3>2
    <2> QED  BY <2>2, <2>3
  <1>3. (k - k) % LAPS = 0
    OBVIOUS
  <1> QED  BY <1>1, <1>2, <1>3

LEMMA MeetCounts == MeetingsAgree => Paired
  <1> SUFFICES ASSUME MeetInv
               PROVE  (passed[Server] - passed[Caller]) % LAPS \in {0, 1}
    BY DEF MeetingsAgree, Paired
  <1>1. PICK c \in SMs, n \in Irqs, u \in BOOLEAN :
          Meets(Machine, c, n, u) /\ Balanced(passed, c, u)
    BY SMTT(30) DEF MeetInv
  <1>2. \A s \in SMs : insn[0][cfg[0][s].wrap_bottom].op = "IRQ" <=> s = c
    BY <1>1, MachineIs DEF Meets, RunsMeeting, SitsIn, CallsWith, TakesFlag
  <1>3. Caller = c /\ Server = 1 - c
    BY <1>2 DEF Caller, Server
  <1>4. passed[c] \in 0 .. LAPS - 1
    BY DEF MeetInv
  <1> QED  BY <1>1, <1>3, <1>4, AheadByOne DEF Balanced

(* In every meeting of two state machines of a block on one of its flags,  *)
(* absolute or relative, each call is answered exactly once, for either    *)
(* order in which a tick visits them, every divider and delay, and however *)
(* the host stops and starts them or injects words that leave the flag     *)
(* alone, as long as it does not inject into one that is stalled: the      *)
(* caller raises its flag once and then polls (exec_irq), `wait 1 irq'     *)
(* takes the flag it saw (exec_wait).                                      *)
THEOREM MeetingPaired == Meetings /\ ~EXEC_PARKED => (PSpec => []Paired)
  <1> SUFFICES ASSUME Meetings, ~EXEC_PARKED PROVE PSpec => []Paired
    OBVIOUS
  <1>1. PInit => MeetingsAgree
    BY MeetStarts
  <1>2. MeetingsAgree /\ [PNext]_pvars => MeetingsAgree'
    BY MeetGoesOn
  <1>3. MeetingsAgree => Paired
    BY MeetCounts
  <1> QED  BY <1>1, <1>2, <1>3, PTL DEF PSpec

=============================================================================
