--------------------------- MODULE PioSim_proofs ---------------------------
(***************************************************************************)
(* Proofs about the engine for every number of blocks, state machines,     *)
(* pins, flags and word bits, every program, configuration and host.       *)
(***************************************************************************)
EXTENDS PioSim, PioPads_proofs, TLAPS

(***************************************************************************)
(* Well-formed machines.                                                   *)
(***************************************************************************)
SmRecs ==
    [enabled : BOOLEAN, pc : PCs, x : Words, y : Words, osr : Words, isr : Words,
     osr_count : 0 .. WORD_BITS, isr_count : 0 .. WORD_BITS,
     delay : Nat, stalled : BOOLEAN, exec_pending : BOOLEAN,
     exec_insn : KnownInsns, clk_accum : Nat, fdebug : SUBSET FdebugFlags,
     tx : Fifo(Words), rx : Fifo(Words), status : Seq(Words)]

(* The FIFOs of r are consistent, and shaped as configuration c says.      *)
Fits(r, c) ==
    /\ r.tx.cap = TxCap(c.fifo_join) /\ r.rx.cap = RxCap(c.fifo_join)
    /\ RingOK(r.tx) /\ RingOK(r.rx)
    /\ rx_fifo_is_register_file(c.fifo_join) => r.rx.count = 0

Machines ==
    [cfg : [Blocks -> [SMs -> Confs]], sm : [Blocks -> [SMs -> SmRecs]],
     reg : [Blocks -> [SMs -> PinRegs]], irq : [Blocks -> SUBSET Irqs],
     pads : [PadSets -> Pads]]

MachineOK(m) ==
    /\ m \in Machines
    /\ \A b \in Blocks, s \in SMs : Fits(m.sm[b][s], m.cfg[b][s])
    /\ \A pd \in PadSets : m.pads[pd].owners = OwnersOf(pd)

(* What a step of block b may do to machine m: z is well formed, has the   *)
(* configurations, enables and routing of m, and agrees with m on the      *)
(* state machines and pin registers of the other blocks and on pads that   *)
(* are not b's.                                                            *)
Frames(m, z, b) ==
    /\ MachineOK(z) /\ z.cfg = m.cfg
    /\ \A o \in Blocks \ {b} : z.sm[o] = m.sm[o] /\ z.reg[o] = m.reg[o]
    /\ \A s \in SMs : z.sm[b][s].enabled = m.sm[b][s].enabled
    /\ \A pd \in PadSets : /\ pd # PadOf(b) => z.pads[pd] = m.pads[pd]
                           /\ SameRouting(z.pads[pd], m.pads[pd])

(* Doing nothing is such a step.                                           *)
LEMMA FramesRefl ==
    ASSUME NEW m, MachineOK(m), NEW b
    PROVE  Frames(m, m, b)
  BY DEF Frames, SameRouting

(* Such steps compose, whatever their number.                              *)
LEMMA FramesTrans ==
    ASSUME NEW m, NEW z, NEW y, NEW b, Frames(m, z, b), Frames(z, y, b)
    PROVE  Frames(m, y, b)
  BY DEF Frames, SameRouting

(* The pads a block drives exist.                                          *)
LEMMA PadOfType ==
    ASSUME NEW b \in Blocks
    PROVE  PadOf(b) \in PadSets
  BY DEF PadOf, PadSets

(* Writing one state machine's record.                                     *)
LEMMA SetSmFrames ==
    ASSUME NEW m, MachineOK(m), NEW b \in Blocks, NEW s \in SMs,
           NEW q \in SmRecs, Fits(q, m.cfg[b][s])
    PROVE  LET z == SetSm(m, b, s, q)
           IN  /\ MachineOK(z) /\ z.sm[b][s] = q
               /\ q.enabled = m.sm[b][s].enabled => Frames(m, z, b)
               /\ z.cfg = m.cfg /\ z.reg = m.reg /\ z.irq = m.irq /\ z.pads = m.pads
               /\ z.sm = [m.sm EXCEPT ![b][s] = q]
  <1> DEFINE z == SetSm(m, b, s, q)
             g == [m.sm EXCEPT ![b][s] = q]
  <1>1. m \in Machines /\ m.sm \in [Blocks -> [SMs -> SmRecs]]
    BY DEF MachineOK, Machines
  <1>2. g \in [Blocks -> [SMs -> SmRecs]]
    BY <1>1
  <1>3. z = [m EXCEPT !.sm = g]
    BY <1>1 DEF SetSm, Machines
  <1>4. \A o \in Blocks, t \in SMs : g[o][t] = IF o = b /\ t = s THEN q ELSE m.sm[o][t]
    BY <1>1
  <1>5. \A o \in Blocks \ {b} : g[o] = m.sm[o]
    BY <1>1
  <1> HIDE DEF g, z
  <1>6. /\ z \in Machines /\ z.sm = g
        /\ z.cfg = m.cfg /\ z.reg = m.reg /\ z.irq = m.irq /\ z.pads = m.pads
    BY <1>1, <1>2, <1>3 DEF Machines
  <1>7. MachineOK(z)
    BY <1>4, <1>6 DEF MachineOK
  <1>8. q.enabled = m.sm[b][s].enabled => Frames(m, z, b)
    BY <1>4, <1>5, <1>6, <1>7 DEF Frames, SameRouting
  <1> QED  BY <1>4, <1>6, <1>7, <1>8 DEF z, g

(* Writing one state machine's pin registers.                              *)
LEMMA SetRegFrames ==
    ASSUME NEW m, MachineOK(m), NEW b \in Blocks, NEW s \in SMs, NEW q \in PinRegs
    PROVE  LET z == [m EXCEPT !.reg[b][s] = q]
           IN  Frames(m, z, b) /\ z.sm = m.sm /\ z.reg = [m.reg EXCEPT ![b][s] = q]
  <1> DEFINE z == [m EXCEPT !.reg[b][s] = q]
             g == [m.reg EXCEPT ![b][s] = q]
  <1>1. m \in Machines /\ m.reg \in [Blocks -> [SMs -> PinRegs]]
    BY DEF MachineOK, Machines
  <1>2. g \in [Blocks -> [SMs -> PinRegs]] /\ \A o \in Blocks \ {b} : g[o] = m.reg[o]
    BY <1>1
  <1>3. z = [m EXCEPT !.reg = g]
    BY <1>1 DEF Machines
  <1> HIDE DEF g, z
  <1>4. /\ z \in Machines /\ z.reg = g
        /\ z.cfg = m.cfg /\ z.sm = m.sm /\ z.irq = m.irq /\ z.pads = m.pads
    BY <1>1, <1>2, <1>3 DEF Machines
  <1>5. MachineOK(z)
    BY <1>4 DEF MachineOK
  <1>6. Frames(m, z, b)
    BY <1>2, <1>4, <1>5 DEF Frames, SameRouting
  <1> QED  BY <1>4, <1>6 DEF z, g

(* Raising and clearing flags.                                             *)
LEMMA SetIrqFrames ==
    ASSUME NEW m, MachineOK(m), NEW b \in Blocks, NEW g \in [Blocks -> SUBSET Irqs]
    PROVE  LET z == [m EXCEPT !.irq = g]
           IN  /\ Frames(m, z, b) /\ z.sm = m.sm /\ z.reg = m.reg
               /\ z.pads = m.pads /\ z.irq = g
  <1> DEFINE z == [m EXCEPT !.irq = g]
  <1>1. m \in Machines
    BY DEF MachineOK
  <1>2. /\ z \in Machines /\ z.irq = g
        /\ z.cfg = m.cfg /\ z.sm = m.sm /\ z.reg = m.reg /\ z.pads = m.pads
    BY <1>1 DEF Machines
  <1> HIDE DEF z
  <1>3. MachineOK(z)
    BY <1>2 DEF MachineOK
  <1>4. Frames(m, z, b)
    BY <1>2, <1>3 DEF Frames, SameRouting
  <1> QED  BY <1>2, <1>4 DEF z

(* Replacing the pads of a block by pads with the same routing.            *)
LEMMA SetPadsFrames ==
    ASSUME NEW m, MachineOK(m), NEW b \in Blocks, NEW q \in Pads,
           SameRouting(q, m.pads[PadOf(b)])
    PROVE  LET z == [m EXCEPT !.pads[PadOf(b)] = q]
           IN  /\ Frames(m, z, b) /\ z.sm = m.sm /\ z.reg = m.reg
               /\ z.pads = [m.pads EXCEPT ![PadOf(b)] = q]
  <1> DEFINE pd == PadOf(b)
             z == [m EXCEPT !.pads[pd] = q]
             g == [m.pads EXCEPT ![pd] = q]
  <1>1. m \in Machines /\ m.pads \in [PadSets -> Pads] /\ pd \in PadSets
    BY PadOfType DEF MachineOK, Machines
  <1> HIDE DEF pd
  <1>2. /\ g \in [PadSets -> Pads] /\ g[pd] = q
        /\ \A e \in PadSets : e # pd => g[e] = m.pads[e]
    BY <1>1
  <1>3. z = [m EXCEPT !.pads = g]
    BY <1>1 DEF Machines
  <1> HIDE DEF g, z
  <1>4. /\ z \in Machines /\ z.pads = g
        /\ z.cfg = m.cfg /\ z.sm = m.sm /\ z.reg = m.reg /\ z.irq = m.irq
    BY <1>1, <1>2, <1>3 DEF Machines
  <1>5. \A e \in PadSets : SameRouting(g[e], m.pads[e])
    BY <1>2 DEF SameRouting, pd
  <1>6. MachineOK(z)
    BY <1>4, <1>5 DEF MachineOK, SameRouting
  <1>7. Frames(m, z, b)
    BY <1>2, <1>4, <1>5, <1>6 DEF Frames, pd
  <1> QED  BY <1>4, <1>7 DEF z, g, pd

(* Resolving the pads of a block.                                          *)
LEMMA ResolvePadsFrames ==
    ASSUME NEW m, MachineOK(m), NEW b \in Blocks
    PROVE  LET z == ResolvePads(m, b)
           IN  /\ Frames(m, z, b) /\ z.sm = m.sm /\ z.reg = m.reg
               /\ z.pads[PadOf(b)].pin_dirs
                    = ResolvedDirs(m.pads[PadOf(b)], m.reg, EnabledSMs(m))
  <1> DEFINE pd == PadOf(b)
             q == pio_pads_resolve(m.pads[pd], m.reg, EnabledSMs(m))
             z == [m EXCEPT !.pads[pd] = q]
  <1>1. pd \in PadSets /\ m.pads \in [PadSets -> Pads] /\ m.pads[pd] \in Pads
    BY PadOfType DEF MachineOK, Machines
  <1>2. /\ q \in Pads /\ SameRouting(q, m.pads[pd])
        /\ q.pin_dirs = ResolvedDirs(m.pads[pd], m.reg, EnabledSMs(m))
    BY <1>1, ResolveFrame
  <1>3. ResolvePads(m, b) = z
    BY <1>1 DEF ResolvePads, MachineOK, Machines
  <1> HIDE DEF q
  <1>4. /\ Frames(m, z, b) /\ z.sm = m.sm /\ z.reg = m.reg
        /\ z.pads = [m.pads EXCEPT ![pd] = q]
    BY <1>2, SetPadsFrames
  <1>5. z.pads[pd] = q
    BY <1>1, <1>4
  <1> QED  BY <1>2, <1>3, <1>4, <1>5

(***************************************************************************)
(* Freshness of the resolved pin directions.                               *)
(***************************************************************************)
FreshPad(m, pd) == m.pads[pd].pin_dirs = ResolvedDirs(m.pads[pd], m.reg, EnabledSMs(m))

PadsFresh(m) == \A pd \in PadSets : FreshPad(m, pd)

(* The owners of a pad set are blocks that drive it.                       *)
LEMMA OwnersType ==
    ASSUME NEW pd \in PadSets
    PROVE  /\ OwnersOf(pd) \in Seq(Blocks)
           /\ \A i \in 1 .. Len(OwnersOf(pd)) :
                 OwnersOf(pd)[i] \in Blocks /\ PadOf(OwnersOf(pd)[i]) = pd
  <1>1. CASE SHARED
    <2> DEFINE o == [i \in 1 .. NUM_PIO |-> i - 1]
    <2>1. OwnersOf(pd) = o
      BY <1>1 DEF OwnersOf
    <2>2. \A i \in 1 .. NUM_PIO : i - 1 \in Blocks
      BY PadsAssumption DEF Blocks
    <2>3. o \in Seq(Blocks) /\ Len(o) = NUM_PIO
      BY <2>2, PadsAssumption
    <2> QED  BY <1>1, <2>1, <2>2, <2>3 DEF PadOf, PadSets
  <1>2. CASE ~SHARED
    <2>1. OwnersOf(pd) = <<pd>> /\ pd \in Blocks
      BY <1>2 DEF OwnersOf, PadSets
    <2> QED  BY <1>2, <2>1 DEF PadOf
  <1> QED  BY <1>1, <1>2

(* Directions stay fresh while the claims of the pads' owners do.          *)
LEMMA FreshDepends ==
    ASSUME NEW m, MachineOK(m), NEW z, MachineOK(z), NEW pd \in PadSets,
           SameRouting(z.pads[pd], m.pads[pd]),
           z.pads[pd].pin_dirs = m.pads[pd].pin_dirs,
           \A o \in Blocks, s \in SMs : PadOf(o) = pd =>
              /\ z.reg[o][s].dir = m.reg[o][s].dir
              /\ z.reg[o][s].oe = m.reg[o][s].oe
              /\ z.sm[o][s].enabled = m.sm[o][s].enabled
    PROVE  FreshPad(m, pd) => FreshPad(z, pd)
  <1> DEFINE p == m.pads[pd]
             q == z.pads[pd]
             e == EnabledSMs(m)
             f == EnabledSMs(z)
  <1>1. p.owners = OwnersOf(pd) /\ q.owners = OwnersOf(pd)
    BY DEF MachineOK
  <1>2. p.owners \in Seq(Blocks) /\ q.owners = p.owners
    BY <1>1, OwnersType
  <1>3. q.pio_func_mask = p.pio_func_mask
    BY DEF SameRouting
  <1>4. \A o \in Blocks, s \in SMs :
          e[o][s] = m.sm[o][s].enabled /\ f[o][s] = z.sm[o][s].enabled
    BY DEF EnabledSMs
  <1> HIDE DEF e, f
  <1>5. ASSUME NEW i \in 1 .. Len(p.owners), NEW s \in SMs
        PROVE  /\ z.reg[p.owners[i]][s].dir = m.reg[p.owners[i]][s].dir
               /\ z.reg[p.owners[i]][s].oe = m.reg[p.owners[i]][s].oe
               /\ f[p.owners[i]][s] = e[p.owners[i]][s]
    <2>1. p.owners[i] \in Blocks /\ PadOf(p.owners[i]) = pd
      BY <1>1, OwnersType
    <2> HIDE DEF p, q
    <2> QED  BY <1>4, <2>1
  <1> DEFINE r == m.reg
             w == z.reg
  <1>6. \A i \in 1 .. Len(p.owners), s \in SMs :
           /\ w[p.owners[i]][s].dir = r[p.owners[i]][s].dir
           /\ w[p.owners[i]][s].oe = r[p.owners[i]][s].oe
           /\ f[p.owners[i]][s] = e[p.owners[i]][s]
    BY <1>5
  <1> HIDE DEF p, q, r, w
  <1>7. ResolvedDirs(q, w, f) = ResolvedDirs(p, r, e)
    BY <1>2, <1>3, <1>6, DirsDepend
  <1> QED  BY <1>7 DEF FreshPad, p, q, e, f, r, w

(* What a step of block b does to a machine.                               *)
Evolves(m, z, b) == Frames(m, z, b) /\ (PadsFresh(m) => PadsFresh(z))

(* An early return: nothing changed, so nothing became stale.              *)
LEMMA EvolvesRefl ==
    ASSUME NEW m, MachineOK(m), NEW b
    PROVE  Evolves(m, m, b)
  BY FramesRefl DEF Evolves

(* A handler made of several writes evolves the machine if each write      *)
(* does.                                                                   *)
LEMMA EvolvesTrans ==
    ASSUME NEW m, NEW z, NEW y, NEW b, Evolves(m, z, b), Evolves(z, y, b)
    PROVE  Evolves(m, y, b)
  BY FramesTrans DEF Evolves

(* A step that leaves the block's direction claims alone.                  *)
LEMMA SameClaimsEvolves ==
    ASSUME NEW m, MachineOK(m), NEW z, NEW b \in Blocks, Frames(m, z, b),
           z.pads[PadOf(b)].pin_dirs = m.pads[PadOf(b)].pin_dirs,
           \A s \in SMs : z.reg[b][s].dir = m.reg[b][s].dir /\ z.reg[b][s].oe = m.reg[b][s].oe
    PROVE  Evolves(m, z, b)
  <1>1. MachineOK(z)
    BY DEF Frames
  <1>2. ASSUME NEW pd \in PadSets
        PROVE  FreshPad(m, pd) => FreshPad(z, pd)
    <2>1. z.pads[pd].pin_dirs = m.pads[pd].pin_dirs /\ SameRouting(z.pads[pd], m.pads[pd])
      BY DEF Frames
    <2>2. \A o \in Blocks, s \in SMs :
              /\ z.reg[o][s].dir = m.reg[o][s].dir
              /\ z.reg[o][s].oe = m.reg[o][s].oe
              /\ z.sm[o][s].enabled = m.sm[o][s].enabled
      BY DEF Frames
    <2> QED  BY <1>1, <2>1, <2>2, FreshDepends
  <1> QED  BY <1>2 DEF Evolves, PadsFresh

(* Resolving a block's pads makes up for any change of its claims.         *)
LEMMA ResolvedFresh ==
    ASSUME NEW m, MachineOK(m), NEW y, MachineOK(y), NEW b \in Blocks,
           \A pd \in PadSets : pd # PadOf(b) => y.pads[pd] = m.pads[pd],
           \A o \in Blocks : o # b => y.sm[o] = m.sm[o] /\ y.reg[o] = m.reg[o]
    PROVE  PadsFresh(m) => PadsFresh(ResolvePads(y, b))
  <1> DEFINE z == ResolvePads(y, b)
  <1>1. /\ Frames(y, z, b) /\ z.sm = y.sm /\ z.reg = y.reg
        /\ z.pads[PadOf(b)].pin_dirs = ResolvedDirs(y.pads[PadOf(b)], y.reg, EnabledSMs(y))
    BY ResolvePadsFrames
  <1> HIDE DEF z
  <1>2. MachineOK(z)
    BY <1>1 DEF Frames
  <1>3. FreshPad(z, PadOf(b))
    <2> DEFINE p == y.pads[PadOf(b)]
               q == z.pads[PadOf(b)]
    <2>1. PadOf(b) \in PadSets
      BY PadOfType
    <2>2. SameRouting(q, p) /\ p.owners \in Seq(Blocks) /\ EnabledSMs(z) = EnabledSMs(y)
      BY <1>1, <2>1, OwnersType DEF Frames, MachineOK, EnabledSMs
    <2> HIDE DEF p, q
    <2>3. ResolvedDirs(q, z.reg, EnabledSMs(z)) = ResolvedDirs(p, y.reg, EnabledSMs(y))
      BY <1>1, <2>2, DirsDepend DEF SameRouting
    <2> QED  BY <1>1, <2>3 DEF FreshPad, p, q
  <1>4. ASSUME NEW pd \in PadSets, pd # PadOf(b)
        PROVE  FreshPad(m, pd) => FreshPad(z, pd)
    <2>1. z.pads[pd] = m.pads[pd]
      BY <1>1, <1>4 DEF Frames
    <2>2. \A o \in Blocks, s \in SMs : PadOf(o) = pd =>
              /\ z.reg[o][s].dir = m.reg[o][s].dir
              /\ z.reg[o][s].oe = m.reg[o][s].oe
              /\ z.sm[o][s].enabled = m.sm[o][s].enabled
      BY <1>1, <1>4
    <2> QED  BY <1>2, <2>1, <2>2, FreshDepends DEF SameRouting
  <1> QED  BY <1>3, <1>4 DEF PadsFresh, z

(* A step that changes a block's claims and then resolves its pads.        *)
LEMMA ResolvedEvolves ==
    ASSUME NEW m, MachineOK(m), NEW y, NEW b \in Blocks, Frames(m, y, b)
    PROVE  Evolves(m, ResolvePads(y, b), b)
  <1>1. /\ MachineOK(y)
        /\ \A pd \in PadSets : pd # PadOf(b) => y.pads[pd] = m.pads[pd]
        /\ \A o \in Blocks : o # b => y.sm[o] = m.sm[o] /\ y.reg[o] = m.reg[o]
    BY DEF Frames
  <1>2. PadsFresh(m) => PadsFresh(ResolvePads(y, b))
    BY <1>1, ResolvedFresh
  <1>3. Frames(y, ResolvePads(y, b), b)
    BY <1>1, ResolvePadsFrames
  <1> QED  BY <1>2, <1>3, FramesTrans DEF Evolves

(* Replacing the registers of one state machine by well-formed ones that   *)
(* keep its enable touches no direction claim.                             *)
LEMMA SetSmEvolves ==
    ASSUME NEW m, MachineOK(m), NEW b \in Blocks, NEW s \in SMs,
           NEW q \in SmRecs, Fits(q, m.cfg[b][s]), q.enabled = m.sm[b][s].enabled
    PROVE  Evolves(m, SetSm(m, b, s, q), b)
  <1> DEFINE z == SetSm(m, b, s, q)
  <1>1. Frames(m, z, b) /\ z.reg = m.reg /\ z.pads = m.pads
    <2>1. Frames(m, SetSm(m, b, s, q), b)
      BY SetSmFrames
    <2>2. SetSm(m, b, s, q).reg = m.reg /\ SetSm(m, b, s, q).pads = m.pads
      BY DEF SetSm, MachineOK, Machines
    <2> QED  BY <2>1, <2>2
  <1> HIDE DEF z
  <1>2. Evolves(m, z, b)
    BY <1>1, SameClaimsEvolves
  <1> QED  BY <1>2 DEF z

(* Nor does writing IRQ flags, in this block or a linked one.              *)
LEMMA SetIrqEvolves ==
    ASSUME NEW m, MachineOK(m), NEW b \in Blocks, NEW g \in [Blocks -> SUBSET Irqs]
    PROVE  Evolves(m, [m EXCEPT !.irq = g], b)
  <1> DEFINE z == [m EXCEPT !.irq = g]
  <1>1. Frames(m, z, b) /\ z.reg = m.reg /\ z.pads = m.pads
    BY SetIrqFrames
  <1> HIDE DEF z
  <1>2. Evolves(m, z, b)
    BY <1>1, SameClaimsEvolves
  <1> QED  BY <1>2 DEF z

(***************************************************************************)
(* The FIFOs of a state machine are the pair of PioFifoPair, whose lemmas  *)
(* about single rings carry over.                                          *)
(***************************************************************************)
Pair == INSTANCE PioFifoPair_proofs
          WITH Word <- Words, ZeroWord <- ZERO, tx <- sm[0][0].tx, rx <- sm[0][0].rx,
               fifo_join <- cfg[0][0].fifo_join, fdebug <- sm[0][0].fdebug

(* A state machine's FIFOs are the ones the FIFO module's proofs are       *)
(* about: PioFifoPair at the words of the engine, its operators being      *)
(* those of PioFifo here.                                                  *)
LEMMA SameRings ==
    /\ Pair!Fifo(Words) = Fifo(Words) /\ ZERO \in Words
    /\ Pair!RegIdx = RegIdx /\ Pair!Joins = Joins
    /\ \A f : /\ Pair!RingOK(f) <=> RingOK(f)
              /\ Pair!fifo_full(f) <=> fifo_full(f)
              /\ Pair!fifo_empty(f) <=> fifo_empty(f)
              /\ Pair!fifo_clear(f) = fifo_clear(f) /\ Pair!fifo_pop(f) = fifo_pop(f)
              /\ \A w : Pair!fifo_push(f, w) = fifo_push(f, w)
              /\ \A o, n, c : Pair!Rejoin(f, o, n, c) = Rejoin(f, o, n, c)
    /\ \A j : Pair!TxCap(j) = TxCap(j) /\ Pair!RxCap(j) = RxCap(j)
  <1>1. Pair!Fifo(Words) = Fifo(Words) /\ ZERO \in Words
    BY DEF Pair!Fifo, Fifo, Pair!Slots, Slots, ZERO, Words
  <1>2. Pair!RegIdx = RegIdx /\ Pair!Joins = Joins
    BY DEF Pair!RegIdx, RegIdx, Pair!Joins, Joins, Pair!RegFileJoins, RegFileJoins
  <1>3. ASSUME NEW f
        PROVE  /\ Pair!RingOK(f) <=> RingOK(f)
               /\ Pair!fifo_full(f) <=> fifo_full(f)
               /\ Pair!fifo_empty(f) <=> fifo_empty(f)
               /\ Pair!fifo_clear(f) = fifo_clear(f)
               /\ Pair!fifo_pop(f) = fifo_pop(f)
    BY DEF Pair!RingOK, RingOK, Pair!fifo_full, fifo_full, Pair!fifo_empty, fifo_empty,
       Pair!fifo_clear, fifo_clear, Pair!fifo_pop, fifo_pop
  <1>4. \A f, w : Pair!fifo_push(f, w) = fifo_push(f, w)
    BY DEF Pair!fifo_push, fifo_push
  <1>5. \A f, o, n, c : Pair!Rejoin(f, o, n, c) = Rejoin(f, o, n, c)
    BY DEF Pair!Rejoin, Rejoin, Pair!fifo_clear, fifo_clear
  <1>6. \A j : Pair!TxCap(j) = TxCap(j) /\ Pair!RxCap(j) = RxCap(j)
    BY DEF Pair!TxCap, TxCap, Pair!RxCap, RxCap
  <1> QED  BY <1>1, <1>2, <1>3, <1>4, <1>5, <1>6, Zenon

(* fifo_push on a FIFO with room: still a ring, one word longer.           *)
LEMMA PushRing ==
    ASSUME NEW f \in Fifo(Words), NEW w \in Words, RingOK(f), ~fifo_full(f)
    PROVE  LET g == fifo_push(f, w)
           IN  g \in Fifo(Words) /\ RingOK(g) /\ g.cap = f.cap /\ g.count = f.count + 1
  <1>1. f \in Pair!Fifo(Words) /\ Pair!RingOK(f) /\ ~Pair!fifo_full(f) /\ ZERO \in Words
    BY SameRings, Zenon
  <1>2. LET g == Pair!fifo_push(f, w)
        IN  /\ g \in Pair!Fifo(Words) /\ Pair!RingOK(g)
            /\ g.cap = f.cap /\ g.count = f.count + 1
    BY <1>1, FifoAssumption, Pair!PushKeeps
  <1> QED  BY <1>2, SameRings, Zenon

(* fifo_pop on a FIFO with a word: still a ring; the word is a word.       *)
LEMMA PopRing ==
    ASSUME NEW f \in Fifo(Words), RingOK(f), ~fifo_empty(f)
    PROVE  LET g == fifo_pop(f)
           IN  /\ g \in Fifo(Words) /\ RingOK(g) /\ g.cap = f.cap
               /\ fifo_front(f) \in Words
  <1>1. fifo_front(f) \in Words
    BY DEF fifo_front, Fifo
  <1> QED  BY <1>1, SameRings, FifoAssumption, Pair!PopKeeps, Zenon

(* fifo_clear gives an empty ring of the same capacity.                    *)
LEMMA ClearRing ==
    ASSUME NEW f \in Fifo(Words)
    PROVE  LET g == fifo_clear(f)
           IN  g \in Fifo(Words) /\ RingOK(g) /\ g.cap = f.cap /\ g.count = 0
  BY SameRings, FifoAssumption, Pair!ClearKeeps, Zenon

(* Changing FJOIN empties the FIFO and sets its capacity; setting the same *)
(* FJOIN again leaves it.                                                  *)
LEMMA RejoinRing ==
    ASSUME NEW f \in Fifo(Words), RingOK(f), NEW old, NEW new,
           NEW cap \in {0, FIFO_DEPTH, FIFO_MAX}, old = new => f.cap = cap
    PROVE  LET g == Rejoin(f, old, new, cap)
           IN  /\ g \in Fifo(Words) /\ RingOK(g) /\ g.cap = cap
               /\ g.count = IF old = new THEN f.count ELSE 0
  <1>1. f \in Pair!Fifo(Words) /\ Pair!RingOK(f) /\ ZERO \in Words
    BY SameRings, Zenon
  <1>2. LET g == Pair!Rejoin(f, old, new, cap)
        IN  /\ g \in Pair!Fifo(Words) /\ Pair!RingOK(g) /\ g.cap = cap
            /\ g.count = IF old = new THEN f.count ELSE 0
    BY <1>1, FifoAssumption, Pair!RejoinKeeps
  <1> QED  BY <1>2, SameRings, Zenon

(* A register-file store (MOV RXFIFO, pio_sim_sm_rxf_put) moves no cursor. *)
LEMMA StoreRing ==
    ASSUME NEW f \in Fifo(Words), NEW idx \in RegIdx, NEW w \in Words, RingOK(f)
    PROVE  LET g == [f EXCEPT !.buf[idx] = w]
           IN  /\ g \in Fifo(Words) /\ RingOK(g)
               /\ g.cap = f.cap /\ g.count = f.count
  <1>1. /\ f \in Pair!Fifo(Words) /\ Pair!RingOK(f) /\ ZERO \in Words
        /\ idx \in Pair!RegIdx
    BY SameRings, Zenon
  <1>2. LET g == [f EXCEPT !.buf[idx] = w]
        IN  /\ g \in Pair!Fifo(Words) /\ Pair!RingOK(g)
            /\ g.cap = f.cap /\ g.count = f.count
    BY <1>1, FifoAssumption, Pair!StoreKeeps
  <1> QED  BY <1>2, SameRings, Zenon

(* A join mode gives each FIFO one of the three capacities.                *)
LEMMA CapRing ==
    ASSUME NEW j \in Joins
    PROVE  /\ TxCap(j) \in {0, FIFO_DEPTH, FIFO_MAX}
           /\ RxCap(j) \in {0, FIFO_DEPTH, FIFO_MAX}
  BY SameRings, FifoAssumption, Pair!CapsInRange, Zenon

(***************************************************************************)
(* Words and pins.                                                         *)
(***************************************************************************)

(* Shifting, masking and counting down stay within the width of a word.    *)
LEMMA WordOps ==
    ASSUME NEW v \in Words, NEW w \in Words, NEW n \in Nat
    PROVE  /\ ZERO \in Words /\ ONES \in Words
           /\ mask_n(w, n) \in Words /\ Shl(w, n) \in Words /\ Shr(w, n) \in Words
           /\ Or(v, w) \in Words /\ Not(w) \in Words
           /\ pio_reverse32(w) \in Words /\ Decrement(w) \in Words
  <1>1. ZERO \in Words /\ ONES \in Words
    BY DEF ZERO, ONES, Words
  <1>2. mask_n(w, n) \in Words /\ Shl(w, n) \in Words /\ Shr(w, n) \in Words
    BY DEF mask_n, Shl, Shr, Words
  <1>3. Or(v, w) \in Words /\ Not(w) \in Words /\ Decrement(w) \in Words
    BY DEF Or, Not, Decrement, Words
  <1>4. pio_reverse32(w) \in Words
    <2>1. \A i \in BitIdx : WORD_BITS - 1 - i \in BitIdx
      BY WordBitsAssumption DEF BitIdx
    <2> QED  BY <2>1 DEF pio_reverse32, Words
  <1> QED  BY <1>1, <1>2, <1>3, <1>4

(* A pin of the window is a pin.                                           *)
LEMMA PhysPinType ==
    ASSUME NEW b \in Blocks, NEW view \in Nat
    PROVE  phys_pin(b, view) \in Pins
  <1>1. GPIO_BASE[b] \in Nat /\ PIN_WINDOW \in Nat \ {0} /\ NUM_PINS \in Nat \ {0}
    BY SmAssumption, PadsAssumption, WordBitsAssumption
  <1>2. view % PIN_WINDOW \in Nat
    BY <1>1
  <1>3. GPIO_BASE[b] + (view % PIN_WINDOW) \in Nat
    BY <1>1, <1>2
  <1> QED  BY <1>1, <1>3 DEF phys_pin, Pins

(* The pins an OUT, SET or side-set addresses wrap onto real pins.         *)
LEMMA SpanType ==
    ASSUME NEW b \in Blocks, NEW base \in Nat, NEW count \in Nat, NEW w
    PROVE  Span(b, base, count) \subseteq Pins /\ HighOf(b, base, count, w) \subseteq Pins
  <1>1. \A i \in 0 .. count - 1 : phys_pin(b, base + i) \in Pins
    BY PhysPinType
  <1> QED  BY <1>1 DEF Span, HighOf

(* Pin instructions write the registers and re-resolve the pads.           *)
LEMMA DriveEvolves ==
    ASSUME NEW m, MachineOK(m), NEW b \in Blocks, NEW s \in SMs,
           NEW base \in Nat, NEW count \in Nat, NEW w
    PROVE  /\ Evolves(m, drive_pins(m, b, s, base, count, w), b)
           /\ Evolves(m, drive_pindirs(m, b, s, base, count, w), b)
           /\ Evolves(m, release_out_pins(m, b, s, base, count), b)
  <1> DEFINE span == Span(b, base, count)
             high == HighOf(b, base, count, w)
             q == m.reg[b][s]
  <1>1. q \in PinRegs
    BY DEF MachineOK, Machines
  <1>2. span \subseteq Pins /\ high \subseteq Pins
    BY SpanType
  <1> HIDE DEF span, high, q
  <1>3. /\ WriteLevels(q, span, high) \in PinRegs
        /\ WriteDirs(q, span, high) \in PinRegs
        /\ ReleaseSpan(q, span) \in PinRegs
    BY <1>1, <1>2 DEF WriteLevels, WriteDirs, ReleaseSpan, PinRegs
  <1>4. ASSUME NEW v \in PinRegs
        PROVE  Evolves(m, ResolvePads([m EXCEPT !.reg[b][s] = v], b), b)
    <2> DEFINE z == [m EXCEPT !.reg[b][s] = v]
    <2>1. Frames(m, z, b)
      BY SetRegFrames
    <2> HIDE DEF z
    <2>2. Evolves(m, ResolvePads(z, b), b)
      BY <2>1, ResolvedEvolves
    <2> QED  BY <2>2 DEF z
  <1>5. /\ drive_pins(m, b, s, base, count, w)
             = ResolvePads([m EXCEPT !.reg[b][s] = WriteLevels(q, span, high)], b)
        /\ drive_pindirs(m, b, s, base, count, w)
             = ResolvePads([m EXCEPT !.reg[b][s] = WriteDirs(q, span, high)], b)
        /\ release_out_pins(m, b, s, base, count)
             = ResolvePads([m EXCEPT !.reg[b][s] = ReleaseSpan(q, span)], b)
    BY DEF drive_pins, drive_pindirs, release_out_pins, q, span, high
  <1> QED  BY <1>3, <1>4, <1>5

(***************************************************************************)
(* Instructions.                                                           *)
(***************************************************************************)
InsnOK == insn \in [Blocks -> [PCs -> Insns]]

(* What the handlers read of an instruction.                               *)
LEMMA InsnFields ==
    ASSUME NEW i \in Insns
    PROVE  /\ i.delay \in Nat /\ i.side \in Seq(Words)
           /\ i.op \in {"JMP", "WAIT", "IN", "OUT", "PUSH", "PULL", "MOVRX", "MOV",
                        "IRQ", "SET"}
           /\ i.op = "JMP" => i.addr \in PCs
           /\ i.op = "WAIT" => i.src \in {"GPIO", "PIN", "JMPPIN", "IRQ"}
           /\ i.op \in {"IN", "OUT"} => i.cnt \in 1 .. WORD_BITS
           /\ i.op = "MOVRX" => i.idx \in RegIdx
           /\ i.op = "IRQ" => i.idx \in Irqs
           /\ i.op = "SET" => i.val \in Words
  BY DEF Insns

(* The cleared exec latch decodes to an instruction (jmp 0).               *)
LEMMA NoInsnType == NoInsn \in Insns
  <1>1. 0 \in PCs /\ <<>> \in Seq(Words)
    BY SmAssumption DEF PCs
  <1> QED  BY <1>1 DEF NoInsn, Insns

(* Whatever an OUT EXEC or MOV EXEC can latch decodes to an instruction,   *)
(* as does whatever the program memory holds.                              *)
LEMMA KnownAreInsns ==
    ASSUME InsnOK
    PROVE  /\ KnownInsns \subseteq Insns /\ NoInsn \in KnownInsns
           /\ \A w \in Words : DecodeWord(w) \in KnownInsns
           /\ \A b \in Blocks, a \in PCs : insn[b][a] \in KnownInsns
           /\ ExecInsns \subseteq KnownInsns
  BY SimAssumption, NoInsnType DEF InsnOK, KnownInsns

(* A state machine of a well-formed machine.                               *)
LEMMA SmRecAt ==
    ASSUME NEW m, MachineOK(m), NEW b \in Blocks, NEW s \in SMs
    PROVE  /\ m.sm[b][s] \in SmRecs /\ m.cfg[b][s] \in Confs
           /\ m.reg[b][s] \in PinRegs /\ m.irq[b] \in SUBSET Irqs
           /\ Fits(m.sm[b][s], m.cfg[b][s]) /\ m \in Machines
  BY DEF MachineOK, Machines

(* The sources of IN and MOV are words.                                    *)
LEMMA SourceType ==
    ASSUME NEW m, MachineOK(m), NEW b \in Blocks, NEW s \in SMs, NEW src
    PROVE  read_source(m, b, s, src) \in Words
  <1> DEFINE r == m.sm[b][s]
  <1>1. r \in SmRecs
    BY SmRecAt
  <1>2. {r.x, r.y, r.isr, r.osr, ZERO, ONES} \subseteq Words /\ r.status \in Seq(Words)
    BY <1>1, WordOps DEF SmRecs
  <1>3. read_in_pins(m, b, s) \in Words
    BY DEF read_in_pins, Words
  <1>4. read_status(m, b, s) \in Words
    <2>1. r.status # <<>> => r.status[1] \in Words
      BY <1>2
    <2> HIDE DEF r
    <2> QED  BY <1>2, <2>1 DEF read_status, r
  <1> QED  BY <1>2, <1>3, <1>4 DEF read_source

(***************************************************************************)
(* The handlers.                                                           *)
(***************************************************************************)
Outcomes(m, b) ==
    [m : {z \in Machines : Evolves(m, z, b)},
     stalled : BOOLEAN, set_pc : BOOLEAN, next_pc : PCs]

(* The three ways a handler returns, after a step that evolves the         *)
(* machine.                                                                *)
LEMMA OutcomeOf ==
    ASSUME NEW m, NEW z, NEW b, Evolves(m, z, b), NEW pc \in PCs
    PROVE  /\ Done(z) \in Outcomes(m, b) /\ Stall(z) \in Outcomes(m, b)
           /\ JumpTo(z, pc) \in Outcomes(m, b)
  <1>1. z \in Machines /\ 0 \in PCs
    BY SmAssumption DEF Evolves, Frames, MachineOK, PCs
  <1> QED  BY <1>1 DEF Done, Stall, JumpTo, Outcomes

(* Writing the record q to state machine s, its FIFOs and enable being     *)
(* those of r or fitting its configuration.                                *)
LEMMA StoreSm ==
    ASSUME NEW m, MachineOK(m), NEW b \in Blocks, NEW s \in SMs, NEW q \in SmRecs,
           q.enabled = m.sm[b][s].enabled,
           \/ q.tx = m.sm[b][s].tx /\ q.rx = m.sm[b][s].rx
           \/ Fits(q, m.cfg[b][s])
    PROVE  /\ Evolves(m, SetSm(m, b, s, q), b)
           /\ Done(SetSm(m, b, s, q)) \in Outcomes(m, b)
           /\ Stall(SetSm(m, b, s, q)) \in Outcomes(m, b)
  <1>1. Fits(q, m.cfg[b][s])
    BY SmRecAt DEF Fits
  <1>2. Evolves(m, SetSm(m, b, s, q), b)
    BY <1>1, SetSmEvolves
  <1>3. 0 \in PCs
    BY SmAssumption DEF PCs
  <1> QED  BY <1>2, <1>3, OutcomeOf

(* The same for a handler that changed nothing.                            *)
LEMMA StayOutcome ==
    ASSUME NEW m, MachineOK(m), NEW b, NEW pc \in PCs
    PROVE  /\ Done(m) \in Outcomes(m, b) /\ Stall(m) \in Outcomes(m, b)
           /\ JumpTo(m, pc) \in Outcomes(m, b)
  BY EvolvesRefl, OutcomeOf

(* exec_jmp: X-- and Y-- wrap within the word; the target is in range.     *)
LEMMA JmpOutcome ==
    ASSUME NEW m, MachineOK(m), NEW b \in Blocks, NEW s \in SMs, NEW i, i.addr \in PCs
    PROVE  exec_jmp(m, b, s, i) \in Outcomes(m, b)
  <1> DEFINE r == m.sm[b][s]
             mx == SetSm(m, b, s, [r EXCEPT !.x = Decrement(@)])
             my == SetSm(m, b, s, [r EXCEPT !.y = Decrement(@)])
             z == CASE i.cond = "XDEC" -> mx [] i.cond = "YDEC" -> my [] OTHER -> m
  <1>1. r \in SmRecs
    BY SmRecAt
  <1>2. Decrement(r.x) \in Words /\ Decrement(r.y) \in Words
    BY <1>1, WordOps DEF SmRecs
  <1>3. Evolves(m, mx, b) /\ Evolves(m, my, b) /\ Evolves(m, m, b)
    <2> DEFINE qx == [r EXCEPT !.x = Decrement(@)]
               qy == [r EXCEPT !.y = Decrement(@)]
    <2>1. qx \in SmRecs /\ qx.enabled = r.enabled /\ qx.tx = r.tx /\ qx.rx = r.rx
      BY <1>1, <1>2 DEF SmRecs
    <2>2. qy \in SmRecs /\ qy.enabled = r.enabled /\ qy.tx = r.tx /\ qy.rx = r.rx
      BY <1>1, <1>2 DEF SmRecs
    <2> HIDE DEF qx, qy
    <2> QED  BY <2>1, <2>2, StoreSm, EvolvesRefl DEF qx, qy
  <1>4. Evolves(m, z, b)
    <2> HIDE DEF mx, my
    <2> QED  BY <1>3
  <1>5. exec_jmp(m, b, s, i) \in {JumpTo(z, i.addr), Done(z)}
    BY DEF exec_jmp
  <1> HIDE DEF z
  <1> QED  BY <1>4, <1>5, OutcomeOf

(* exec_wait: only WAIT IRQ writes, clearing the flag it waited for.       *)
LEMMA WaitOutcome ==
    ASSUME NEW m, MachineOK(m), NEW b \in Blocks, NEW s \in SMs, NEW i,
           i.src \in {"GPIO", "PIN", "JMPPIN", "IRQ"}
    PROVE  exec_wait(m, b, s, i) \in Outcomes(m, b)
  <1> DEFINE n == resolve_irq_index(s, i.mode, i.idx)
             T == irq_target_block(b, i.mode)
             g == [t \in Blocks |-> IF t \in T THEN m.irq[t] \ {n} ELSE m.irq[t]]
             z == [m EXCEPT !.irq = g]
  <1>1. g \in [Blocks -> SUBSET Irqs]
    <2> HIDE DEF n, T
    <2> QED  BY SmRecAt DEF MachineOK, Machines
  <1>2. Evolves(m, z, b)
    <2> HIDE DEF g
    <2> QED  BY <1>1, SetIrqEvolves
  <1>3. exec_wait(m, b, s, i) \in {Done(m), Stall(m), Done(z)}
    BY DEF exec_wait
  <1> HIDE DEF z
  <1>4. 0 \in PCs
    BY SmAssumption DEF PCs
  <1> QED  BY <1>2, <1>3, <1>4, StayOutcome, OutcomeOf

(* A relative flag index rotates within its group of NUM_SM flags.         *)
LEMMA IrqIndexType ==
    ASSUME NEW s \in SMs, NEW mode, NEW idx \in Irqs
    PROVE  resolve_irq_index(s, mode, idx) \in Irqs
  <1> SUFFICES ASSUME mode = "REL" PROVE resolve_irq_index(s, mode, idx) \in Irqs
    BY DEF resolve_irq_index
  <1>1. PICK n \in Nat \ {0} : n = NUM_SM
    BY PadsAssumption
  <1>2. PICK k \in Nat \ {0} : k = NUM_IRQ /\ k % n = 0
    BY <1>1, SmAssumption
  <1>3. PICK t \in Int : k = n * t
    BY <1>2
  <1>4. PICK q \in Int, e \in 0 .. n - 1 :
          idx \div n = q /\ idx % n = e /\ idx = n * q + e
    BY DEF Irqs
  <1>5. PICK u \in 0 .. n - 1 : u = (e + s) % n
    BY <1>1 DEF SMs
  <1>6. idx >= 0 /\ idx < n * t
    BY <1>2, <1>3 DEF Irqs
  <1>7. q < t /\ q >= 0
    <2>1. ASSUME NEW i \in Int, NEW j \in Int, i >= j PROVE n * i >= n * j
      <3>1. n * (i - j) >= 0
        BY <2>1
      <3> QED  BY <3>1
    <2>2. ~(q >= t)
      BY <1>4, <1>6, <2>1
    <2>3. ~(-1 >= q)
      <3> SUFFICES ASSUME -1 >= q PROVE FALSE
        OBVIOUS
      <3>1. n * (-1) >= n * q
        BY <2>1
      <3> QED  BY <1>4, <1>6, <3>1
    <2> QED  BY <2>2, <2>3
  <1>8. n * q + u >= 0 /\ n * q + u < n * t
    <2>1. n * (t - q - 1) >= 0 /\ n * q >= 0
      BY <1>7
    <2>2. n * (t - q - 1) = n * t - n * q - n
      OBVIOUS
    <2> QED  BY <2>1, <2>2
  <1>9. resolve_irq_index(s, mode, idx) = q * n + u
    BY <1>1, <1>4, <1>5 DEF resolve_irq_index
  <1>10. q * n + u = n * q + u /\ n * q + u \in Int
    OBVIOUS
  <1> QED  BY <1>2, <1>3, <1>8, <1>9, <1>10 DEF Irqs

(* exec_irq: sets or clears one flag; IRQ WAIT stalls and writes no        *)
(* register of the state machine.                                          *)
LEMMA IrqOutcome ==
    ASSUME NEW m, MachineOK(m), NEW b \in Blocks, NEW s \in SMs, NEW i, i.idx \in Irqs
    PROVE  exec_irq(m, b, s, i) \in Outcomes(m, b)
  <1> DEFINE n == resolve_irq_index(s, i.mode, i.idx)
             T == irq_target_block(b, i.mode)
             up == [t \in Blocks |-> IF t \in T THEN m.irq[t] \union {n} ELSE m.irq[t]]
             dn == [t \in Blocks |-> IF t \in T THEN m.irq[t] \ {n} ELSE m.irq[t]]
             zu == [m EXCEPT !.irq = up]
             zd == [m EXCEPT !.irq = dn]
  <1>0. n \in Irqs
    BY IrqIndexType
  <1>1. up \in [Blocks -> SUBSET Irqs] /\ dn \in [Blocks -> SUBSET Irqs]
    <2> HIDE DEF n, T
    <2> QED  BY <1>0, SmRecAt DEF MachineOK, Machines
  <1>2. Evolves(m, zu, b) /\ Evolves(m, zd, b)
    <2> HIDE DEF up, dn
    <2> QED  BY <1>1, SetIrqEvolves
  <1>3. exec_irq(m, b, s, i) \in {Done(m), Stall(m), Done(zu), Stall(zu), Done(zd)}
    <2> HIDE DEF n, T
    <2> QED  BY DEF exec_irq, n, T
  <1> HIDE DEF zu, zd
  <1>4. 0 \in PCs
    BY SmAssumption DEF PCs
  <1> QED  BY <1>2, <1>3, <1>4, StayOutcome, OutcomeOf

(* What a word's low bits hold is a number.                                *)
LEMMA LowBitsType ==
    ASSUME NEW w, NEW n \in Nat
    PROVE  LowBits(w, n) \in Int
  <1> DEFINE d(k) == IF k <= WORD_BITS /\ w[k - 1] THEN 2^(k - 1) ELSE 0
             sum[k \in 0 .. n] == IF k = 0 THEN 0 ELSE sum[k - 1] + d(k)
             F == [k \in Nat |-> [x \in Int |-> x + d(k + 1)]]
  <1>1. \A k \in Nat : d(k + 1) \in Int
    OBVIOUS
  <1> HIDE DEF d
  <1>2. \A x \in Int, k \in Nat : F[k][x] = x + d(k + 1) /\ F[k][x] \in Int
    BY <1>1
  <1>3. PICK g \in [0 .. n -> Int] : IsChain(g, 0, F, n)
    <2>1. F \in [Nat -> [Int -> Int]]
      BY <1>1
    <2>2. 0 \in Int
      OBVIOUS
    <2> HIDE DEF F, sum
    <2> QED  BY <2>1, <2>2, ChainExists, Zenon
  <1>4. g = [k \in 0 .. n |-> IF k = 0 THEN 0 ELSE g[k - 1] + d(k)]
    <2>1. \A k \in 1 .. n : g[k] = g[k - 1] + d(k)
      <3> HIDE DEF F, sum
      <3> SUFFICES ASSUME NEW k \in 1 .. n PROVE g[k] = g[k - 1] + d(k)
        OBVIOUS
      <3>1. k - 1 \in Nat /\ g[k - 1] \in Int /\ (k - 1) + 1 = k
        OBVIOUS
      <3>2. F[k - 1][g[k - 1]] = g[k - 1] + d((k - 1) + 1)
        BY <1>2, <3>1
      <3> QED  BY <1>3, <3>1, <3>2 DEF IsChain
    <2> QED  BY <1>3, <2>1 DEF IsChain
  <1>5. sum = [k \in 0 .. n |-> IF k = 0 THEN 0 ELSE sum[k - 1] + d(k)]
    <2> HIDE DEF F
    <2>1. \E f : f = [k \in 0 .. n |-> IF k = 0 THEN 0 ELSE f[k - 1] + d(k)]
      BY <1>4, Zenon
    <2>2. sum = CHOOSE f : f = [k \in 0 .. n |-> IF k = 0 THEN 0 ELSE f[k - 1] + d(k)]
      BY Zenon
    <2> QED  BY <2>1, <2>2, Zenon
  <1>6. LowBits(w, n) = sum[n]
    BY DEF LowBits, d
  <1> HIDE DEF sum, F
  <1> DEFINE S == {k \in Nat : k <= n => sum[k] \in Int}
  <1>7. 0 \in S
    BY <1>5
  <1>8. ASSUME NEW k \in Nat, k \in S PROVE k + 1 \in S
    <2> SUFFICES ASSUME k + 1 <= n PROVE sum[k + 1] \in Int
      OBVIOUS
    <2>1. sum[k + 1] = sum[k] + d(k + 1)
      BY <1>5
    <2> QED  BY <1>1, <1>8, <2>1
  <1> HIDE DEF S
  <1>9. Nat \subseteq S
    BY <1>7, <1>8, SetInduction
  <1>10. sum[n] \in Int
    BY <1>9 DEF S
  <1> QED  BY <1>6, <1>10
(* A program counter taken from a word wraps into the memory, an entry of  *)
(* the register file into the depth.                                       *)
LEMMA WordIndex ==
    ASSUME NEW w
    PROVE  /\ LowBits(w, WORD_BITS) % INSN_COUNT \in PCs
           /\ LowBits(w, WORD_BITS) % FIFO_DEPTH \in RegIdx
  <1>1. PICK v \in Int : v = LowBits(w, WORD_BITS)
    BY LowBitsType, WordBitsAssumption
  <1>2. v % INSN_COUNT \in PCs /\ v % FIFO_DEPTH \in RegIdx
    BY SmAssumption, FifoAssumption DEF PCs, RegIdx
  <1> QED  BY <1>1, <1>2

(* Refilling the OSR and draining the ISR keep the state machine in shape. *)
LEMMA RefillOK ==
    ASSUME NEW r \in SmRecs, NEW c, Fits(r, c), ~fifo_empty(r.tx)
    PROVE  LET q == osr_refill(r)
           IN  q \in SmRecs /\ Fits(q, c) /\ q.enabled = r.enabled
  <1> DEFINE f == fifo_pop(r.tx)
             w == fifo_front(r.tx)
             q == osr_refill(r)
  <1>1. r.tx \in Fifo(Words) /\ RingOK(r.tx)
    BY DEF SmRecs, Fits
  <1>2. f \in Fifo(Words) /\ RingOK(f) /\ f.cap = r.tx.cap /\ w \in Words
    BY <1>1, PopRing
  <1> HIDE DEF f, w
  <1>3. q = [r EXCEPT !.osr = w, !.osr_count = 0, !.tx = f]
    BY DEF osr_refill, f, w
  <1>4. 0 \in 0 .. WORD_BITS
    BY WordBitsAssumption
  <1> HIDE DEF q
  <1>5. q \in SmRecs /\ q.enabled = r.enabled /\ q.tx = f /\ q.rx = r.rx
    BY <1>2, <1>3, <1>4 DEF SmRecs
  <1> QED  BY <1>2, <1>5 DEF Fits, q

(* isr_drain, which its callers reach only when RX has room: one word      *)
(* pushed, the ISR emptied.                                                *)
LEMMA DrainOK ==
    ASSUME NEW r \in SmRecs, NEW c, Fits(r, c), ~RxBlocked(c, r)
    PROVE  LET q == isr_drain(r)
           IN  q \in SmRecs /\ Fits(q, c) /\ q.enabled = r.enabled
  <1> DEFINE f == fifo_push(r.rx, r.isr)
             q == isr_drain(r)
  <1>1. /\ r.rx \in Fifo(Words) /\ RingOK(r.rx) /\ r.isr \in Words
        /\ ~fifo_full(r.rx) /\ ~rx_fifo_is_register_file(c.fifo_join)
    BY DEF SmRecs, Fits, RxBlocked
  <1>2. f \in Fifo(Words) /\ RingOK(f) /\ f.cap = r.rx.cap
    BY <1>1, PushRing
  <1> HIDE DEF f
  <1>3. q = [r EXCEPT !.rx = f, !.isr = ZERO, !.isr_count = 0]
    BY DEF isr_drain, f
  <1>4. 0 \in 0 .. WORD_BITS /\ ZERO \in Words
    BY WordBitsAssumption, SameRings
  <1> HIDE DEF q
  <1>5. q \in SmRecs /\ q.enabled = r.enabled /\ q.rx = f /\ q.tx = r.tx
    BY <1>2, <1>3, <1>4 DEF SmRecs
  <1> QED  BY <1>1, <1>2, <1>5 DEF Fits, q

(* A sticky flag is one of the four.                                       *)
LEMMA FlagOK ==
    ASSUME NEW r \in SmRecs, NEW f \in FdebugFlags
    PROVE  LET q == [r EXCEPT !.fdebug = @ \union {f}]
           IN  /\ q \in SmRecs /\ q.enabled = r.enabled /\ q.tx = r.tx /\ q.rx = r.rx
               /\ q.x = r.x
  <1>1. r.fdebug \union {f} \in SUBSET FdebugFlags
    BY DEF SmRecs
  <1> QED  BY <1>1 DEF SmRecs

(* exec_in, with autopush: the shift count saturates at the word, and a    *)
(* full RX stalls before anything is written.                              *)
LEMMA InOutcome ==
    ASSUME NEW m, MachineOK(m), NEW b \in Blocks, NEW s \in SMs, NEW i,
           i.cnt \in 1 .. WORD_BITS
    PROVE  exec_in(m, b, s, i) \in Outcomes(m, b)
  <1> DEFINE r == m.sm[b][s]
             c == m.cfg[b][s]
             src == read_source(m, b, s, i.src)
             data == mask_n(src, i.cnt)
             sh == ShiftIn(c, r.isr, data, i.cnt)
             n == Saturate(r.isr_count + i.cnt)
             p == [r EXCEPT !.isr = sh, !.isr_count = n]
             q == IF c.autopush /\ p.isr_count >= c.push_thresh THEN isr_drain(p) ELSE p
             f == [r EXCEPT !.fdebug = @ \union {"RXSTALL"}]
  <1>1. r \in SmRecs /\ c \in Confs /\ Fits(r, c) /\ src \in Words
    BY SmRecAt, SourceType
  <1>2. CASE /\ c.autopush /\ r.isr_count + i.cnt >= c.push_thresh
             /\ RxBlocked(c, r)
    <2>1. exec_in(m, b, s, i) = Stall(SetSm(m, b, s, f))
      BY <1>2 DEF exec_in
    <2>2. f \in SmRecs /\ f.enabled = r.enabled /\ f.tx = r.tx /\ f.rx = r.rx
      BY <1>1, FlagOK DEF FdebugFlags
    <2> HIDE DEF f
    <2> QED  BY <2>1, <2>2, StoreSm
  <1>3. CASE ~(/\ c.autopush /\ r.isr_count + i.cnt >= c.push_thresh
               /\ RxBlocked(c, r))
    <2>1. exec_in(m, b, s, i) = Done(SetSm(m, b, s, q))
      BY <1>3 DEF exec_in
    <2>2. data \in Words /\ r.isr \in Words /\ r.isr_count \in 0 .. WORD_BITS
      <3>1. i.cnt \in Nat
        OBVIOUS
      <3>2. data \in Words
        <4> HIDE DEF src
        <4> QED  BY <1>1, <3>1, WordOps
      <3> QED  BY <1>1, <3>2 DEF SmRecs
    <2>3. sh \in Words
      <3> HIDE DEF r, c, data
      <3>1. i.cnt \in Nat /\ (~(i.cnt >= WORD_BITS) => WORD_BITS - i.cnt \in Nat)
        BY WordBitsAssumption
      <3>2. CASE i.cnt >= WORD_BITS
        BY <2>2, <3>2 DEF ShiftIn
      <3>3. CASE ~(i.cnt >= WORD_BITS)
        <4>1. /\ Shr(r.isr, i.cnt) \in Words /\ Shl(r.isr, i.cnt) \in Words
              /\ Shl(data, WORD_BITS - i.cnt) \in Words
          BY <2>2, <3>1, <3>3, WordOps
        <4>2. /\ Or(Shr(r.isr, i.cnt), Shl(data, WORD_BITS - i.cnt)) \in Words
              /\ Or(Shl(r.isr, i.cnt), data) \in Words
          BY <2>2, <3>1, <4>1, WordOps
        <4> QED  BY <3>3, <4>2 DEF ShiftIn
      <3> QED  BY <3>2, <3>3
    <2>4. /\ n \in 0 .. WORD_BITS
          /\ c.autopush /\ n >= c.push_thresh => r.isr_count + i.cnt >= c.push_thresh
      <3>1. c.push_thresh \in 1 .. WORD_BITS
        BY <1>1 DEF Confs
      <3> QED  BY <2>2, <3>1, WordBitsAssumption DEF Saturate
    <2> HIDE DEF n, sh
    <2>5. /\ p \in SmRecs /\ p.enabled = r.enabled /\ p.tx = r.tx /\ p.rx = r.rx
          /\ p.isr_count = n
      BY <1>1, <2>3, <2>4 DEF SmRecs
    <2> HIDE DEF p
    <2>6. Fits(p, c)
      BY <1>1, <2>5 DEF Fits
    <2>7. c.autopush /\ p.isr_count >= c.push_thresh => ~RxBlocked(c, p)
      BY <1>3, <2>4, <2>5 DEF RxBlocked
    <2>8. q \in SmRecs /\ Fits(q, c) /\ q.enabled = r.enabled
      BY <2>5, <2>6, <2>7, DrainOK
    <2> HIDE DEF q
    <2> QED  BY <2>1, <2>8, StoreSm
  <1> QED  BY <1>2, <1>3

(* Storing a word in a register of the state machine.                      *)
LEMMA RegisterOK ==
    ASSUME NEW m, MachineOK(m), NEW b \in Blocks, NEW s \in SMs,
           NEW v \in Words, NEW k \in 0 .. WORD_BITS
    PROVE  LET r == m.sm[b][s]
           IN  /\ Done(SetSm(m, b, s, [r EXCEPT !.x = v])) \in Outcomes(m, b)
               /\ Done(SetSm(m, b, s, [r EXCEPT !.y = v])) \in Outcomes(m, b)
               /\ Done(SetSm(m, b, s, [r EXCEPT !.isr = v, !.isr_count = k]))
                    \in Outcomes(m, b)
               /\ Done(SetSm(m, b, s, [r EXCEPT !.osr = v, !.osr_count = k]))
                    \in Outcomes(m, b)
  <1> DEFINE r == m.sm[b][s]
             qx == [r EXCEPT !.x = v]
             qy == [r EXCEPT !.y = v]
             qi == [r EXCEPT !.isr = v, !.isr_count = k]
             qo == [r EXCEPT !.osr = v, !.osr_count = k]
  <1>1. r \in SmRecs
    BY SmRecAt
  <1> HIDE DEF r
  <1>2. qx \in SmRecs /\ qx.enabled = r.enabled /\ qx.tx = r.tx /\ qx.rx = r.rx
    BY <1>1 DEF SmRecs
  <1>3. qy \in SmRecs /\ qy.enabled = r.enabled /\ qy.tx = r.tx /\ qy.rx = r.rx
    BY <1>1 DEF SmRecs
  <1>4. qi \in SmRecs /\ qi.enabled = r.enabled /\ qi.tx = r.tx /\ qi.rx = r.rx
    BY <1>1 DEF SmRecs
  <1>5. qo \in SmRecs /\ qo.enabled = r.enabled /\ qo.tx = r.tx /\ qo.rx = r.rx
    BY <1>1 DEF SmRecs
  <1> HIDE DEF qx, qy, qi, qo
  <1>6. /\ Done(SetSm(m, b, s, qx)) \in Outcomes(m, b)
        /\ Done(SetSm(m, b, s, qy)) \in Outcomes(m, b)
        /\ Done(SetSm(m, b, s, qi)) \in Outcomes(m, b)
        /\ Done(SetSm(m, b, s, qo)) \in Outcomes(m, b)
    BY <1>2, <1>3, <1>4, <1>5, StoreSm DEF r
  <1> QED  BY <1>6 DEF qx, qy, qi, qo, r

(* A word the program injects is one the decoder knows.                    *)
LEMMA InjectOK ==
    ASSUME NEW m, MachineOK(m), NEW b \in Blocks, NEW s \in SMs, NEW v \in Words, InsnOK
    PROVE  Done(SetSm(m, b, s, [m.sm[b][s] EXCEPT !.exec_pending = TRUE,
                                                  !.exec_insn = DecodeWord(v)]))
             \in Outcomes(m, b)
  <1> DEFINE r == m.sm[b][s]
             d == DecodeWord(v)
             q == [r EXCEPT !.exec_pending = TRUE, !.exec_insn = d]
  <1>1. r \in SmRecs /\ d \in KnownInsns
    BY SmRecAt, KnownAreInsns
  <1> HIDE DEF r, d
  <1>2. q \in SmRecs /\ q.enabled = r.enabled /\ q.tx = r.tx /\ q.rx = r.rx
    BY <1>1 DEF SmRecs
  <1> HIDE DEF q
  <1>3. Done(SetSm(m, b, s, q)) \in Outcomes(m, b)
    BY <1>2, StoreSm DEF r
  <1> QED  BY <1>3 DEF q, r, d

(* Pins of the configured windows.                                         *)
LEMMA WindowOK ==
    ASSUME NEW m, MachineOK(m), NEW b \in Blocks, NEW s \in SMs, NEW w
    PROVE  LET c == m.cfg[b][s]
           IN  /\ Done(drive_pins(m, b, s, c.out_base, c.out_count, w)) \in Outcomes(m, b)
               /\ Done(drive_pindirs(m, b, s, c.out_base, c.out_count, w))
                    \in Outcomes(m, b)
               /\ Done(release_out_pins(m, b, s, c.out_base, c.out_count))
                    \in Outcomes(m, b)
               /\ Done(drive_pins(m, b, s, c.set_base, c.set_count, w)) \in Outcomes(m, b)
               /\ Done(drive_pindirs(m, b, s, c.set_base, c.set_count, w))
                    \in Outcomes(m, b)
               /\ Evolves(m, drive_pins(m, b, s, c.sideset_base, c.sideset_bits, w), b)
               /\ Evolves(m, drive_pindirs(m, b, s, c.sideset_base, c.sideset_bits, w), b)
  <1> DEFINE c == m.cfg[b][s]
  <1>1. c \in Confs
    BY SmRecAt
  <1>2. /\ c.out_base \in Nat /\ c.set_base \in Nat /\ c.sideset_base \in Nat
        /\ c.out_count \in Nat /\ c.set_count \in Nat /\ c.sideset_bits \in Nat
    BY <1>1, SmAssumption DEF Confs
  <1> HIDE DEF c
  <1>3. \A base \in Nat, count \in Nat :
          /\ Evolves(m, drive_pins(m, b, s, base, count, w), b)
          /\ Evolves(m, drive_pindirs(m, b, s, base, count, w), b)
          /\ Evolves(m, release_out_pins(m, b, s, base, count), b)
    BY DriveEvolves
  <1>4. 0 \in PCs
    BY SmAssumption DEF PCs
  <1>5. \A z : Evolves(m, z, b) => Done(z) \in Outcomes(m, b)
    BY <1>4, OutcomeOf
  <1>6. /\ Done(drive_pins(m, b, s, c.out_base, c.out_count, w)) \in Outcomes(m, b)
        /\ Done(drive_pindirs(m, b, s, c.out_base, c.out_count, w)) \in Outcomes(m, b)
        /\ Done(release_out_pins(m, b, s, c.out_base, c.out_count)) \in Outcomes(m, b)
    BY <1>2, <1>3, <1>5
  <1>7. /\ Done(drive_pins(m, b, s, c.set_base, c.set_count, w)) \in Outcomes(m, b)
        /\ Done(drive_pindirs(m, b, s, c.set_base, c.set_count, w)) \in Outcomes(m, b)
    BY <1>2, <1>3, <1>5
  <1>8. /\ Evolves(m, drive_pins(m, b, s, c.sideset_base, c.sideset_bits, w), b)
        /\ Evolves(m, drive_pindirs(m, b, s, c.sideset_base, c.sideset_bits, w), b)
    BY <1>2, <1>3
  <1> QED  BY <1>6, <1>7, <1>8 DEF c

(* Every OUT destination, PC and EXEC included.                            *)
LEMMA OutStoreOutcome ==
    ASSUME NEW m, MachineOK(m), NEW b \in Blocks, NEW s \in SMs, InsnOK,
           NEW dst, NEW val \in Words, NEW cnt \in 1 .. WORD_BITS
    PROVE  out_store(m, b, s, dst, val, cnt) \in Outcomes(m, b)
  <1>1. cnt \in 0 .. WORD_BITS
    OBVIOUS
  <1>2. LowBits(val, WORD_BITS) % INSN_COUNT \in PCs
    BY WordIndex
  <1>3. /\ Done(m) \in Outcomes(m, b)
        /\ JumpTo(m, LowBits(val, WORD_BITS) % INSN_COUNT) \in Outcomes(m, b)
    BY <1>2, StayOutcome
  <1> QED  BY <1>1, <1>3, RegisterOK, InjectOK, WindowOK DEF out_store

(* Every MOV destination.                                                  *)
LEMMA MovStoreOutcome ==
    ASSUME NEW m, MachineOK(m), NEW b \in Blocks, NEW s \in SMs, InsnOK,
           NEW dst, NEW v \in Words
    PROVE  mov_store(m, b, s, dst, v) \in Outcomes(m, b)
  <1>1. 0 \in 0 .. WORD_BITS
    BY WordBitsAssumption
  <1>2. LowBits(v, WORD_BITS) % INSN_COUNT \in PCs
    BY WordIndex
  <1>3. /\ Done(m) \in Outcomes(m, b)
        /\ JumpTo(m, LowBits(v, WORD_BITS) % INSN_COUNT) \in Outcomes(m, b)
    BY <1>2, StayOutcome
  <1> QED  BY <1>1, <1>3, RegisterOK, InjectOK, WindowOK DEF mov_store

(* exec_set on pins, directions, X and Y.                                  *)
LEMMA SetOutcome ==
    ASSUME NEW m, MachineOK(m), NEW b \in Blocks, NEW s \in SMs, NEW i, i.val \in Words
    PROVE  exec_set(m, b, s, i) \in Outcomes(m, b)
  <1>1. 0 \in 0 .. WORD_BITS /\ 0 \in PCs
    BY WordBitsAssumption, SmAssumption DEF PCs
  <1>2. Done(m) \in Outcomes(m, b)
    BY <1>1, StayOutcome
  <1> QED  BY <1>1, <1>2, RegisterOK, WindowOK DEF exec_set

(* What a handler does after a first step of the same block.               *)
LEMMA OutcomeTrans ==
    ASSUME NEW m, NEW z, NEW b, Evolves(m, z, b), NEW h \in Outcomes(z, b)
    PROVE  h \in Outcomes(m, b)
  BY EvolvesTrans DEF Outcomes

(* The OSR after an OUT has shifted, and the value it shifted out.         *)
LEMMA OutShifted ==
    ASSUME NEW m, MachineOK(m), NEW b \in Blocks, NEW s \in SMs, NEW i,
           i.cnt \in 1 .. WORD_BITS
    PROVE  LET r == m.sm[b][s]
               c == m.cfg[b][s]
               q == [r EXCEPT !.osr = ShiftOutRest(c, @, i.cnt),
                              !.osr_count = Saturate(@ + i.cnt)]
           IN  /\ ShiftOutValue(c, r.osr, i.cnt) \in Words
               /\ Evolves(m, SetSm(m, b, s, q), b)
  <1> DEFINE r == m.sm[b][s]
             c == m.cfg[b][s]
             rest == ShiftOutRest(c, r.osr, i.cnt)
             val == ShiftOutValue(c, r.osr, i.cnt)
             n == Saturate(r.osr_count + i.cnt)
             q == [r EXCEPT !.osr = rest, !.osr_count = n]
  <1>1. r \in SmRecs
    BY SmRecAt
  <1>2. r.osr \in Words /\ r.osr_count \in 0 .. WORD_BITS
    BY <1>1 DEF SmRecs
  <1>3. rest \in Words /\ val \in Words
    <2> HIDE DEF r, c
    <2>1. i.cnt \in Nat /\ (~(i.cnt >= WORD_BITS) => WORD_BITS - i.cnt \in Nat)
      BY WordBitsAssumption
    <2>2. /\ ZERO \in Words /\ mask_n(r.osr, i.cnt) \in Words
          /\ Shr(r.osr, i.cnt) \in Words /\ Shl(r.osr, i.cnt) \in Words
      BY <1>2, <2>1, WordOps
    <2>3. ~(i.cnt >= WORD_BITS) => Shr(r.osr, WORD_BITS - i.cnt) \in Words
      BY <1>2, <2>1, WordOps
    <2> QED  BY <1>2, <2>2, <2>3 DEF ShiftOutRest, ShiftOutValue
  <1>4. n \in 0 .. WORD_BITS
    BY <1>2, WordBitsAssumption DEF Saturate
  <1> HIDE DEF rest, n
  <1>5. q \in SmRecs /\ q.enabled = r.enabled /\ q.tx = r.tx /\ q.rx = r.rx
    BY <1>1, <1>3, <1>4 DEF SmRecs
  <1> HIDE DEF q
  <1>6. Evolves(m, SetSm(m, b, s, q), b)
    BY <1>5, StoreSm
  <1> QED  BY <1>3, <1>6 DEF q, rest, n

(* exec_out, with autopull before the shift.                               *)
LEMMA OutOutcome ==
    ASSUME NEW m, MachineOK(m), NEW b \in Blocks, NEW s \in SMs, InsnOK, NEW i,
           i.cnt \in 1 .. WORD_BITS
    PROVE  exec_out(m, b, s, i) \in Outcomes(m, b)
  <1> DEFINE r == m.sm[b][s]
             c == m.cfg[b][s]
             val == ShiftOutValue(c, r.osr, i.cnt)
             q == [r EXCEPT !.osr = ShiftOutRest(c, @, i.cnt),
                            !.osr_count = Saturate(@ + i.cnt)]
             f == [r EXCEPT !.fdebug = @ \union {"TXSTALL"}]
             z == SetSm(m, b, s, q)
  <1>1. r \in SmRecs
    BY SmRecAt
  <1>2. f \in SmRecs /\ f.enabled = r.enabled /\ f.tx = r.tx /\ f.rx = r.rx
    BY <1>1, FlagOK DEF FdebugFlags
  <1>3. val \in Words /\ Evolves(m, z, b)
    BY OutShifted
  <1>4. exec_out(m, b, s, i) \in
           {Stall(SetSm(m, b, s, f)), out_store(z, b, s, i.dst, val, i.cnt)}
    BY DEF exec_out
  <1> HIDE DEF f, z, val
  <1>5. Stall(SetSm(m, b, s, f)) \in Outcomes(m, b)
    BY <1>2, StoreSm
  <1>6. MachineOK(z)
    BY <1>3 DEF Evolves, Frames
  <1>7. out_store(z, b, s, i.dst, val, i.cnt) \in Outcomes(m, b)
    BY <1>3, <1>6, OutStoreOutcome, OutcomeTrans
  <1> QED  BY <1>4, <1>5, <1>7

(* exec_push: IfFull, blocking and non-blocking.                           *)
LEMMA PushOutcome ==
    ASSUME NEW m, MachineOK(m), NEW b \in Blocks, NEW s \in SMs, NEW i
    PROVE  exec_push(m, b, s, i) \in Outcomes(m, b)
  <1> DEFINE r == m.sm[b][s]
             c == m.cfg[b][s]
             f == [r EXCEPT !.fdebug = @ \union {"RXSTALL"}]
             d == [f EXCEPT !.isr = ZERO, !.isr_count = 0]
  <1>0. 0 \in 0 .. WORD_BITS /\ ZERO \in Words
    BY SameRings, WordBitsAssumption
  <1>1. r \in SmRecs /\ Fits(r, c)
    BY SmRecAt
  <1>2. f \in SmRecs /\ f.enabled = r.enabled /\ f.tx = r.tx /\ f.rx = r.rx
    BY <1>1, FlagOK DEF FdebugFlags
  <1> HIDE DEF f
  <1>3. d \in SmRecs /\ d.enabled = r.enabled /\ d.tx = r.tx /\ d.rx = r.rx
    BY <1>0, <1>2 DEF SmRecs
  <1>4. Done(m) \in Outcomes(m, b)
    BY StayOutcome, SmAssumption DEF PCs
  <1> HIDE DEF d
  <1>5. /\ Stall(SetSm(m, b, s, f)) \in Outcomes(m, b)
        /\ Done(SetSm(m, b, s, d)) \in Outcomes(m, b)
    BY <1>2, <1>3, StoreSm
  <1>6. ~RxBlocked(c, r) => Done(SetSm(m, b, s, isr_drain(r))) \in Outcomes(m, b)
    BY <1>1, DrainOK, StoreSm
  <1> QED  BY <1>4, <1>5, <1>6 DEF exec_push, f, d

(* exec_pull: IfEmpty, blocking and the X copy when not.                   *)
LEMMA PullOutcome ==
    ASSUME NEW m, MachineOK(m), NEW b \in Blocks, NEW s \in SMs, NEW i
    PROVE  exec_pull(m, b, s, i) \in Outcomes(m, b)
  <1> DEFINE r == m.sm[b][s]
             c == m.cfg[b][s]
             f == [r EXCEPT !.fdebug = @ \union {"TXSTALL"}]
             d == [f EXCEPT !.osr = r.x, !.osr_count = 0]
  <1>0. 0 \in 0 .. WORD_BITS /\ ZERO \in Words
    BY SameRings, WordBitsAssumption
  <1>1. r \in SmRecs /\ Fits(r, c)
    BY SmRecAt
  <1>2. f \in SmRecs /\ f.enabled = r.enabled /\ f.tx = r.tx /\ f.rx = r.rx
    BY <1>1, FlagOK DEF FdebugFlags
  <1> HIDE DEF f
  <1>3. d \in SmRecs /\ d.enabled = r.enabled /\ d.tx = r.tx /\ d.rx = r.rx
    <2>1. r.x \in Words
      BY <1>1 DEF SmRecs
    <2> HIDE DEF r
    <2> QED  BY <1>0, <1>2, <2>1 DEF SmRecs
  <1>4. Done(m) \in Outcomes(m, b)
    BY StayOutcome, SmAssumption DEF PCs
  <1> HIDE DEF d
  <1>5. /\ Stall(SetSm(m, b, s, f)) \in Outcomes(m, b)
        /\ Done(SetSm(m, b, s, d)) \in Outcomes(m, b)
    BY <1>2, <1>3, StoreSm
  <1>6. ~fifo_empty(r.tx) => Done(SetSm(m, b, s, osr_refill(r))) \in Outcomes(m, b)
    BY <1>1, RefillOK, StoreSm
  <1> QED  BY <1>4, <1>5, <1>6 DEF exec_pull, f, d

(* MOV to and from the RX register file: only the storage is written.      *)
LEMMA MovRxOutcome ==
    ASSUME NEW m, MachineOK(m), NEW b \in Blocks, NEW s \in SMs, NEW i, i.idx \in RegIdx
    PROVE  exec_mov_rxfifo(m, b, s, i) \in Outcomes(m, b)
  <1> DEFINE r == m.sm[b][s]
             c == m.cfg[b][s]
             k == IF i.literal THEN i.idx ELSE LowBits(r.y, WORD_BITS) % FIFO_DEPTH
             w == r.rx.buf[k]
             f == [r.rx EXCEPT !.buf[k] = r.isr]
             g == [r EXCEPT !.osr = w, !.osr_count = 0]
             p == [r EXCEPT !.rx = f, !.isr = ZERO, !.isr_count = 0]
  <1>0. 0 \in 0 .. WORD_BITS /\ ZERO \in Words
    BY SameRings, WordBitsAssumption
  <1>1. r \in SmRecs /\ Fits(r, c)
    BY SmRecAt
  <1>2. k \in RegIdx
    BY WordIndex
  <1> HIDE DEF k
  <1>3. r.rx \in Fifo(Words) /\ RingOK(r.rx) /\ r.isr \in Words
    BY <1>1 DEF SmRecs, Fits
  <1>4. w \in Words
    BY <1>2, <1>3, FifoAssumption DEF Fifo, Slots, RegIdx
  <1>5. f \in Fifo(Words) /\ RingOK(f) /\ f.cap = r.rx.cap /\ f.count = r.rx.count
    <2> HIDE DEF r
    <2> QED  BY <1>2, <1>3, StoreRing
  <1>6. Done(SetSm(m, b, s, g)) \in Outcomes(m, b)
    <2> HIDE DEF w
    <2> QED  BY <1>0, <1>4, RegisterOK
  <1>7. exec_mov_rxfifo(m, b, s, i)
          \in {Done(m), Done(SetSm(m, b, s, g)), Done(SetSm(m, b, s, p))}
    <2>1. [r EXCEPT !.rx.buf[k] = r.isr, !.isr = ZERO, !.isr_count = 0] = p
      BY <1>1 DEF SmRecs
    <2> HIDE DEF p, g
    <2> QED  BY <2>1 DEF exec_mov_rxfifo, g, k
  <1> HIDE DEF f, g
  <1>8. p \in SmRecs /\ p.enabled = r.enabled /\ p.tx = r.tx /\ p.rx = f
    BY <1>0, <1>1, <1>5 DEF SmRecs
  <1> HIDE DEF p
  <1>9. Fits(p, c)
    BY <1>1, <1>5, <1>8 DEF Fits
  <1>10. Done(SetSm(m, b, s, p)) \in Outcomes(m, b)
    BY <1>8, <1>9, StoreSm
  <1>11. Done(m) \in Outcomes(m, b)
    BY StayOutcome, SmAssumption DEF PCs
  <1> QED  BY <1>6, <1>7, <1>10, <1>11

(* exec_mov: the source, the operation, the destination.                   *)
LEMMA MovOutcome ==
    ASSUME NEW m, MachineOK(m), NEW b \in Blocks, NEW s \in SMs, InsnOK, NEW i
    PROVE  exec_mov(m, b, s, i) \in Outcomes(m, b)
  <1> DEFINE v == read_source(m, b, s, i.src)
             w == MovOp(i.mop, v)
  <1>1. v \in Words
    BY SourceType
  <1> HIDE DEF v
  <1>2. w \in Words
    BY <1>1, WordOps DEF MovOp
  <1> HIDE DEF w
  <1>3. mov_store(m, b, s, i.dst, w) \in Outcomes(m, b)
    BY <1>2, MovStoreOutcome
  <1> QED  BY <1>3 DEF exec_mov, w, v

(***************************************************************************)
(* One clock of a state machine, and one tick of a block.                  *)
(***************************************************************************)
LEMMA ExecuteOutcome ==
    ASSUME NEW m, MachineOK(m), NEW b \in Blocks, NEW s \in SMs, InsnOK, NEW i \in Insns
    PROVE  Execute(m, b, s, i) \in Outcomes(m, b)
  <1>1. i.op \in {"JMP", "WAIT", "IN", "OUT", "PUSH", "PULL", "MOVRX", "MOV", "IRQ", "SET"}
    BY InsnFields
  <1>2. CASE i.op = "JMP"
    BY <1>2, InsnFields, JmpOutcome DEF Execute
  <1>3. CASE i.op = "WAIT"
    BY <1>3, InsnFields, WaitOutcome DEF Execute
  <1>4. CASE i.op = "IN"
    BY <1>4, InsnFields, InOutcome DEF Execute
  <1>5. CASE i.op = "OUT"
    BY <1>5, InsnFields, OutOutcome DEF Execute
  <1>6. CASE i.op = "PUSH"
    BY <1>6, PushOutcome DEF Execute
  <1>7. CASE i.op = "PULL"
    BY <1>7, PullOutcome DEF Execute
  <1>8. CASE i.op = "MOVRX"
    BY <1>8, InsnFields, MovRxOutcome DEF Execute
  <1>9. CASE i.op = "MOV"
    BY <1>9, MovOutcome DEF Execute
  <1>10. CASE i.op = "IRQ"
    BY <1>10, InsnFields, IrqOutcome DEF Execute
  <1>11. CASE i.op = "SET"
    BY <1>11, InsnFields, SetOutcome DEF Execute
  <1> QED
    BY <1>1, <1>2, <1>3, <1>4, <1>5, <1>6, <1>7, <1>8, <1>9, <1>10, <1>11

(* Side-set drives the pads, or the directions and their resolution.       *)
LEMMA SideSetEvolves ==
    ASSUME NEW m, MachineOK(m), NEW b \in Blocks, NEW s \in SMs, NEW i
    PROVE  Evolves(m, SideSet(m, b, s, i), b)
  BY WindowOK, EvolvesRefl DEF SideSet

(* exec_one: whichever handler the decoder picks.                          *)
LEMMA ExecOneOutcome ==
    ASSUME NEW m, MachineOK(m), NEW b \in Blocks, NEW s \in SMs, InsnOK, NEW i \in Insns
    PROVE  exec_one(m, b, s, i) \in Outcomes(m, b)
  <1> DEFINE h == Execute(m, b, s, i)
             z == SideSet(h.m, b, s, i)
  <1>1. h \in Outcomes(m, b)
    BY ExecuteOutcome
  <1> HIDE DEF h
  <1>2. Evolves(m, h.m, b) /\ MachineOK(h.m)
    BY <1>1 DEF Outcomes, Evolves, Frames
  <1>3. Evolves(m, z, b)
    BY <1>2, SideSetEvolves, EvolvesTrans
  <1>4. z \in Machines
    BY <1>3 DEF Evolves, Frames, MachineOK
  <1> HIDE DEF z
  <1>5. [h EXCEPT !.m = z] \in Outcomes(m, b)
    BY <1>1, <1>3, <1>4 DEF Outcomes
  <1> QED  BY <1>5 DEF exec_one, h, z

(* The background OSR refill.                                              *)
LEMMA RefillEvolves ==
    ASSUME NEW m, MachineOK(m), NEW b \in Blocks, NEW s \in SMs
    PROVE  Evolves(m, BackgroundRefill(m, b, s), b)
  <1> DEFINE r == m.sm[b][s]
             c == m.cfg[b][s]
  <1>1. r \in SmRecs /\ Fits(r, c)
    BY SmRecAt
  <1>2. ~fifo_empty(r.tx) => Evolves(m, SetSm(m, b, s, osr_refill(r)), b)
    BY <1>1, RefillOK, StoreSm
  <1> QED  BY <1>2, EvolvesRefl DEF BackgroundRefill

(* The PC and delay after an instruction stay in range.                    *)
LEMMA CommitEvolves ==
    ASSUME NEW m, NEW b \in Blocks, NEW s \in SMs, NEW h \in Outcomes(m, b),
           NEW i \in Insns, NEW from_exec \in BOOLEAN
    PROVE  Evolves(m, Commit(h, b, s, i, from_exec), b)
  <1> DEFINE r == h.m.sm[b][s]
             c == h.m.cfg[b][s]
             next == CASE h.set_pc -> h.next_pc
                       [] ~h.set_pc /\ from_exec -> r.pc
                       [] ~h.set_pc /\ ~from_exec /\ r.pc = c.wrap_top -> c.wrap_bottom
                       [] OTHER -> (r.pc + 1) % INSN_COUNT
             pend == r.exec_pending /\ ~from_exec
             dl == IF r.exec_pending /\ ~from_exec THEN 0 ELSE i.delay
             q == [r EXCEPT !.stalled = FALSE, !.pc = next, !.exec_pending = pend,
                            !.delay = dl]
  <1>1. Evolves(m, h.m, b) /\ MachineOK(h.m) /\ h.set_pc \in BOOLEAN /\ h.next_pc \in PCs
    BY DEF Outcomes, Evolves, Frames
  <1>2. r \in SmRecs /\ c \in Confs
    BY <1>1, SmRecAt
  <1>3. next \in PCs
    <2>1. r.pc \in PCs /\ c.wrap_bottom \in PCs
      BY <1>2 DEF SmRecs, Confs
    <2>2. (r.pc + 1) % INSN_COUNT \in PCs
      BY <2>1, SmAssumption DEF PCs
    <2> HIDE DEF r, c
    <2> QED  BY <1>1, <2>1, <2>2
  <1>4. pend \in BOOLEAN /\ dl \in Nat
    BY InsnFields
  <1> HIDE DEF next, pend, dl
  <1>5. q \in SmRecs /\ q.enabled = r.enabled /\ q.tx = r.tx /\ q.rx = r.rx
    BY <1>2, <1>3, <1>4 DEF SmRecs
  <1>6. Commit(h, b, s, i, from_exec) = SetSm(h.m, b, s, q)
    BY DEF Commit, next, pend, dl
  <1> HIDE DEF q
  <1>7. Evolves(h.m, SetSm(h.m, b, s, q), b)
    BY <1>1, <1>5, StoreSm
  <1> QED  BY <1>1, <1>6, <1>7, EvolvesTrans

(* Recording whether the state machine stalls.                             *)
LEMMA StalledEvolves ==
    ASSUME NEW m, MachineOK(m), NEW b \in Blocks, NEW s \in SMs, NEW v \in BOOLEAN
    PROVE  Evolves(m, SetSm(m, b, s, [m.sm[b][s] EXCEPT !.stalled = v]), b)
  <1> DEFINE r == m.sm[b][s]
             q == [r EXCEPT !.stalled = v]
  <1>1. r \in SmRecs
    BY SmRecAt
  <1> HIDE DEF r
  <1>2. q \in SmRecs /\ q.enabled = r.enabled /\ q.tx = r.tx /\ q.rx = r.rx
    BY <1>1 DEF SmRecs
  <1> HIDE DEF q
  <1>3. Evolves(m, SetSm(m, b, s, q), b)
    BY <1>2, StoreSm DEF r
  <1> QED  BY <1>3 DEF q, r

(* A cycle: count the delay down, or side-set and execute, then advance.   *)
LEMMA CycleEvolves ==
    ASSUME NEW m, MachineOK(m), NEW b \in Blocks, NEW s \in SMs, InsnOK
    PROVE  Evolves(m, DelayOrExecute(m, insn, b, s), b)
  <1> DEFINE r == m.sm[b][s]
             i == IF r.exec_pending THEN r.exec_insn ELSE insn[b][r.pc]
             h == exec_one(m, b, s, i)
             q == [r EXCEPT !.delay = @ - 1]
             st == SetSm(h.m, b, s, [h.m.sm[b][s] EXCEPT !.stalled = TRUE])
             cm == Commit(h, b, s, i, r.exec_pending)
  <1>1. r \in SmRecs
    BY SmRecAt
  <1>2. i \in Insns /\ r.exec_pending \in BOOLEAN /\ r.delay \in Nat
    <2>1. /\ r.exec_insn \in KnownInsns /\ r.pc \in PCs
          /\ r.exec_pending \in BOOLEAN /\ r.delay \in Nat
      BY <1>1 DEF SmRecs
    <2>2. r.exec_insn \in Insns /\ insn[b][r.pc] \in Insns
      BY <2>1, KnownAreInsns DEF InsnOK
    <2> QED  BY <2>1, <2>2
  <1>3. CASE r.delay > 0
    <2>1. q \in SmRecs /\ q.enabled = r.enabled /\ q.tx = r.tx /\ q.rx = r.rx
      <3>1. r.delay - 1 \in Nat
        BY <1>2, <1>3
      <3> HIDE DEF r
      <3> QED  BY <1>1, <3>1 DEF SmRecs
    <2>2. DelayOrExecute(m, insn, b, s) = SetSm(m, b, s, q)
      BY <1>3 DEF DelayOrExecute
    <2> HIDE DEF q
    <2> QED  BY <2>1, <2>2, StoreSm
  <1>4. CASE ~(r.delay > 0)
    <2>1. h \in Outcomes(m, b)
      BY <1>2, ExecOneOutcome
    <2>2. DelayOrExecute(m, insn, b, s) = IF h.stalled THEN st ELSE cm
      BY <1>4 DEF DelayOrExecute
    <2> HIDE DEF h, i
    <2>3. Evolves(m, cm, b)
      <3> HIDE DEF r
      <3> QED  BY <1>2, <2>1, CommitEvolves
    <2>4. Evolves(m, h.m, b) /\ MachineOK(h.m)
      BY <2>1 DEF Outcomes, Evolves, Frames
    <2>5. Evolves(h.m, st, b)
      BY <2>4, StalledEvolves
    <2> HIDE DEF st, cm
    <2> QED  BY <2>2, <2>3, <2>4, <2>5, EvolvesTrans
  <1> QED  BY <1>3, <1>4

(* A cycle, with the background refill that opens it.                      *)
LEMMA SmCycleEvolves ==
    ASSUME NEW m, MachineOK(m), NEW b \in Blocks, NEW s \in SMs, InsnOK
    PROVE  Evolves(m, sm_cycle(m, insn, b, s), b)
  <1> DEFINE z == BackgroundRefill(m, b, s)
  <1>1. Evolves(m, z, b) /\ MachineOK(z)
    BY RefillEvolves DEF Evolves, Frames
  <1> HIDE DEF z
  <1>2. Evolves(z, DelayOrExecute(z, insn, b, s), b)
    BY <1>1, CycleEvolves
  <1> QED  BY <1>1, <1>2, EvolvesTrans DEF sm_cycle, z

(* Widening the write window moves no direction claim.                     *)
LEMMA SetWroteEvolves ==
    ASSUME NEW m, MachineOK(m), NEW b \in Blocks, NEW s \in SMs, NEW v \in SUBSET Pins
    PROVE  Evolves(m, [m EXCEPT !.reg[b][s].wrote = v], b)
  <1> DEFINE p == m.reg[b][s]
             q == [p EXCEPT !.wrote = v]
             z == [m EXCEPT !.reg[b][s] = q]
  <1>1. p \in PinRegs /\ m.reg \in [Blocks -> [SMs -> PinRegs]]
    BY DEF MachineOK, Machines
  <1>2. q \in PinRegs /\ q.oe = p.oe /\ q.dir = p.dir
    <2> HIDE DEF p
    <2> QED  BY <1>1 DEF PinRegs
  <1>3. [m EXCEPT !.reg[b][s].wrote = v] = z
    OBVIOUS
  <1> HIDE DEF q
  <1>4. Frames(m, z, b) /\ z.reg = [m.reg EXCEPT ![b][s] = q]
    BY <1>2, SetRegFrames
  <1>5. z.pads = m.pads
    BY DEF MachineOK, Machines
  <1> HIDE DEF z
  <1>6. \A t \in SMs : z.reg[b][t].dir = m.reg[b][t].dir /\ z.reg[b][t].oe = m.reg[b][t].oe
    BY <1>1, <1>2, <1>4
  <1>7. Evolves(m, z, b)
    BY <1>4, <1>5, <1>6, SameClaimsEvolves
  <1> QED  BY <1>3, <1>7

(* A system tick of one state machine: its divider lets a cycle run or     *)
(* not.                                                                    *)
LEMMA SmTickEvolves ==
    ASSUME NEW m, MachineOK(m), NEW b \in Blocks, NEW s \in SMs, InsnOK
    PROVE  Evolves(m, SmTick(m, insn, b, s), b)
  <1> DEFINE r == m.sm[b][s]
             c == m.cfg[b][s]
             a == div_next(r.clk_accum, c.div)
             q == [r EXCEPT !.clk_accum = a]
             z == SetSm(m, b, s, q)
             y == sm_cycle(z, insn, b, s)
             v == y.reg[b][s].wrote \union y.reg[b][s].oe
             x == [y EXCEPT !.reg[b][s].wrote = v]
  <1>1. r \in SmRecs /\ c \in Confs
    BY SmRecAt
  <1>2. a \in Nat
    <2>1. r.clk_accum \in Nat /\ c.div \in Nat /\ DIV_ONE \in Nat
      BY <1>1, DivAssumption DEF SmRecs, Confs
    <2> HIDE DEF r, c
    <2> QED  BY <2>1 DEF div_next, div_due
  <1> HIDE DEF a
  <1>3. q \in SmRecs /\ q.enabled = r.enabled /\ q.tx = r.tx /\ q.rx = r.rx
    BY <1>1, <1>2 DEF SmRecs
  <1> HIDE DEF q
  <1>4. Evolves(m, z, b)
    BY <1>3, StoreSm
  <1>5. MachineOK(z)
    BY <1>4 DEF Evolves, Frames
  <1> HIDE DEF z
  <1>6. Evolves(m, y, b)
    BY <1>4, <1>5, SmCycleEvolves, EvolvesTrans
  <1>7. MachineOK(y)
    BY <1>6 DEF Evolves, Frames
  <1> HIDE DEF y
  <1>8. v \in SUBSET Pins
    <2>1. y.reg[b][s] \in PinRegs
      BY <1>7, SmRecAt
    <2> QED  BY <2>1 DEF PinRegs
  <1>9. Evolves(m, x, b)
    <2> HIDE DEF v
    <2> QED  BY <1>6, <1>7, <1>8, SetWroteEvolves, EvolvesTrans
  <1>10. SmTick(m, insn, b, s) \in {x, y, z}
    BY DEF SmTick, x, y, z, q, a
  <1> HIDE DEF x
  <1> QED  BY <1>4, <1>6, <1>9, <1>10

(* Closing the write windows of some blocks.                               *)
LEMMA WindowFrame ==
    ASSUME NEW m, MachineOK(m), NEW S
    PROVE  LET z == OpenWriteWindow(m, S)
           IN  /\ MachineOK(z) /\ z.cfg = m.cfg /\ z.sm = m.sm /\ z.pads = m.pads
               /\ z.irq = m.irq
               /\ \A o \in Blocks, s \in SMs :
                    z.reg[o][s].dir = m.reg[o][s].dir /\ z.reg[o][s].oe = m.reg[o][s].oe
               /\ \A o \in Blocks : o \notin S => z.reg[o] = m.reg[o]
  <1> DEFINE g == [o \in Blocks |-> [s \in SMs |->
                     IF o \in S THEN [m.reg[o][s] EXCEPT !.wrote = {}] ELSE m.reg[o][s]]]
             z == [m EXCEPT !.reg = g]
  <1>1. m \in Machines /\ m.reg \in [Blocks -> [SMs -> PinRegs]]
    BY DEF MachineOK, Machines
  <1>2. ASSUME NEW p \in PinRegs
        PROVE  LET e == [p EXCEPT !.wrote = {}]
               IN  e \in PinRegs /\ e.dir = p.dir /\ e.oe = p.oe
    BY DEF PinRegs
  <1>3. ASSUME NEW o \in Blocks, NEW s \in SMs
        PROVE  g[o][s] \in PinRegs /\ g[o][s].dir = m.reg[o][s].dir
               /\ g[o][s].oe = m.reg[o][s].oe
    BY <1>1, <1>2
  <1>4. g \in [Blocks -> [SMs -> PinRegs]]
    BY <1>3
  <1>5. \A o \in Blocks : o \notin S => g[o] = m.reg[o]
    BY <1>1
  <1> HIDE DEF g
  <1>6. /\ z \in Machines /\ z.reg = g /\ z.cfg = m.cfg /\ z.sm = m.sm
        /\ z.pads = m.pads /\ z.irq = m.irq
    BY <1>1, <1>4 DEF Machines
  <1>7. OpenWriteWindow(m, S) = z
    BY DEF OpenWriteWindow, g
  <1> HIDE DEF z
  <1>8. MachineOK(z)
    BY <1>6 DEF MachineOK
  <1> QED  BY <1>3, <1>5, <1>6, <1>7, <1>8

(* Block b ticks by a chain of ticks of its state machines: g[k] is the    *)
(* machine before the k-th.                                                *)
TickChain(g, m, b) ==
    /\ g[0] = OpenWriteWindow(m, {b})
    /\ \A k \in SMs : g[k + 1] = SmTick(g[k], insn, b, k)
    /\ \A k \in 0 .. NUM_SM : Evolves(m, g[k], b)
    /\ TickBlock(m, insn, b) = ResolvePads(g[NUM_SM], b)

(* Every tick is such a chain, whatever the state machines execute.        *)
LEMMA TickIsChain ==
    ASSUME NEW m, MachineOK(m), NEW b \in Blocks, InsnOK
    PROVE  \E g : TickChain(g, m, b)
  <1> DEFINE z0 == OpenWriteWindow(m, {b})
             T(z, k) == SmTick(z, insn, b, k)
             run[k \in 0 .. NUM_SM] == IF k = 0 THEN z0 ELSE T(run[k - 1], k - 1)
             X == {z \in Machines : Evolves(m, z, b)}
             F == [k \in Nat |-> [z \in X |-> IF k < NUM_SM THEN T(z, k) ELSE z]]
  <1>1. z0 \in X
    <2>1. /\ MachineOK(z0) /\ z0.cfg = m.cfg /\ z0.sm = m.sm /\ z0.pads = m.pads
          /\ \A s \in SMs :
               z0.reg[b][s].dir = m.reg[b][s].dir /\ z0.reg[b][s].oe = m.reg[b][s].oe
          /\ \A o \in Blocks \ {b} : z0.reg[o] = m.reg[o]
      BY WindowFrame
    <2> HIDE DEF z0
    <2>2. Frames(m, z0, b)
      BY <2>1 DEF Frames, SameRouting
    <2>3. Evolves(m, z0, b)
      BY <2>1, <2>2, SameClaimsEvolves
    <2> QED  BY <2>1, <2>3 DEF MachineOK
  <1>2. \A z \in X, k \in SMs : T(z, k) \in X
    <2> SUFFICES ASSUME NEW z \in X, NEW k \in SMs PROVE T(z, k) \in X
      OBVIOUS
    <2>1. Evolves(m, z, b) /\ MachineOK(z)
      BY DEF Evolves, Frames
    <2>2. Evolves(z, T(z, k), b)
      BY <2>1, SmTickEvolves
    <2> HIDE DEF T
    <2>3. Evolves(m, T(z, k), b)
      BY <2>1, <2>2, EvolvesTrans
    <2>4. T(z, k) \in Machines
      BY <2>3 DEF Evolves, Frames, MachineOK
    <2> QED  BY <2>3, <2>4
  <1> HIDE DEF z0, T, X
  <1>3. /\ F \in [Nat -> [X -> X]] /\ NUM_SM \in Nat
        /\ \A z \in X, k \in SMs : F[k][z] = T(z, k)
    <2>1. \A k \in Nat : k < NUM_SM => k \in SMs
      BY PadsAssumption DEF SMs
    <2>2. \A k \in SMs : k \in Nat /\ k < NUM_SM
      BY PadsAssumption DEF SMs
    <2> QED  BY <1>2, <2>1, <2>2, PadsAssumption
  <1>4. PICK g \in [0 .. NUM_SM -> X] : IsChain(g, z0, F, NUM_SM)
    <2> HIDE DEF F, run
    <2> QED  BY <1>1, <1>3, ChainExists, Zenon
  <1>5. \A k \in 1 .. NUM_SM : k - 1 \in SMs /\ k - 1 \in 0 .. NUM_SM
    BY PadsAssumption DEF SMs
  <1>6. g = [k \in 0 .. NUM_SM |-> IF k = 0 THEN z0 ELSE T(g[k - 1], k - 1)]
    <2>1. \A k \in 1 .. NUM_SM : g[k] = T(g[k - 1], k - 1)
      <3> HIDE DEF F, run
      <3> SUFFICES ASSUME NEW k \in 1 .. NUM_SM PROVE g[k] = T(g[k - 1], k - 1)
        OBVIOUS
      <3>1. k - 1 \in SMs /\ g[k - 1] \in X
        BY <1>5
      <3>2. F[k - 1][g[k - 1]] = T(g[k - 1], k - 1)
        BY <1>3, <3>1
      <3> QED  BY <1>4, <3>2 DEF IsChain
    <2> QED  BY <1>3, <1>4, <2>1 DEF IsChain
  <1>7. run = [k \in 0 .. NUM_SM |-> IF k = 0 THEN z0 ELSE T(run[k - 1], k - 1)]
    <2> HIDE DEF F
    <2>1. \E f : f = [k \in 0 .. NUM_SM |-> IF k = 0 THEN z0 ELSE T(f[k - 1], k - 1)]
      BY <1>6, Zenon
    <2>2. run = CHOOSE f :
                  f = [k \in 0 .. NUM_SM |-> IF k = 0 THEN z0 ELSE T(f[k - 1], k - 1)]
      BY Zenon
    <2> QED  BY <2>1, <2>2, Zenon
  <1>8. TickBlock(m, insn, b) = ResolvePads(run[NUM_SM], b)
    BY DEF TickBlock, z0, T
  <1> HIDE DEF run, F
  <1>9. run[0] = z0 /\ \A k \in SMs : run[k + 1] = T(run[k], k)
    <2>1. \A k \in SMs : k + 1 \in 0 .. NUM_SM /\ k + 1 # 0 /\ (k + 1) - 1 = k
      BY <1>3 DEF SMs
    <2>2. 0 \in 0 .. NUM_SM
      BY <1>3
    <2> QED  BY <1>7, <2>1, <2>2
  <1> DEFINE S == {k \in Nat : k <= NUM_SM => run[k] \in X}
  <1>10. 0 \in S
    BY <1>1, <1>9
  <1>11. ASSUME NEW k \in Nat, k \in S PROVE k + 1 \in S
    <2> SUFFICES ASSUME k + 1 <= NUM_SM PROVE run[k + 1] \in X
      OBVIOUS
    <2>1. k \in SMs
      BY <1>3 DEF SMs
    <2> QED  BY <1>2, <1>3, <1>9, <1>11, <2>1
  <1> HIDE DEF S
  <1>12. Nat \subseteq S
    BY <1>10, <1>11, SetInduction
  <1>13. \A k \in 0 .. NUM_SM : run[k] \in X
    BY <1>3, <1>12 DEF S
  <1>14. TickChain(run, m, b)
    BY <1>8, <1>9, <1>13 DEF TickChain, X, z0, T
  <1> QED  BY <1>14, Zenon

(* A tick of block b.                                                      *)
LEMMA TickBlockEvolves ==
    ASSUME NEW m, MachineOK(m), NEW b \in Blocks, InsnOK
    PROVE  Evolves(m, TickBlock(m, insn, b), b)
  <1>1. PICK g : TickChain(g, m, b)
    BY TickIsChain
  <1>2. NUM_SM \in 0 .. NUM_SM
    BY PadsAssumption
  <1>3. Frames(m, g[NUM_SM], b)
    BY <1>1, <1>2 DEF TickChain, Evolves
  <1> QED  BY <1>1, <1>3, ResolvedEvolves DEF TickChain

(* An instruction the host injects.                                        *)
LEMMA SmExecEvolves ==
    ASSUME NEW m, MachineOK(m), NEW b \in Blocks, NEW s \in SMs, InsnOK, NEW i \in ExecInsns
    PROVE  Evolves(m, sm_exec(m, b, s, i), b)
  <1> DEFINE z == SetSm(m, b, s, [m.sm[b][s] EXCEPT !.stalled = FALSE])
             h == exec_one(z, b, s, i)
             r == h.m.sm[b][s]
             npc == IF h.set_pc THEN h.next_pc ELSE r.pc
             q == [r EXCEPT !.exec_pending = TRUE, !.exec_insn = i, !.stalled = TRUE]
             p == [r EXCEPT !.pc = npc]
  <1>1. Evolves(m, z, b)
    BY StalledEvolves
  <1>2. MachineOK(z) /\ i \in Insns /\ i \in KnownInsns
    BY <1>1, KnownAreInsns DEF Evolves, Frames
  <1>3. sm_exec(m, b, s, i) = SetSm(h.m, b, s, IF h.stalled THEN q ELSE p)
    BY DEF sm_exec
  <1> HIDE DEF z
  <1>4. h \in Outcomes(z, b)
    BY <1>2, ExecOneOutcome
  <1> HIDE DEF h
  <1>5. /\ Evolves(z, h.m, b) /\ MachineOK(h.m)
        /\ h.set_pc \in BOOLEAN /\ h.next_pc \in PCs
    BY <1>4 DEF Outcomes, Evolves, Frames
  <1>6. r \in SmRecs /\ npc \in PCs
    <2>1. r \in SmRecs
      BY <1>5, SmRecAt
    <2> QED  BY <1>5, <2>1 DEF SmRecs
  <1> HIDE DEF npc
  <1>7. q \in SmRecs /\ q.enabled = r.enabled /\ q.tx = r.tx /\ q.rx = r.rx
    BY <1>2, <1>6 DEF SmRecs
  <1>8. p \in SmRecs /\ p.enabled = r.enabled /\ p.tx = r.tx /\ p.rx = r.rx
    BY <1>6 DEF SmRecs
  <1> HIDE DEF p, q
  <1>9. Evolves(h.m, SetSm(h.m, b, s, q), b) /\ Evolves(h.m, SetSm(h.m, b, s, p), b)
    BY <1>5, <1>7, <1>8, StoreSm
  <1>10. Evolves(h.m, sm_exec(m, b, s, i), b)
    BY <1>3, <1>9
  <1> HIDE DEF r
  <1> QED  BY <1>1, <1>5, <1>10, EvolvesTrans

(***************************************************************************)
(* Pin levels: what the write windows claim.                               *)
(***************************************************************************)

(* The claim that is picked outranks the others: the later block, then the *)
(* higher state machine.                                                   *)
LEMMA HighestOutranks ==
    ASSUME NEW M \in Nat, NEW N \in Nat,
           NEW S \in SUBSET ((0 .. M) \X (0 .. N)), NEW d \in S
    PROVE  LET c == Highest(S)
           IN  d[1] < c[1] \/ (d[1] = c[1] /\ d[2] <= c[2])
  <1> DEFINE I == {c[1] : c \in S}
  <1>1. I \in SUBSET (0 .. M) /\ I # {}
    OBVIOUS
  <1>2. PICK i \in I : \A y \in I : y <= i
    BY <1>1, Greatest
  <1> DEFINE J == {c[2] : c \in {x \in S : x[1] = i}}
  <1>3. J \in SUBSET (0 .. N) /\ J # {}
    BY <1>2
  <1>4. PICK j \in J : \A y \in J : y <= j
    BY <1>3, Greatest
  <1>5. PICK c \in S : c[1] = i /\ c[2] = j
    BY <1>4
  <1>6. ASSUME NEW e \in S
        PROVE  e[1] < c[1] \/ (e[1] = c[1] /\ e[2] <= c[2])
    <2>1. e[1] \in 0 .. M /\ i \in 0 .. M /\ e[1] <= i
      BY <1>1, <1>2
    <2>2. e[1] = i => e[2] <= j
      BY <1>4
    <2> QED  BY <1>5, <2>1, <2>2
  <1>7. \E e \in S : \A f \in S : f[1] < e[1] \/ (f[1] = e[1] /\ f[2] <= e[2])
    BY <1>6
  <1> QED  BY <1>7 DEF Highest

(* The level pio_pads_resolve gives a pin: that of the claim picked, or    *)
(* the latched one when nobody claims it.                                  *)
LEMMA LevelPicked ==
    ASSUME NEW q, Len(q.owners) \in Nat, NEW r, NEW n \in Pins
    PROVE  LET S == LevelClaims(q, r, n)
               c == Highest(S)
           IN  /\ S \in SUBSET (Slots0(q) \X SMs)
               /\ S = {} => (n \in ResolvedLevels(q, r) <=> n \in q.pin_levels)
               /\ S # {} => c \in S /\ (n \in ResolvedLevels(q, r) <=> n \in RegAt(q, r, c).val)
  <1> DEFINE S == LevelClaims(q, r, n)
  <1>1. S \in SUBSET (Slots0(q) \X SMs)
    BY DEF LevelClaims
  <1>2. n \in ResolvedLevels(q, r) <=>
          IF S = {} THEN n \in q.pin_levels ELSE n \in RegAt(q, r, Highest(S)).val
    BY DEF ResolvedLevels
  <1> HIDE DEF S
  <1>3. S # {} => Highest(S) \in S
    BY <1>1, ClaimPicked
  <1>4. /\ S = {} => (n \in ResolvedLevels(q, r) <=> n \in q.pin_levels)
        /\ S # {} => /\ Highest(S) \in S
                     /\ (n \in ResolvedLevels(q, r) <=> n \in RegAt(q, r, Highest(S)).val)
    BY <1>2, <1>3
  <1> QED  BY <1>1, <1>4 DEF S

(* Pads q under pin registers r and pads z under w have the same owners,   *)
(* routed alike, with the same pin registers.                              *)
SameClaimants(q, r, z, w) ==
    /\ q.owners \in Seq(Blocks) /\ z.owners = q.owners
    /\ z.pio_func_mask = q.pio_func_mask
    /\ \A i \in 1 .. Len(q.owners), s \in SMs : w[q.owners[i]][s] = r[q.owners[i]][s]

(* The claims on a pin depend on nothing else.                             *)
LEMMA LevelClaimsDepend ==
    ASSUME NEW q, NEW z, NEW r, NEW w, SameClaimants(q, r, z, w)
    PROVE  /\ \A n : LevelClaims(z, w, n) = LevelClaims(q, r, n)
           /\ \A c \in Slots0(q) \X SMs : RegAt(z, w, c) = RegAt(q, r, c)
  <1> DEFINE D == Slots0(q) \X SMs
  <1>1. Slots0(z) = Slots0(q) /\ Len(q.owners) \in Nat
    BY DEF Slots0, SameClaimants
  <1>2. \A c \in D : RegAt(z, w, c) = RegAt(q, r, c)
    <2> SUFFICES ASSUME NEW c \in D PROVE RegAt(z, w, c) = RegAt(q, r, c)
      OBVIOUS
    <2>1. c[1] + 1 \in 1 .. Len(q.owners) /\ c[2] \in SMs
      BY <1>1 DEF Slots0
    <2> QED  BY <2>1 DEF RegAt, SameClaimants
  <1>3. ASSUME NEW n PROVE LevelClaims(z, w, n) = LevelClaims(q, r, n)
    <2>1. LevelClaims(z, w, n)
            = {c \in D : n \in q.pio_func_mask[c[1]] /\ n \in RegAt(z, w, c).wrote}
      BY <1>1 DEF LevelClaims, SameClaimants
    <2>2. LevelClaims(q, r, n)
            = {c \in D : n \in q.pio_func_mask[c[1]] /\ n \in RegAt(q, r, c).wrote}
      BY DEF LevelClaims
    <2> HIDE DEF D
    <2> QED  BY <1>2, <2>1, <2>2
  <1> QED  BY <1>2, <1>3 DEF D

(* So resolving is idempotent: pads whose levels are resolved, or whose    *)
(* levels and claims have not changed since they were, stay resolved.      *)
LEMMA LevelsDepend ==
    ASSUME NEW q, NEW z, NEW r, NEW w, SameClaimants(q, r, z, w),
           z.pin_levels \in {q.pin_levels, ResolvedLevels(q, r)}
    PROVE  ResolvedLevels(z, w) = ResolvedLevels(q, r)
  <1>0. /\ \A n : LevelClaims(z, w, n) = LevelClaims(q, r, n)
        /\ \A c \in Slots0(q) \X SMs : RegAt(z, w, c) = RegAt(q, r, c)
    BY LevelClaimsDepend
  <1>1. Len(q.owners) \in Nat /\ Len(z.owners) \in Nat
    BY DEF SameClaimants
  <1>2. ASSUME NEW n \in Pins
        PROVE  n \in ResolvedLevels(z, w) <=> n \in ResolvedLevels(q, r)
    <2> DEFINE S == LevelClaims(q, r, n)
    <2>1. LevelClaims(z, w, n) = S
      BY <1>0
    <2>2. /\ S \in SUBSET (Slots0(q) \X SMs)
          /\ S = {} => (n \in ResolvedLevels(q, r) <=> n \in q.pin_levels)
          /\ S # {} => /\ Highest(S) \in S
                       /\ (n \in ResolvedLevels(q, r) <=> n \in RegAt(q, r, Highest(S)).val)
      BY <1>1, LevelPicked
    <2>3. LET T == LevelClaims(z, w, n)
          IN  /\ T = {} => (n \in ResolvedLevels(z, w) <=> n \in z.pin_levels)
              /\ T # {} => (n \in ResolvedLevels(z, w) <=> n \in RegAt(z, w, Highest(T)).val)
      BY <1>1, LevelPicked
    <2>4. /\ S = {} => (n \in ResolvedLevels(z, w) <=> n \in z.pin_levels)
          /\ S # {} => (n \in ResolvedLevels(z, w) <=> n \in RegAt(z, w, Highest(S)).val)
      BY <2>1, <2>3
    <2> HIDE DEF S
    <2>5. CASE S = {}
      BY <2>2, <2>4, <2>5
    <2>6. CASE S # {}
      <3>1. RegAt(z, w, Highest(S)) = RegAt(q, r, Highest(S))
        BY <1>0, <2>2, <2>6
      <3> QED  BY <2>2, <2>4, <2>6, <3>1
    <2> QED  BY <2>5, <2>6
  <1>3. ResolvedLevels(z, w) \subseteq Pins /\ ResolvedLevels(q, r) \subseteq Pins
    BY DEF ResolvedLevels
  <1> QED  BY <1>2, <1>3

(* The level of pin n is one that a write of the window claims.            *)
Backed(m, pd, n) ==
    \E c \in LevelClaims(m.pads[pd], m.reg, n) :
      (n \in RegAt(m.pads[pd], m.reg, c).val) = (n \in m.pads[pd].pin_levels)

(* From m to z levels move only to one that is claimed in z.               *)
Moves(m, z) ==
    \A pd \in PadSets, n \in Pins :
      (n \in m.pads[pd].pin_levels) # (n \in z.pads[pd].pin_levels) => Backed(z, pd, n)

(* The levels are what pio_pads_resolve would give now.                    *)
SettledPad(m, pd) == m.pads[pd].pin_levels = ResolvedLevels(m.pads[pd], m.reg)
Settled(m) == \A pd \in PadSets : SettledPad(m, pd)

(* Only the pin registers of state machine s of block b differ.            *)
Others(m, z, b, s) ==
    \A o \in Blocks, t \in SMs : (o # b \/ t # s) => z.reg[o][t] = m.reg[o][t]

(* A pin write of state machine s: it resolves the pads, or there is none. *)
PinStep(m, z, b, s) ==
    /\ Frames(m, z, b) /\ Others(m, z, b, s)
    /\ \/ z.reg = m.reg /\ z.pads = m.pads
       \/ z.pads[PadOf(b)].pin_levels = ResolvedLevels(m.pads[PadOf(b)], z.reg)

(* What any number of them may do.                                         *)
Shifts(m, z, b, s) ==
    /\ Frames(m, z, b) /\ Others(m, z, b, s)
    /\ Moves(m, z) /\ (Settled(m) => Settled(z))

(* The owners of a pad set, in any well-formed machine.                    *)
LEMMA PadOwners ==
    ASSUME NEW m, MachineOK(m), NEW pd \in PadSets
    PROVE  /\ m.pads[pd].owners \in Seq(Blocks) /\ Len(m.pads[pd].owners) \in Nat
           /\ \A i \in 1 .. Len(m.pads[pd].owners) :
                m.pads[pd].owners[i] \in Blocks /\ PadOf(m.pads[pd].owners[i]) = pd
  BY OwnersType DEF MachineOK

(* Machines that agree on the pin registers of a pad set's owners.         *)
LEMMA PadClaimants ==
    ASSUME NEW m, MachineOK(m), NEW z, NEW pd \in PadSets,
           SameRouting(z.pads[pd], m.pads[pd]),
           \A o \in Blocks, s \in SMs : PadOf(o) = pd => z.reg[o][s] = m.reg[o][s]
    PROVE  SameClaimants(m.pads[pd], m.reg, z.pads[pd], z.reg)
  <1> DEFINE p == m.pads[pd]
             q == z.pads[pd]
  <1>1. /\ p.owners \in Seq(Blocks) /\ Len(p.owners) \in Nat
        /\ \A i \in 1 .. Len(p.owners) : p.owners[i] \in Blocks /\ PadOf(p.owners[i]) = pd
    BY PadOwners
  <1>2. q.owners = p.owners /\ q.pio_func_mask = p.pio_func_mask
    BY DEF SameRouting
  <1> HIDE DEF p, q
  <1>3. \A i \in 1 .. Len(p.owners), s \in SMs : z.reg[p.owners[i]][s] = m.reg[p.owners[i]][s]
    BY <1>1
  <1>4. SameClaimants(p, m.reg, q, z.reg)
    BY <1>1, <1>2, <1>3 DEF SameClaimants
  <1> QED  BY <1>4 DEF p, q

(* Settled pads whose levels, routing and pin registers do not change stay *)
(* settled.                                                                *)
LEMMA SettledDepends ==
    ASSUME NEW m, MachineOK(m), NEW z, NEW pd \in PadSets,
           SameRouting(z.pads[pd], m.pads[pd]),
           z.pads[pd].pin_levels = m.pads[pd].pin_levels,
           \A o \in Blocks, s \in SMs : PadOf(o) = pd => z.reg[o][s] = m.reg[o][s]
    PROVE  SettledPad(m, pd) => SettledPad(z, pd)
  <1> DEFINE p == m.pads[pd]
             q == z.pads[pd]
  <1>1. SameClaimants(p, m.reg, q, z.reg) /\ q.pin_levels = p.pin_levels
    BY PadClaimants
  <1> HIDE DEF p, q
  <1>2. ResolvedLevels(q, z.reg) = ResolvedLevels(p, m.reg)
    BY <1>1, LevelsDepend
  <1> QED  BY <1>1, <1>2 DEF SettledPad, p, q

(* A claimed pin of settled pads has a claimed level.                      *)
LEMMA SettledBacks ==
    ASSUME NEW m, MachineOK(m), NEW pd \in PadSets, SettledPad(m, pd),
           NEW n \in Pins, LevelClaims(m.pads[pd], m.reg, n) # {}
    PROVE  Backed(m, pd, n)
  <1> DEFINE p == m.pads[pd]
             r == m.reg
             S == LevelClaims(p, r, n)
  <1>1. Len(p.owners) \in Nat /\ p.pin_levels = ResolvedLevels(p, r) /\ S # {}
    BY PadOwners DEF SettledPad
  <1> HIDE DEF p, r
  <1>2. Highest(S) \in S /\ (n \in ResolvedLevels(p, r) <=> n \in RegAt(p, r, Highest(S)).val)
    BY <1>1, LevelPicked
  <1> HIDE DEF S
  <1>3. \E c \in S : (n \in RegAt(p, r, c).val) = (n \in p.pin_levels)
    BY <1>1, <1>2
  <1> QED  BY <1>3 DEF Backed, S, p, r

(* Resolving block b's pads settles them.                                  *)
LEMMA ResolvedSettles ==
    ASSUME NEW m, MachineOK(m), NEW z, NEW b \in Blocks, Frames(m, z, b),
           z.pads[PadOf(b)].pin_levels = ResolvedLevels(m.pads[PadOf(b)], z.reg)
    PROVE  /\ SettledPad(z, PadOf(b)) 
           /\ \A n \in Pins :
                /\ LevelClaims(z.pads[PadOf(b)], z.reg, n) = {} =>
                     (n \in z.pads[PadOf(b)].pin_levels <=> n \in m.pads[PadOf(b)].pin_levels)
                /\ LevelClaims(z.pads[PadOf(b)], z.reg, n) # {} => Backed(z, PadOf(b), n)
  <1> DEFINE pd == PadOf(b)
             p == m.pads[pd]
             q == z.pads[pd]
             w == z.reg
  <1>1. pd \in PadSets /\ MachineOK(z) /\ SameRouting(q, p)
    BY PadOfType DEF Frames
  <1>2. p.owners \in Seq(Blocks) /\ Len(p.owners) \in Nat
    BY <1>1, PadOwners
  <1>3. q.pin_levels = ResolvedLevels(p, w)
    OBVIOUS
  <1>4. SettledPad(z, pd) <=> q.pin_levels = ResolvedLevels(q, w)
    BY DEF SettledPad
  <1>9. \A n : LevelClaims(z.pads[PadOf(b)], z.reg, n) = LevelClaims(q, w, n)
    OBVIOUS
  <1> HIDE DEF p, q, w
  <1>5. SameClaimants(p, w, q, w)
    BY <1>1, <1>2 DEF SameRouting, SameClaimants
  <1>6. ResolvedLevels(q, w) = ResolvedLevels(p, w)
    BY <1>3, <1>5, LevelsDepend
  <1>7. SettledPad(z, pd)
    BY <1>3, <1>4, <1>6
  <1>8. ASSUME NEW n \in Pins
        PROVE  LevelClaims(q, w, n) = {} => (n \in q.pin_levels <=> n \in p.pin_levels)
    <2>1. LevelClaims(q, w, n) = LevelClaims(p, w, n)
      BY <1>5, LevelClaimsDepend
    <2>2. LevelClaims(p, w, n) = {} => (n \in ResolvedLevels(p, w) <=> n \in p.pin_levels)
      BY <1>2, LevelPicked
    <2> QED  BY <1>3, <2>1, <2>2
  <1>10. \A n \in Pins : LevelClaims(z.pads[pd], z.reg, n) # {} => Backed(z, pd, n)
    BY <1>1, <1>7, SettledBacks
  <1> QED  BY <1>7, <1>8, <1>10 DEF p, q, w, pd

(* One pin write.                                                          *)
LEMMA PinStepShifts ==
    ASSUME NEW m, MachineOK(m), NEW z, NEW b \in Blocks, NEW s \in SMs, PinStep(m, z, b, s)
    PROVE  Shifts(m, z, b, s)
  <1>1. Frames(m, z, b) /\ Others(m, z, b, s) /\ MachineOK(z)
    BY DEF PinStep, Frames
  <1>2. CASE z.reg = m.reg /\ z.pads = m.pads
    BY <1>1, <1>2 DEF Shifts, Moves, Settled, SettledPad
  <1>3. CASE z.pads[PadOf(b)].pin_levels = ResolvedLevels(m.pads[PadOf(b)], z.reg)
    <2>1. \A pd \in PadSets : pd # PadOf(b) => z.pads[pd] = m.pads[pd]
      BY <1>1 DEF Frames
    <2>2. Moves(m, z)
      BY <1>1, <1>3, <2>1, ResolvedSettles DEF Moves
    <2>3. ASSUME NEW pd \in PadSets, pd # PadOf(b), SettledPad(m, pd)
          PROVE  SettledPad(z, pd)
      <3>1. \A o \in Blocks, t \in SMs : PadOf(o) = pd => z.reg[o][t] = m.reg[o][t]
        BY <1>1, <2>3 DEF Others
      <3>2. z.pads[pd] = m.pads[pd] /\ SameRouting(z.pads[pd], m.pads[pd])
        BY <2>1, <2>3 DEF SameRouting
      <3> QED  BY <2>3, <3>1, <3>2, SettledDepends
    <2>4. Settled(m) => Settled(z)
      BY <1>1, <1>3, <2>3, ResolvedSettles DEF Settled
    <2> QED  BY <1>1, <2>2, <2>4 DEF Shifts
  <1> QED  BY <1>2, <1>3 DEF PinStep

(* Write windows that grow keep their claims.                              *)
LEMMA ClaimsGrow ==
    ASSUME NEW m, MachineOK(m), NEW z, NEW pd \in PadSets,
           SameRouting(z.pads[pd], m.pads[pd]),
           \A o \in Blocks, t \in SMs : m.reg[o][t].wrote \subseteq z.reg[o][t].wrote
    PROVE  \A n : LevelClaims(m.pads[pd], m.reg, n) \subseteq LevelClaims(z.pads[pd], z.reg, n)
  <1> DEFINE p == m.pads[pd]
             q == z.pads[pd]
  <1>1. /\ p.owners \in Seq(Blocks) /\ Len(p.owners) \in Nat
        /\ \A i \in 1 .. Len(p.owners) : p.owners[i] \in Blocks
    BY PadOwners
  <1>2. q.owners = p.owners /\ q.pio_func_mask = p.pio_func_mask
    BY DEF SameRouting
  <1> HIDE DEF p, q
  <1>3. ASSUME NEW c \in Slots0(p) \X SMs
        PROVE  RegAt(p, m.reg, c).wrote \subseteq RegAt(q, z.reg, c).wrote
    <2>1. c[1] + 1 \in 1 .. Len(p.owners) /\ c[2] \in SMs
      BY <1>1 DEF Slots0
    <2>2. p.owners[c[1] + 1] \in Blocks
      BY <1>1, <2>1
    <2> QED  BY <1>2, <2>1, <2>2 DEF RegAt
  <1>4. Slots0(q) = Slots0(p)
    BY <1>2 DEF Slots0
  <1>5. \A n : LevelClaims(p, m.reg, n) \subseteq LevelClaims(q, z.reg, n)
    BY <1>2, <1>3, <1>4 DEF LevelClaims
  <1> QED  BY <1>5 DEF p, q

(* A pin write followed by one that withdraws nothing: an instruction and  *)
(* its side-set.                                                           *)
LEMMA TwoPinSteps ==
    ASSUME NEW m, MachineOK(m), NEW y, NEW z, NEW b \in Blocks, NEW s \in SMs,
           PinStep(m, y, b, s), PinStep(y, z, b, s),
           y.reg[b][s].wrote \subseteq z.reg[b][s].wrote
    PROVE  Shifts(m, z, b, s)
  <1>1. /\ MachineOK(y) /\ MachineOK(z) /\ Frames(m, y, b) /\ Frames(y, z, b)
        /\ Others(m, y, b, s) /\ Others(y, z, b, s)
    BY DEF PinStep, Frames
  <1>2. Frames(m, z, b) /\ Others(m, z, b, s)
    BY <1>1, FramesTrans DEF Others
  <1>3. Shifts(m, y, b, s) /\ Shifts(y, z, b, s)
    BY <1>1, PinStepShifts
  <1>4. Moves(m, z)
    <2> SUFFICES ASSUME NEW pd \in PadSets, NEW n \in Pins,
                        (n \in m.pads[pd].pin_levels) # (n \in z.pads[pd].pin_levels)
                 PROVE  Backed(z, pd, n)
      BY DEF Moves
    <2>1. CASE (n \in y.pads[pd].pin_levels) # (n \in z.pads[pd].pin_levels)
      BY <1>3, <2>1 DEF Shifts, Moves
    <2>2. CASE (n \in m.pads[pd].pin_levels) # (n \in y.pads[pd].pin_levels)
      <3>1. Backed(y, pd, n)
        BY <1>3, <2>2 DEF Shifts, Moves
      <3>2. CASE z.reg = y.reg /\ z.pads = y.pads
        BY <3>1, <3>2 DEF Backed
      <3>3. CASE z.pads[PadOf(b)].pin_levels = ResolvedLevels(y.pads[PadOf(b)], z.reg)
        <4>1. pd = PadOf(b)
          BY <1>1, <2>2 DEF Frames
        <4>2. \A o \in Blocks, t \in SMs : y.reg[o][t].wrote \subseteq z.reg[o][t].wrote
          BY <1>1 DEF Others
        <4>3. SameRouting(z.pads[pd], y.pads[pd])
          BY <1>1 DEF Frames
        <4>4. LevelClaims(y.pads[pd], y.reg, n) \subseteq LevelClaims(z.pads[pd], z.reg, n)
          BY <1>1, <4>2, <4>3, ClaimsGrow
        <4>5. LevelClaims(z.pads[pd], z.reg, n) # {}
          BY <3>1, <4>4 DEF Backed
        <4> QED  BY <1>1, <3>3, <4>1, <4>5, ResolvedSettles
      <3> QED  BY <3>2, <3>3 DEF PinStep
    <2> QED  BY <2>1, <2>2
  <1>5. Settled(m) => Settled(z)
    BY <1>3 DEF Shifts
  <1> QED  BY <1>2, <1>4, <1>5 DEF Shifts

(***************************************************************************)
(* The pin writes of the handlers.                                         *)
(***************************************************************************)

(* A step that writes no pin.                                              *)
LEMMA NoPinStep ==
    ASSUME NEW m, NEW z, NEW b, NEW s, Frames(m, z, b), z.reg = m.reg, z.pads = m.pads
    PROVE  PinStep(m, z, b, s)
  BY DEF PinStep, Others

(* Writing the registers of a state machine writes no pin.                 *)
LEMMA SetSmPins ==
    ASSUME NEW m, m \in Machines, NEW b, NEW s, NEW q
    PROVE  SetSm(m, b, s, q).reg = m.reg /\ SetSm(m, b, s, q).pads = m.pads
  BY DEF SetSm, Machines

(* Resolving the pads of block b.                                          *)
LEMMA ResolvePadsLevels ==
    ASSUME NEW m, MachineOK(m), NEW b \in Blocks
    PROVE  LET z == ResolvePads(m, b)
           IN  /\ Frames(m, z, b) /\ z.reg = m.reg
               /\ z.pads[PadOf(b)].pin_levels = ResolvedLevels(m.pads[PadOf(b)], m.reg)
  <1> DEFINE p == m.pads[PadOf(b)]
             e == EnabledSMs(m)
             l == pio_pads_resolve(p, m.reg, e)
             z == ResolvePads(m, b)
  <1>1. /\ p \in Pads /\ m \in Machines /\ PadOf(b) \in PadSets
        /\ m.pads \in [PadSets -> Pads]
    BY PadOfType DEF MachineOK, Machines
  <1>2. Frames(m, z, b) /\ z.reg = m.reg
    BY ResolvePadsFrames
  <1>3. z.pads[PadOf(b)] = l
    BY <1>1 DEF ResolvePads, Machines
  <1> HIDE DEF p, e
  <1>4. l.pin_levels = ResolvedLevels(p, m.reg)
    BY <1>1 DEF pio_pads_resolve, Pads
  <1> QED  BY <1>2, <1>3, <1>4 DEF p

(* The three operations on the pin registers resolve the pads.             *)
LEMMA DrivePinStep ==
    ASSUME NEW m, MachineOK(m), NEW b \in Blocks, NEW s \in SMs,
           NEW base \in Nat, NEW count \in Nat, NEW w
    PROVE  LET v == drive_pins(m, b, s, base, count, w)
               d == drive_pindirs(m, b, s, base, count, w)
               l == release_out_pins(m, b, s, base, count)
           IN  /\ PinStep(m, v, b, s) /\ m.reg[b][s].wrote \subseteq v.reg[b][s].wrote
               /\ PinStep(m, d, b, s) /\ m.reg[b][s].wrote \subseteq d.reg[b][s].wrote
               /\ PinStep(m, l, b, s)
  <1> DEFINE span == Span(b, base, count)
             high == HighOf(b, base, count, w)
             q == m.reg[b][s]
  <1>1. q \in PinRegs /\ m.reg \in [Blocks -> [SMs -> PinRegs]] /\ m \in Machines
    BY DEF MachineOK, Machines
  <1>2. span \subseteq Pins /\ high \subseteq Pins
    BY SpanType
  <1> HIDE DEF span, high, q
  <1>3. /\ WriteLevels(q, span, high) \in PinRegs
        /\ q.wrote \subseteq WriteLevels(q, span, high).wrote
        /\ WriteDirs(q, span, high) \in PinRegs /\ WriteDirs(q, span, high).wrote = q.wrote
        /\ ReleaseSpan(q, span) \in PinRegs
    BY <1>1, <1>2 DEF WriteLevels, WriteDirs, ReleaseSpan, PinRegs
  <1>4. ASSUME NEW v \in PinRegs
        PROVE  LET z == ResolvePads([m EXCEPT !.reg[b][s] = v], b)
               IN  PinStep(m, z, b, s) /\ z.reg[b][s] = v
    <2> DEFINE y == [m EXCEPT !.reg[b][s] = v]
               z == ResolvePads(y, b)
    <2>1. Frames(m, y, b) /\ y.reg = [m.reg EXCEPT ![b][s] = v]
      BY SetRegFrames
    <2>2. y.pads = m.pads
      BY <1>1 DEF Machines
    <2> HIDE DEF y
    <2>3. MachineOK(y)
      BY <2>1 DEF Frames
    <2>4. /\ Frames(y, z, b) /\ z.reg = y.reg
          /\ z.pads[PadOf(b)].pin_levels = ResolvedLevels(y.pads[PadOf(b)], y.reg)
      BY <2>3, ResolvePadsLevels
    <2>5. z.pads[PadOf(b)].pin_levels = ResolvedLevels(m.pads[PadOf(b)], z.reg)
      BY <2>2, <2>4
    <2> HIDE DEF z
    <2>6. Frames(m, z, b)
      BY <2>1, <2>4, FramesTrans
    <2>7. Others(m, z, b, s) /\ z.reg[b][s] = v
      BY <1>1, <2>1, <2>4 DEF Others
    <2>8. PinStep(m, z, b, s)
      BY <2>5, <2>6, <2>7 DEF PinStep
    <2> QED  BY <2>7, <2>8 DEF z, y
  <1>5. /\ drive_pins(m, b, s, base, count, w)
             = ResolvePads([m EXCEPT !.reg[b][s] = WriteLevels(q, span, high)], b)
        /\ drive_pindirs(m, b, s, base, count, w)
             = ResolvePads([m EXCEPT !.reg[b][s] = WriteDirs(q, span, high)], b)
        /\ release_out_pins(m, b, s, base, count)
             = ResolvePads([m EXCEPT !.reg[b][s] = ReleaseSpan(q, span)], b)
    BY DEF drive_pins, drive_pindirs, release_out_pins, q, span, high
  <1> QED  BY <1>3, <1>4, <1>5 DEF q

(* z has the pin registers and the pads of m.                              *)
PinsKept(m, z) == z.reg = m.reg /\ z.pads = m.pads

(* The machine a handler returns.                                          *)
LEMMA ReturnedMachine ==
    \A z, pc : Done(z).m = z /\ Stall(z).m = z /\ JumpTo(z, pc).m = z
  BY DEF Done, Stall, JumpTo

(* Writes to a state machine's registers and to the IRQ flags keep pins.   *)
LEMMA RegisterWritesKeepPins ==
    ASSUME NEW m \in Machines, NEW b, NEW s
    PROVE  /\ PinsKept(m, m) /\ \A q : PinsKept(m, SetSm(m, b, s, q))
           /\ \A g : PinsKept(m, [m EXCEPT !.irq = g])
  BY DEF PinsKept, SetSm, Machines

(* The handlers that write no pin.                                         *)
LEMMA HandlersKeepPins ==
    ASSUME NEW m \in Machines, NEW b, NEW s, NEW i
    PROVE  /\ PinsKept(m, exec_jmp(m, b, s, i).m)
           /\ PinsKept(m, exec_in(m, b, s, i).m)
           /\ PinsKept(m, exec_push(m, b, s, i).m)
           /\ PinsKept(m, exec_pull(m, b, s, i).m)
           /\ PinsKept(m, exec_mov_rxfifo(m, b, s, i).m)
           /\ PinsKept(m, exec_irq(m, b, s, i).m)
           /\ i.src \in {"GPIO", "PIN", "JMPPIN", "IRQ"} =>
                PinsKept(m, exec_wait(m, b, s, i).m)
  <1>1. /\ PinsKept(m, m) /\ \A q : PinsKept(m, SetSm(m, b, s, q))
        /\ \A g : PinsKept(m, [m EXCEPT !.irq = g])
    BY RegisterWritesKeepPins
  <1>2. PinsKept(m, exec_jmp(m, b, s, i).m)
    <2> DEFINE r == m.sm[b][s]
               y == CASE i.cond = "XDEC" -> SetSm(m, b, s, [r EXCEPT !.x = Decrement(@)])
                      [] i.cond = "YDEC" -> SetSm(m, b, s, [r EXCEPT !.y = Decrement(@)])
                      [] OTHER           -> m
    <2>1. PinsKept(m, y)
      BY <1>1
    <2>2. exec_jmp(m, b, s, i) \in {JumpTo(y, i.addr), Done(y)}
      BY Zenon DEF exec_jmp
    <2> HIDE DEF y
    <2> QED  BY <2>1, <2>2, ReturnedMachine
  <1>3. PinsKept(m, exec_in(m, b, s, i).m)
    BY <1>1, ReturnedMachine DEF exec_in
  <1>4. PinsKept(m, exec_push(m, b, s, i).m)
    BY <1>1, ReturnedMachine DEF exec_push
  <1>5. PinsKept(m, exec_pull(m, b, s, i).m)
    BY <1>1, ReturnedMachine DEF exec_pull
  <1>6. PinsKept(m, exec_mov_rxfifo(m, b, s, i).m)
    BY <1>1, ReturnedMachine DEF exec_mov_rxfifo
  <1>7. PinsKept(m, exec_irq(m, b, s, i).m)
    <2> DEFINE n == resolve_irq_index(s, i.mode, i.idx)
               target == irq_target_block(b, i.mode)
               up == [m EXCEPT !.irq = [t \in Blocks |->
                        IF t \in target THEN m.irq[t] \union {n} ELSE m.irq[t]]]
               down == [m EXCEPT !.irq = [t \in Blocks |->
                          IF t \in target THEN m.irq[t] \ {n} ELSE m.irq[t]]]
               y == IF m.sm[b][s].stalled THEN m ELSE up
    <2>1. PinsKept(m, up) /\ PinsKept(m, down)
      BY <1>1
    <2>2. exec_irq(m, b, s, i) \in {Stall(m), Done(m), Done(down), Done(up), Stall(y), Done(y)}
      BY Zenon DEF exec_irq
    <2> HIDE DEF up, down
    <2> QED  BY <1>1, <2>1, <2>2, ReturnedMachine
  <1>8. ASSUME i.src \in {"GPIO", "PIN", "JMPPIN", "IRQ"}
        PROVE  PinsKept(m, exec_wait(m, b, s, i).m)
    BY <1>1, <1>8, ReturnedMachine DEF exec_wait
  <1> QED  BY <1>2, <1>3, <1>4, <1>5, <1>6, <1>7, <1>8

(* OUT, MOV and SET: one operation on the pins, or none.                   *)
LEMMA StoresPinStep ==
    ASSUME NEW m, MachineOK(m), NEW b \in Blocks, NEW s \in SMs, NEW dst, NEW w, NEW cnt, NEW i
    PROVE  /\ \/ PinsKept(m, out_store(m, b, s, dst, w, cnt).m)
              \/ PinStep(m, out_store(m, b, s, dst, w, cnt).m, b, s)
           /\ \/ PinsKept(m, mov_store(m, b, s, dst, w).m)
              \/ PinStep(m, mov_store(m, b, s, dst, w).m, b, s)
           /\ \/ PinsKept(m, exec_set(m, b, s, i).m)
              \/ PinStep(m, exec_set(m, b, s, i).m, b, s)
  <1> DEFINE c == m.cfg[b][s]
  <1>1. m \in Machines /\ c \in Confs
    BY SmRecAt DEF MachineOK
  <1>2. PinsKept(m, m) /\ \A q : PinsKept(m, SetSm(m, b, s, q))
    BY <1>1, RegisterWritesKeepPins
  <1>3. /\ c.out_base \in Nat /\ c.out_count \in Nat
        /\ c.set_base \in Nat /\ c.set_count \in Nat
    BY <1>1, SmAssumption, WordBitsAssumption DEF Confs
  <1>4. ASSUME NEW v
        PROVE  /\ PinStep(m, drive_pins(m, b, s, c.out_base, c.out_count, v), b, s)
               /\ PinStep(m, drive_pindirs(m, b, s, c.out_base, c.out_count, v), b, s)
               /\ PinStep(m, release_out_pins(m, b, s, c.out_base, c.out_count), b, s)
               /\ PinStep(m, drive_pins(m, b, s, c.set_base, c.set_count, v), b, s)
               /\ PinStep(m, drive_pindirs(m, b, s, c.set_base, c.set_count, v), b, s)
    <2> HIDE DEF c
    <2> QED  BY <1>3, DrivePinStep
  <1>5. \/ PinsKept(m, out_store(m, b, s, dst, w, cnt).m)
        \/ PinStep(m, out_store(m, b, s, dst, w, cnt).m, b, s)
    BY <1>2, <1>4, ReturnedMachine DEF out_store
  <1>6. \/ PinsKept(m, mov_store(m, b, s, dst, w).m)
        \/ PinStep(m, mov_store(m, b, s, dst, w).m, b, s)
    BY <1>2, <1>4, ReturnedMachine DEF mov_store
  <1>7. \/ PinsKept(m, exec_set(m, b, s, i).m)
        \/ PinStep(m, exec_set(m, b, s, i).m, b, s)
    BY <1>2, <1>4, ReturnedMachine DEF exec_set
  <1> QED  BY <1>5, <1>6, <1>7

(* A pin write after a step that keeps the pins.                           *)
LEMMA KeptThenPinStep ==
    ASSUME NEW m, NEW y, NEW z, NEW b, NEW s, PinsKept(m, y), Frames(m, z, b),
           PinsKept(y, z) \/ PinStep(y, z, b, s)
    PROVE  PinStep(m, z, b, s)
  BY DEF PinStep, PinsKept, Others

(* exec_out shifts the OSR first.                                          *)
LEMMA OutPinStep ==
    ASSUME NEW m, MachineOK(m), NEW b \in Blocks, NEW s \in SMs, InsnOK, NEW i,
           i.cnt \in 1 .. WORD_BITS, Frames(m, exec_out(m, b, s, i).m, b)
    PROVE  PinStep(m, exec_out(m, b, s, i).m, b, s)
  <1> DEFINE r == m.sm[b][s]
             c == m.cfg[b][s]
             val == ShiftOutValue(c, r.osr, i.cnt)
             q == [r EXCEPT !.osr = ShiftOutRest(c, @, i.cnt),
                            !.osr_count = Saturate(@ + i.cnt)]
             f == [r EXCEPT !.fdebug = @ \union {"TXSTALL"}]
             z == SetSm(m, b, s, q)
             h == exec_out(m, b, s, i)
             k == out_store(z, b, s, i.dst, val, i.cnt)
  <1>1. h \in {Stall(SetSm(m, b, s, f)), k}
    BY DEF exec_out
  <1>2. MachineOK(z)
    BY OutShifted DEF Evolves, Frames
  <1>3. /\ PinsKept(m, m) /\ PinsKept(m, z) /\ PinsKept(m, SetSm(m, b, s, f))
    BY RegisterWritesKeepPins DEF MachineOK
  <1>4. Frames(m, h.m, b)
    OBVIOUS
  <1> HIDE DEF z, f, val
  <1>5. PinsKept(z, k.m) \/ PinStep(z, k.m, b, s)
    BY <1>2, StoresPinStep
  <1>6. Stall(SetSm(m, b, s, f)).m = SetSm(m, b, s, f)
    BY ReturnedMachine
  <1> HIDE DEF h, k
  <1>7. PinStep(m, h.m, b, s)
    BY <1>1, <1>3, <1>4, <1>5, <1>6, KeptThenPinStep
  <1> QED  BY <1>7 DEF h

(* Every handler does at most one operation on the pins.                   *)
LEMMA ExecutePinStep ==
    ASSUME NEW m, MachineOK(m), NEW b \in Blocks, NEW s \in SMs, InsnOK, NEW i \in Insns
    PROVE  PinStep(m, Execute(m, b, s, i).m, b, s)
  <1> DEFINE h == Execute(m, b, s, i)
  <1>1. Frames(m, h.m, b)
    BY ExecuteOutcome DEF Outcomes, Evolves
  <1>2. m \in Machines /\ PinsKept(m, m)
    BY RegisterWritesKeepPins DEF MachineOK
  <1>3. i.op \in {"JMP", "WAIT", "IN", "OUT", "PUSH", "PULL", "MOVRX", "MOV", "IRQ", "SET"}
    BY InsnFields
  <1>4. CASE i.op = "OUT"
    <2>1. h = exec_out(m, b, s, i) /\ i.cnt \in 1 .. WORD_BITS
      BY <1>4, InsnFields DEF Execute
    <2> HIDE DEF h
    <2>2. Frames(m, exec_out(m, b, s, i).m, b)
      BY <1>1, <2>1
    <2>3. PinStep(m, h.m, b, s)
      BY <2>1, <2>2, OutPinStep
    <2> QED  BY <2>3 DEF h
  <1>5. CASE i.op \in {"MOV", "SET"}
    <2>1. PinsKept(m, h.m) \/ PinStep(m, h.m, b, s)
      BY <1>5, StoresPinStep DEF Execute, exec_mov
    <2> HIDE DEF h
    <2>2. PinStep(m, h.m, b, s)
      BY <1>1, <1>2, <2>1, KeptThenPinStep
    <2> QED  BY <2>2 DEF h
  <1>6. CASE i.op \in {"JMP", "WAIT", "IN", "PUSH", "PULL", "MOVRX", "IRQ"}
    <2>1. PinsKept(m, h.m)
      BY <1>2, <1>6, InsnFields, HandlersKeepPins DEF Execute
    <2> HIDE DEF h
    <2>2. PinStep(m, h.m, b, s)
      BY <1>1, <1>2, <2>1, KeptThenPinStep
    <2> QED  BY <2>2 DEF h
  <1> QED  BY <1>3, <1>4, <1>5, <1>6

(* An instruction and its side-set.                                        *)
LEMMA ExecOneShifts ==
    ASSUME NEW m, MachineOK(m), NEW b \in Blocks, NEW s \in SMs, InsnOK, NEW i \in Insns
    PROVE  Shifts(m, exec_one(m, b, s, i).m, b, s)
  <1> DEFINE h == Execute(m, b, s, i)
             y == h.m
             z == SideSet(y, b, s, i)
  <1>1. PinStep(m, y, b, s) /\ h \in Outcomes(m, b)
    BY ExecutePinStep, ExecuteOutcome
  <1>2. exec_one(m, b, s, i).m = z
    <2>1. exec_one(m, b, s, i) = [h EXCEPT !.m = z]
      BY DEF exec_one
    <2> HIDE DEF h, z
    <2> QED  BY <1>1, <2>1 DEF Outcomes
  <1>3. MachineOK(y)
    BY <1>1 DEF PinStep, Frames
  <1> HIDE DEF h, y
  <1>4. y.cfg[b][s] \in Confs
    BY <1>3, SmRecAt
  <1>5. y.cfg[b][s].sideset_base \in Nat /\ y.cfg[b][s].sideset_bits \in Nat
    BY <1>4 DEF Confs
  <1>6. PinStep(y, y, b, s)
    BY <1>3, FramesRefl, NoPinStep
  <1>7. PinStep(y, z, b, s) /\ y.reg[b][s].wrote \subseteq z.reg[b][s].wrote
    BY <1>3, <1>5, <1>6, DrivePinStep DEF SideSet
  <1> HIDE DEF z
  <1>8. Shifts(m, z, b, s)
    BY <1>1, <1>7, TwoPinSteps
  <1> QED  BY <1>2, <1>8

(***************************************************************************)
(* Cycles and ticks.                                                       *)
(***************************************************************************)

(* Register writes around the pin writes of one state machine.             *)
LEMMA KeptShifts ==
    ASSUME NEW m, NEW y, NEW z, NEW w, NEW b, NEW s,
           PinsKept(m, y), Shifts(y, z, b, s), PinsKept(z, w), Frames(m, w, b)
    PROVE  Shifts(m, w, b, s)
  <1>1. y.reg = m.reg /\ y.pads = m.pads /\ w.reg = z.reg /\ w.pads = z.pads
    BY DEF PinsKept
  <1>2. Others(m, w, b, s)
    BY <1>1 DEF Shifts, Others
  <1>3. Moves(m, w)
    BY <1>1 DEF Shifts, Moves, Backed
  <1>4. Settled(m) => Settled(w)
    BY <1>1 DEF Shifts, Settled, SettledPad
  <1> QED  BY <1>2, <1>3, <1>4 DEF Shifts

(* Writing no pin at all.                                                  *)
LEMMA ShiftsRefl ==
    ASSUME NEW m, MachineOK(m), NEW b \in Blocks, NEW s \in SMs
    PROVE  Shifts(m, m, b, s)
  BY FramesRefl, NoPinStep, PinStepShifts

(* A cycle: the pin writes are those of its instruction.                   *)
LEMMA CycleShifts ==
    ASSUME NEW m, MachineOK(m), NEW b \in Blocks, NEW s \in SMs, InsnOK
    PROVE  Shifts(m, DelayOrExecute(m, insn, b, s), b, s)
  <1> DEFINE r == m.sm[b][s]
             i == IF r.exec_pending THEN r.exec_insn ELSE insn[b][r.pc]
             h == exec_one(m, b, s, i)
             q == [r EXCEPT !.delay = @ - 1]
             z == DelayOrExecute(m, insn, b, s)
  <1>0. Frames(m, z, b) /\ m \in Machines
    BY CycleEvolves DEF Evolves, MachineOK
  <1>1. i \in Insns
    <2>1. r \in SmRecs
      BY SmRecAt
    <2>2. r.exec_insn \in KnownInsns /\ r.pc \in PCs
      BY <2>1 DEF SmRecs
    <2> QED  BY <2>2, KnownAreInsns DEF InsnOK
  <1>2. CASE r.delay > 0
    <2>1. z = SetSm(m, b, s, q)
      BY <1>2 DEF DelayOrExecute
    <2>2. PinsKept(m, m) /\ PinsKept(m, SetSm(m, b, s, q))
      BY <1>0, RegisterWritesKeepPins
    <2> HIDE DEF q, z
    <2>3. Shifts(m, z, b, s)
      BY <1>0, <2>1, <2>2, ShiftsRefl, KeptShifts
    <2> QED  BY <2>3 DEF z
  <1>3. CASE ~(r.delay > 0)
    <2>1. PICK p : z = SetSm(h.m, b, s, p)
      BY <1>3 DEF DelayOrExecute, Commit
    <2>2. Shifts(m, h.m, b, s)
      <3> HIDE DEF i
      <3> QED  BY <1>1, ExecOneShifts
    <2> HIDE DEF h, z
    <2>3. h.m \in Machines
      BY <2>2 DEF Shifts, Frames, MachineOK
    <2>4. PinsKept(h.m, SetSm(h.m, b, s, p)) /\ PinsKept(m, m)
      BY <1>0, <2>3, RegisterWritesKeepPins
    <2>5. Shifts(m, z, b, s)
      BY <1>0, <2>1, <2>2, <2>4, KeptShifts
    <2> QED  BY <2>5 DEF z
  <1> QED  BY <1>2, <1>3

(* With the background refill that opens it.                               *)
LEMMA SmCycleShifts ==
    ASSUME NEW m, MachineOK(m), NEW b \in Blocks, NEW s \in SMs, InsnOK
    PROVE  Shifts(m, sm_cycle(m, insn, b, s), b, s)
  <1> DEFINE y == BackgroundRefill(m, b, s)
             z == DelayOrExecute(y, insn, b, s)
  <1>1. MachineOK(y) /\ m \in Machines
    BY RefillEvolves DEF Evolves, Frames, MachineOK
  <1>2. PinsKept(m, y)
    BY <1>1, RegisterWritesKeepPins DEF BackgroundRefill
  <1>3. sm_cycle(m, insn, b, s) = z
    BY DEF sm_cycle
  <1>4. Frames(m, z, b)
    BY <1>3, SmCycleEvolves DEF Evolves
  <1> HIDE DEF y
  <1>5. Shifts(y, z, b, s)
    BY <1>1, CycleShifts
  <1>6. MachineOK(z) /\ PinsKept(z, z)
    BY <1>4 DEF Frames, PinsKept
  <1> HIDE DEF z
  <1>7. Shifts(m, z, b, s)
    BY <1>2, <1>4, <1>5, <1>6, KeptShifts
  <1> QED  BY <1>3, <1>7

(* An injected instruction.                                                *)
LEMMA SmExecShifts ==
    ASSUME NEW m, MachineOK(m), NEW b \in Blocks, NEW s \in SMs, InsnOK, NEW i \in ExecInsns
    PROVE  Shifts(m, sm_exec(m, b, s, i), b, s)
  <1> DEFINE y == SetSm(m, b, s, [m.sm[b][s] EXCEPT !.stalled = FALSE])
             h == exec_one(y, b, s, i)
             z == sm_exec(m, b, s, i)
  <1>0. Evolves(m, z, b) /\ Evolves(m, y, b) /\ i \in KnownInsns /\ m \in Machines
    BY SmExecEvolves, StalledEvolves DEF MachineOK, KnownInsns
  <1>1. Frames(m, z, b) /\ MachineOK(y) /\ i \in Insns /\ PinsKept(m, y)
    BY <1>0, KnownAreInsns, RegisterWritesKeepPins DEF Evolves, Frames
  <1>2. PICK p : z = SetSm(h.m, b, s, p)
    BY DEF sm_exec
  <1> HIDE DEF y
  <1>3. Shifts(y, h.m, b, s)
    BY <1>1, ExecOneShifts
  <1> HIDE DEF h, z
  <1>4. h.m \in Machines
    BY <1>3 DEF Shifts, Frames, MachineOK
  <1>5. PinsKept(h.m, SetSm(h.m, b, s, p))
    BY <1>4, RegisterWritesKeepPins
  <1>6. Shifts(m, z, b, s)
    BY <1>1, <1>2, <1>3, <1>5, KeptShifts
  <1> QED  BY <1>6 DEF z

(* The pads of block b: a level that differs is claimed now.               *)
Claimed(m, z, b) ==
    \A n \in Pins :
      (n \in m.pads[PadOf(b)].pin_levels) # (n \in z.pads[PadOf(b)].pin_levels)
        => LevelClaims(z.pads[PadOf(b)], z.reg, n) # {}

(* A state machine that re-asserts on every tick: enabled, sticky and not  *)
(* divided.                                                                *)
Asserting(m, b, s) ==
    m.sm[b][s].enabled /\ m.cfg[b][s].out_sticky /\ m.cfg[b][s].div = DIV_ONE

(* The state machine has every pin it drives in its write window.          *)
Asserted(m, b, s) == m.reg[b][s].oe \subseteq m.reg[b][s].wrote

(* A tick of one state machine: levels move where somebody writes, and an  *)
(* asserting state machine writes all it drives.                           *)
LEMMA SmTickClaims ==
    ASSUME NEW m, MachineOK(m), NEW b \in Blocks, NEW s \in SMs, InsnOK
    PROVE  LET z == SmTick(m, insn, b, s)
           IN  /\ Others(m, z, b, s) /\ Claimed(m, z, b)
               /\ Asserting(m, b, s) => Asserted(z, b, s)
  <1> DEFINE r == m.sm[b][s]
             c == m.cfg[b][s]
             q == [r EXCEPT !.clk_accum = div_next(@, c.div)]
             z == SetSm(m, b, s, q)
             y == sm_cycle(z, insn, b, s)
             v == y.reg[b][s].wrote \union y.reg[b][s].oe
             x == [y EXCEPT !.reg[b][s].wrote = v]
             w == SmTick(m, insn, b, s)
             due == div_due(r.clk_accum, c.div)
  <1>1. r \in SmRecs /\ c \in Confs /\ m \in Machines
    BY SmRecAt DEF MachineOK
  <1>2. PinsKept(m, z)
    BY <1>1, RegisterWritesKeepPins
  <1>3. w = IF due /\ r.enabled THEN (IF ~c.out_sticky THEN y ELSE x) ELSE z
    BY DEF SmTick
  <1>4. c.div = DIV_ONE => due
    <2>1. r.clk_accum \in Nat /\ c.div \in Nat /\ DIV_ONE \in Nat
      BY <1>1, DivAssumption DEF SmRecs, Confs
    <2> HIDE DEF r, c
    <2> QED  BY <2>1 DEF div_due
  <1>5. Asserting(m, b, s) <=> r.enabled /\ c.out_sticky /\ c.div = DIV_ONE
    BY DEF Asserting
  <1>6. MachineOK(z)
    <2> DEFINE a == div_next(r.clk_accum, c.div)
    <2>1. a \in Nat
      <3>1. r.clk_accum \in Nat /\ c.div \in Nat /\ DIV_ONE \in Nat
        BY <1>1, DivAssumption DEF SmRecs, Confs
      <3> HIDE DEF r, c
      <3> QED  BY <3>1 DEF div_next, div_due
    <2>2. q = [r EXCEPT !.clk_accum = a]
      OBVIOUS
    <2> HIDE DEF a
    <2>3. q \in SmRecs /\ q.enabled = r.enabled /\ q.tx = r.tx /\ q.rx = r.rx
      BY <1>1, <2>1, <2>2 DEF SmRecs
    <2> HIDE DEF q
    <2> QED  BY <2>3, StoreSm DEF Evolves, Frames
  <1> HIDE DEF z, due, r, c
  <1>7. Shifts(z, y, b, s)
    BY <1>6, SmCycleShifts
  <1> HIDE DEF y
  <1>8. MachineOK(y) /\ y \in Machines /\ y.reg \in [Blocks -> [SMs -> PinRegs]]
    BY <1>7 DEF Shifts, Frames, MachineOK, Machines
  <1>9. Others(m, y, b, s) /\ Claimed(m, y, b)
    <2>1. Others(m, y, b, s)
      BY <1>2, <1>7 DEF Shifts, Others, PinsKept
    <2>2. Claimed(m, y, b)
      BY <1>2, <1>7, PadOfType DEF Shifts, Moves, Backed, Claimed, PinsKept
    <2> QED  BY <2>1, <2>2
  <1>10. Others(m, z, b, s) /\ Claimed(m, z, b)
    BY <1>2 DEF Others, Claimed, PinsKept
  <1>11. /\ x.pads = y.pads
         /\ \A o \in Blocks, t \in SMs : (o # b \/ t # s) => x.reg[o][t] = y.reg[o][t]
         /\ x.reg[b][s].wrote = v /\ x.reg[b][s].oe = y.reg[b][s].oe
    <2> DEFINE p == y.reg[b][s]
               e == [p EXCEPT !.wrote = v]
    <2>1. e.wrote = v /\ e.oe = p.oe
      <3>1. p \in PinRegs
        BY <1>8
      <3> HIDE DEF p, v
      <3> QED  BY <3>1 DEF PinRegs
    <2>2. x = [y EXCEPT !.reg[b][s] = e]
      OBVIOUS
    <2> HIDE DEF e, x, v
    <2>3. x.pads = y.pads /\ x.reg = [y.reg EXCEPT ![b][s] = e]
      BY <1>8, <2>2 DEF Machines
    <2>4. /\ x.reg[b][s] = e
          /\ \A o \in Blocks, t \in SMs : (o # b \/ t # s) => x.reg[o][t] = y.reg[o][t]
      BY <1>8, <2>3
    <2> QED  BY <2>1, <2>3, <2>4
  <1> HIDE DEF x
  <1>12. \A o \in Blocks, t \in SMs : y.reg[o][t].wrote \subseteq x.reg[o][t].wrote
    BY <1>11
  <1>13. Others(m, x, b, s)
    BY <1>9, <1>11 DEF Others
  <1>14. Claimed(m, x, b)
    <2>1. PadOf(b) \in PadSets /\ SameRouting(x.pads[PadOf(b)], y.pads[PadOf(b)])
      BY <1>11, PadOfType DEF SameRouting
    <2>2. \A n : LevelClaims(y.pads[PadOf(b)], y.reg, n)
                   \subseteq LevelClaims(x.pads[PadOf(b)], x.reg, n)
      BY <1>8, <1>12, <2>1, ClaimsGrow
    <2> QED  BY <1>9, <1>11, <2>2 DEF Claimed
  <1>15. Asserted(x, b, s)
    BY <1>11 DEF Asserted
  <1> HIDE DEF w
  <1>16. /\ Others(m, w, b, s) /\ Claimed(m, w, b)
         /\ Asserting(m, b, s) => Asserted(w, b, s)
    BY <1>3, <1>4, <1>5, <1>9, <1>10, <1>13, <1>14, <1>15
  <1> QED  BY <1>16 DEF w

(* Opening the write windows withdraws claims and does nothing else.       *)
LEMMA WindowOpened ==
    ASSUME NEW m, MachineOK(m), NEW S
    PROVE  \A o \in Blocks, s \in SMs :
             OpenWriteWindow(m, S).reg[o][s].wrote
               = IF o \in S THEN {} ELSE m.reg[o][s].wrote
  <1> DEFINE g == [o \in Blocks |-> [s \in SMs |->
                     IF o \in S THEN [m.reg[o][s] EXCEPT !.wrote = {}] ELSE m.reg[o][s]]]
  <1>1. m \in Machines /\ m.reg \in [Blocks -> [SMs -> PinRegs]]
    BY DEF MachineOK, Machines
  <1>2. OpenWriteWindow(m, S).reg = g
    <2> HIDE DEF g
    <2>1. [m EXCEPT !.reg = g].reg = g
      BY <1>1 DEF Machines
    <2> QED  BY <2>1 DEF OpenWriteWindow, g
  <1>3. \A p \in PinRegs : [p EXCEPT !.wrote = {}].wrote = {}
    BY DEF PinRegs
  <1>4. \A o \in Blocks, s \in SMs : g[o][s].wrote = IF o \in S THEN {} ELSE m.reg[o][s].wrote
    BY <1>1, <1>3
  <1> QED  BY <1>2, <1>4

(* Pads on which nobody has written are settled.                           *)
LEMMA UnclaimedSettled ==
    ASSUME NEW m, MachineOK(m), \A o \in Blocks, s \in SMs : m.reg[o][s].wrote = {}
    PROVE  Settled(m)
  <1> SUFFICES ASSUME NEW pd \in PadSets PROVE SettledPad(m, pd)
    BY DEF Settled
  <1> DEFINE p == m.pads[pd]
             r == m.reg
  <1>1. /\ p \in Pads /\ p.owners \in Seq(Blocks) /\ Len(p.owners) \in Nat
        /\ \A i \in 1 .. Len(p.owners) : p.owners[i] \in Blocks
        /\ \A o \in Blocks, s \in SMs : r[o][s].wrote = {}
    BY PadOwners DEF MachineOK, Machines
  <1> HIDE DEF p, r
  <1>2. p.pin_levels \subseteq Pins
    BY <1>1 DEF Pads
  <1>3. \A n : LevelClaims(p, r, n) = {}
    <2>1. \A c \in Slots0(p) \X SMs : RegAt(p, r, c).wrote = {}
      <3> SUFFICES ASSUME NEW c \in Slots0(p) \X SMs PROVE RegAt(p, r, c).wrote = {}
        OBVIOUS
      <3>1. c[1] + 1 \in 1 .. Len(p.owners) /\ c[2] \in SMs
        BY <1>1 DEF Slots0
      <3> QED  BY <1>1, <3>1 DEF RegAt
    <2> QED  BY <2>1 DEF LevelClaims
  <1>4. ResolvedLevels(p, r) = {n \in Pins : n \in p.pin_levels}
    BY <1>3 DEF ResolvedLevels
  <1> QED  BY <1>2, <1>4 DEF SettledPad, p, r

(* After k state machines of block b have ticked: the windows of the rest  *)
(* are still closed, levels have moved only where somebody writes, and the *)
(* asserting ones among the k write all they drive.                        *)
Ticked(m, z, b, k) ==
    /\ \A t \in SMs : t >= k => z.reg[b][t].wrote = {}
    /\ Claimed(m, z, b)
    /\ \A t \in SMs : t < k /\ Asserting(m, b, t) => Asserted(z, b, t)

(* One more state machine.                                                 *)
LEMMA OneMoreTicked ==
    ASSUME NEW m, NEW y, MachineOK(y), NEW z, NEW b \in Blocks, NEW k \in SMs,
           Frames(m, y, b), Ticked(m, y, b, k), Frames(y, z, b),
           Others(y, z, b, k), Claimed(y, z, b), Asserting(y, b, k) => Asserted(z, b, k)
    PROVE  Ticked(m, z, b, k + 1)
  <1>0. k \in Nat /\ \A t \in SMs : t \in Nat
    BY PadsAssumption DEF SMs
  <1>1. \A t \in SMs : t >= k + 1 => z.reg[b][t].wrote = {}
    <2>1. \A t \in SMs : t >= k + 1 => t # k /\ t >= k
      BY <1>0
    <2> QED  BY <2>1 DEF Ticked, Others
  <1>2. Claimed(m, z, b)
    <2>1. \A o \in Blocks, t \in SMs : y.reg[o][t].wrote \subseteq z.reg[o][t].wrote
      <3> SUFFICES ASSUME NEW o \in Blocks, NEW t \in SMs
                   PROVE  y.reg[o][t].wrote \subseteq z.reg[o][t].wrote
        OBVIOUS
      <3>1. CASE o = b /\ t = k
        BY <1>0, <3>1 DEF Ticked
      <3>2. CASE o # b \/ t # k
        BY <3>2 DEF Others
      <3> QED  BY <3>1, <3>2
    <2>2. PadOf(b) \in PadSets /\ SameRouting(z.pads[PadOf(b)], y.pads[PadOf(b)])
      BY PadOfType DEF Frames
    <2>3. \A n : LevelClaims(y.pads[PadOf(b)], y.reg, n)
                   \subseteq LevelClaims(z.pads[PadOf(b)], z.reg, n)
      BY <2>1, <2>2, ClaimsGrow
    <2>4. Claimed(m, y, b)
      BY DEF Ticked
    <2> QED  BY <2>3, <2>4 DEF Claimed
  <1>3. ASSUME NEW t \in SMs, t < k + 1, Asserting(m, b, t) PROVE Asserted(z, b, t)
    <2>1. CASE t = k
      <3>1. Asserting(y, b, k)
        BY <1>3, <2>1 DEF Asserting, Frames
      <3> QED  BY <2>1, <3>1
    <2>2. CASE t # k
      <3>1. t < k
        BY <1>0, <1>3, <2>2
      <3>2. Asserted(y, b, t)
        BY <1>3, <3>1 DEF Ticked
      <3> QED  BY <2>2, <3>2 DEF Asserted, Others
    <2> QED  BY <2>1, <2>2
  <1> QED  BY <1>1, <1>2, <1>3 DEF Ticked

(* Resolving pads on which every moved level is claimed.                   *)
LEMMA ClaimedThenResolved ==
    ASSUME NEW m, NEW y, MachineOK(y), NEW z, NEW b \in Blocks,
           Frames(m, y, b), Claimed(m, y, b), Frames(y, z, b), z.reg = y.reg,
           z.pads[PadOf(b)].pin_levels = ResolvedLevels(y.pads[PadOf(b)], y.reg)
    PROVE  Moves(m, z) /\ SettledPad(z, PadOf(b))
  <1>1. PadOf(b) \in PadSets
    BY PadOfType
  <1>2. z.pads[PadOf(b)].pin_levels = ResolvedLevels(y.pads[PadOf(b)], z.reg)
    OBVIOUS
  <1>3. /\ SettledPad(z, PadOf(b)) 
        /\ \A n \in Pins :
             /\ LevelClaims(z.pads[PadOf(b)], z.reg, n) = {} =>
                  (n \in z.pads[PadOf(b)].pin_levels <=> n \in y.pads[PadOf(b)].pin_levels)
             /\ LevelClaims(z.pads[PadOf(b)], z.reg, n) # {} => Backed(z, PadOf(b), n)
    BY <1>2, ResolvedSettles
  <1>4. \A n : LevelClaims(z.pads[PadOf(b)], z.reg, n) = LevelClaims(y.pads[PadOf(b)], y.reg, n)
    <2>1. SameRouting(z.pads[PadOf(b)], y.pads[PadOf(b)])
      BY <1>1 DEF Frames
    <2>2. SameClaimants(y.pads[PadOf(b)], y.reg, z.pads[PadOf(b)], z.reg)
      BY <1>1, <2>1, PadClaimants
    <2> QED  BY <2>2, LevelClaimsDepend
  <1>5. \A pd \in PadSets : pd # PadOf(b) => z.pads[pd] = m.pads[pd]
    BY DEF Frames
  <1>6. ASSUME NEW n \in Pins,
               (n \in m.pads[PadOf(b)].pin_levels) # (n \in z.pads[PadOf(b)].pin_levels)
        PROVE  Backed(z, PadOf(b), n)
    <2>1. CASE LevelClaims(z.pads[PadOf(b)], z.reg, n) # {}
      BY <1>3, <2>1
    <2>2. CASE LevelClaims(z.pads[PadOf(b)], z.reg, n) = {}
      <3>1. (n \in m.pads[PadOf(b)].pin_levels) # (n \in y.pads[PadOf(b)].pin_levels)
        BY <1>3, <1>6, <2>2
      <3> QED  BY <1>4, <2>2, <3>1 DEF Claimed
    <2> QED  BY <2>1, <2>2
  <1>7. Moves(m, z)
    BY <1>5, <1>6 DEF Moves
  <1> QED  BY <1>3, <1>7

(* A tick of block b.                                                      *)
LEMMA TickBlockClaims ==
    ASSUME NEW m, MachineOK(m), NEW b \in Blocks, InsnOK
    PROVE  LET z == TickBlock(m, insn, b)
           IN  /\ Frames(m, z, b) /\ Moves(m, z) /\ SettledPad(z, PadOf(b))
               /\ \A s \in SMs : Asserting(m, b, s) => Asserted(z, b, s)
  <1> DEFINE z == TickBlock(m, insn, b)
  <1>1. PICK g : TickChain(g, m, b)
    BY TickIsChain
  <1>2. NUM_SM \in Nat /\ \A k \in SMs : k \in Nat /\ k < NUM_SM
    BY PadsAssumption DEF SMs
  <1>3. \A k \in 0 .. NUM_SM : Frames(m, g[k], b) /\ MachineOK(g[k])
    BY <1>1 DEF TickChain, Evolves, Frames
  <1> DEFINE S == {k \in Nat : k <= NUM_SM => Ticked(m, g[k], b, k)}
  <1>4. 0 \in S
    <2>1. g[0] = OpenWriteWindow(m, {b})
      BY <1>1 DEF TickChain
    <2>2. \A t \in SMs : g[0].reg[b][t].wrote = {}
      BY <2>1, WindowOpened
    <2>3. g[0].pads = m.pads
      BY <2>1, WindowFrame
    <2>4. Claimed(m, g[0], b)
      BY <2>3 DEF Claimed
    <2>5. \A t \in SMs : ~(t < 0)
      BY <1>2
    <2> QED  BY <2>2, <2>4, <2>5 DEF Ticked
  <1>5. ASSUME NEW k \in Nat, k \in S PROVE k + 1 \in S
    <2> SUFFICES ASSUME k + 1 <= NUM_SM PROVE Ticked(m, g[k + 1], b, k + 1)
      OBVIOUS
    <2> DEFINE y == g[k]
               x == SmTick(y, insn, b, k)
    <2>1. k \in SMs /\ k \in 0 .. NUM_SM /\ k + 1 \in 0 .. NUM_SM /\ k <= NUM_SM
      BY <1>2 DEF SMs
    <2>2. /\ g[k + 1] = x /\ Ticked(m, y, b, k) /\ Frames(m, y, b) /\ MachineOK(y)
      BY <1>1, <1>3, <1>5, <2>1 DEF TickChain
    <2> HIDE DEF y
    <2>3. /\ Others(y, x, b, k) /\ Claimed(y, x, b)
          /\ Asserting(y, b, k) => Asserted(x, b, k)
      BY <2>1, <2>2, SmTickClaims
    <2>4. Frames(y, x, b)
      BY <2>1, <2>2, SmTickEvolves DEF Evolves
    <2> HIDE DEF x
    <2>5. Ticked(m, x, b, k + 1)
      BY <2>1, <2>2, <2>3, <2>4, OneMoreTicked
    <2> QED  BY <2>2, <2>5
  <1> HIDE DEF S
  <1>6. Nat \subseteq S
    BY <1>4, <1>5, SetInduction
  <1> DEFINE y == g[NUM_SM]
  <1>7. Frames(m, y, b) /\ MachineOK(y) /\ Ticked(m, y, b, NUM_SM)
    BY <1>2, <1>3, <1>6 DEF S
  <1>8. z = ResolvePads(y, b)
    BY <1>1 DEF TickChain
  <1> HIDE DEF y, z
  <1>9. /\ Frames(y, z, b) /\ z.reg = y.reg
        /\ z.pads[PadOf(b)].pin_levels = ResolvedLevels(y.pads[PadOf(b)], y.reg)
    BY <1>7, <1>8, ResolvePadsLevels
  <1>10. Moves(m, z) /\ SettledPad(z, PadOf(b))
    BY <1>7, <1>9, ClaimedThenResolved DEF Ticked
  <1>11. Frames(m, z, b)
    BY <1>7, <1>9, FramesTrans
  <1>12. \A s \in SMs : Asserting(m, b, s) => Asserted(z, b, s)
    BY <1>2, <1>7, <1>9 DEF Ticked, Asserted
  <1> QED  BY <1>10, <1>11, <1>12 DEF z

(* A tick settles all pads if the other blocks' were settled.              *)
LEMMA TickBlockSettles ==
    ASSUME NEW m, MachineOK(m), NEW b \in Blocks, NEW z,
           Frames(m, z, b), Settled(m), SettledPad(z, PadOf(b))
    PROVE  Settled(z)
  <1> SUFFICES ASSUME NEW pd \in PadSets, pd # PadOf(b) PROVE SettledPad(z, pd)
    BY DEF Settled
  <1>1. z.pads[pd] = m.pads[pd] /\ SameRouting(z.pads[pd], m.pads[pd])
    BY DEF Frames
  <1>2. \A o \in Blocks, s \in SMs : PadOf(o) = pd => z.reg[o][s] = m.reg[o][s]
    BY DEF Frames
  <1> QED  BY <1>1, <1>2, SettledDepends DEF Settled

(* A step that moves no level and no pin register.                         *)
LEMMA LevelsKept ==
    ASSUME NEW m, MachineOK(m), NEW z, z.reg = m.reg,
           \A pd \in PadSets : /\ SameRouting(z.pads[pd], m.pads[pd])
                               /\ z.pads[pd].pin_levels = m.pads[pd].pin_levels
    PROVE  Moves(m, z) /\ (Settled(m) => Settled(z))
  <1>1. \A pd \in PadSets : SettledPad(m, pd) => SettledPad(z, pd)
    BY SettledDepends
  <1> QED  BY <1>1 DEF Moves, Settled

(* What a call on the state machines K of block b may do: levels move to a *)
(* claimed value only, settled pads stay settled, and the pin registers,   *)
(* configuration and enable of every other state machine are left alone.   *)
Touches(m, z, b, K) ==
    /\ MachineOK(z) /\ Moves(m, z) /\ (Settled(m) => Settled(z))
    /\ \A pd \in PadSets : SameRouting(z.pads[pd], m.pads[pd])
    /\ \A o \in Blocks, t \in SMs : (o # b \/ t \notin K) =>
         /\ z.reg[o][t] = m.reg[o][t] /\ z.cfg[o][t] = m.cfg[o][t]
         /\ z.sm[o][t].enabled = m.sm[o][t].enabled

(* The pin writes of one state machine are such a call.                    *)
LEMMA ShiftsTouches ==
    ASSUME NEW m, NEW z, NEW b, NEW K, NEW s \in K, Shifts(m, z, b, s)
    PROVE  Touches(m, z, b, K)
  <1>1. /\ MachineOK(z) /\ z.cfg = m.cfg
        /\ \A pd \in PadSets : SameRouting(z.pads[pd], m.pads[pd])
        /\ \A o \in Blocks, t \in SMs : z.sm[o][t].enabled = m.sm[o][t].enabled
    BY DEF Shifts, Frames
  <1>2. \A o \in Blocks, t \in SMs : (o # b \/ t \notin K) => z.reg[o][t] = m.reg[o][t]
    BY DEF Shifts, Others
  <1> QED  BY <1>1, <1>2 DEF Touches, Shifts

(* So is a step that keeps levels and pin registers.                       *)
LEMMA KeptTouches ==
    ASSUME NEW m, MachineOK(m), NEW z, NEW b, NEW K, Frames(m, z, b), z.reg = m.reg,
           \A pd \in PadSets : z.pads[pd].pin_levels = m.pads[pd].pin_levels
    PROVE  Touches(m, z, b, K)
  <1>1. /\ MachineOK(z) /\ z.cfg = m.cfg
        /\ \A pd \in PadSets : SameRouting(z.pads[pd], m.pads[pd])
        /\ \A o \in Blocks, t \in SMs : z.sm[o][t].enabled = m.sm[o][t].enabled
    BY DEF Frames
  <1>2. Moves(m, z) /\ (Settled(m) => Settled(z))
    BY <1>1, LevelsKept
  <1> QED  BY <1>1, <1>2 DEF Touches

(* Register writes before or after such a call.                            *)
LEMMA TouchesKept ==
    ASSUME NEW m, NEW y, NEW x, NEW z, NEW b, NEW K, PinsKept(m, y),
           Touches(y, x, b, K), PinsKept(x, z), MachineOK(z),
           \A o \in Blocks, t \in SMs : (o # b \/ t \notin K) =>
             /\ z.cfg[o][t] = m.cfg[o][t] /\ z.sm[o][t].enabled = m.sm[o][t].enabled
    PROVE  Touches(m, z, b, K)
  <1>1. y.reg = m.reg /\ y.pads = m.pads /\ z.reg = x.reg /\ z.pads = x.pads
    BY DEF PinsKept
  <1>2. Moves(m, z)
    BY <1>1 DEF Touches, Moves, Backed
  <1>3. Settled(m) => Settled(z)
    BY <1>1 DEF Touches, Settled, SettledPad
  <1>4. /\ \A pd \in PadSets : SameRouting(z.pads[pd], m.pads[pd])
        /\ \A o \in Blocks, t \in SMs : (o # b \/ t \notin K) => z.reg[o][t] = m.reg[o][t]
    BY <1>1 DEF Touches
  <1> QED  BY <1>2, <1>3, <1>4 DEF Touches

(* A call on some state machines is a call on more.                        *)
LEMMA TouchesMore ==
    ASSUME NEW m, NEW z, NEW b, NEW L, NEW K \in SUBSET L, Touches(m, z, b, K)
    PROVE  Touches(m, z, b, L)
  BY DEF Touches

(***************************************************************************)
(* The specification.                                                      *)
(***************************************************************************)

(* Becoming the well-formed machine z.                                     *)
LEMMA BecomeOK ==
    ASSUME NEW z, MachineOK(z), Become(z), UNCHANGED insn
    PROVE  Machine' = z /\ MachineOK(Machine)'
  <1>1. z \in Machines
    BY DEF MachineOK
  <1>2. Machine' = z
    BY <1>1 DEF Become, Machine, Machines
  <1>3. KnownInsns' = KnownInsns
    BY DEF KnownInsns
  <1>4. Machines' = Machines
    BY <1>3 DEF Machines, SmRecs
  <1>5. MachineOK(Machine)'
    BY <1>2, <1>4 DEF MachineOK
  <1> QED  BY <1>2, <1>5

(* The fields of the machine are the variables.                            *)
LEMMA MachineIs ==
    /\ Machine.cfg = cfg /\ Machine.sm = sm /\ Machine.reg = reg
    /\ Machine.irq = irq /\ Machine.pads = pads
  BY DEF Machine

(* Clocking the pads moves no level and no direction.                      *)
LEMMA ClockEvolves ==
    ASSUME NEW m, MachineOK(m), NEW b \in Blocks
    PROVE  LET z == [m EXCEPT !.pads[PadOf(b)] = ClockPads(@)]
           IN  /\ Evolves(m, z, b) /\ z.reg = m.reg
               /\ \A pd \in PadSets : z.pads[pd].pin_levels = m.pads[pd].pin_levels
  <1> DEFINE p == m.pads[PadOf(b)]
             q == ClockPads(p)
             z == [m EXCEPT !.pads[PadOf(b)] = q]
  <1>1. p \in Pads /\ PadOf(b) \in PadSets /\ m.pads \in [PadSets -> Pads]
    BY PadOfType DEF MachineOK, Machines
  <1>2. /\ q \in Pads /\ SameRouting(q, p) /\ SameDirs(q, p)
        /\ q.pin_levels = p.pin_levels
    <2> HIDE DEF p
    <2> QED  BY <1>1, ClockFrame
  <1> HIDE DEF q
  <1>3. /\ Frames(m, z, b) /\ z.reg = m.reg
        /\ z.pads = [m.pads EXCEPT ![PadOf(b)] = q]
    BY <1>2, SetPadsFrames
  <1> HIDE DEF z
  <1>4. z.pads[PadOf(b)].pin_dirs = p.pin_dirs
    BY <1>1, <1>2, <1>3 DEF SameDirs
  <1>5. Evolves(m, z, b)
    BY <1>3, <1>4, SameClaimsEvolves
  <1>6. \A pd \in PadSets : z.pads[pd].pin_levels = m.pads[pd].pin_levels
    BY <1>1, <1>2, <1>3
  <1> QED  BY <1>3, <1>5, <1>6 DEF z, q

(* Clocking after a block's callback, and after the last block.            *)
LEMMA ClocksOK ==
    ASSUME NEW m, MachineOK(m), NEW b \in Blocks
    PROVE  /\ Touches(m, ClockOwn(m, b), 0, {})
           /\ PadsFresh(m) => PadsFresh(ClockOwn(m, b))
           /\ \A pd \in PadSets : ClockOwn(m, b).pads[pd].pin_levels = m.pads[pd].pin_levels
           /\ Touches(m, ClockShared(ClockOwn(m, b)), 0, {})
           /\ PadsFresh(m) => PadsFresh(ClockShared(ClockOwn(m, b)))
  <1>1. ASSUME NEW o \in Blocks
        PROVE  LET z == [m EXCEPT !.pads[PadOf(o)] = ClockPads(@)]
               IN  /\ Touches(m, z, 0, {}) /\ (PadsFresh(m) => PadsFresh(z))
                   /\ \A pd \in PadSets : z.pads[pd].pin_levels = m.pads[pd].pin_levels
    <2> DEFINE z == [m EXCEPT !.pads[PadOf(o)] = ClockPads(@)]
    <2>1. /\ Evolves(m, z, o) /\ z.reg = m.reg
          /\ \A pd \in PadSets : z.pads[pd].pin_levels = m.pads[pd].pin_levels
      BY ClockEvolves
    <2> HIDE DEF z
    <2>2. Touches(m, z, o, {})
      BY <2>1, KeptTouches DEF Evolves
    <2>3. Touches(m, z, 0, {})
      BY <2>1, <2>2 DEF Touches, Evolves, Frames
    <2> QED  BY <2>1, <2>3 DEF z, Evolves
  <1>2. Touches(m, m, 0, {})
    BY FramesRefl, KeptTouches
  <1>3. CASE SHARED
    <2>1. ClockOwn(m, b) = m /\ 0 \in Blocks /\ PadOf(0) = 0
      BY <1>3, PadsAssumption DEF ClockOwn, Blocks, PadOf
    <2>2. ClockShared(m) = [m EXCEPT !.pads[PadOf(0)] = ClockPads(@)]
      BY <1>3, <2>1 DEF ClockShared
    <2> QED  BY <1>1, <1>2, <2>1, <2>2
  <1>4. CASE ~SHARED
    <2>1. PadOf(b) = b /\ \A y : ClockShared(y) = y
      BY <1>4 DEF PadOf, ClockShared
    <2>2. ClockOwn(m, b) = [m EXCEPT !.pads[PadOf(b)] = ClockPads(@)]
      BY <1>4, <2>1 DEF ClockOwn
    <2> QED  BY <1>1, <2>1, <2>2
  <1> QED  BY <1>3, <1>4

(* Every owner may drive every pin: the engine never reroutes them.        *)
Wired(m) == \A pd \in PadSets, o \in Blocks : m.pads[pd].pio_func_mask[o] = Pins

(* The asserting state machines of block b, unless the host calls on them, *)
(* have every pin they drive in their write window.                        *)
Reasserted(m, b) ==
    \A s \in SMs : Asserting(m, b, s) /\ <<b, s>> \notin host.sms => Asserted(m, b, s)

(* The inductive invariant.                                                *)
Inv ==
    /\ InsnOK /\ MachineOK(Machine) /\ turn \in 0 .. Idle
    /\ Settled(Machine) /\ Wired(Machine)
    /\ turn \in Blocks => Reasserted(Machine, turn)
    /\ "init" \notin host.calls => PadsFresh(Machine)

(* A step keeps it, and moves levels only to a claimed value.              *)
Safe == Inv' /\ Moves(Machine, Machine')

(* Rerouting nothing keeps all pins wired.                                 *)
LEMMA WiredKept ==
    ASSUME NEW m, NEW z, Wired(m), \A pd \in PadSets : SameRouting(z.pads[pd], m.pads[pd])
    PROVE  Wired(z)
  BY DEF Wired, SameRouting

(* Every step of the tick loop is safe.                                    *)
LEMMA StepSafe == Inv /\ Step => Safe
  <1> SUFFICES ASSUME Inv, Step PROVE Safe
    OBVIOUS
  <1>1. UNCHANGED <<insn, host>>
    BY DEF Step, StartTick, NextBlock, EndTick
  <1>2. InsnOK'
    BY <1>1 DEF Inv, InsnOK
  <1>3. ASSUME NEW z, MachineOK(z), PadsFresh(Machine) => PadsFresh(z), Become(z),
               turn' \in 0 .. Idle, Moves(Machine, z), Settled(z), Wired(z),
               turn' \in Blocks =>
                 \A s \in SMs : Asserting(z, turn', s) => Asserted(z, turn', s)
        PROVE  Safe
    <2>1. Machine' = z /\ MachineOK(Machine)'
      BY <1>1, <1>3, BecomeOK
    <2>2. PadsFresh(Machine) => PadsFresh(Machine)'
      BY <1>3, <2>1
    <2>3. Settled(Machine)' /\ Wired(Machine)' /\ Moves(Machine, Machine')
      BY <1>3, <2>1
    <2>4. (turn \in Blocks => Reasserted(Machine, turn))'
      BY <1>3, <2>1 DEF Reasserted
    <2> QED  BY <1>1, <1>2, <1>3, <2>1, <2>2, <2>3, <2>4 DEF Inv, Safe
  <1>4. CASE StartTick
    <2> DEFINE y == OpenWriteWindow(Machine, Blocks)
               z == TickBlock(y, insn, 0)
    <2>1. /\ MachineOK(y) /\ y.sm = Machine.sm /\ y.pads = Machine.pads
          /\ \A o \in Blocks, s \in SMs : /\ y.reg[o][s].dir = Machine.reg[o][s].dir
                                          /\ y.reg[o][s].oe = Machine.reg[o][s].oe
      BY WindowFrame DEF Inv
    <2>2. \A o \in Blocks, s \in SMs : y.reg[o][s].wrote = {}
      BY WindowOpened DEF Inv
    <2>3. Become(z) /\ turn' = 0
      BY <1>4 DEF StartTick
    <2> HIDE DEF y
    <2>4. PadsFresh(Machine) => PadsFresh(y)
      <3>1. \A pd \in PadSets : FreshPad(Machine, pd) => FreshPad(y, pd)
        BY <2>1, FreshDepends DEF Inv, SameRouting
      <3> QED  BY <3>1 DEF PadsFresh
    <2>5. Settled(y) /\ Wired(y)
      BY <2>1, <2>2, UnclaimedSettled DEF Inv, Wired
    <2>6. 0 \in Blocks /\ 0 \in 0 .. Idle
      BY PadsAssumption DEF Blocks, Idle
    <2>7. /\ PadsFresh(y) => PadsFresh(z)
          /\ Frames(y, z, 0) /\ Moves(y, z) /\ SettledPad(z, PadOf(0))
          /\ \A s \in SMs : Asserting(y, 0, s) => Asserted(z, 0, s)
      BY <2>1, <2>6, TickBlockEvolves, TickBlockClaims DEF Inv, Evolves
    <2> HIDE DEF z
    <2>8. Settled(z)
      BY <2>1, <2>5, <2>6, <2>7, TickBlockSettles
    <2>9. Moves(Machine, z)
      BY <2>1, <2>7 DEF Moves
    <2>10. Wired(z) /\ MachineOK(z)
      BY <2>5, <2>7, WiredKept DEF Frames
    <2>11. \A s \in SMs : Asserting(z, turn', s) => Asserted(z, turn', s)
      BY <2>3, <2>6, <2>7 DEF Asserting, Frames
    <2> QED  BY <1>3, <2>3, <2>4, <2>6, <2>7, <2>8, <2>9, <2>10, <2>11
  <1>5. CASE NextBlock
    <2> DEFINE y == ClockOwn(Machine, turn)
               b == turn + 1
               z == TickBlock(y, insn, b)
    <2>1. turn \in Blocks /\ b \in Blocks /\ b \in 0 .. Idle
      BY <1>5, PadsAssumption DEF NextBlock, Inv, Blocks, Idle
    <2>2. /\ Touches(Machine, y, 0, {}) /\ (PadsFresh(Machine) => PadsFresh(y))
          /\ \A pd \in PadSets : y.pads[pd].pin_levels = Machine.pads[pd].pin_levels
      BY <2>1, ClocksOK DEF Inv
    <2>3. Become(z) /\ turn' = b
      BY <1>5 DEF NextBlock
    <2> HIDE DEF y, b
    <2>4. MachineOK(y) /\ Settled(y) /\ Wired(y)
      BY <2>2, WiredKept DEF Inv, Touches
    <2>5. /\ PadsFresh(y) => PadsFresh(z)
          /\ Frames(y, z, b) /\ Moves(y, z) /\ SettledPad(z, PadOf(b))
          /\ \A s \in SMs : Asserting(y, b, s) => Asserted(z, b, s)
      BY <2>1, <2>4, TickBlockEvolves, TickBlockClaims DEF Inv, Evolves
    <2> HIDE DEF z
    <2>6. Settled(z)
      BY <2>1, <2>4, <2>5, TickBlockSettles
    <2>7. Moves(Machine, z)
      BY <2>2, <2>5 DEF Moves
    <2>8. Wired(z) /\ MachineOK(z)
      BY <2>4, <2>5, WiredKept DEF Frames
    <2>9. \A s \in SMs : Asserting(z, turn', s) => Asserted(z, turn', s)
      BY <2>1, <2>3, <2>5 DEF Asserting, Frames
    <2> QED  BY <1>3, <2>1, <2>2, <2>3, <2>5, <2>6, <2>7, <2>8, <2>9
  <1>6. CASE EndTick
    <2> DEFINE z == ClockShared(ClockOwn(Machine, turn))
    <2>1. turn \in Blocks /\ Idle \in 0 .. Idle /\ Idle \notin Blocks
      BY <1>6, PadsAssumption DEF EndTick, Inv, Blocks, Idle
    <2>2. Touches(Machine, z, 0, {}) /\ (PadsFresh(Machine) => PadsFresh(z))
      BY <2>1, ClocksOK DEF Inv
    <2>3. Become(z) /\ turn' = Idle
      BY <1>6 DEF EndTick
    <2> HIDE DEF z
    <2>4. MachineOK(z) /\ Moves(Machine, z) /\ Settled(z) /\ Wired(z)
      BY <2>2, WiredKept DEF Inv, Touches
    <2> QED  BY <1>3, <2>1, <2>2, <2>3, <2>4
  <1> QED  BY <1>4, <1>5, <1>6 DEF Step

(***************************************************************************)
(* Host calls.                                                             *)
(***************************************************************************)

(* A record that may replace r under configuration c.                      *)
Replaces(q, r, c) == q \in SmRecs /\ Fits(q, c) /\ q.enabled = r.enabled

(* A host call on state machines it serves and, unless it is               *)
(* pio_sim_sm_init, one that leaves the directions fresh.                  *)
LEMMA HostTouches ==
    ASSUME Inv, NEW op, NEW z, NEW b \in Blocks, HostCall(op, z),
           Touches(Machine, z, b, Served(b)),
           op # "init" => (PadsFresh(Machine) => PadsFresh(z))
    PROVE  Safe
  <1>1. op \in host.calls /\ Become(z) /\ UNCHANGED <<insn, turn, host>>
    BY DEF HostCall
  <1>2. Machine' = z /\ MachineOK(Machine)'
    BY <1>1, BecomeOK DEF Touches
  <1>3. "init" \notin host'.calls => PadsFresh(Machine)'
    BY <1>1, <1>2 DEF Inv
  <1>4. Settled(z) /\ Wired(z) /\ Moves(Machine, z)
    BY WiredKept DEF Inv, Touches
  <1>5. ASSUME NEW o \in Blocks, NEW s \in SMs, <<o, s>> \notin host.sms
        PROVE  /\ z.reg[o][s] = reg[o][s] /\ z.cfg[o][s] = cfg[o][s]
               /\ z.sm[o][s].enabled = sm[o][s].enabled
    <2>1. o # b \/ s \notin Served(b)
      BY <1>5 DEF Served
    <2> QED  BY <2>1, MachineIs DEF Touches
  <1>6. turn \in Blocks => Reasserted(z, turn)
    BY <1>5, MachineIs DEF Inv, Reasserted, Asserting, Asserted
  <1>7. Settled(Machine)' /\ Wired(Machine)' /\ Moves(Machine, Machine')
    BY <1>2, <1>4
  <1>8. (turn \in Blocks => Reasserted(Machine, turn))'
    BY <1>1, <1>2, <1>6 DEF Reasserted
  <1> QED  BY <1>1, <1>2, <1>3, <1>7, <1>8 DEF Inv, InsnOK, Safe

(* One whose effect an instruction could have.                             *)
LEMMA HostEvolves ==
    ASSUME Inv, NEW op, NEW z, NEW b \in Blocks, HostCall(op, z), Evolves(Machine, z, b),
           Touches(Machine, z, b, Served(b))
    PROVE  Safe
  BY HostTouches DEF Evolves

(* One that rewrites the registers of a state machine.                     *)
LEMMA HostReplaces ==
    ASSUME Inv, NEW op, NEW b \in Blocks, NEW s \in SMs, NEW q,
           HostCall(op, SetSm(Machine, b, s, q)), Replaces(q, sm[b][s], cfg[b][s])
    PROVE  Safe
  <1> DEFINE z == SetSm(Machine, b, s, q)
  <1>1. Evolves(Machine, z, b)
    BY MachineIs, StoreSm DEF Inv, Replaces
  <1>2. PinsKept(Machine, z)
    BY RegisterWritesKeepPins DEF Inv, MachineOK
  <1> HIDE DEF z
  <1>3. Touches(Machine, z, b, Served(b))
    BY <1>1, <1>2, KeptTouches DEF Inv, Evolves, PinsKept
  <1> QED  BY <1>1, <1>3, HostEvolves DEF z

(* A state machine of the engine.                                          *)
LEMMA CurrentSm ==
    ASSUME Inv, NEW b \in Blocks, NEW s \in SMs
    PROVE  sm[b][s] \in SmRecs /\ cfg[b][s] \in Confs /\ Fits(sm[b][s], cfg[b][s])
  BY MachineIs, SmRecAt DEF Inv

(* Calls on the FIFOs.                                                     *)
LEMMA FifoCalls ==
    ASSUME NEW r \in SmRecs, NEW c, Fits(r, c), NEW w \in Words, NEW idx \in RegIdx
    PROVE  /\ Replaces(PutWord(r, w), r, c) /\ Replaces(GetWord(r), r, c)
           /\ Replaces([r EXCEPT !.tx = fifo_clear(@), !.rx = fifo_clear(@)], r, c)
           /\ Replaces([r EXCEPT !.rx.buf[idx] = w], r, c)
  <1>1. /\ r.tx \in Fifo(Words) /\ RingOK(r.tx) /\ r.rx \in Fifo(Words) /\ RingOK(r.rx)
        /\ r.tx.cap = TxCap(c.fifo_join) /\ r.rx.cap = RxCap(c.fifo_join)
        /\ rx_fifo_is_register_file(c.fifo_join) => r.rx.count = 0
    BY DEF SmRecs, Fits
  <1>2. ASSUME NEW f \in Fifo(Words), RingOK(f), f.cap = r.tx.cap
        PROVE  Replaces([r EXCEPT !.tx = f], r, c)
    <2> DEFINE q == [r EXCEPT !.tx = f]
    <2>1. q \in SmRecs /\ q.enabled = r.enabled /\ q.tx = f /\ q.rx = r.rx
      BY <1>2 DEF SmRecs
    <2> HIDE DEF q
    <2>2. Replaces(q, r, c)
      BY <1>1, <1>2, <2>1 DEF Replaces, Fits
    <2> QED  BY <2>2 DEF q
  <1>3. ASSUME NEW f \in Fifo(Words), RingOK(f), f.cap = r.rx.cap,
               rx_fifo_is_register_file(c.fifo_join) => f.count = 0
        PROVE  Replaces([r EXCEPT !.rx = f], r, c)
    <2> DEFINE q == [r EXCEPT !.rx = f]
    <2>1. q \in SmRecs /\ q.enabled = r.enabled /\ q.rx = f /\ q.tx = r.tx
      BY <1>3 DEF SmRecs
    <2> HIDE DEF q
    <2>2. Replaces(q, r, c)
      BY <1>1, <1>3, <2>1 DEF Replaces, Fits
    <2> QED  BY <2>2 DEF q
  <1>4. ASSUME NEW f \in FdebugFlags
        PROVE  Replaces([r EXCEPT !.fdebug = @ \union {f}], r, c)
    <2> DEFINE q == [r EXCEPT !.fdebug = @ \union {f}]
    <2>1. q \in SmRecs /\ q.enabled = r.enabled /\ q.rx = r.rx /\ q.tx = r.tx
      BY FlagOK
    <2> HIDE DEF q
    <2>2. Replaces(q, r, c)
      BY <1>1, <2>1 DEF Replaces, Fits
    <2> QED  BY <2>2 DEF q
  <1>5. Replaces(PutWord(r, w), r, c)
    <2>1. ~fifo_full(r.tx) => Replaces([r EXCEPT !.tx = fifo_push(@, w)], r, c)
      BY <1>1, <1>2, PushRing
    <2> QED  BY <1>4, <2>1 DEF PutWord, FdebugFlags
  <1>6. Replaces(GetWord(r), r, c)
    <2>1. ~fifo_empty(r.rx) => ~rx_fifo_is_register_file(c.fifo_join)
      BY <1>1 DEF fifo_empty
    <2>2. ~fifo_empty(r.rx) => Replaces([r EXCEPT !.rx = fifo_pop(@)], r, c)
      BY <1>1, <1>3, <2>1, PopRing
    <2> QED  BY <1>4, <2>2 DEF GetWord, FdebugFlags
  <1>7. Replaces([r EXCEPT !.tx = fifo_clear(@), !.rx = fifo_clear(@)], r, c)
    <2> DEFINE f == fifo_clear(r.tx)
               g == fifo_clear(r.rx)
               q == [r EXCEPT !.tx = f, !.rx = g]
    <2>1. /\ f \in Fifo(Words) /\ RingOK(f) /\ f.cap = r.tx.cap
          /\ g \in Fifo(Words) /\ RingOK(g) /\ g.cap = r.rx.cap /\ g.count = 0
      BY <1>1, ClearRing
    <2> HIDE DEF f, g
    <2>2. q \in SmRecs /\ q.enabled = r.enabled /\ q.rx = g /\ q.tx = f
      BY <2>1 DEF SmRecs
    <2> HIDE DEF q
    <2>3. Replaces(q, r, c)
      BY <1>1, <2>1, <2>2 DEF Replaces, Fits
    <2> QED  BY <2>3 DEF q, f, g
  <1>8. Replaces([r EXCEPT !.rx.buf[idx] = w], r, c)
    <2> DEFINE f == [r.rx EXCEPT !.buf[idx] = w]
    <2>1. f \in Fifo(Words) /\ RingOK(f) /\ f.cap = r.rx.cap /\ f.count = r.rx.count
      BY <1>1, StoreRing
    <2>2. [r EXCEPT !.rx.buf[idx] = w] = [r EXCEPT !.rx = f]
      OBVIOUS
    <2> HIDE DEF f
    <2> QED  BY <1>1, <1>3, <2>1, <2>2
  <1> QED  BY <1>5, <1>6, <1>7, <1>8

(* Calls on the execution state.                                           *)
LEMMA ExecCalls ==
    ASSUME NEW r \in SmRecs, NEW c, Fits(r, c), NEW w \in Words, NEW pc \in PCs, NEW F, InsnOK
    PROVE  /\ Replaces([r EXCEPT !.fdebug = @ \ F], r, c)
           /\ Replaces([r EXCEPT !.pc = pc], r, c)
           /\ Replaces([r EXCEPT !.status = <<w>>], r, c)
           /\ Replaces([r EXCEPT !.status = <<>>], r, c)
           /\ Replaces(sm_reset_exec(r, pc), r, c)
  <1>1. ASSUME NEW q \in SmRecs, q.enabled = r.enabled, q.tx = r.tx, q.rx = r.rx
        PROVE  Replaces(q, r, c)
    BY <1>1 DEF Replaces, Fits
  <1>2. Replaces([r EXCEPT !.fdebug = @ \ F], r, c)
    <2> DEFINE q == [r EXCEPT !.fdebug = @ \ F]
    <2>1. q \in SmRecs /\ q.enabled = r.enabled /\ q.tx = r.tx /\ q.rx = r.rx
      BY DEF SmRecs
    <2> HIDE DEF q
    <2>2. Replaces(q, r, c)
      BY <1>1, <2>1
    <2> QED  BY <2>2 DEF q
  <1>3. Replaces([r EXCEPT !.pc = pc], r, c)
    <2> DEFINE q == [r EXCEPT !.pc = pc]
    <2>1. q \in SmRecs /\ q.enabled = r.enabled /\ q.tx = r.tx /\ q.rx = r.rx
      BY DEF SmRecs
    <2> HIDE DEF q
    <2>2. Replaces(q, r, c)
      BY <1>1, <2>1
    <2> QED  BY <2>2 DEF q
  <1>4. ASSUME NEW v \in Seq(Words) PROVE Replaces([r EXCEPT !.status = v], r, c)
    <2> DEFINE q == [r EXCEPT !.status = v]
    <2>1. q \in SmRecs /\ q.enabled = r.enabled /\ q.tx = r.tx /\ q.rx = r.rx
      BY <1>4 DEF SmRecs
    <2> HIDE DEF q
    <2>2. Replaces(q, r, c)
      BY <1>1, <2>1
    <2> QED  BY <2>2 DEF q
  <1>5. <<w>> \in Seq(Words) /\ <<>> \in Seq(Words)
    OBVIOUS
  <1>6. Replaces(sm_reset_exec(r, pc), r, c)
    <2> DEFINE f == fifo_clear(r.tx)
               g == fifo_clear(r.rx)
               q == [r EXCEPT !.pc = pc, !.x = ZERO, !.y = ZERO, !.osr = ZERO, !.isr = ZERO,
                       !.osr_count = WORD_BITS, !.isr_count = 0, !.delay = 0,
                       !.stalled = FALSE, !.exec_pending = FALSE,
                       !.exec_insn = NoInsn, !.clk_accum = 0, !.tx = f, !.rx = g]
    <2>0. /\ r.tx \in Fifo(Words) /\ r.rx \in Fifo(Words)
          /\ r.tx.cap = TxCap(c.fifo_join) /\ r.rx.cap = RxCap(c.fifo_join)
      BY DEF SmRecs, Fits
    <2>1. /\ f \in Fifo(Words) /\ RingOK(f) /\ f.cap = r.tx.cap
          /\ g \in Fifo(Words) /\ RingOK(g) /\ g.cap = r.rx.cap /\ g.count = 0
      BY <2>0, ClearRing
    <2>2. /\ ZERO \in Words /\ 0 \in 0 .. WORD_BITS /\ WORD_BITS \in 0 .. WORD_BITS
          /\ NoInsn \in KnownInsns
      BY SameRings, WordBitsAssumption, KnownAreInsns
    <2>3. sm_reset_exec(r, pc) = q
      BY DEF sm_reset_exec
    <2> HIDE DEF f, g
    <2>4. q \in SmRecs /\ q.enabled = r.enabled /\ q.rx = g /\ q.tx = f
      BY <2>1, <2>2 DEF SmRecs
    <2> HIDE DEF q
    <2>5. Replaces(q, r, c)
      BY <2>0, <2>1, <2>4 DEF Replaces, Fits
    <2> QED  BY <2>3, <2>5
  <1> QED  BY <1>2, <1>3, <1>4, <1>5, <1>6

(* Writing the records of a whole block.                                   *)
LEMMA SetBlockSm ==
    ASSUME NEW m, MachineOK(m), NEW b \in Blocks, NEW g \in [SMs -> SmRecs],
           \A s \in SMs : Fits(g[s], m.cfg[b][s])
    PROVE  LET z == [m EXCEPT !.sm[b] = g]
           IN  /\ MachineOK(z) /\ z.cfg = m.cfg /\ z.reg = m.reg /\ z.pads = m.pads
               /\ z.sm[b] = g /\ \A o \in Blocks : o # b => z.sm[o] = m.sm[o]
  <1> DEFINE f == [m.sm EXCEPT ![b] = g]
             z == [m EXCEPT !.sm = f]
  <1>1. m \in Machines /\ m.sm \in [Blocks -> [SMs -> SmRecs]]
    BY DEF MachineOK, Machines
  <1>2. /\ f \in [Blocks -> [SMs -> SmRecs]] /\ f[b] = g
        /\ \A o \in Blocks : o # b => f[o] = m.sm[o]
    BY <1>1
  <1> HIDE DEF f
  <1>3. /\ z \in Machines /\ z.sm = f /\ z.cfg = m.cfg /\ z.reg = m.reg
        /\ z.irq = m.irq /\ z.pads = m.pads
    BY <1>1, <1>2 DEF Machines
  <1>4. [m EXCEPT !.sm[b] = g] = z
    BY DEF f
  <1> HIDE DEF z
  <1>5. \A o \in Blocks, s \in SMs : Fits(f[o][s], m.cfg[o][s])
    <2> SUFFICES ASSUME NEW o \in Blocks, NEW s \in SMs PROVE Fits(f[o][s], m.cfg[o][s])
      OBVIOUS
    <2>1. CASE o = b
      BY <1>2, <2>1
    <2>2. CASE o # b
      BY <1>2, <2>2 DEF MachineOK
    <2> QED  BY <2>1, <2>2
  <1>6. MachineOK(z)
    BY <1>3, <1>5 DEF MachineOK
  <1> QED  BY <1>2, <1>3, <1>4, <1>6

(* Enabling and parking: the pads are resolved again.                      *)
LEMMA EnableOK ==
    ASSUME NEW m, MachineOK(m), NEW b \in Blocks, NEW mask, NEW on \in BOOLEAN
    PROVE  LET z == EnableMask(m, b, mask, on)
           IN  Touches(m, z, b, mask) /\ (PadsFresh(m) => PadsFresh(z))
  <1> DEFINE g == [s \in SMs |-> IF s \in mask THEN [m.sm[b][s] EXCEPT !.enabled = on]
                                               ELSE m.sm[b][s]]
             y == [m EXCEPT !.sm[b] = g]
  <1>1. ASSUME NEW s \in SMs PROVE g[s] \in SmRecs /\ Fits(g[s], m.cfg[b][s])
    <2> DEFINE r == m.sm[b][s]
               q == [r EXCEPT !.enabled = on]
    <2>1. r \in SmRecs /\ Fits(r, m.cfg[b][s])
      BY SmRecAt
    <2>2. g[s] = IF s \in mask THEN q ELSE r
      OBVIOUS
    <2> HIDE DEF r
    <2>3. q \in SmRecs /\ q.tx = r.tx /\ q.rx = r.rx
      BY <2>1 DEF SmRecs
    <2> HIDE DEF q, g
    <2>4. Fits(q, m.cfg[b][s])
      BY <2>1, <2>3 DEF Fits
    <2> QED  BY <2>1, <2>2, <2>3, <2>4
  <1>2. g \in [SMs -> SmRecs] /\ \A s \in SMs : Fits(g[s], m.cfg[b][s])
    <2>1. \A s \in SMs : g[s] \in SmRecs
      BY <1>1
    <2> QED  BY <1>1, <2>1
  <1>3. EnableMask(m, b, mask, on) = ResolvePads(y, b)
    BY DEF EnableMask
  <1>4. \A s \in SMs : s \notin mask => g[s] = m.sm[b][s]
    OBVIOUS
  <1> HIDE DEF g
  <1>5. /\ MachineOK(y) /\ y.reg = m.reg /\ y.pads = m.pads /\ y.cfg = m.cfg
        /\ y.sm[b] = g /\ \A o \in Blocks : o # b => y.sm[o] = m.sm[o]
    BY <1>2, SetBlockSm
  <1> HIDE DEF y
  <1> DEFINE z == ResolvePads(y, b)
  <1>6. PadsFresh(m) => PadsFresh(z)
    BY <1>5, ResolvedFresh
  <1>7. /\ Frames(y, z, b) /\ z.reg = y.reg
        /\ z.pads[PadOf(b)].pin_levels = ResolvedLevels(y.pads[PadOf(b)], y.reg)
    BY <1>5, ResolvePadsLevels
  <1> HIDE DEF z
  <1>8. PICK s \in SMs : TRUE
    BY PadsAssumption DEF SMs
  <1>9. PinStep(y, z, b, s)
    BY <1>7 DEF PinStep, Others
  <1>10. Moves(y, z) /\ (Settled(y) => Settled(z))
    BY <1>5, <1>9, PinStepShifts DEF Shifts
  <1>11. Moves(m, z) /\ (Settled(m) => Settled(z))
    BY <1>5, <1>10 DEF Moves, Settled, SettledPad
  <1>12. \A o \in Blocks, t \in SMs : (o # b \/ t \notin mask) =>
           z.sm[o][t].enabled = m.sm[o][t].enabled
    BY <1>4, <1>5, <1>7 DEF Frames
  <1>13. Touches(m, z, b, mask)
    BY <1>5, <1>7, <1>11, <1>12 DEF Touches, Frames
  <1> QED  BY <1>3, <1>6, <1>13 DEF z

(* Restarting dividers clears their phase and nothing else.                *)
LEMMA RestartClockOK ==
    ASSUME NEW m, MachineOK(m), NEW b \in Blocks, NEW mask
    PROVE  LET z == pio_sim_clkdiv_restart_sm_mask(m, b, mask)
           IN  Evolves(m, z, b) /\ PinsKept(m, z)
  <1> DEFINE g == [s \in SMs |-> IF s \in mask THEN [m.sm[b][s] EXCEPT !.clk_accum = 0]
                                               ELSE m.sm[b][s]]
             z == [m EXCEPT !.sm[b] = g]
  <1>1. ASSUME NEW s \in SMs
        PROVE  /\ g[s] \in SmRecs /\ Fits(g[s], m.cfg[b][s])
               /\ g[s].enabled = m.sm[b][s].enabled
    <2> DEFINE r == m.sm[b][s]
               q == [r EXCEPT !.clk_accum = 0]
    <2>1. r \in SmRecs /\ Fits(r, m.cfg[b][s])
      BY SmRecAt
    <2>2. g[s] = IF s \in mask THEN q ELSE r
      OBVIOUS
    <2> HIDE DEF r
    <2>3. q \in SmRecs /\ q.enabled = r.enabled /\ q.tx = r.tx /\ q.rx = r.rx
      BY <2>1 DEF SmRecs
    <2> HIDE DEF q, g
    <2>4. Fits(q, m.cfg[b][s])
      BY <2>1, <2>3 DEF Fits
    <2> QED  BY <2>1, <2>2, <2>3, <2>4 DEF r
  <1>2. g \in [SMs -> SmRecs] /\ \A s \in SMs : Fits(g[s], m.cfg[b][s])
    <2>1. \A s \in SMs : g[s] \in SmRecs
      BY <1>1
    <2> QED  BY <1>1, <2>1
  <1>3. pio_sim_clkdiv_restart_sm_mask(m, b, mask) = z
    BY DEF pio_sim_clkdiv_restart_sm_mask
  <1> HIDE DEF g
  <1>4. /\ MachineOK(z) /\ z.cfg = m.cfg /\ z.reg = m.reg /\ z.pads = m.pads
        /\ z.sm[b] = g /\ \A o \in Blocks : o # b => z.sm[o] = m.sm[o]
    BY <1>2, SetBlockSm
  <1> HIDE DEF z
  <1>5. Frames(m, z, b)
    BY <1>1, <1>4 DEF Frames, SameRouting
  <1>6. Evolves(m, z, b)
    BY <1>4, <1>5, SameClaimsEvolves
  <1> QED  BY <1>3, <1>4, <1>6 DEF PinsKept

(* A new configuration: the FIFOs take its shape.                          *)
LEMMA ConfigOK ==
    ASSUME NEW m, MachineOK(m), NEW b \in Blocks, NEW s \in SMs, NEW c \in Confs
    PROVE  LET z == ApplyConfig(m, b, s, c)
           IN  Touches(m, z, b, {s}) /\ (PadsFresh(m) => PadsFresh(z))
  <1> DEFINE r == m.sm[b][s]
             old == m.cfg[b][s].fifo_join
             new == c.fifo_join
             f == Rejoin(r.tx, old, new, TxCap(new))
             g == Rejoin(r.rx, old, new, RxCap(new))
             q == [r EXCEPT !.tx = f, !.rx = g, !.status = <<>>]
             cs == [m.cfg EXCEPT ![b][s] = c]
             ss == [m.sm EXCEPT ![b][s] = q]
             z == [m EXCEPT !.cfg = cs, !.sm = ss]
  <1>1. /\ r \in SmRecs /\ Fits(r, m.cfg[b][s]) /\ m \in Machines
        /\ m.cfg \in [Blocks -> [SMs -> Confs]] /\ m.sm \in [Blocks -> [SMs -> SmRecs]]
    BY SmRecAt DEF Machines
  <1>2. /\ r.tx \in Fifo(Words) /\ RingOK(r.tx) /\ r.tx.cap = TxCap(old)
        /\ r.rx \in Fifo(Words) /\ RingOK(r.rx) /\ r.rx.cap = RxCap(old)
        /\ rx_fifo_is_register_file(old) => r.rx.count = 0
    BY <1>1 DEF SmRecs, Fits
  <1>3. new \in Joins
    BY DEF Confs
  <1>4. ApplyConfig(m, b, s, c) = z
    BY <1>1 DEF ApplyConfig, Machines
  <1> HIDE DEF r, old, new
  <1>5. /\ f \in Fifo(Words) /\ RingOK(f) /\ f.cap = TxCap(new)
        /\ g \in Fifo(Words) /\ RingOK(g) /\ g.cap = RxCap(new)
        /\ g.count = IF old = new THEN r.rx.count ELSE 0
    <2>1. TxCap(new) \in {0, FIFO_DEPTH, FIFO_MAX} /\ RxCap(new) \in {0, FIFO_DEPTH, FIFO_MAX}
      BY <1>3, CapRing
    <2>2. f \in Fifo(Words) /\ RingOK(f) /\ f.cap = TxCap(new)
      BY <1>2, <2>1, RejoinRing
    <2>3. /\ g \in Fifo(Words) /\ RingOK(g) /\ g.cap = RxCap(new)
          /\ g.count = IF old = new THEN r.rx.count ELSE 0
      BY <1>2, <2>1, RejoinRing
    <2> QED  BY <2>2, <2>3
  <1> HIDE DEF f, g
  <1>6. q \in SmRecs /\ q.enabled = r.enabled /\ q.tx = f /\ q.rx = g
    <2>1. <<>> \in Seq(Words)
      OBVIOUS
    <2> QED  BY <1>1, <1>5, <2>1 DEF SmRecs
  <1> HIDE DEF q
  <1>7. Fits(q, c)
    BY <1>2, <1>5, <1>6 DEF Fits, new
  <1>8. /\ cs \in [Blocks -> [SMs -> Confs]] /\ ss \in [Blocks -> [SMs -> SmRecs]]
        /\ \A o \in Blocks, t \in SMs :
             /\ cs[o][t] = IF o = b /\ t = s THEN c ELSE m.cfg[o][t]
             /\ ss[o][t] = IF o = b /\ t = s THEN q ELSE m.sm[o][t]
    BY <1>1, <1>6
  <1> HIDE DEF cs, ss
  <1>9. /\ z \in Machines /\ z.cfg = cs /\ z.sm = ss /\ z.reg = m.reg /\ z.pads = m.pads
    BY <1>1, <1>8 DEF Machines
  <1> HIDE DEF z
  <1>10. \A o \in Blocks, t \in SMs : Fits(ss[o][t], cs[o][t])
    <2> SUFFICES ASSUME NEW o \in Blocks, NEW t \in SMs PROVE Fits(ss[o][t], cs[o][t])
      OBVIOUS
    <2>1. CASE o = b /\ t = s
      BY <1>7, <1>8, <2>1
    <2>2. CASE ~(o = b /\ t = s)
      <3>1. ss[o][t] = m.sm[o][t] /\ cs[o][t] = m.cfg[o][t]
        BY <1>8, <2>2
      <3> QED  BY <3>1 DEF MachineOK
    <2> QED  BY <2>1, <2>2
  <1>11. MachineOK(z)
    BY <1>9, <1>10 DEF MachineOK
  <1>12. \A o \in Blocks, t \in SMs : ss[o][t].enabled = m.sm[o][t].enabled
    BY <1>6, <1>8 DEF r
  <1>13. \A pd \in PadSets : FreshPad(m, pd) => FreshPad(z, pd)
    BY <1>9, <1>11, <1>12, FreshDepends DEF SameRouting
  <1>14. Moves(m, z) /\ (Settled(m) => Settled(z))
    BY <1>9, LevelsKept DEF SameRouting
  <1>15. Touches(m, z, b, {s})
    BY <1>8, <1>9, <1>11, <1>12, <1>14 DEF Touches, SameRouting
  <1> QED  BY <1>4, <1>13, <1>15 DEF PadsFresh

(* A pin driven or released from outside.                                  *)
LEMMA OutsideEvolves ==
    ASSUME NEW m, MachineOK(m), NEW b \in Blocks, NEW n \in Pins, NEW level
    PROVE  LET x == [m EXCEPT !.pads[PadOf(b)] = pio_sim_set_pin(@, n, level)]
               y == [m EXCEPT !.pads[PadOf(b)] = pio_sim_release_pin(@, n)]
           IN  /\ Evolves(m, x, b) /\ Touches(m, x, b, {})
               /\ Evolves(m, y, b) /\ Touches(m, y, b, {})
  <1> DEFINE p == m.pads[PadOf(b)]
             u == pio_sim_set_pin(p, n, level)
             v == pio_sim_release_pin(p, n)
  <1>1. p \in Pads /\ PadOf(b) \in PadSets /\ m.pads \in [PadSets -> Pads]
    BY PadOfType DEF MachineOK, Machines
  <1>2. /\ u \in Pads /\ SameRouting(u, p)
        /\ u.pin_dirs = p.pin_dirs /\ u.pin_levels = p.pin_levels
    <2> HIDE DEF p
    <2> DEFINE x == p.ext_drive \union {n}
               l == SetTo(p.ext_levels, n, level)
    <2>1. x \in SUBSET Pins /\ l \in SUBSET Pins
      BY <1>1 DEF SetTo, Pads
    <2>2. u = [p EXCEPT !.ext_drive = x, !.ext_levels = l]
      BY DEF pio_sim_set_pin
    <2> HIDE DEF x, l, u
    <2> QED  BY <1>1, <2>1, <2>2 DEF Pads, SameRouting
  <1>3. /\ v \in Pads /\ SameRouting(v, p)
        /\ v.pin_dirs = p.pin_dirs /\ v.pin_levels = p.pin_levels
    <2> HIDE DEF p
    <2> QED  BY <1>1 DEF pio_sim_release_pin, Pads, SameRouting
  <1>4. ASSUME NEW q \in Pads, SameRouting(q, p),
               q.pin_dirs = p.pin_dirs, q.pin_levels = p.pin_levels
        PROVE  LET z == [m EXCEPT !.pads[PadOf(b)] = q]
               IN  Evolves(m, z, b) /\ Touches(m, z, b, {})
    <2> DEFINE z == [m EXCEPT !.pads[PadOf(b)] = q]
    <2>1. /\ Frames(m, z, b) /\ z.reg = m.reg
          /\ z.pads = [m.pads EXCEPT ![PadOf(b)] = q]
      BY <1>4, SetPadsFrames
    <2> HIDE DEF z
    <2>2. z.pads[PadOf(b)].pin_dirs = p.pin_dirs
      BY <1>1, <1>4, <2>1
    <2>3. Evolves(m, z, b)
      BY <2>1, <2>2, SameClaimsEvolves
    <2>4. \A pd \in PadSets : z.pads[pd].pin_levels = m.pads[pd].pin_levels
      BY <1>1, <1>4, <2>1
    <2>5. Touches(m, z, b, {})
      BY <2>1, <2>4, KeptTouches
    <2> QED  BY <2>3, <2>5 DEF z
  <1> HIDE DEF u, v
  <1>5. LET x == [m EXCEPT !.pads[PadOf(b)] = u]
            y == [m EXCEPT !.pads[PadOf(b)] = v]
        IN  /\ Evolves(m, x, b) /\ Touches(m, x, b, {})
            /\ Evolves(m, y, b) /\ Touches(m, y, b, {})
    BY <1>2, <1>3, <1>4
  <1> QED  BY <1>5 DEF u, v

(* A flag forced or cleared by the host.                                   *)
LEMMA ForceEvolves ==
    ASSUME NEW m, MachineOK(m), NEW b \in Blocks, NEW n \in Irqs, NEW on
    PROVE  LET z == [m EXCEPT !.irq[b] = IF on THEN @ \union {n} ELSE @ \ {n}]
           IN  Evolves(m, z, b) /\ PinsKept(m, z)
  <1> DEFINE v == IF on THEN m.irq[b] \union {n} ELSE m.irq[b] \ {n}
             g == [m.irq EXCEPT ![b] = v]
  <1>1. m \in Machines /\ m.irq \in [Blocks -> SUBSET Irqs]
    BY DEF MachineOK, Machines
  <1>2. v \in SUBSET Irqs
    BY <1>1
  <1>3. [m EXCEPT !.irq[b] = IF on THEN @ \union {n} ELSE @ \ {n}] = [m EXCEPT !.irq = g]
    OBVIOUS
  <1> HIDE DEF v
  <1>4. g \in [Blocks -> SUBSET Irqs]
    BY <1>1, <1>2
  <1> HIDE DEF g
  <1>5. PinsKept(m, [m EXCEPT !.irq = g])
    BY <1>1, RegisterWritesKeepPins
  <1> QED  BY <1>3, <1>4, <1>5, SetIrqEvolves

(* pio_sim_sm_init leaves a well-formed machine, if not fresh directions.  *)
LEMMA InitCallOK ==
    ASSUME NEW m, MachineOK(m), NEW b \in Blocks, NEW s \in SMs, NEW pc \in PCs, InsnOK
    PROVE  LET z == SetSm(m, b, s, [sm_reset_exec(m.sm[b][s], pc) EXCEPT !.enabled = FALSE])
           IN  /\ MachineOK(z) /\ z.cfg = m.cfg /\ PinsKept(m, z)
               /\ \A o \in Blocks, t \in SMs : (o # b \/ t # s) => z.sm[o][t] = m.sm[o][t]
  <1> DEFINE r == m.sm[b][s]
             c == m.cfg[b][s]
             p == sm_reset_exec(r, pc)
             q == [p EXCEPT !.enabled = FALSE]
  <1>1. r \in SmRecs /\ Fits(r, c)
    BY SmRecAt
  <1>2. p \in SmRecs /\ Fits(p, c)
    BY <1>1, SameRings, ExecCalls DEF Replaces
  <1> HIDE DEF p
  <1>3. q \in SmRecs /\ q.tx = p.tx /\ q.rx = p.rx
    BY <1>2 DEF SmRecs
  <1> HIDE DEF q
  <1>4. Fits(q, c)
    BY <1>2, <1>3 DEF Fits
  <1> DEFINE z == SetSm(m, b, s, q)
  <1>5. /\ MachineOK(z) /\ z.cfg = m.cfg /\ z.reg = m.reg /\ z.pads = m.pads
        /\ z.sm = [m.sm EXCEPT ![b][s] = q]
    BY <1>3, <1>4, SetSmFrames
  <1> HIDE DEF z
  <1>6. \A o \in Blocks, t \in SMs : (o # b \/ t # s) => z.sm[o][t] = m.sm[o][t]
    BY <1>5 DEF MachineOK, Machines
  <1> QED  BY <1>5, <1>6 DEF z, q, p, PinsKept

(* Every host call, at any point between two blocks' turns, keeps the      *)
(* invariant and moves levels only to claimed values.                       *)
LEMMA HostSafe == Inv /\ Host => Safe
  <1> SUFFICES ASSUME Inv, NEW b \in {k \in Blocks : Served(k) # {}},
                 \/ \E s \in Served(b) :
                      \/ \E w \in HostWords : pio_sim_sm_put(b, s, w)
                      \/ pio_sim_sm_get(b, s)
                      \/ pio_sim_sm_clear_fifos(b, s)
                      \/ \E f \in {"TXSTALL", "RXSTALL"} : pio_sim_sm_clear_fdebug(b, s, {f})
                      \/ \E k \in RegIdx, w \in HostWords : pio_sim_sm_rxfifo_put(b, s, k, w)
                      \/ pio_sim_sm_restart(b, s)
                      \/ \E pc \in PCs : pio_sim_sm_set_pc(b, s, pc)
                      \/ \E i \in ExecInsns : pio_sim_sm_exec(b, s, i)
                      \/ \E w \in HostWords : pio_sim_sm_set_status_value(b, s, w)
                      \/ pio_sim_sm_clear_status_value(b, s)
                      \/ \E c \in Configs : pio_sim_sm_set_config(b, s, c)
                      \/ \E c \in Configs : pio_sim_sm_init(b, s, c.wrap_bottom, c)
                      \/ \E base \in Pins, out \in BOOLEAN :
                           pio_sim_sm_set_consecutive_pindirs(b, s, base, 1, out)
                 \/ \E mask \in SUBSET Served(b), on \in BOOLEAN :
                      pio_sim_set_sm_mask_enabled(b, mask, on)
                 \/ \E mask \in SUBSET Served(b) : pio_sim_enable_sm_mask_in_sync(b, mask)
                 \/ \E n \in Irqs, on \in BOOLEAN : pio_sim_irq_force(b, n, on)
                 \/ \E n \in Pins, level \in BOOLEAN : SetPin(b, n, level)
                 \/ \E n \in Pins : ReleasePin(b, n)
               PROVE  Safe
    BY Zenon DEF Host
  <1>0. /\ InsnOK /\ MachineOK(Machine) /\ b \in Blocks /\ Served(b) \subseteq SMs
        /\ HostWords \subseteq Words /\ Configs \subseteq Confs
        /\ 0 \in RegIdx /\ 0 \in PCs /\ ZERO \in Words
    BY SimAssumption, FifoAssumption, SmAssumption, SameRings DEF Inv, Served, RegIdx, PCs
  <1>1. ASSUME NEW s \in Served(b), NEW w \in HostWords, pio_sim_sm_put(b, s, w)
        PROVE  Safe
    <2>1. Replaces(PutWord(sm[b][s], w), sm[b][s], cfg[b][s])
      BY <1>0, CurrentSm, FifoCalls
    <2> QED  BY <1>0, <1>1, <2>1, HostReplaces DEF pio_sim_sm_put
  <1>2. ASSUME NEW s \in Served(b), pio_sim_sm_get(b, s)
        PROVE  Safe
    <2>1. Replaces(GetWord(sm[b][s]), sm[b][s], cfg[b][s])
      BY <1>0, CurrentSm, FifoCalls
    <2> QED  BY <1>0, <1>2, <2>1, HostReplaces DEF pio_sim_sm_get
  <1>3. ASSUME NEW s \in Served(b), pio_sim_sm_clear_fifos(b, s)
        PROVE  Safe
    <2> DEFINE q == [sm[b][s] EXCEPT !.tx = fifo_clear(@), !.rx = fifo_clear(@)]
    <2>1. Replaces(q, sm[b][s], cfg[b][s])
      BY <1>0, CurrentSm, FifoCalls
    <2>2. HostCall("clear_fifos", SetSm(Machine, b, s, q))
      BY <1>3 DEF pio_sim_sm_clear_fifos
    <2> HIDE DEF q
    <2> QED  BY <1>0, <2>1, <2>2, HostReplaces
  <1>4. ASSUME NEW s \in Served(b), NEW f, pio_sim_sm_clear_fdebug(b, s, f)
        PROVE  Safe
    <2> DEFINE q == [sm[b][s] EXCEPT !.fdebug = @ \ f]
    <2>1. Replaces(q, sm[b][s], cfg[b][s])
      BY <1>0, CurrentSm, ExecCalls
    <2>2. HostCall("clear_fdebug", SetSm(Machine, b, s, q))
      BY <1>4 DEF pio_sim_sm_clear_fdebug
    <2> HIDE DEF q
    <2> QED  BY <1>0, <2>1, <2>2, HostReplaces
  <1>5. ASSUME NEW s \in Served(b), NEW k \in RegIdx, NEW w \in HostWords,
               pio_sim_sm_rxfifo_put(b, s, k, w)
        PROVE  Safe
    <2> DEFINE q == [sm[b][s] EXCEPT !.rx.buf[k] = w]
    <2>1. Replaces(q, sm[b][s], cfg[b][s])
      BY <1>0, CurrentSm, FifoCalls
    <2>2. HostCall("rxfifo_put", SetSm(Machine, b, s, q))
      BY <1>5 DEF pio_sim_sm_rxfifo_put
    <2> HIDE DEF q
    <2> QED  BY <1>0, <2>1, <2>2, HostReplaces
  <1>6. ASSUME NEW s \in Served(b), pio_sim_sm_restart(b, s)
        PROVE  Safe
    <2> DEFINE pc == cfg[b][s].wrap_bottom
               q == sm_reset_exec(sm[b][s], pc)
    <2>1. pc \in PCs
      BY <1>0, CurrentSm DEF Confs
    <2>2. HostCall("restart", SetSm(Machine, b, s, q))
      BY <1>6 DEF pio_sim_sm_restart
    <2> HIDE DEF pc
    <2>3. Replaces(q, sm[b][s], cfg[b][s])
      BY <1>0, <2>1, CurrentSm, ExecCalls
    <2> HIDE DEF q
    <2> QED  BY <1>0, <2>2, <2>3, HostReplaces
  <1>7. ASSUME NEW s \in Served(b), NEW pc \in PCs, pio_sim_sm_set_pc(b, s, pc)
        PROVE  Safe
    <2> DEFINE q == [sm[b][s] EXCEPT !.pc = pc]
    <2>1. Replaces(q, sm[b][s], cfg[b][s])
      BY <1>0, CurrentSm, ExecCalls
    <2>2. HostCall("set_pc", SetSm(Machine, b, s, q))
      BY <1>7 DEF pio_sim_sm_set_pc
    <2> HIDE DEF q
    <2> QED  BY <1>0, <2>1, <2>2, HostReplaces
  <1>8. ASSUME NEW s \in Served(b), NEW i \in ExecInsns, pio_sim_sm_exec(b, s, i)
        PROVE  Safe
    <2>1. /\ Evolves(Machine, sm_exec(Machine, b, s, i), b)
          /\ Shifts(Machine, sm_exec(Machine, b, s, i), b, s)
      BY <1>0, SmExecEvolves, SmExecShifts
    <2>2. HostCall("exec", sm_exec(Machine, b, s, i))
      BY <1>8 DEF pio_sim_sm_exec
    <2> QED  BY <1>0, <2>1, <2>2, ShiftsTouches, HostEvolves
  <1>9. ASSUME NEW s \in Served(b), NEW w \in HostWords,
               pio_sim_sm_set_status_value(b, s, w)
        PROVE  Safe
    <2> DEFINE q == [sm[b][s] EXCEPT !.status = <<w>>]
    <2>1. Replaces(q, sm[b][s], cfg[b][s])
      BY <1>0, CurrentSm, ExecCalls
    <2>2. HostCall("status", SetSm(Machine, b, s, q))
      BY <1>9 DEF pio_sim_sm_set_status_value
    <2> HIDE DEF q
    <2> QED  BY <1>0, <2>1, <2>2, HostReplaces
  <1>10. ASSUME NEW s \in Served(b), pio_sim_sm_clear_status_value(b, s)
         PROVE  Safe
    <2> DEFINE q == [sm[b][s] EXCEPT !.status = <<>>]
    <2>1. Replaces(q, sm[b][s], cfg[b][s])
      BY <1>0, CurrentSm, ExecCalls
    <2>2. HostCall("status", SetSm(Machine, b, s, q))
      BY <1>10 DEF pio_sim_sm_clear_status_value
    <2> HIDE DEF q
    <2> QED  BY <1>0, <2>1, <2>2, HostReplaces
  <1>11. ASSUME NEW s \in Served(b), NEW c \in Configs, pio_sim_sm_set_config(b, s, c)
         PROVE  Safe
    <2> DEFINE z == ApplyConfig(Machine, b, s, c)
    <2>1. Touches(Machine, z, b, {s}) /\ (PadsFresh(Machine) => PadsFresh(z))
      BY <1>0, ConfigOK
    <2>2. HostCall("set_config", z)
      BY <1>11 DEF pio_sim_sm_set_config
    <2> HIDE DEF z
    <2>3. Touches(Machine, z, b, Served(b))
      BY <2>1, TouchesMore
    <2> QED  BY <2>1, <2>2, <2>3, HostTouches
  <1>12. ASSUME NEW s \in Served(b), NEW c \in Configs,
                pio_sim_sm_init(b, s, c.wrap_bottom, c)
         PROVE  Safe
    <2> DEFINE m == ApplyConfig(Machine, b, s, c)
               z == SetSm(m, b, s,
                      [sm_reset_exec(m.sm[b][s], c.wrap_bottom) EXCEPT !.enabled = FALSE])
    <2>1. Touches(Machine, m, b, {s}) /\ MachineOK(m) /\ c.wrap_bottom \in PCs
      BY <1>0, ConfigOK DEF Confs, Touches
    <2>2. HostCall("init", z)
      BY <1>12 DEF pio_sim_sm_init
    <2> HIDE DEF m
    <2>3. /\ MachineOK(z) /\ z.cfg = m.cfg /\ PinsKept(m, z)
          /\ \A o \in Blocks, t \in SMs : (o # b \/ t # s) => z.sm[o][t] = m.sm[o][t]
      BY <1>0, <2>1, InitCallOK
    <2> HIDE DEF z
    <2>4. \A o \in Blocks, t \in SMs : (o # b \/ t \notin {s}) =>
            /\ z.cfg[o][t] = cfg[o][t] /\ z.sm[o][t].enabled = sm[o][t].enabled
      BY <2>1, <2>3, MachineIs DEF Touches
    <2>5. Touches(Machine, z, b, {s})
      <3>1. PinsKept(Machine, Machine)
        BY DEF PinsKept
      <3> QED  BY <2>1, <2>3, <2>4, <3>1, MachineIs, TouchesKept
    <2>6. Touches(Machine, z, b, Served(b))
      BY <2>5, TouchesMore
    <2> QED  BY <2>2, <2>6, HostTouches
  <1>13. ASSUME NEW s \in Served(b), NEW base \in Pins, NEW out \in BOOLEAN,
                pio_sim_sm_set_consecutive_pindirs(b, s, base, 1, out)
         PROVE  Safe
    <2> DEFINE z == drive_pindirs(Machine, b, s, base, 1, IF out THEN ONES ELSE ZERO)
    <2>1. base \in Nat /\ 1 \in Nat
      BY DEF Pins
    <2>2. Evolves(Machine, z, b) /\ Shifts(Machine, z, b, s)
      BY <1>0, <2>1, DriveEvolves, DrivePinStep, PinStepShifts
    <2>3. HostCall("pindirs", z)
      BY <1>13 DEF pio_sim_sm_set_consecutive_pindirs
    <2> HIDE DEF z
    <2> QED  BY <1>0, <2>2, <2>3, ShiftsTouches, HostEvolves
  <1>14. ASSUME NEW mask \in SUBSET Served(b), NEW on \in BOOLEAN, pio_sim_set_sm_mask_enabled(b, mask, on)
         PROVE  Safe
    <2> DEFINE z == EnableMask(Machine, b, mask, on)
    <2>1. Touches(Machine, z, b, mask) /\ (PadsFresh(Machine) => PadsFresh(z))
      BY <1>0, EnableOK
    <2>2. HostCall("enable", z)
      BY <1>14 DEF pio_sim_set_sm_mask_enabled
    <2> HIDE DEF z
    <2>3. Touches(Machine, z, b, Served(b))
      BY <2>1, TouchesMore
    <2> QED  BY <2>1, <2>2, <2>3, HostTouches
  <1>15. ASSUME NEW mask \in SUBSET Served(b), pio_sim_enable_sm_mask_in_sync(b, mask)
         PROVE  Safe
    <2> DEFINE y == EnableMask(Machine, b, mask, TRUE)
               z == pio_sim_clkdiv_restart_sm_mask(y, b, mask)
    <2>1. Touches(Machine, y, b, mask) /\ (PadsFresh(Machine) => PadsFresh(y))
      BY <1>0, EnableOK
    <2>2. HostCall("enable_in_sync", z)
      BY <1>15 DEF pio_sim_enable_sm_mask_in_sync
    <2> HIDE DEF y
    <2>3. Evolves(y, z, b) /\ PinsKept(y, z)
      BY <1>0, <2>1, RestartClockOK DEF Touches
    <2> HIDE DEF z
    <2>4. \A o \in Blocks, t \in SMs : (o # b \/ t \notin mask) =>
            /\ z.cfg[o][t] = cfg[o][t] /\ z.sm[o][t].enabled = sm[o][t].enabled
      BY <2>1, <2>3, MachineIs DEF Touches, Evolves, Frames
    <2>5. Touches(Machine, z, b, mask)
      <3>1. PinsKept(Machine, Machine) /\ MachineOK(z)
        BY <2>3 DEF PinsKept, Evolves, Frames
      <3> QED  BY <2>1, <2>3, <2>4, <3>1, MachineIs, TouchesKept
    <2>6. Touches(Machine, z, b, Served(b))
      BY <2>5, TouchesMore
    <2> QED  BY <2>1, <2>2, <2>3, <2>6, HostTouches DEF Evolves
  <1>16. ASSUME NEW n \in Irqs, NEW on \in BOOLEAN, pio_sim_irq_force(b, n, on)
         PROVE  Safe
    <2> DEFINE z == [Machine EXCEPT !.irq[b] = IF on THEN @ \union {n} ELSE @ \ {n}]
    <2>1. Evolves(Machine, z, b) /\ PinsKept(Machine, z)
      BY <1>0, ForceEvolves
    <2>2. HostCall("irq_force", z)
      BY <1>16 DEF pio_sim_irq_force
    <2> HIDE DEF z
    <2>3. Touches(Machine, z, b, Served(b))
      BY <1>0, <2>1, KeptTouches DEF Evolves, PinsKept
    <2> QED  BY <2>1, <2>2, <2>3, HostEvolves
  <1>17. ASSUME NEW n \in Pins, NEW level, SetPin(b, n, level)
         PROVE  Safe
    <2> DEFINE z == [Machine EXCEPT !.pads[PadOf(b)] = pio_sim_set_pin(@, n, level)]
    <2>1. Evolves(Machine, z, b) /\ Touches(Machine, z, b, {})
      BY <1>0, OutsideEvolves
    <2>2. HostCall("set_pin", z)
      BY <1>17 DEF SetPin
    <2> HIDE DEF z
    <2>3. Touches(Machine, z, b, Served(b))
      BY <2>1, TouchesMore
    <2> QED  BY <2>1, <2>2, <2>3, HostEvolves
  <1>18. ASSUME NEW n \in Pins, ReleasePin(b, n)
         PROVE  Safe
    <2> DEFINE z == [Machine EXCEPT !.pads[PadOf(b)] = pio_sim_release_pin(@, n)]
    <2>1. Evolves(Machine, z, b) /\ Touches(Machine, z, b, {})
      BY <1>0, OutsideEvolves
    <2>2. HostCall("set_pin", z)
      BY <1>18 DEF ReleasePin
    <2> HIDE DEF z
    <2>3. Touches(Machine, z, b, Served(b))
      BY <2>1, TouchesMore
    <2> QED  BY <2>1, <2>2, <2>3, HostEvolves
  <1> QED
    BY <1>1, <1>2, <1>3, <1>4, <1>5, <1>6, <1>7, <1>8, <1>9, <1>10, <1>11, <1>12,
       <1>13, <1>14, <1>15, <1>16, <1>17, <1>18, Zenon

(* The engine as the host sets it up.                                      *)
LEMMA InitInv == Init => Inv
  <1> SUFFICES ASSUME Init PROVE Inv
    OBVIOUS
  <1>1. PICK su \in Setups :
          /\ insn = su.prog
          /\ cfg = su.conf
          /\ sm = [b \in Blocks |-> [s \in SMs |->
                     [Configured(su.conf[b][s]) EXCEPT !.enabled = <<b, s>> \in su.on]]]
          /\ reg = [b \in Blocks |-> [s \in SMs |-> NoPinRegs]]
          /\ irq = [b \in Blocks |-> {}]
          /\ pads = [pd \in PadSets |-> pio_pads_init_defaults(OwnersOf(pd))]
          /\ turn = Idle
          /\ host = su.host
    BY Zenon DEF Init
  <1>2. InsnOK /\ cfg \in [Blocks -> [SMs -> Confs]]
    BY <1>1, SimAssumption DEF InsnOK
  <1>3. ASSUME NEW b \in Blocks, NEW s \in SMs
        PROVE  sm[b][s] \in SmRecs /\ Fits(sm[b][s], cfg[b][s])
    <2> DEFINE c == cfg[b][s]
               on == <<b, s>> \in su.on
               z == EmptyFifo(ZERO)
               f == [z EXCEPT !.cap = TxCap(c.fifo_join)]
               g == [z EXCEPT !.cap = RxCap(c.fifo_join)]
               h == [ResetSm EXCEPT !.tx = f, !.rx = g, !.pc = c.wrap_bottom]
               r == [h EXCEPT !.enabled = on]
    <2>1. c \in Confs /\ sm[b][s] = [Configured(c) EXCEPT !.enabled = on]
      BY <1>1, <1>2
    <2>2. c.fifo_join \in Joins /\ c.wrap_bottom \in PCs
      BY <2>1 DEF Confs
    <2> HIDE DEF c, on
    <2>3. sm[b][s] = r
      <3> DEFINE q == ResetSm
                 a == TxCap(c.fifo_join)
                 d == RxCap(c.fifo_join)
      <3>1. q.tx = z /\ q.rx = z
        BY DEF ResetSm
      <3>2. [q EXCEPT !.tx.cap = a, !.rx.cap = d, !.pc = c.wrap_bottom]
              = [q EXCEPT !.tx = [q.tx EXCEPT !.cap = a], !.rx = [q.rx EXCEPT !.cap = d],
                          !.pc = c.wrap_bottom]
        <4> HIDE DEF q, a, d
        <4> QED  OBVIOUS
      <3>3. [q.tx EXCEPT !.cap = a] = f /\ [q.rx EXCEPT !.cap = d] = g
        BY <3>1, Zenon
      <3>4. Configured(c) = h
        BY <3>2, <3>3, Zenon DEF Configured
      <3> QED  BY <2>1, <3>4, Zenon
    <2>4. /\ TxCap(c.fifo_join) \in {0, FIFO_DEPTH, FIFO_MAX}
          /\ RxCap(c.fifo_join) \in {0, FIFO_DEPTH, FIFO_MAX}
      BY <2>2, CapRing
    <2>5. /\ ZERO \in Words /\ 0 \in 0 .. WORD_BITS /\ WORD_BITS \in 0 .. WORD_BITS
          /\ NoInsn \in KnownInsns /\ <<>> \in Seq(Words)
      BY <1>2, SameRings, WordBitsAssumption, KnownAreInsns
    <2>6. /\ f \in Fifo(Words) /\ f.cap = TxCap(c.fifo_join) /\ RingOK(f)
          /\ g \in Fifo(Words) /\ g.cap = RxCap(c.fifo_join) /\ RingOK(g) /\ g.count = 0
      <3>1. ASSUME NEW k \in {0, FIFO_DEPTH, FIFO_MAX}
            PROVE  LET e == [EmptyFifo(ZERO) EXCEPT !.cap = k]
                   IN  e \in Fifo(Words) /\ e.cap = k /\ RingOK(e) /\ e.count = 0
        <4> DEFINE e == [buf |-> [i \in Slots |-> ZERO], head |-> 0, tail |-> 0,
                         count |-> 0, cap |-> k]
        <4>1. [EmptyFifo(ZERO) EXCEPT !.cap = k] = e
          BY DEF EmptyFifo
        <4>2. 0 \in Slots /\ 0 \in 0 .. FIFO_MAX /\ 0 <= k /\ (0 + 0) % FIFO_MAX = 0
          BY FifoAssumption DEF Slots
        <4>3. [i \in Slots |-> ZERO] \in [Slots -> Words]
          BY <2>5
        <4>4. e \in Fifo(Words)
          BY <4>2, <4>3 DEF Fifo
        <4>5. RingOK(e)
          BY <4>2 DEF RingOK
        <4> QED  BY <4>1, <4>4, <4>5
      <3> QED  BY <2>4, <3>1
    <2>7. on \in BOOLEAN
      BY DEF on
    <2>8. z \in Fifo(Words)
      <3>1. 0 \in Slots /\ 0 \in 0 .. FIFO_MAX
        BY FifoAssumption DEF Slots
      <3>2. [i \in Slots |-> ZERO] \in [Slots -> Words]
        BY <2>5
      <3> QED  BY <3>1, <3>2 DEF EmptyFifo, Fifo
    <2>9. ResetSm \in SmRecs
      <3> HIDE DEF z
      <3>1. 0 \in PCs
        BY SmAssumption DEF PCs
      <3> QED  BY <2>5, <2>8, <3>1 DEF ResetSm, SmRecs, z
    <2>10. r \in SmRecs /\ r.tx = f /\ r.rx = g
      <3> DEFINE q == ResetSm
      <3> HIDE DEF q, f, g
      <3> QED  BY <2>2, <2>6, <2>7, <2>9 DEF SmRecs, q
    <2> HIDE DEF r
    <2>11. Fits(r, c)
      BY <2>6, <2>10 DEF Fits
    <2> QED  BY <2>3, <2>10, <2>11 DEF c
  <1>4. sm \in [Blocks -> [SMs -> SmRecs]]
    <2>1. \A b \in Blocks, s \in SMs : sm[b][s] \in SmRecs
      BY <1>3
    <2>2. sm = [b \in Blocks |-> [s \in SMs |-> sm[b][s]]]
      BY <1>1
    <2> QED  BY <2>1, <2>2
  <1>5. /\ reg \in [Blocks -> [SMs -> PinRegs]] /\ irq \in [Blocks -> SUBSET Irqs]
        /\ \A b \in Blocks, s \in SMs : reg[b][s].dir = {} /\ reg[b][s].wrote = {}
    <2>1. NoPinRegs \in PinRegs /\ NoPinRegs.dir = {} /\ NoPinRegs.wrote = {}
      BY DEF NoPinRegs, PinRegs
    <2> QED  BY <1>1, <2>1
  <1>6. ASSUME NEW pd \in PadSets
        PROVE  /\ pads[pd] \in Pads /\ pads[pd].owners = OwnersOf(pd)
               /\ pads[pd].pin_dirs = {}
               /\ \A b \in Blocks : pads[pd].pio_func_mask[b] = Pins
    <2> DEFINE o == OwnersOf(pd)
    <2>1. o \in Seq(Blocks)
      BY OwnersType
    <2> HIDE DEF o
    <2>2. /\ pio_pads_init_defaults(o) \in Pads /\ pio_pads_init_defaults(o).owners = o
          /\ pio_pads_init_defaults(o).pin_dirs = {}
          /\ \A b \in Blocks : pio_pads_init_defaults(o).pio_func_mask[b] = Pins
      <3>1. FUNC_LEGACY \in Funcs
        BY PadsAssumption DEF FUNC_LEGACY, Funcs
      <3> QED  BY <2>1, <3>1 DEF pio_pads_init_defaults, Pads, Overrides
    <2>3. pads[pd] = pio_pads_init_defaults(o)
      BY <1>1 DEF o
    <2> QED  BY <2>2, <2>3 DEF o
  <1>7. pads \in [PadSets -> Pads]
    <2>1. pads = [pd \in PadSets |-> pads[pd]]
      BY <1>1
    <2> QED  BY <1>6, <2>1
  <1>8. MachineOK(Machine)
    <2>1. Machine \in Machines
      BY <1>2, <1>4, <1>5, <1>7 DEF Machine, Machines
    <2> QED  BY <1>3, <1>6, <2>1, MachineIs DEF MachineOK
  <1>9. PadsFresh(Machine)
    <2> SUFFICES ASSUME NEW pd \in PadSets
                 PROVE  ResolvedDirs(pads[pd], reg, EnabledSMs(Machine)) = {}
      BY <1>6, MachineIs DEF PadsFresh, FreshPad
    <2> DEFINE p == pads[pd]
               e == EnabledSMs(Machine)
    <2>1. /\ p.owners = OwnersOf(pd) /\ Len(p.owners) \in Nat
          /\ \A i \in 1 .. Len(p.owners) : p.owners[i] \in Blocks
      BY <1>6, OwnersType
    <2> HIDE DEF p, e
    <2>2. \A n, v : DirClaims(p, reg, e, n, v) = {}
      <3>1. \A c \in Slots0(p) \X SMs : RegAt(p, reg, c).dir = {}
        <4> SUFFICES ASSUME NEW c \in Slots0(p) \X SMs PROVE RegAt(p, reg, c).dir = {}
          OBVIOUS
        <4>1. c[1] + 1 \in 1 .. Len(p.owners) /\ c[2] \in SMs
          BY <2>1 DEF Slots0
        <4> QED  BY <1>5, <2>1, <4>1 DEF RegAt
      <3> QED  BY <3>1 DEF DirClaims
    <2>3. ResolvedDirs(p, reg, e) = {}
      BY <2>2 DEF ResolvedDirs
    <2> QED  BY <2>3 DEF p, e
  <1>10. turn \in 0 .. Idle /\ turn \notin Blocks
    BY <1>1, PadsAssumption DEF Idle, Blocks
  <1>11. Settled(Machine)
    BY <1>5, <1>8, MachineIs, UnclaimedSettled
  <1>12. Wired(Machine)
    BY <1>6, MachineIs DEF Wired
  <1> QED  BY <1>2, <1>8, <1>9, <1>10, <1>11, <1>12 DEF Inv

(* Every step of the engine is safe.                                       *)
LEMMA NextSafe == Inv /\ [Next]_vars => Safe
  <1> SUFFICES ASSUME Inv, [Next]_vars PROVE Safe
    OBVIOUS
  <1>1. CASE Step
    BY <1>1, StepSafe
  <1>2. CASE Host
    BY <1>2, HostSafe
  <1>3. CASE UNCHANGED vars
    <2>1. Become(Machine) /\ UNCHANGED <<insn, turn, host>>
      BY <1>3, MachineIs DEF vars, Become
    <2>2. Machine' = Machine /\ MachineOK(Machine)'
      BY <2>1, BecomeOK DEF Inv
    <2>3. PadsFresh(Machine) => PadsFresh(Machine)'
      BY <2>2
    <2>4. (Settled(Machine) => Settled(Machine)') /\ (Wired(Machine) => Wired(Machine)')
      BY <2>2
    <2>5. Moves(Machine, Machine')
      BY <2>2 DEF Moves
    <2>6. (turn \in Blocks => Reasserted(Machine, turn))'
      BY <2>1, <2>2 DEF Inv, Reasserted
    <2> QED  BY <2>1, <2>2, <2>3, <2>4, <2>5, <2>6 DEF Inv, InsnOK, Safe
  <1> QED  BY <1>1, <1>2, <1>3 DEF Next

(* So the invariant is inductive.                                          *)
LEMMA NextInv == Inv /\ [Next]_vars => Inv'
  BY NextSafe DEF Safe

(* The invariant gives the engine's types and the state of its FIFOs.      *)
LEMMA InvConsistent == Inv => Consistent
  <1> SUFFICES ASSUME Inv PROVE Consistent
    OBVIOUS
  <1>1. /\ cfg \in [Blocks -> [SMs -> Confs]] /\ sm \in [Blocks -> [SMs -> SmRecs]]
        /\ reg \in [Blocks -> [SMs -> PinRegs]] /\ irq \in [Blocks -> SUBSET Irqs]
        /\ pads \in [PadSets -> Pads]
        /\ \A b \in Blocks, s \in SMs : Fits(sm[b][s], cfg[b][s])
    BY MachineIs DEF Inv, MachineOK, Machines
  <1>2. ASSUME NEW b \in Blocks, NEW s \in SMs PROVE SmOK(sm[b][s], cfg[b][s])
    <2> DEFINE r == sm[b][s]
    <2>1. r \in SmRecs /\ Fits(r, cfg[b][s])
      BY <1>1
    <2> HIDE DEF r
    <2>2. SmOK(r, cfg[b][s])
      BY <2>1 DEF SmOK, SmRecs, Fits
    <2> QED  BY <2>2 DEF r
  <1>3. FifosConsistent
    BY <1>1 DEF FifosConsistent, Fits
  <1> QED  BY <1>1, <1>2, <1>3 DEF Consistent, TypeOK, Inv

(* Whatever programs and host do, in whatever order: every register of     *)
(* every state machine stays within its width, every FIFO within its       *)
(* capacity with cursors that agree with its count, and a register file    *)
(* queues nothing (pio_sim.c, the FIFO helpers, exec_* and sm_cycle).      *)
THEOREM EngineConsistent == Spec => []Consistent
  <1>1. Init => Inv
    BY InitInv
  <1>2. Inv /\ [Next]_vars => Inv'
    BY NextInv
  <1>3. Inv => Consistent
    BY InvConsistent
  <1> QED  BY <1>1, <1>2, <1>3, PTL DEF Spec

(* Unless the host calls pio_sim_sm_init, the resolved pin directions are  *)
(* never stale: every path that changes a claim or an enable, in a tick or *)
(* in a call, ends in pio_pads_resolve on the pads concerned.              *)
THEOREM EngineDirsFresh == Spec => []("init" \notin host.calls => PadDirsFresh)
  <1>1. Init => Inv
    BY InitInv
  <1>2. Inv /\ [Next]_vars => Inv'
    BY NextInv
  <1>3. Inv => ("init" \notin host.calls => PadDirsFresh)
    BY MachineIs DEF Inv, PadDirsFresh, PadsFresh, FreshPad
  <1> QED  BY <1>1, <1>2, <1>3, PTL DEF Spec

(* A claimed level is that of a block on the same pads.                    *)
LEMMA BackedBy ==
    ASSUME NEW m, NEW pd \in PadSets, m.pads[pd].owners = OwnersOf(pd),
           NEW n \in Pins, Backed(m, pd, n)
    PROVE  \E o \in Blocks, s \in SMs :
             /\ PadOf(o) = pd /\ n \in m.reg[o][s].wrote
             /\ (n \in m.reg[o][s].val) = (n \in m.pads[pd].pin_levels)
  <1> DEFINE p == m.pads[pd]
             r == m.reg
  <1>1. /\ Len(p.owners) \in Nat
        /\ \A i \in 1 .. Len(p.owners) : p.owners[i] \in Blocks /\ PadOf(p.owners[i]) = pd
    BY OwnersType
  <1>2. PICK c \in LevelClaims(p, r, n) :
          (n \in RegAt(p, r, c).val) = (n \in p.pin_levels)
    BY DEF Backed
  <1> HIDE DEF p, r
  <1>3. c \in Slots0(p) \X SMs /\ n \in RegAt(p, r, c).wrote
    BY <1>2 DEF LevelClaims
  <1>4. c[1] + 1 \in 1 .. Len(p.owners) /\ c[2] \in SMs
    BY <1>1, <1>3 DEF Slots0
  <1> DEFINE o == p.owners[c[1] + 1]
             s == c[2]
  <1>5. o \in Blocks /\ s \in SMs /\ PadOf(o) = pd /\ RegAt(p, r, c) = r[o][s]
    BY <1>1, <1>4 DEF RegAt
  <1> HIDE DEF o, s
  <1>6. /\ n \in r[o][s].wrote
        /\ (n \in r[o][s].val) = (n \in p.pin_levels)
    BY <1>2, <1>3, <1>5
  <1> QED  BY <1>5, <1>6 DEF p, r

(* A pin nobody writes holds its latched level: in ticks, clock edges and  *)
(* host calls alike, pio_pads_resolve moves a level only to the value that *)
(* an owner wrote in the current window.                                   *)
THEOREM EngineLevelsHold == Spec => LevelsHold
  <1> DEFINE Held ==
        \A b \in Blocks, n \in Pins :
          ((n \in pads[PadOf(b)].pin_levels) # (n \in pads'[PadOf(b)].pin_levels))
            => \E o \in Blocks, s \in SMs :
                 /\ PadOf(o) = PadOf(b) /\ n \in reg'[o][s].wrote
                 /\ (n \in reg'[o][s].val) = (n \in pads'[PadOf(b)].pin_levels)
  <1>1. Init => Inv
    BY InitInv
  <1>2. Inv /\ [Next]_vars => Inv'
    BY NextInv
  <1>3. Inv /\ [Next]_vars => Held
    <2> SUFFICES ASSUME Inv, [Next]_vars, NEW b \in Blocks, NEW n \in Pins,
                        (n \in pads[PadOf(b)].pin_levels) # (n \in pads'[PadOf(b)].pin_levels)
                 PROVE  \E o \in Blocks, s \in SMs :
                          /\ PadOf(o) = PadOf(b) /\ n \in reg'[o][s].wrote
                          /\ (n \in reg'[o][s].val) = (n \in pads'[PadOf(b)].pin_levels)
      OBVIOUS
    <2>1. Inv' /\ Moves(Machine, Machine')
      BY NextSafe DEF Safe
    <2> DEFINE pd == PadOf(b)
               z == Machine'
    <2>2. z.pads = pads' /\ z.reg = reg' /\ Machine.pads = pads
      BY DEF Machine
    <2>3. pd \in PadSets
      BY PadOfType
    <2>4. z.pads[pd].owners = OwnersOf(pd)
      BY <2>1, <2>3 DEF Inv, MachineOK
    <2> HIDE DEF z, pd
    <2>5. Backed(z, pd, n)
      BY <2>1, <2>2, <2>3 DEF Moves, z, pd
    <2>6. \E o \in Blocks, s \in SMs :
            /\ PadOf(o) = pd /\ n \in z.reg[o][s].wrote
            /\ (n \in z.reg[o][s].val) = (n \in z.pads[pd].pin_levels)
      BY <2>3, <2>4, <2>5, BackedBy
    <2> QED  BY <2>2, <2>6 DEF pd
  <1>4. Inv /\ [Next]_vars => [Held]_vars
    BY <1>3
  <1> QED  BY <1>1, <1>2, <1>4, PTL DEF Spec, LevelsHold

(* The slot of block b among the owners of its pads; later slots belong to *)
(* later blocks.                                                           *)
LEMMA SlotOf ==
    ASSUME NEW b \in Blocks
    PROVE  LET owners == OwnersOf(PadOf(b))
           IN  \E k \in 0 .. Len(owners) - 1 :
                 /\ owners[k + 1] = b
                 /\ \A j \in 0 .. Len(owners) - 1 : k < j => b < owners[j + 1]
  <1>1. b \in 0 .. NUM_PIO - 1 /\ NUM_PIO \in Nat
    BY PadsAssumption DEF Blocks
  <1>2. CASE SHARED
    <2> DEFINE ow == [i \in 1 .. NUM_PIO |-> i - 1]
    <2>1. OwnersOf(PadOf(b)) = ow
      BY <1>2 DEF OwnersOf
    <2>2. Len(ow) = NUM_PIO
      BY <1>1
    <2>3. \A j \in 0 .. NUM_PIO - 1 : ow[j + 1] = j
      BY <1>1
    <2> HIDE DEF ow
    <2> QED  BY <1>1, <2>1, <2>2, <2>3
  <1>3. CASE ~SHARED
    <2>1. OwnersOf(PadOf(b)) = <<b>>
      BY <1>3 DEF OwnersOf, PadOf
    <2> QED  BY <2>1
  <1> QED  BY <1>2, <1>3

(* The level of a pin that state machine s of block b writes, on settled   *)
(* pads: its own value, or a higher state machine writes the pin too.      *)
LEMMA WrittenLevel ==
    ASSUME NEW m, MachineOK(m), Settled(m), Wired(m), NEW b \in Blocks, NEW s \in SMs,
           NEW n \in m.reg[b][s].wrote
    PROVE  \/ (n \in m.pads[PadOf(b)].pin_levels) = (n \in m.reg[b][s].val)
           \/ \E o \in Blocks, t \in SMs :
                /\ PadOf(o) = PadOf(b) /\ n \in m.reg[o][t].wrote
                /\ o > b \/ (o = b /\ t > s)
  <1> DEFINE pd == PadOf(b)
             p == m.pads[pd]
             r == m.reg
             S == LevelClaims(p, r, n)
             c == Highest(S)
             o == p.owners[c[1] + 1]
             t == c[2]
  <1>1. pd \in PadSets /\ p.owners = OwnersOf(pd) /\ p.pin_levels = ResolvedLevels(p, r)
    BY PadOfType DEF MachineOK, Settled, SettledPad
  <1>2. n \in Pins /\ n \in r[b][s].wrote
    BY DEF MachineOK, Machines, PinRegs
  <1>3. /\ Len(p.owners) \in Nat /\ Len(p.owners) > 0
        /\ \A i \in 1 .. Len(p.owners) : p.owners[i] \in Blocks /\ PadOf(p.owners[i]) = pd
    <2>1. Len(p.owners) > 0
      BY <1>1, SlotOf, PadOwners
    <2> QED  BY <1>1, <2>1, PadOwners
  <1>4. PICK k \in Slots0(p) :
          p.owners[k + 1] = b /\ \A j \in Slots0(p) : k < j => b < p.owners[j + 1]
    BY <1>1, SlotOf DEF Slots0
  <1>5. Slots0(p) \subseteq Blocks /\ \A j \in Blocks : p.pio_func_mask[j] = Pins
    <2>1. Len(p.owners) <= NUM_PIO
      BY <1>1, PadsAssumption DEF OwnersOf
    <2>2. Slots0(p) \subseteq Blocks
      BY <1>3, <2>1, PadsAssumption DEF Slots0, Blocks
    <2> QED  BY <1>1, <2>2 DEF Wired
  <1> HIDE DEF pd, p, r
  <1> DEFINE d == <<k, s>>
  <1>6. d \in S
    BY <1>2, <1>4, <1>5 DEF LevelClaims, RegAt
  <1>7. /\ S \in SUBSET (Slots0(p) \X SMs) /\ c \in S
        /\ (n \in ResolvedLevels(p, r) <=> n \in RegAt(p, r, c).val)
    BY <1>2, <1>3, <1>6, LevelPicked
  <1>8. n \in RegAt(p, r, c).wrote
    BY <1>7 DEF LevelClaims
  <1> HIDE DEF S
  <1>9. d[1] < c[1] \/ (d[1] = c[1] /\ d[2] <= c[2])
    <2>1. S \in SUBSET ((0 .. (Len(p.owners) - 1)) \X (0 .. (NUM_SM - 1)))
      BY <1>7 DEF Slots0, SMs
    <2>2. Len(p.owners) - 1 \in Nat /\ NUM_SM - 1 \in Nat
      BY <1>3, PadsAssumption
    <2> QED  BY <1>6, <2>1, <2>2, HighestOutranks
  <1> HIDE DEF c
  <1>10. /\ c[1] \in Slots0(p) /\ c[2] \in SMs
    BY <1>7
  <1>11. c[1] + 1 \in 1 .. Len(p.owners)
    BY <1>3, <1>10 DEF Slots0
  <1>12. o \in Blocks /\ t \in SMs /\ PadOf(o) = pd /\ RegAt(p, r, c) = r[o][t]
    BY <1>3, <1>10, <1>11 DEF RegAt
  <1>13. k < c[1] \/ (k = c[1] /\ s <= t)
    BY <1>9
  <1>14. o > b \/ (o = b /\ t > s) \/ (o = b /\ t = s)
    <2>1. k \in Int /\ c[1] \in Int /\ s \in Int /\ t \in Int /\ o \in Int /\ b \in Int
      BY <1>3, <1>10, <1>12, PadsAssumption DEF Slots0, SMs, Blocks
    <2>2. k < c[1] => b < o
      BY <1>4, <1>10
    <2>3. k = c[1] => o = b
      BY <1>4
    <2> HIDE DEF o, t
    <2> QED  BY <1>13, <2>1, <2>2, <2>3
  <1> HIDE DEF o, t
  <1>15. \/ (n \in p.pin_levels) = (n \in r[b][s].val)
         \/ /\ o \in Blocks /\ t \in SMs /\ PadOf(o) = pd /\ n \in r[o][t].wrote
            /\ o > b \/ (o = b /\ t > s)
    BY <1>1, <1>7, <1>8, <1>12, <1>14
  <1> QED  BY <1>15 DEF p, r, pd

(* OUT_STICKY gives continuous priority: during its block's callback, a    *)
(* pin driven by an undivided sticky state machine that the host leaves    *)
(* alone has that machine's level, unless a higher-numbered state machine  *)
(* of the block or a later block on the pads has written the pin since.    *)
THEOREM EngineStickyPriority == Spec => []StickyPriority
  <1>1. Init => Inv
    BY InitInv
  <1>2. Inv /\ [Next]_vars => Inv'
    BY NextInv
  <1>3. Inv => StickyPriority
    <2> SUFFICES ASSUME Inv, NEW b \in Blocks, NEW s \in SMs,
                        turn = b, sm[b][s].enabled, cfg[b][s].out_sticky,
                        cfg[b][s].div = DIV_ONE, <<b, s>> \notin host.sms,
                        NEW n \in reg[b][s].oe \intersect reg[b][s].dir
                 PROVE  \/ (n \in pads[PadOf(b)].pin_levels) = (n \in reg[b][s].val)
                        \/ \E o \in Blocks, t \in SMs :
                             /\ PadOf(o) = PadOf(b) /\ n \in reg[o][t].wrote
                             /\ o > b \/ (o = b /\ t > s)
      BY DEF StickyPriority
    <2>1. n \in reg[b][s].wrote
      BY MachineIs DEF Inv, Reasserted, Asserting, Asserted
    <2> DEFINE m == Machine
    <2>2. MachineOK(m) /\ Settled(m) /\ Wired(m) /\ m.reg = reg /\ m.pads = pads
      BY MachineIs DEF Inv
    <2> HIDE DEF m
    <2>3. n \in m.reg[b][s].wrote
      BY <2>1, <2>2
    <2>4. \/ (n \in m.pads[PadOf(b)].pin_levels) = (n \in m.reg[b][s].val)
          \/ \E o \in Blocks, t \in SMs :
               /\ PadOf(o) = PadOf(b) /\ n \in m.reg[o][t].wrote
               /\ o > b \/ (o = b /\ t > s)
      BY <2>2, <2>3, WrittenLevel
    <2> QED  BY <2>2, <2>4
  <1> QED  BY <1>1, <1>2, <1>3, PTL DEF Spec
============================================================================
