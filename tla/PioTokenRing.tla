---------------------------- MODULE PioTokenRing ----------------------------
(***************************************************************************)
(* Cross-block signalling in a group: every block waits for flag 0 of its  *)
(* own, works, and raises flag 0 of its neighbour (irq next / irq prev).   *)
(* pio_sim_group_tick visits the blocks one after the other, so a flag     *)
(* raised by an earlier block is seen in the same tick and one raised by a *)
(* later block in the next.  The host launches one token and then only     *)
(* stops and starts blocks.                                                *)
(***************************************************************************)
EXTENDS PioSim, PioInsns

VARIABLE launched

Passing == host.story = "ring"

Launch == /\ ~launched /\ launched' = TRUE
          /\ \E b \in Blocks : pio_sim_irq_force(b, 0, TRUE)

StopOrGo == /\ \E b \in Blocks, on \in BOOLEAN :
                 pio_sim_set_sm_mask_enabled(b, {0}, on)
            /\ UNCHANGED launched

TNext == Launch \/ StopOrGo \/ (Step /\ UNCHANGED launched)

(* A block holds the token between its wait (word 0) and its irq (word 2). *)
Holding(b) == sm[b][0].pc \in {1, 2}

(* The token is never lost or copied: it is one flag that is up, or one    *)
(* block at work.  So the blocks exclude each other, although a flag may   *)
(* be raised, seen and taken within the tick of one group.                 *)
OneToken ==
    Passing =>
      Cardinality({b \in Blocks : 0 \in irq[b]})
        + Cardinality({b \in Blocks : Holding(b)})
        = IF launched THEN 1 ELSE 0

(* A start of such a ring, with linked blocks: state machine 0 of each     *)
(* block, and no other, runs a wait, something that touches registers or   *)
(* pins only, and an irq to either neighbour; delays, side-sets, dividers  *)
(* and the rest of the configuration are anything.                         *)
Takes(i)  == i.op = "WAIT" /\ i.src = "IRQ" /\ i.mode = "SELF" /\ i.idx = 0 /\ i.pol
Passes_on(i) == /\ i.op = "IRQ" /\ i.mode \in {"NEXT", "PREV"} /\ i.idx = 0
                /\ ~i.clr /\ ~i.wait

RingSetup(su) ==
    /\ su.on \subseteq Blocks \X {0} /\ Blocks \X {0} \subseteq su.host.sms
    /\ \A b \in Blocks :
         /\ Takes(su.prog[b][0]) /\ Works(su.prog[b][1]) /\ Passes_on(su.prog[b][2])
         /\ su.conf[b][0].wrap_bottom = 0 /\ su.conf[b][0].wrap_top = 2

TokenRings ==
    /\ LINKED /\ INSN_COUNT > 2
    /\ \A su \in Setups : su.host.story = "ring" => RingSetup(su)

(* Round and round: while all blocks run, every block gets the token again *)
(* and again.                                                              *)
EveryBlockServed ==
    (Passing /\ <>[](launched /\ \A b \in Blocks : sm[b][0].enabled))
      => \A b \in Blocks : []<>Holding(b)
============================================================================
