---------------------------- MODULE PioPrograms ----------------------------
(***************************************************************************)
(* State machines that depend on each other, one story per behaviour:      *)
(*    meet   a caller and a server of block 0 (PioRendezvous),             *)
(*    ring   a token passed around the blocks (PioTokenRing),              *)
(*    twins  two state machines started in sync (PioLockstep).             *)
(* The setup a behaviour starts from says which story it is; the history   *)
(* variables of the other stories do not move.                             *)
(***************************************************************************)
EXTENDS PioRendezvous, PioTokenRing, PioLockstep

meet == <<passed>>
ring == <<launched>>
twins == <<fresh, synced>>

pvars == <<vars, meet, ring, twins>>

PInit ==
    /\ Init
    /\ passed = [s \in SMs |-> 0]
    /\ launched = FALSE
    /\ fresh = {} /\ synced = FALSE

PNext ==
    \/ host.story = "meet" /\ RNext /\ UNCHANGED <<ring, twins>>
    \/ host.story = "ring" /\ TNext /\ UNCHANGED <<meet, twins>>
    \/ host.story = "twins" /\ LNext /\ UNCHANGED <<meet, ring>>

PSpec == PInit /\ [][PNext]_pvars

FairPSpec == PSpec /\ TicksForever
============================================================================
