----------------------------- MODULE FifoQueues -----------------------------
(***************************************************************************)
(* What the pair of FIFOs of a state machine promises: two bounded queues  *)
(* between the system and the state machine, no word lost, duplicated or   *)
(* reordered; only an explicit clear or a change of the join mode empties  *)
(* them; nothing is ever queued on a side the join mode took away.         *)
(***************************************************************************)
EXTENDS PioFifo

CONSTANT Word

VARIABLES
    txq,    \* words from the system to the state machine
    rxq,    \* words from the state machine to the system
    join    \* the FIFO join mode

qvars == <<txq, rxq, join>>

(* In a register-file mode the RX side takes no queued word at all.        *)
RxRoom(j) == IF rx_fifo_is_register_file(j) THEN 0 ELSE RxCap(j)

QInit == txq = <<>> /\ rxq = <<>> /\ join = "NONE"

Put(w) == /\ Len(txq) < TxCap(join)
          /\ txq' = Append(txq, w)
          /\ UNCHANGED <<rxq, join>>

Pull == /\ txq # <<>>
        /\ txq' = Tail(txq)
        /\ UNCHANGED <<rxq, join>>

Push(w) == /\ Len(rxq) < RxRoom(join)
           /\ rxq' = Append(rxq, w)
           /\ UNCHANGED <<txq, join>>

Get == /\ rxq # <<>>
       /\ rxq' = Tail(rxq)
       /\ UNCHANGED <<txq, join>>

(* The debug write port may overwrite one queued word in place.            *)
Poke(w) == /\ \E k \in 1 .. Len(rxq) : rxq' = [rxq EXCEPT ![k] = w]
           /\ UNCHANGED <<txq, join>>

Clear == /\ txq' = <<>> /\ rxq' = <<>>
         /\ UNCHANGED join

Rejoined(j) == /\ j # join
               /\ txq' = <<>> /\ rxq' = <<>>
               /\ join' = j

QNext == \/ \E w \in Word : Put(w) \/ Push(w) \/ Poke(w)
         \/ Pull \/ Get \/ Clear
         \/ \E j \in Joins : Rejoined(j)

QSpec == QInit /\ [][QNext]_qvars
============================================================================
