------------------------------ MODULE PioFifo ------------------------------
(***************************************************************************)
(* The circular buffer behind every TX and RX FIFO of a state machine      *)
(* (pio_fifo_t).  A FIFO is a record of the ring's storage, its two        *)
(* cursors, the number of queued words and the configured capacity.  The   *)
(* cursors always wrap at FIFO_MAX, the size of the storage, whatever the  *)
(* capacity is.                                                            *)
(***************************************************************************)
EXTENDS Naturals, Sequences

CONSTANTS
    FIFO_DEPTH,     \* PIO_SIM_FIFO_DEPTH: capacity of an unjoined FIFO (4)
    FIFO_MAX        \* PIO_SIM_FIFO_MAX: slots of the storage (8)

ASSUME FifoAssumption ==
    /\ FIFO_DEPTH \in Nat \ {0}
    /\ FIFO_MAX \in Nat
    /\ FIFO_DEPTH <= FIFO_MAX

Slots == 0 .. FIFO_MAX - 1

(* Entries of the RX register file: the index is masked to the depth.      *)
RegIdx == 0 .. FIFO_DEPTH - 1

Fifo(Elem) ==
    [buf : [Slots -> Elem], head : Slots, tail : Slots,
     count : 0 .. FIFO_MAX, cap : {0, FIFO_DEPTH, FIFO_MAX}]

(* A zeroed FIFO of the default capacity, as pio_sim_init leaves it.       *)
EmptyFifo(zero) ==
    [buf |-> [i \in Slots |-> zero], head |-> 0, tail |-> 0,
     count |-> 0, cap |-> FIFO_DEPTH]

fifo_full(f) == f.count >= f.cap
fifo_empty(f) == f.count = 0

(* Clearing drops the contents and keeps the capacity; the storage itself  *)
(* is not wiped.                                                           *)
fifo_clear(f) == [f EXCEPT !.head = 0, !.tail = 0, !.count = 0]

(* fifo_push and fifo_pop on a FIFO that can take, or has, a word; their   *)
(* callers test fifo_full and fifo_empty first.                            *)
fifo_push(f, v) ==
    [f EXCEPT !.buf[f.head] = v,
              !.head = (f.head + 1) % FIFO_MAX,
              !.count = f.count + 1]

(* Faulty variant: the read cursor wraps at the capacity.                  *)
fifo_pop_at_cap(f) ==
    [f EXCEPT !.tail = (f.tail + 1) % f.cap, !.count = f.count - 1]

fifo_pop(f) ==
    [f EXCEPT !.tail = (f.tail + 1) % FIFO_MAX,
              !.count = f.count - 1]

fifo_front(f) == f.buf[f.tail]

(***************************************************************************)
(* FIFO join modes.                                                        *)
(***************************************************************************)
RegFileJoins == {"RX_PUT", "RX_GET", "RX_PUTGET"}
Joins == {"NONE", "TX", "RX"} \union RegFileJoins

TxCap(join) == CASE join = "TX" -> FIFO_MAX
                 [] join = "RX" -> 0
                 [] OTHER       -> FIFO_DEPTH

RxCap(join) == CASE join = "TX" -> 0
                 [] join = "RX" -> FIFO_MAX
                 [] OTHER       -> FIFO_DEPTH

rx_fifo_is_register_file(join) == join \in RegFileJoins

(* One FIFO under a change of the join mode: it is reshaped always and     *)
(* cleared only if the mode really changes.                                *)
Rejoin(f, old, new, cap) ==
    LET g == [f EXCEPT !.cap = cap]
    IN  IF old # new THEN fifo_clear(g) ELSE g

(***************************************************************************)
(* The queue a ring represents: slot tail first, count slots in all.       *)
(***************************************************************************)
Contents(f) == [i \in 1 .. f.count |-> f.buf[(f.tail + i - 1) % FIFO_MAX]]
============================================================================
