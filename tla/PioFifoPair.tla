---------------------------- MODULE PioFifoPair ----------------------------
(***************************************************************************)
(* The TX/RX FIFO pair of one state machine, driven from both ends: the    *)
(* system puts, gets, clears, rejoins and uses the debug window; the state *)
(* machine pulls, pushes and, in a register-file mode, moves words in and  *)
(* out of the RX storage by index.  The two ends interleave freely.        *)
(***************************************************************************)
EXTENDS PioFifo

CONSTANTS
    Word,       \* the words that travel
    ZeroWord    \* contents of untouched storage

ASSUME WordAssumption == ZeroWord \in Word

VARIABLES
    tx, rx,     \* the two FIFOs of pio_sm_t
    fifo_join,  \* the join mode in force
    fdebug      \* sticky FDEBUG flags

vars == <<tx, rx, fifo_join, fdebug>>

FdebugFlags == {"TXOVER", "RXUNDER", "RXSTALL", "TXSTALL"}

TypeOK ==
    /\ tx \in Fifo(Word)
    /\ rx \in Fifo(Word)
    /\ fifo_join \in Joins
    /\ fdebug \subseteq FdebugFlags

Init ==
    /\ tx = EmptyFifo(ZeroWord)
    /\ rx = EmptyFifo(ZeroWord)
    /\ fifo_join = "NONE"
    /\ fdebug = {}

(***************************************************************************)
(* The system's side.                                                      *)
(***************************************************************************)
pio_sim_sm_put(w) ==
    /\ IF fifo_full(tx)
         THEN /\ fdebug' = fdebug \union {"TXOVER"}
              /\ UNCHANGED tx
         ELSE /\ tx' = fifo_push(tx, w)
              /\ UNCHANGED fdebug
    /\ UNCHANGED <<rx, fifo_join>>

pio_sim_sm_get ==
    /\ IF fifo_empty(rx)
         THEN /\ fdebug' = fdebug \union {"RXUNDER"}
              /\ UNCHANGED rx
         ELSE /\ rx' = fifo_pop(rx)
              /\ UNCHANGED fdebug
    /\ UNCHANGED <<tx, fifo_join>>

pio_sim_sm_clear_fifos ==
    /\ tx' = fifo_clear(tx)
    /\ rx' = fifo_clear(rx)
    /\ UNCHANGED <<fifo_join, fdebug>>

apply_fifo_join(j) ==
    /\ fifo_join' = j
    /\ tx' = Rejoin(tx, fifo_join, j, TxCap(j))
    /\ rx' = Rejoin(rx, fifo_join, j, RxCap(j))
    /\ UNCHANGED fdebug

(* The debug window writes the storage whatever the join mode is.          *)
pio_sim_sm_rxfifo_put(idx, w) ==
    /\ rx' = [rx EXCEPT !.buf[idx] = w]
    /\ UNCHANGED <<tx, fifo_join, fdebug>>

pio_sim_sm_clear_fdebug(flags) ==
    /\ fdebug' = fdebug \ flags
    /\ UNCHANGED <<tx, rx, fifo_join>>

(***************************************************************************)
(* The state machine's side.                                               *)
(***************************************************************************)

(* A PULL, or the background refill (which sets no flag on an empty TX).   *)
osr_refill ==
    /\ ~fifo_empty(tx)
    /\ tx' = fifo_pop(tx)
    /\ UNCHANGED <<rx, fifo_join, fdebug>>

PullOnEmpty ==
    /\ fifo_empty(tx)
    /\ fdebug' = fdebug \union {"TXSTALL"}
    /\ UNCHANGED <<tx, rx, fifo_join>>

(* Faulty variant: the register-file modes are forgotten.                  *)
PushBlocked_full_only == fifo_full(rx)

(* A PUSH or an autopush of the word w.  A full FIFO, or storage that is   *)
(* in use as a register file, takes nothing.                               *)
PushBlocked == rx_fifo_is_register_file(fifo_join) \/ fifo_full(rx)

isr_drain(w) ==
    /\ IF PushBlocked
         THEN /\ fdebug' = fdebug \union {"RXSTALL"}
              /\ UNCHANGED rx
         ELSE /\ rx' = fifo_push(rx, w)
              /\ UNCHANGED fdebug
    /\ UNCHANGED <<tx, fifo_join>>

(* mov rxfifo[idx], isr: a no-op unless the mode lets the program put.     *)
mov_rxfifo_put(idx, w) ==
    /\ fifo_join \in {"RX_PUT", "RX_PUTGET"}
    /\ rx' = [rx EXCEPT !.buf[idx] = w]
    /\ UNCHANGED <<tx, fifo_join, fdebug>>

Next ==
    \/ \E w \in Word : pio_sim_sm_put(w) \/ isr_drain(w)
    \/ pio_sim_sm_get
    \/ osr_refill
    \/ PullOnEmpty
    \/ pio_sim_sm_clear_fifos
    \/ \E j \in Joins : apply_fifo_join(j)
    \/ \E idx \in RegIdx, w \in Word :
         pio_sim_sm_rxfifo_put(idx, w) \/ mov_rxfifo_put(idx, w)
    \/ \E f \in FdebugFlags : pio_sim_sm_clear_fdebug({f})

Spec == Init /\ [][Next]_vars

(***************************************************************************)
(* Properties.                                                             *)
(***************************************************************************)

(* The cursors and the count of a ring agree, and no more words are queued *)
(* than the capacity in force allows: fifo_push, fifo_pop, fifo_clear and  *)
(* the reshaping in apply_fifo_join keep head = tail + count (mod MAX).    *)
RingOK(f) ==
    /\ f.count <= f.cap
    /\ f.head = (f.tail + f.count) % FIFO_MAX

(* Both rings stay consistent, each has the capacity its join mode gives   *)
(* it, and while the RX storage is a register file nothing is ever queued  *)
(* in it, so a get can never return a register-file slot as if it were a   *)
(* received word.                                                          *)
FifosConsistent ==
    /\ RingOK(tx) /\ RingOK(rx)
    /\ tx.cap = TxCap(fifo_join) /\ rx.cap = RxCap(fifo_join)
    /\ rx_fifo_is_register_file(fifo_join) => rx.count = 0

(* The ring-buffer pair implements the pair of bounded queues: every call, *)
(* from either end and across clears and rejoins, acts on the queued words *)
(* as the abstract queues do.                                              *)
Queues == INSTANCE FifoQueues WITH
            txq <- Contents(tx), rxq <- Contents(rx), join <- fifo_join
ImplementsQueues == Queues!QSpec
============================================================================
