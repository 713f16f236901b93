------------------------ MODULE PioFifoPair_proofs ------------------------
(***************************************************************************)
(* Proofs about the FIFO pair for every depth, storage size and set of     *)
(* words: the rings stay consistent, and they implement bounded queues.    *)
(***************************************************************************)
EXTENDS PioFifoPair, TLAPS

(* A ring whose storage has FIFO_MAX slots has slot 0, and moving a cursor *)
(* past the end of the storage stays inside it.                            *)
LEMMA CursorInRange ==
    ASSUME NEW n \in Nat
    PROVE  /\ n % FIFO_MAX \in Slots
           /\ 0 \in Slots
           /\ FIFO_MAX \in Nat \ {0}
           /\ RegIdx \subseteq Slots
  BY FifoAssumption DEF Slots, RegIdx

(* Wrapping a cursor that is at most one turn ahead.                       *)
LEMMA Wrap ==
    ASSUME NEW m \in Nat \ {0}, NEW x \in 0 .. 2 * m - 1
    PROVE  x % m = IF x < m THEN x ELSE x - m
  <1>1. CASE x < m
    BY <1>1
  <1>2. CASE ~(x < m)
    <2> DEFINE y == x - m
    <2>1. y \in 0 .. m - 1 /\ x = y + m
      BY <1>2
    <2>2. y % m = y /\ (y + m) % m = y % m
      BY <2>1
    <2> QED  BY <1>2, <2>1, <2>2
  <1> QED  BY <1>1, <1>2

(* A cursor may be wrapped before or after it is moved on.                 *)
LEMMA WrapAdd ==
    ASSUME NEW m \in Nat \ {0}, NEW a \in Nat, NEW b \in Nat, a + b <= 2 * m - 1
    PROVE  ((a % m) + b) % m = (a + b) % m
  <1>1. a \in 0 .. 2 * m - 1 /\ a + b \in 0 .. 2 * m - 1
    OBVIOUS
  <1>2. CASE a < m
    <2>1. a % m = a
      BY <1>1, <1>2, Wrap
    <2> QED  BY <2>1
  <1>3. CASE ~(a < m)
    <2> DEFINE c == a + b
    <2>0. c \in 0 .. 2 * m - 1 /\ ~(c < m)
      BY <1>1, <1>3
    <2>1. a % m = a - m /\ c % m = c - m
      <3> HIDE DEF c
      <3>1. a % m = a - m
        BY <1>1, <1>3, Wrap
      <3>2. c % m = c - m
        BY <2>0, Wrap
      <3> QED  BY <3>1, <3>2
    <2>2. (a - m) + b \in 0 .. 2 * m - 1 /\ (a - m) + b < m
      BY <1>1, <1>3
    <2>3. ((a - m) + b) % m = (a - m) + b
      BY <2>2, Wrap
    <2> QED  BY <2>1, <2>3
  <1> QED  BY <1>2, <1>3

(* The fields of a FIFO, as numbers.                                       *)
LEMMA Fields ==
    ASSUME NEW f \in Fifo(Word)
    PROVE  /\ f.head \in 0 .. FIFO_MAX - 1 /\ f.tail \in 0 .. FIFO_MAX - 1
           /\ f.head \in Slots /\ f.tail \in Slots
           /\ f.count \in 0 .. FIFO_MAX
           /\ f.cap \in 0 .. FIFO_MAX /\ f.cap \in {0, FIFO_DEPTH, FIFO_MAX}
           /\ f.buf \in [Slots -> Word]
           /\ FIFO_MAX \in Nat \ {0}
  BY FifoAssumption DEF Fifo, Slots

(* Capacities are those a FIFO can have.                                   *)
LEMMA CapsInRange ==
    ASSUME NEW j \in Joins
    PROVE  /\ TxCap(j) \in {0, FIFO_DEPTH, FIFO_MAX}
           /\ RxCap(j) \in {0, FIFO_DEPTH, FIFO_MAX}
           /\ TxCap(j) \in 0 .. FIFO_MAX /\ RxCap(j) \in 0 .. FIFO_MAX
  BY FifoAssumption DEF TxCap, RxCap, Joins, RegFileJoins

(* fifo_push on a ring that has room keeps it consistent.                  *)
LEMMA PushKeeps ==
    ASSUME NEW f \in Fifo(Word), NEW w \in Word, RingOK(f), ~fifo_full(f)
    PROVE  LET g == fifo_push(f, w)
           IN  /\ g \in Fifo(Word) /\ RingOK(g)
               /\ g.cap = f.cap /\ g.count = f.count + 1 /\ g.tail = f.tail
               /\ g.buf = [f.buf EXCEPT ![f.head] = w]
  <1> DEFINE g == fifo_push(f, w)
             b == [f.buf EXCEPT ![f.head] = w]
             h == (f.head + 1) % FIFO_MAX
             n == f.count + 1
  <1>1. b \in [Slots -> Word] /\ h \in Slots /\ n \in 0 .. FIFO_MAX /\ n <= f.cap
    BY Fields, CursorInRange DEF fifo_full
  <1>2. g = [f EXCEPT !.buf = b, !.head = h, !.count = n]
    BY DEF fifo_push, Fifo
  <1>3. h = (f.tail + n) % FIFO_MAX
    <2>1. f.head = (f.tail + f.count) % FIFO_MAX
      BY DEF RingOK
    <2>2. /\ f.tail + f.count \in Nat /\ f.tail + f.count + 1 <= 2 * FIFO_MAX - 1
          /\ f.tail + f.count + 1 = f.tail + n
      BY Fields, <1>1
    <2> QED  BY <2>1, <2>2, Fields, WrapAdd
  <1> HIDE DEF b, h, n, g
  <1>4. g \in Fifo(Word)
    BY <1>1, <1>2 DEF Fifo
  <1>5. /\ g.cap = f.cap /\ g.count = n /\ g.tail = f.tail
        /\ g.head = h /\ g.buf = b
    BY <1>2 DEF Fifo
  <1> QED  BY <1>1, <1>3, <1>4, <1>5 DEF RingOK, g, b, n

(* fifo_pop on a ring that has a word keeps it consistent.                 *)
LEMMA PopKeeps ==
    ASSUME NEW f \in Fifo(Word), RingOK(f), ~fifo_empty(f)
    PROVE  LET g == fifo_pop(f)
           IN  /\ g \in Fifo(Word) /\ RingOK(g)
               /\ g.cap = f.cap /\ g.count = f.count - 1
               /\ g.tail = (f.tail + 1) % FIFO_MAX /\ g.buf = f.buf
  <1> DEFINE g == fifo_pop(f)
             t == (f.tail + 1) % FIFO_MAX
             n == f.count - 1
  <1>1. t \in Slots /\ n \in 0 .. FIFO_MAX - 1 /\ f.count <= f.cap
    BY Fields, CursorInRange DEF fifo_empty, RingOK
  <1>2. g = [f EXCEPT !.tail = t, !.count = n]
    BY DEF fifo_pop
  <1>3. f.head = (t + n) % FIFO_MAX
    <2>1. f.head = (f.tail + f.count) % FIFO_MAX
      BY DEF RingOK
    <2> DEFINE u == f.tail + 1
    <2>2. /\ u \in Nat /\ n \in Nat
          /\ u + n <= 2 * FIFO_MAX - 1
          /\ u + n = f.tail + f.count
          /\ t = u % FIFO_MAX
          /\ FIFO_MAX \in Nat \ {0}
      BY Fields, <1>1
    <2> HIDE DEF u, n, t
    <2>3. ((u % FIFO_MAX) + n) % FIFO_MAX = (u + n) % FIFO_MAX
      BY <2>2, WrapAdd
    <2> QED  BY <2>1, <2>2, <2>3
  <1> HIDE DEF t, n, g
  <1>4. g \in Fifo(Word)
    <2>1. n \in 0 .. FIFO_MAX
      BY <1>1, Fields
    <2> QED  BY <1>1, <1>2, <2>1 DEF Fifo
  <1>5. /\ g.cap = f.cap /\ g.count = n /\ g.tail = t
        /\ g.head = f.head /\ g.buf = f.buf
    BY <1>2 DEF Fifo
  <1>6. n <= f.cap
    BY <1>1, Fields DEF n
  <1> QED  BY <1>3, <1>4, <1>5, <1>6 DEF RingOK, g, t, n

(* Clearing or reshaping keeps a ring consistent; a cleared ring is empty. *)
LEMMA ClearKeeps ==
    ASSUME NEW f \in Fifo(Word)
    PROVE  /\ fifo_clear(f) \in Fifo(Word)
           /\ RingOK(fifo_clear(f))
           /\ fifo_clear(f).cap = f.cap
           /\ fifo_clear(f).count = 0
  <1> DEFINE g == fifo_clear(f)
  <1>1. 0 \in Slots /\ 0 \in 0 .. FIFO_MAX /\ 0 = (0 + 0) % FIFO_MAX
    BY CursorInRange, FifoAssumption
  <1>2. g \in Fifo(Word)
    BY <1>1 DEF Fifo, fifo_clear
  <1>3. g.head = 0 /\ g.tail = 0 /\ g.count = 0 /\ g.cap = f.cap
    BY DEF Fifo, fifo_clear
  <1> HIDE DEF g
  <1>4. 0 <= g.cap
    BY <1>3, Fields
  <1>5. RingOK(g)
    BY <1>1, <1>3, <1>4 DEF RingOK
  <1> QED  BY <1>2, <1>3, <1>5 DEF g

(* A join change leaves an empty ring of the new capacity; setting the     *)
(* mode already in force changes nothing.                                  *)
LEMMA RejoinKeeps ==
    ASSUME NEW f \in Fifo(Word), NEW old, NEW new,
           NEW cap \in {0, FIFO_DEPTH, FIFO_MAX},
           RingOK(f), old = new => f.cap = cap
    PROVE  LET g == Rejoin(f, old, new, cap)
           IN  /\ g \in Fifo(Word) /\ RingOK(g) /\ g.cap = cap
               /\ g.count = IF old = new THEN f.count ELSE 0
               /\ old = new => g = f
  <1> DEFINE h == [f EXCEPT !.cap = cap]
  <1>1. h \in Fifo(Word) /\ h.cap = cap
    BY DEF Fifo
  <1>2. CASE old = new
    <2>1. h = f
      BY <1>2 DEF Fifo
    <2> QED  BY <1>2, <2>1 DEF Rejoin
  <1>3. CASE old # new
    BY <1>1, <1>3, ClearKeeps DEF Rejoin
  <1> QED  BY <1>2, <1>3

(* Storing a word in the storage moves no cursor.                          *)
LEMMA StoreKeeps ==
    ASSUME NEW f \in Fifo(Word), NEW idx \in RegIdx, NEW w \in Word, RingOK(f)
    PROVE  LET g == [f EXCEPT !.buf[idx] = w]
           IN  /\ g \in Fifo(Word) /\ RingOK(g)
               /\ g.cap = f.cap /\ g.count = f.count /\ g.tail = f.tail
               /\ g.buf = [f.buf EXCEPT ![idx] = w]
  BY CursorInRange DEF Fifo, RingOK

(***************************************************************************)
(* The inductive invariant: types and consistency together.                *)
(***************************************************************************)
Inv == TypeOK /\ FifosConsistent

(* pio_sim_init establishes it.                                            *)
LEMMA InvInit == Init => Inv
  <1> SUFFICES ASSUME Init PROVE Inv
    OBVIOUS
  <1> DEFINE e == EmptyFifo(ZeroWord)
  <1>1. e \in Fifo(Word) /\ e.count = 0 /\ e.cap = FIFO_DEPTH
                         /\ e.head = 0 /\ e.tail = 0
    BY CursorInRange, FifoAssumption, WordAssumption DEF EmptyFifo, Fifo
  <1> HIDE DEF e
  <1>2. RingOK(e)
    BY <1>1, FifoAssumption DEF RingOK
  <1> QED
    BY <1>1, <1>2 DEF Init, Inv, TypeOK, FifosConsistent, Joins, RegFileJoins,
       TxCap, RxCap, rx_fifo_is_register_file, e

(* Every call, from either end, preserves it.                              *)
LEMMA InvNext == Inv /\ [Next]_vars => Inv'
  <1> SUFFICES ASSUME Inv, [Next]_vars PROVE Inv'
    OBVIOUS
  <1>0. /\ tx \in Fifo(Word) /\ rx \in Fifo(Word) /\ RingOK(tx) /\ RingOK(rx)
        /\ fifo_join \in Joins /\ fdebug \subseteq FdebugFlags
        /\ tx.cap = TxCap(fifo_join) /\ rx.cap = RxCap(fifo_join)
        /\ rx_fifo_is_register_file(fifo_join) => rx.count = 0
    BY DEF Inv, TypeOK, FifosConsistent
  <1> USE DEF Inv, TypeOK, FifosConsistent
  <1>1. ASSUME NEW w \in Word, pio_sim_sm_put(w) PROVE Inv'
    <2>1. CASE fifo_full(tx)
      BY <1>0, <1>1, <2>1 DEF pio_sim_sm_put, FdebugFlags, RingOK
    <2>2. CASE ~fifo_full(tx)
      <3>1. tx' \in Fifo(Word) /\ RingOK(tx') /\ tx'.cap = tx.cap
        BY <1>0, <1>1, <2>2, PushKeeps DEF pio_sim_sm_put
      <3> QED  BY <1>0, <1>1, <2>2, <3>1 DEF pio_sim_sm_put, RingOK
    <2> QED  BY <2>1, <2>2
  <1>2. ASSUME NEW w \in Word, isr_drain(w) PROVE Inv'
    <2>1. CASE PushBlocked
      BY <1>0, <1>2, <2>1 DEF isr_drain, FdebugFlags, RingOK
    <2>2. CASE ~PushBlocked
      <3>1. rx' \in Fifo(Word) /\ RingOK(rx') /\ rx'.cap = rx.cap
        BY <1>0, <1>2, <2>2, PushKeeps DEF isr_drain, PushBlocked
      <3> QED  BY <1>0, <1>2, <2>2, <3>1 DEF isr_drain, RingOK, PushBlocked
    <2> QED  BY <2>1, <2>2
  <1>3. ASSUME pio_sim_sm_get PROVE Inv'
    <2>1. CASE fifo_empty(rx)
      BY <1>0, <1>3, <2>1 DEF pio_sim_sm_get, FdebugFlags, RingOK
    <2>2. CASE ~fifo_empty(rx)
      <3>1. rx' \in Fifo(Word) /\ RingOK(rx') /\ rx'.cap = rx.cap
        BY <1>0, <1>3, <2>2, PopKeeps DEF pio_sim_sm_get
      <3>2. ~rx_fifo_is_register_file(fifo_join)
        BY <1>0, <2>2 DEF fifo_empty
      <3> QED  BY <1>0, <1>3, <2>2, <3>1, <3>2 DEF pio_sim_sm_get, RingOK
    <2> QED  BY <2>1, <2>2
  <1>4. ASSUME osr_refill PROVE Inv'
    <2>1. tx' \in Fifo(Word) /\ RingOK(tx') /\ tx'.cap = tx.cap
      BY <1>0, <1>4, PopKeeps DEF osr_refill
    <2> QED  BY <1>0, <1>4, <2>1 DEF osr_refill, RingOK
  <1>5. ASSUME PullOnEmpty PROVE Inv'
    BY <1>0, <1>5 DEF PullOnEmpty, FdebugFlags, RingOK
  <1>6. ASSUME pio_sim_sm_clear_fifos PROVE Inv'
    <2>1. /\ tx' \in Fifo(Word) /\ RingOK(tx') /\ tx'.cap = tx.cap
          /\ rx' \in Fifo(Word) /\ RingOK(rx') /\ rx'.cap = rx.cap
          /\ rx'.count = 0
      BY <1>0, <1>6, ClearKeeps DEF pio_sim_sm_clear_fifos
    <2> QED  BY <1>0, <1>6, <2>1 DEF pio_sim_sm_clear_fifos, RingOK
  <1>7. ASSUME NEW j \in Joins, apply_fifo_join(j) PROVE Inv'
    <2>1. tx' \in Fifo(Word) /\ RingOK(tx') /\ tx'.cap = TxCap(j)
      BY <1>0, <1>7, CapsInRange, RejoinKeeps DEF apply_fifo_join
    <2>2. /\ rx' \in Fifo(Word) /\ RingOK(rx') /\ rx'.cap = RxCap(j)
          /\ rx'.count = IF fifo_join = j THEN rx.count ELSE 0
      BY <1>0, <1>7, CapsInRange, RejoinKeeps DEF apply_fifo_join
    <2> QED  BY <1>0, <1>7, <2>1, <2>2 DEF apply_fifo_join, RingOK
  <1>8. ASSUME NEW idx \in RegIdx, NEW w \in Word,
               pio_sim_sm_rxfifo_put(idx, w) \/ mov_rxfifo_put(idx, w)
        PROVE  Inv'
    <2> DEFINE g == [rx EXCEPT !.buf[idx] = w]
    <2>0. rx' = g
      BY <1>8 DEF pio_sim_sm_rxfifo_put, mov_rxfifo_put
    <2>1. g \in Fifo(Word) /\ RingOK(g) /\ g.cap = rx.cap /\ g.count = rx.count
      BY <1>0, StoreKeeps
    <2> HIDE DEF g
    <2> QED  BY <1>0, <1>8, <2>0, <2>1
             DEF pio_sim_sm_rxfifo_put, mov_rxfifo_put, RingOK
  <1>9. ASSUME NEW f \in FdebugFlags, pio_sim_sm_clear_fdebug({f}) PROVE Inv'
    BY <1>0, <1>9 DEF pio_sim_sm_clear_fdebug, RingOK
  <1>10. CASE UNCHANGED vars
    BY <1>0, <1>10 DEF vars, RingOK
  <1> QED
    BY <1>1, <1>2, <1>3, <1>4, <1>5, <1>6, <1>7, <1>8, <1>9, <1>10 DEF Next

(* The FIFO pair keeps its types: no cursor ever leaves the storage and no *)
(* count exceeds it.                                                       *)
THEOREM FifoTypes == Spec => []TypeOK
  <1>1. Init => Inv  BY InvInit
  <1>2. Inv /\ [Next]_vars => Inv'  BY InvNext
  <1>3. Inv => TypeOK  BY DEF Inv
  <1> QED  BY <1>1, <1>2, <1>3, PTL DEF Spec

(* Cursors, counts and capacities of both FIFOs always agree with each     *)
(* other and with the join mode, and a register file holds no queued word. *)
THEOREM FifoConsistency == Spec => []FifosConsistent
  <1>1. Init => Inv  BY InvInit
  <1>2. Inv /\ [Next]_vars => Inv'  BY InvNext
  <1>3. Inv => FifosConsistent  BY DEF Inv
  <1> QED  BY <1>1, <1>2, <1>3, PTL DEF Spec

(***************************************************************************)
(* The ring buffers implement the queues.  Slot(f, i) is where the i-th    *)
(* queued word is stored.                                                  *)
(***************************************************************************)
Slot(f, i) == (f.tail + i - 1) % FIFO_MAX

(* Different queued words are stored in different slots, and the slot      *)
(* after the last is the head.                                             *)
LEMMA SlotsApart ==
    ASSUME NEW f \in Fifo(Word), RingOK(f)
    PROVE  /\ \A i \in 1 .. FIFO_MAX : Slot(f, i) \in Slots
           /\ \A i, k \in 1 .. FIFO_MAX : i # k => Slot(f, i) # Slot(f, k)
           /\ f.head = Slot(f, f.count + 1)
  <1> DEFINE t == f.tail
  <1>1. t \in 0 .. FIFO_MAX - 1 /\ FIFO_MAX \in Nat \ {0} /\ f.count \in Nat
    BY Fields
  <1>2. ASSUME NEW i \in 1 .. FIFO_MAX
        PROVE  /\ Slot(f, i) \in Slots
               /\ Slot(f, i) = IF t + i - 1 < FIFO_MAX THEN t + i - 1
                               ELSE t + i - 1 - FIFO_MAX
    <2> DEFINE x == t + i - 1
    <2>1. x \in 0 .. 2 * FIFO_MAX - 1 /\ x \in Nat
      BY <1>1
    <2>0. Slot(f, i) = x % FIFO_MAX
      BY DEF Slot
    <2> HIDE DEF x
    <2>2. /\ x % FIFO_MAX = IF x < FIFO_MAX THEN x ELSE x - FIFO_MAX
          /\ x % FIFO_MAX \in Slots
      BY <1>1, <2>1, Wrap, CursorInRange
    <2>3. Slot(f, i) = IF x < FIFO_MAX THEN x ELSE x - FIFO_MAX
      BY <2>0, <2>2
    <2>4. Slot(f, i) \in Slots
      BY <2>0, <2>2
    <2> HIDE DEF t
    <2> QED  BY <1>1, <2>3, <2>4 DEF x
  <1>3. f.head = Slot(f, f.count + 1)
    <2>1. t + (f.count + 1) - 1 = t + f.count
      BY <1>1
    <2> QED  BY <2>1 DEF RingOK, Slot
  <1>4. ASSUME NEW i \in 1 .. FIFO_MAX, NEW k \in 1 .. FIFO_MAX, i # k
        PROVE  Slot(f, i) # Slot(f, k)
    <2>1. /\ Slot(f, i) = IF t + i - 1 < FIFO_MAX THEN t + i - 1
                          ELSE t + i - 1 - FIFO_MAX
          /\ Slot(f, k) = IF t + k - 1 < FIFO_MAX THEN t + k - 1
                          ELSE t + k - 1 - FIFO_MAX
      BY <1>2
    <2> HIDE DEF t
    <2> QED  BY <1>1, <1>4, <2>1
  <1> QED  BY <1>2, <1>3, <1>4

(* A ring holds a sequence of words, one per queued word.                  *)
LEMMA ContentsSeq ==
    ASSUME NEW f \in Fifo(Word), RingOK(f)
    PROVE  /\ Contents(f) \in Seq(Word)
           /\ Len(Contents(f)) = f.count
           /\ \A i \in 1 .. f.count : Contents(f)[i] = f.buf[Slot(f, i)]
           /\ f.count = 0 <=> Contents(f) = <<>>
  <1>1. f.count \in 0 .. FIFO_MAX /\ f.buf \in [Slots -> Word]
    BY Fields
  <1>2. \A i \in 1 .. f.count : Slot(f, i) \in Slots
    <2>1. \A i \in 1 .. f.count : i \in 1 .. FIFO_MAX
      BY <1>1, Fields
    <2> QED  BY <2>1, SlotsApart
  <1> DEFINE n == f.count
             s == [i \in 1 .. n |-> f.buf[Slot(f, i)]]
  <1>3. Contents(f) = s
    BY DEF Contents, Slot
  <1>4. s \in [1 .. n -> Word] /\ n \in Nat
    BY <1>1, <1>2
  <1> HIDE DEF n
  <1>5. s \in Seq(Word) /\ Len(s) = n
    BY <1>4
  <1>6. \A i \in 1 .. n : s[i] = f.buf[Slot(f, i)]
    OBVIOUS
  <1>7. n = 0 <=> s = <<>>
    <2> HIDE DEF s
    <2> QED  BY <1>4, <1>5
  <1> QED  BY <1>3, <1>5, <1>6, <1>7 DEF n

(* Two sequences are equal when they agree in length and in each place.    *)
LEMMA SameSeq ==
    ASSUME NEW s \in Seq(Word), NEW t \in Seq(Word), Len(s) = Len(t),
           \A i \in 1 .. Len(s) : s[i] = t[i]
    PROVE  s = t
  OBVIOUS

(* fifo_push appends.                                                      *)
LEMMA PushAppends ==
    ASSUME NEW f \in Fifo(Word), NEW w \in Word, RingOK(f), ~fifo_full(f)
    PROVE  Contents(fifo_push(f, w)) = Append(Contents(f), w)
  <1> DEFINE g == fifo_push(f, w)
             s == Contents(f)
             r == Contents(g)
             n == f.count
  <1>1. /\ g \in Fifo(Word) /\ RingOK(g) /\ g.count = n + 1 /\ g.tail = f.tail
        /\ g.buf = [f.buf EXCEPT ![f.head] = w]
    BY PushKeeps
  <1>2. /\ n \in 0 .. FIFO_MAX - 1 /\ f.buf \in [Slots -> Word]
        /\ f.head \in Slots /\ FIFO_MAX \in Nat
    BY Fields DEF fifo_full
  <1> HIDE DEF g
  <1>3. /\ s \in Seq(Word) /\ Len(s) = n
        /\ \A i \in 1 .. n : s[i] = f.buf[Slot(f, i)]
        /\ r \in Seq(Word) /\ Len(r) = n + 1
        /\ \A i \in 1 .. n + 1 : r[i] = g.buf[Slot(g, i)]
    BY <1>1, ContentsSeq
  <1>4. \A i \in 1 .. n + 1 : Slot(g, i) = Slot(f, i)
    BY <1>1 DEF Slot
  <1>5. /\ \A i \in 1 .. n : Slot(f, i) # f.head /\ Slot(f, i) \in Slots
        /\ Slot(f, n + 1) = f.head
    <2>1. \A i \in 1 .. n : i \in 1 .. FIFO_MAX /\ i # n + 1
      BY <1>2
    <2>2. n + 1 \in 1 .. FIFO_MAX
      BY <1>2
    <2> QED  BY <2>1, <2>2, SlotsApart
  <1> HIDE DEF n, s, r
  <1>6. \A i \in 1 .. n : r[i] = s[i]
    <2> SUFFICES ASSUME NEW i \in 1 .. n PROVE r[i] = s[i]
      OBVIOUS
    <2>1. i \in 1 .. n + 1
      BY <1>2
    <2>2. r[i] = [f.buf EXCEPT ![f.head] = w][Slot(f, i)]
      BY <1>1, <1>3, <1>4, <2>1
    <2>3. [f.buf EXCEPT ![f.head] = w][Slot(f, i)] = f.buf[Slot(f, i)]
      BY <1>2, <1>5
    <2> QED  BY <1>3, <2>2, <2>3
  <1>7. r[n + 1] = w
    <2>1. n + 1 \in 1 .. n + 1
      BY <1>2
    <2> QED  BY <1>1, <1>2, <1>3, <1>4, <1>5, <2>1
  <1>8. r = Append(s, w)
    <2> DEFINE a == Append(s, w)
    <2>1. /\ a \in Seq(Word) /\ Len(a) = n + 1 /\ a[n + 1] = w
          /\ \A i \in 1 .. n : a[i] = s[i]
      BY <1>2, <1>3
    <2> HIDE DEF a
    <2>2. \A i \in 1 .. Len(r) : r[i] = a[i]
      BY <1>2, <1>3, <1>6, <1>7, <2>1
    <2> QED  BY <1>3, <2>1, <2>2, SameSeq DEF a
  <1> QED  BY <1>8 DEF g, s, r

(* fifo_pop removes the first word.                                        *)
LEMMA PopTails ==
    ASSUME NEW f \in Fifo(Word), RingOK(f), ~fifo_empty(f)
    PROVE  /\ Contents(fifo_pop(f)) = Tail(Contents(f))
           /\ Contents(f) # <<>>
  <1> DEFINE g == fifo_pop(f)
             s == Contents(f)
             r == Contents(g)
             n == f.count
  <1>1. /\ g \in Fifo(Word) /\ RingOK(g) /\ g.count = n - 1
        /\ g.tail = (f.tail + 1) % FIFO_MAX /\ g.buf = f.buf
    BY PopKeeps
  <1>2. n \in 1 .. FIFO_MAX /\ f.tail \in 0 .. FIFO_MAX - 1 /\ FIFO_MAX \in Nat \ {0}
    BY Fields DEF fifo_empty
  <1> HIDE DEF g
  <1>3. /\ s \in Seq(Word) /\ Len(s) = n /\ s # <<>>
        /\ \A i \in 1 .. n : s[i] = f.buf[Slot(f, i)]
        /\ r \in Seq(Word) /\ Len(r) = n - 1
        /\ \A i \in 1 .. n - 1 : r[i] = g.buf[Slot(g, i)]
    BY <1>1, <1>2, ContentsSeq
  <1>4. ASSUME NEW i \in 1 .. n - 1 PROVE Slot(g, i) = Slot(f, i + 1)
    <2> DEFINE a == f.tail + 1
               b == i - 1
               t == f.tail
    <2>1. /\ a \in Nat /\ b \in Nat /\ a + b <= 2 * FIFO_MAX - 1
          /\ a + b = t + (i + 1) - 1
      BY <1>2
    <2>2. g.tail = a % FIFO_MAX
      BY <1>1
    <2>3. (a % FIFO_MAX) \in Nat
      BY <1>2
    <2>4. (a % FIFO_MAX) + i - 1 = (a % FIFO_MAX) + b
      BY <2>3
    <2> HIDE DEF a, b
    <2>5. ((a % FIFO_MAX) + b) % FIFO_MAX = (a + b) % FIFO_MAX
      BY <1>2, <2>1, WrapAdd
    <2> QED  BY <2>1, <2>2, <2>4, <2>5 DEF Slot
  <1> HIDE DEF n, s, r
  <1>5. r = Tail(s)
    <2> DEFINE a == Tail(s)
    <2>1. /\ a \in Seq(Word) /\ Len(a) = n - 1
          /\ \A i \in 1 .. n - 1 : a[i] = s[i + 1]
      BY <1>2, <1>3
    <2> HIDE DEF a
    <2>2. \A i \in 1 .. n - 1 : r[i] = a[i]
      <3> SUFFICES ASSUME NEW i \in 1 .. n - 1 PROVE r[i] = a[i]
        OBVIOUS
      <3>1. i + 1 \in 1 .. n
        BY <1>2
      <3> QED  BY <1>1, <1>3, <1>4, <2>1, <3>1
    <2> QED  BY <1>3, <2>1, <2>2, SameSeq DEF a
  <1> QED  BY <1>3, <1>5 DEF g, s, r

(* Storing a word at an index changes at most one queued word.             *)
LEMMA StorePokes ==
    ASSUME NEW f \in Fifo(Word), NEW idx \in RegIdx, NEW w \in Word, RingOK(f),
           NEW g \in Fifo(Word), RingOK(g), g.count = f.count, g.tail = f.tail,
           g.buf = [f.buf EXCEPT ![idx] = w]
    PROVE  LET r == Contents(g)
               s == Contents(f)
           IN  r = s \/ \E k \in 1 .. Len(s) : r = [s EXCEPT ![k] = w]
  <1> DEFINE s == Contents(f)
             r == Contents(g)
             n == f.count
  <1>1. /\ g \in Fifo(Word) /\ RingOK(g) /\ g.count = n /\ g.tail = f.tail
        /\ g.buf = [f.buf EXCEPT ![idx] = w]
    OBVIOUS
  <1>2. n \in 0 .. FIFO_MAX /\ f.buf \in [Slots -> Word] /\ FIFO_MAX \in Nat
    BY Fields
  <1>0. idx \in Slots
    BY CursorInRange
  <1>3. /\ s \in Seq(Word) /\ Len(s) = n
        /\ \A i \in 1 .. n : s[i] = f.buf[Slot(f, i)]
        /\ r \in Seq(Word) /\ Len(r) = n
        /\ \A i \in 1 .. n : r[i] = g.buf[Slot(g, i)]
    BY <1>1, ContentsSeq
  <1>4. \A i \in 1 .. n : /\ Slot(g, i) = Slot(f, i) /\ Slot(f, i) \in Slots
                          /\ \A k \in 1 .. n : i # k => Slot(f, i) # Slot(f, k)
    <2>1. \A i \in 1 .. n : i \in 1 .. FIFO_MAX
      BY <1>2
    <2> QED  BY <1>1, <2>1, SlotsApart DEF Slot
  <1> HIDE DEF n, s, r
  <1>5. \A i \in 1 .. n : r[i] = IF Slot(f, i) = idx THEN w ELSE s[i]
    BY <1>0, <1>1, <1>2, <1>3, <1>4
  <1>6. CASE \A i \in 1 .. n : Slot(f, i) # idx
    <2>1. r = s
      BY <1>3, <1>5, <1>6, SameSeq
    <2> QED  BY <2>1 DEF r, s
  <1>7. CASE \E i \in 1 .. n : Slot(f, i) = idx
    <2>1. PICK k \in 1 .. n : Slot(f, k) = idx
      BY <1>7
    <2>2. \A i \in 1 .. n : r[i] = IF i = k THEN w ELSE s[i]
      BY <1>4, <1>5, <2>1
    <2> DEFINE p == [s EXCEPT ![k] = w]
    <2>3. /\ p \in Seq(Word) /\ Len(p) = n
          /\ \A i \in 1 .. n : p[i] = IF i = k THEN w ELSE s[i]
      BY <1>2, <1>3
    <2> HIDE DEF p
    <2>4. r = p
      BY <1>3, <2>2, <2>3, SameSeq
    <2>5. \E q \in 1 .. Len(s) : r = [s EXCEPT ![q] = w]
      BY <1>3, <2>4 DEF p
    <2> QED  BY <2>5 DEF r, s
  <1> QED  BY <1>6, <1>7

(* Capacities and register-file modes mean the same to both descriptions.  *)
LEMMA SameShape ==
    ASSUME NEW j \in Joins
    PROVE  /\ Queues!TxCap(j) = TxCap(j) /\ Queues!RxCap(j) = RxCap(j)
           /\ Queues!rx_fifo_is_register_file(j) <=> rx_fifo_is_register_file(j)
           /\ j \in Queues!Joins
  BY DEF Queues!TxCap, TxCap, Queues!RxCap, RxCap, Queues!Joins, Joins,
         Queues!rx_fifo_is_register_file, rx_fifo_is_register_file,
         Queues!RegFileJoins, RegFileJoins

(* A fresh pair is a pair of empty queues.                                 *)
LEMMA QueuesInit == Init => Queues!QInit
  <1> SUFFICES ASSUME Init PROVE Queues!QInit
    OBVIOUS
  <1>1. Inv
    BY InvInit
  <1>2. tx.count = 0 /\ rx.count = 0
    BY DEF Init, EmptyFifo
  <1> QED
    BY <1>1, <1>2, ContentsSeq DEF Init, Inv, TypeOK, FifosConsistent, Queues!QInit

(* Each call acts on the queues as the abstract operation does, or leaves  *)
(* them alone.                                                             *)
LEMMA QueuesNext ==
    Inv /\ [Next]_vars => [Queues!QNext]_(Queues!qvars)
  <1> SUFFICES ASSUME Inv, [Next]_vars PROVE [Queues!QNext]_(Queues!qvars)
    OBVIOUS
  <1>0. /\ tx \in Fifo(Word) /\ rx \in Fifo(Word) /\ RingOK(tx) /\ RingOK(rx)
        /\ fifo_join \in Joins
        /\ tx.cap = TxCap(fifo_join) /\ rx.cap = RxCap(fifo_join)
        /\ tx.count \in Nat /\ rx.count \in Nat /\ tx.cap \in Nat /\ rx.cap \in Nat
    BY Fields DEF Inv, TypeOK, FifosConsistent
  <1>00. Len(Contents(tx)) = tx.count /\ Len(Contents(rx)) = rx.count
    BY <1>0, ContentsSeq
  <1> USE DEF Queues!QNext, Queues!qvars
  <1>1. ASSUME NEW w \in Word, pio_sim_sm_put(w)
        PROVE  [Queues!QNext]_(Queues!qvars)
    <2>1. CASE fifo_full(tx)
      BY <1>1, <2>1 DEF pio_sim_sm_put, Contents
    <2>2. CASE ~fifo_full(tx)
      <3>1. Contents(tx)' = Append(Contents(tx), w)
        BY <1>0, <1>1, <2>2, PushAppends DEF pio_sim_sm_put
      <3>2. Len(Contents(tx)) < Queues!TxCap(fifo_join)
        BY <1>0, <1>00, <2>2, SameShape DEF fifo_full
      <3>3. UNCHANGED <<Contents(rx), fifo_join>>
        BY <1>1 DEF pio_sim_sm_put, Contents
      <3> QED  BY <3>1, <3>2, <3>3 DEF Queues!Put
    <2> QED  BY <2>1, <2>2
  <1>2. ASSUME NEW w \in Word, isr_drain(w)
        PROVE  [Queues!QNext]_(Queues!qvars)
    <2>1. CASE PushBlocked
      BY <1>2, <2>1 DEF isr_drain, Contents
    <2>2. CASE ~PushBlocked
      <3>1. Contents(rx)' = Append(Contents(rx), w)
        BY <1>0, <1>2, <2>2, PushAppends DEF isr_drain, PushBlocked
      <3>2. Len(Contents(rx)) < Queues!RxRoom(fifo_join)
        BY <1>0, <1>00, <2>2, SameShape DEF fifo_full, PushBlocked, Queues!RxRoom
      <3>3. UNCHANGED <<Contents(tx), fifo_join>>
        BY <1>2 DEF isr_drain, Contents
      <3> QED  BY <3>1, <3>2, <3>3 DEF Queues!Push
    <2> QED  BY <2>1, <2>2
  <1>3. ASSUME pio_sim_sm_get PROVE [Queues!QNext]_(Queues!qvars)
    <2>1. CASE fifo_empty(rx)
      BY <1>3, <2>1 DEF pio_sim_sm_get, Contents
    <2>2. CASE ~fifo_empty(rx)
      <3>1. Contents(rx)' = Tail(Contents(rx)) /\ Contents(rx) # <<>>
        BY <1>0, <1>3, <2>2, PopTails DEF pio_sim_sm_get
      <3>2. UNCHANGED <<Contents(tx), fifo_join>>
        BY <1>3 DEF pio_sim_sm_get, Contents
      <3> QED  BY <3>1, <3>2 DEF Queues!Get
    <2> QED  BY <2>1, <2>2
  <1>4. ASSUME osr_refill PROVE [Queues!QNext]_(Queues!qvars)
    <2>1. Contents(tx)' = Tail(Contents(tx)) /\ Contents(tx) # <<>>
      BY <1>0, <1>4, PopTails DEF osr_refill
    <2>2. UNCHANGED <<Contents(rx), fifo_join>>
      BY <1>4 DEF osr_refill, Contents
    <2> QED  BY <2>1, <2>2 DEF Queues!Pull
  <1>5. ASSUME pio_sim_sm_clear_fifos PROVE [Queues!QNext]_(Queues!qvars)
    <2>1. Contents(tx)' = <<>> /\ Contents(rx)' = <<>> /\ UNCHANGED fifo_join
      BY <1>0, <1>5, ClearKeeps, ContentsSeq DEF pio_sim_sm_clear_fifos
    <2> QED  BY <2>1 DEF Queues!Clear
  <1>6. ASSUME NEW j \in Joins, apply_fifo_join(j)
        PROVE  [Queues!QNext]_(Queues!qvars)
    <2>1. CASE j = fifo_join
      <3>1. tx' = tx /\ rx' = rx /\ fifo_join' = fifo_join
        BY <1>0, <1>6, <2>1, CapsInRange, RejoinKeeps DEF apply_fifo_join
      <3> QED  BY <3>1 DEF Contents
    <2>2. CASE j # fifo_join
      <3>1. /\ tx' \in Fifo(Word) /\ RingOK(tx') /\ tx'.count = 0
        BY <1>0, <1>6, <2>2, CapsInRange, RejoinKeeps DEF apply_fifo_join
      <3>2. /\ rx' \in Fifo(Word) /\ RingOK(rx') /\ rx'.count = 0
        BY <1>0, <1>6, <2>2, CapsInRange, RejoinKeeps DEF apply_fifo_join
      <3>3. Contents(tx)' = <<>> /\ Contents(rx)' = <<>> /\ fifo_join' = j
        BY <1>6, <3>1, <3>2, ContentsSeq DEF apply_fifo_join
      <3> QED  BY <2>2, <3>3, SameShape DEF Queues!Rejoined
    <2> QED  BY <2>1, <2>2
  <1>7. ASSUME NEW idx \in RegIdx, NEW w \in Word,
               pio_sim_sm_rxfifo_put(idx, w) \/ mov_rxfifo_put(idx, w)
        PROVE  [Queues!QNext]_(Queues!qvars)
    <2>1. rx' = [rx EXCEPT !.buf[idx] = w] /\ UNCHANGED <<Contents(tx), fifo_join>>
      BY <1>7 DEF pio_sim_sm_rxfifo_put, mov_rxfifo_put, Contents
    <2> DEFINE g == [rx EXCEPT !.buf[idx] = w]
    <2>2. Contents(rx)' = Contents(g)
      BY <2>1
    <2>3. /\ g \in Fifo(Word) /\ RingOK(g) /\ g.count = rx.count /\ g.tail = rx.tail
          /\ g.buf = [rx.buf EXCEPT ![idx] = w]
      BY <1>0, StoreKeeps
    <2> HIDE DEF g
    <2>0. \/ Contents(g) = Contents(rx)
          \/ \E k \in 1 .. Len(Contents(rx)) :
               Contents(g) = [Contents(rx) EXCEPT ![k] = w]
      BY <1>0, <2>3, StorePokes
    <2> QED  BY <2>0, <2>1, <2>2 DEF Queues!Poke
  <1>8. CASE PullOnEmpty \/ UNCHANGED vars
             \/ \E f \in FdebugFlags : pio_sim_sm_clear_fdebug({f})
    BY <1>8 DEF PullOnEmpty, vars, pio_sim_sm_clear_fdebug, Contents
  <1> QED
    BY <1>1, <1>2, <1>3, <1>4, <1>5, <1>6, <1>7, <1>8 DEF Next

(* The ring-buffer pair implements the two bounded queues, for every       *)
(* depth, storage size and set of words: no word is lost, duplicated or    *)
(* reordered by the wrapping cursors.                                      *)
THEOREM FifoRefinement == Spec => ImplementsQueues
  <1>1. Init => Inv /\ Queues!QInit  BY InvInit, QueuesInit
  <1>2. Inv /\ [Next]_vars => Inv' /\ [Queues!QNext]_(Queues!qvars)
    BY InvNext, QueuesNext
  <1> QED  BY <1>1, <1>2, PTL DEF Spec, ImplementsQueues, Queues!QSpec
============================================================================
