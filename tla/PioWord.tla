------------------------------ MODULE PioWord ------------------------------
(***************************************************************************)
(* Machine words as vectors of bits, bit 0 the least significant.  The     *)
(* engine's words have 32 bits; the width is a parameter so that shifts,   *)
(* thresholds and saturating shift counts are all reached with short       *)
(* words.                                                                  *)
(***************************************************************************)
EXTENDS Integers

CONSTANT WORD_BITS      \* width of x, y, OSR, ISR and of a FIFO word (32)

ASSUME WordBitsAssumption == WORD_BITS \in Nat \ {0}

BitIdx == 0 .. WORD_BITS - 1
Words == [BitIdx -> BOOLEAN]

ZERO == [i \in BitIdx |-> FALSE]
ONES == [i \in BitIdx |-> TRUE]

(* The word that holds the number n.                                       *)
W(n) == [i \in BitIdx |-> (n \div 2^i) % 2 = 1]

(* Keep the low n bits.                                                    *)
mask_n(w, n) == [i \in BitIdx |-> i < n /\ w[i]]

Shl(w, n) == [i \in BitIdx |-> i >= n /\ w[i - n]]
Shr(w, n) == [i \in BitIdx |-> i + n < WORD_BITS /\ w[i + n]]
Or(v, w)  == [i \in BitIdx |-> v[i] \/ w[i]]
Not(w)    == [i \in BitIdx |-> ~w[i]]
pio_reverse32(w) == [i \in BitIdx |-> w[WORD_BITS - 1 - i]]

(* w - 1 modulo the word: the borrow reaches bit i when all lower bits are *)
(* clear.                                                                  *)
Decrement(w) == [i \in BitIdx |-> w[i] # (\A j \in 0 .. i - 1 : ~w[j])]

(* The number a word's low n bits hold.                                    *)
LowBits(w, n) ==
    LET sum[k \in 0 .. n] ==
          IF k = 0 THEN 0
          ELSE sum[k - 1] + (IF k <= WORD_BITS /\ w[k - 1] THEN 2^(k - 1) ELSE 0)
    IN  sum[n]
============================================================================
