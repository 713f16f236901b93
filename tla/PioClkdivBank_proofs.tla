------------------------ MODULE PioClkdivBank_proofs ------------------------
(***************************************************************************)
(* The clock dividers are exact for every number of state machines, every  *)
(* set of divisors and every precision.  RateExact and Settled together    *)
(* are inductive; OnTime and InPhase follow from them by arithmetic.       *)
(***************************************************************************)
EXTENDS PioClkdivBank, TLAPS

IInv == BankTypeOK /\ RateExact /\ Settled

(* One tick of one divider, in the only two ways it can go.                *)
LEMMA DividerStep ==
    ASSUME NEW a \in Nat, NEW d \in Nat, d >= DIV_ONE
    PROVE  /\ div_next(a, d) \in Nat
           /\ div_due(a, d) => div_next(a, d) + d = a + DIV_ONE
           /\ ~div_due(a, d) => div_next(a, d) = a + DIV_ONE
           /\ a < d => div_next(a, d) < d
  BY DivAssumption DEF div_next, div_due

(* Multiplication distributes over the increments the counters make.       *)
LEMMA OneMoreTimes ==
    ASSUME NEW n \in Nat, NEW k \in Nat
    PROVE  (n + 1) * k = n * k + k
  OBVIOUS

(* A quotient is determined by its bounds.                                 *)
LEMMA SameQuotient ==
    ASSUME NEW m \in Nat, NEW n \in Nat, NEW d \in Nat,
           NEW a \in Nat, NEW b \in Nat,
           m * d + a = n * d + b, a < d, b < d
    PROVE  m = n /\ a = b
<1>1. ASSUME NEW i \in Nat, NEW j \in Nat, i < j
      PROVE  i * d + d <= j * d
  <2>1. PICK k \in Nat : j = (i + 1) + k
    <3>1. j - (i + 1) \in Nat /\ j = (i + 1) + (j - (i + 1))
      BY <1>1
    <3> QED BY <3>1
  <2>2. j * d = (i + 1) * d + k * d
    BY <2>1
  <2>3. k * d \in Nat
    OBVIOUS
  <2>4. (i + 1) * d = i * d + d
    BY OneMoreTimes
  <2> QED BY <2>2, <2>3, <2>4
<1>2. m * d \in Nat /\ n * d \in Nat
  OBVIOUS
<1>3. ~(m < n)
  BY <1>1, <1>2
<1>4. ~(n < m)
  BY <1>1, <1>2
<1>5. m = n
  BY <1>3, <1>4
<1> QED BY <1>2, <1>5

(* Initially every accumulator and counter is zero.                        *)
LEMMA InvInit == BankInit => IInv
<1> SUFFICES ASSUME BankInit PROVE IInv
  OBVIOUS
<1>1. BankTypeOK
  BY DEF BankInit, BankTypeOK
<1>2. \A s \in SM : div[s] \in Nat /\ div[s] >= DIV_ONE
  BY <1>1, BankAssumption DEF BankTypeOK
<1>3. RateExact
  <2> SUFFICES ASSUME NEW s \in SM
               PROVE  pulses[s] * div[s] + accum[s] = ticks[s] * DIV_ONE + base[s]
    BY DEF RateExact
  <2>1. pulses[s] = 0 /\ accum[s] = 0 /\ ticks[s] = 0 /\ base[s] = 0
    BY DEF BankInit
  <2> QED BY <1>2, <2>1, DivAssumption
<1>4. Settled
  BY <1>2 DEF BankInit, Settled
<1> QED BY <1>1, <1>3, <1>4 DEF IInv

(* Every step preserves the exact balance of every divider.                *)
LEMMA InvNext == IInv /\ [BankNext]_bankVars => IInv'
<1> SUFFICES ASSUME IInv, [BankNext]_bankVars PROVE IInv'
  OBVIOUS
<1> USE DEF IInv
<1>1. \A s \in SM : div[s] \in Nat /\ div[s] >= DIV_ONE
  BY BankAssumption DEF BankTypeOK
<1>2. CASE Tick
  <2>1. BankTypeOK'
    <3>1. accum' \in [SM -> Nat]
      BY <1>1, <1>2, DividerStep DEF Tick, BankTypeOK
    <3>2. ticks' \in [SM -> Nat] /\ pulses' \in [SM -> Nat]
      BY <1>2 DEF Tick, BankTypeOK
    <3> QED BY <1>2, <3>1, <3>2 DEF Tick, BankTypeOK
  <2>2. ASSUME NEW s \in SM
        PROVE  pulses'[s] * div[s] + accum'[s] = ticks'[s] * DIV_ONE + base[s]
    <3>1. /\ accum[s] \in Nat /\ base[s] \in Nat /\ div[s] \in Nat
          /\ pulses[s] \in Nat /\ ticks[s] \in Nat /\ DIV_ONE \in Nat
      BY <1>1, DivAssumption DEF BankTypeOK
    <3>2. pulses[s] * div[s] + accum[s] = ticks[s] * DIV_ONE + base[s]
      BY DEF RateExact
    <3>3. ticks'[s] * DIV_ONE = ticks[s] * DIV_ONE + DIV_ONE
      BY <1>2, <3>1, OneMoreTimes DEF Tick
    <3>4. accum'[s] = div_next(accum[s], div[s])
      BY <1>2 DEF Tick
    <3> DEFINE P  == pulses[s] * div[s]
               P2 == pulses'[s] * div[s]
               T  == ticks[s] * DIV_ONE
               T2 == ticks'[s] * DIV_ONE
    <3>5. P \in Nat /\ T \in Nat
      BY <3>1
    <3>6. CASE div_due(accum[s], div[s])
      <4>1. P2 = P + div[s]
        BY <1>2, <3>1, <3>6, OneMoreTimes DEF Tick
      <4>2. accum'[s] + div[s] = accum[s] + DIV_ONE /\ accum'[s] \in Nat
        BY <1>1, <3>1, <3>4, <3>6, DividerStep
      <4>3. P + accum[s] = T + base[s] /\ T2 = T + DIV_ONE
        BY <3>2, <3>3
      <4> HIDE DEF P, P2, T, T2
      <4>4. P2 + accum'[s] = T2 + base[s]
        BY <3>1, <3>5, <4>1, <4>2, <4>3
      <4> QED BY <4>4 DEF P2, T2
    <3>7. CASE ~div_due(accum[s], div[s])
      <4>1. P2 = P
        BY <1>2, <3>7 DEF Tick
      <4>2. accum'[s] = accum[s] + DIV_ONE
        BY <1>1, <3>1, <3>4, <3>7, DividerStep
      <4>3. P + accum[s] = T + base[s] /\ T2 = T + DIV_ONE
        BY <3>2, <3>3
      <4> HIDE DEF P, P2, T, T2
      <4>4. P2 + accum'[s] = T2 + base[s]
        BY <3>1, <3>5, <4>1, <4>2, <4>3
      <4> QED BY <4>4 DEF P2, T2
    <3> QED BY <3>6, <3>7
  <2>3. RateExact'
    BY <1>2, <2>2 DEF Tick, RateExact
  <2>4. Settled'
    BY <1>1, <1>2, DividerStep DEF Tick, Settled, BankTypeOK
  <2> QED BY <2>1, <2>3, <2>4
<1>3. CASE \E mask \in SUBSET SM : pio_sim_clkdiv_restart_sm_mask(mask)
  <2> PICK mask \in SUBSET SM : pio_sim_clkdiv_restart_sm_mask(mask)
    BY <1>3
  <2> USE DEF pio_sim_clkdiv_restart_sm_mask, Restarted
  <2>1. BankTypeOK'
    BY DEF BankTypeOK
  <2>2. RateExact'
    <3> SUFFICES ASSUME NEW s \in SM
                 PROVE  pulses'[s] * div[s] + accum'[s]
                          = ticks'[s] * DIV_ONE + base'[s]
      BY DEF RateExact
    <3>1. CASE s \in mask
      BY <1>1, <3>1, DivAssumption
    <3>2. CASE s \notin mask
      <4>1. /\ pulses'[s] = pulses[s] /\ accum'[s] = accum[s]
            /\ ticks'[s] = ticks[s] /\ base'[s] = base[s]
        BY <3>2
      <4> QED BY <4>1 DEF RateExact
    <3> QED BY <3>1, <3>2
  <2>3. Settled'
    BY <1>1, DivAssumption DEF Settled, BankTypeOK
  <2> QED BY <2>1, <2>2, <2>3
<1>4. CASE \E s \in SM, d \in Divisors : SetClkdiv(s, d)
  <2> PICK s \in SM, d \in Divisors : SetClkdiv(s, d)
    BY <1>4
  <2>1. BankTypeOK'
    BY DEF SetClkdiv, BankTypeOK
  <2>2. RateExact'
    <3> SUFFICES ASSUME NEW t \in SM
                 PROVE  pulses'[t] * div'[t] + accum'[t]
                          = ticks'[t] * DIV_ONE + base'[t]
      BY DEF RateExact
    <3>1. CASE t = s
      <4>1. pulses'[t] = 0 /\ ticks'[t] = 0 /\ base'[t] = accum[t]
            /\ accum'[t] = accum[t] /\ div'[t] \in Nat /\ accum[t] \in Nat
        BY <3>1, BankAssumption DEF SetClkdiv, BankTypeOK
      <4> QED BY <4>1, DivAssumption
    <3>2. CASE t # s
      <4>1. /\ pulses'[t] = pulses[t] /\ accum'[t] = accum[t]
            /\ ticks'[t] = ticks[t] /\ base'[t] = base[t] /\ div'[t] = div[t]
        BY <3>2 DEF SetClkdiv, BankTypeOK
      <4> QED BY <4>1 DEF RateExact
    <3> QED BY <3>1, <3>2
  <2>3. Settled'
    BY DEF SetClkdiv, Settled, BankTypeOK
  <2> QED BY <2>1, <2>2, <2>3
<1>5. CASE UNCHANGED bankVars
  BY <1>5 DEF bankVars, BankTypeOK, RateExact, Settled
<1> QED BY <1>2, <1>3, <1>4, <1>5 DEF BankNext

(* The accumulators, divisors and counters keep their types.               *)
THEOREM ClkdivTypes == BankSpec => []BankTypeOK
<1>1. IInv => BankTypeOK
  BY DEF IInv
<1> QED BY <1>1, InvInit, InvNext, PTL DEF BankSpec

(* No divider of any block ever loses or gains a fraction of a clock.      *)
THEOREM ClkdivRateExact == BankSpec => []RateExact
<1>1. IInv => RateExact
  BY DEF IInv
<1> QED BY <1>1, InvInit, InvNext, PTL DEF BankSpec

(* A restarted divider gives exactly the whole periods elapsed.            *)
THEOREM ClkdivOnTime == BankSpec => []OnTime
<1>1. IInv => OnTime
  <2> SUFFICES ASSUME IInv, NEW s \in SM, base[s] = 0
               PROVE  /\ pulses[s] * div[s] <= ticks[s] * DIV_ONE
                      /\ ticks[s] * DIV_ONE < (pulses[s] + 1) * div[s]
    BY DEF OnTime
  <2>1. /\ accum[s] \in Nat /\ div[s] \in Nat /\ pulses[s] \in Nat
        /\ ticks[s] \in Nat /\ DIV_ONE \in Nat \ {0} /\ div[s] >= DIV_ONE
    BY BankAssumption, DivAssumption DEF IInv, BankTypeOK
  <2>2. pulses[s] * div[s] + accum[s] = ticks[s] * DIV_ONE + base[s]
    BY DEF IInv, RateExact
  <2>3. accum[s] < div[s]
    BY <2>1 DEF IInv, Settled
  <2> DEFINE P == pulses[s] * div[s]
             T == ticks[s] * DIV_ONE
  <2>4. P \in Nat /\ T \in Nat
    BY <2>1
  <2>5. (pulses[s] + 1) * div[s] = P + div[s]
    BY <2>1, OneMoreTimes
  <2>6. P + accum[s] = T
    BY <2>1, <2>2, <2>4
  <2> HIDE DEF P, T
  <2>7. P <= T /\ T < P + div[s]
    BY <2>1, <2>3, <2>4, <2>6
  <2> QED BY <2>5, <2>7 DEF P, T
<1> QED BY <1>1, InvInit, InvNext, PTL DEF BankSpec

(* Dividers restarted on the same tick with equal divisors stay in phase.  *)
THEOREM ClkdivInPhase == BankSpec => []InPhase
<1>1. IInv => InPhase
  <2> SUFFICES ASSUME IInv, NEW s \in SM, NEW t \in SM,
                      base[s] = 0, base[t] = 0,
                      div[s] = div[t], ticks[s] = ticks[t]
               PROVE  pulses[s] = pulses[t] /\ accum[s] = accum[t]
    BY DEF InPhase
  <2>1. /\ accum[s] \in Nat /\ pulses[s] \in Nat
        /\ accum[t] \in Nat /\ pulses[t] \in Nat
        /\ div[s] \in Nat /\ div[s] >= DIV_ONE
        /\ ticks[s] \in Nat /\ DIV_ONE \in Nat \ {0}
    BY BankAssumption, DivAssumption DEF IInv, BankTypeOK
  <2>2. accum[s] < div[s] /\ accum[t] < div[s]
    BY <2>1 DEF IInv, Settled
  <2>3. ticks[s] * DIV_ONE \in Nat
    BY <2>1
  <2>4. pulses[s] * div[s] + accum[s] = ticks[s] * DIV_ONE
    BY <2>1, <2>3 DEF IInv, RateExact
  <2>5. pulses[t] * div[s] + accum[t] = ticks[s] * DIV_ONE
    BY <2>1, <2>3 DEF IInv, RateExact
  <2>6. pulses[s] * div[s] + accum[s] = pulses[t] * div[s] + accum[t]
    BY <2>4, <2>5
  <2> DEFINE m == pulses[s]
             n == pulses[t]
             d == div[s]
             a == accum[s]
             b == accum[t]
  <2>7. /\ m \in Nat /\ n \in Nat /\ d \in Nat /\ a \in Nat /\ b \in Nat
        /\ m * d + a = n * d + b /\ a < d /\ b < d
    BY <2>1, <2>2, <2>6
  <2> HIDE DEF m, n, d, a, b
  <2>8. m = n /\ a = b
    BY <2>7, SameQuotient
  <2> QED BY <2>8 DEF m, n, a, b
<1> QED BY <1>1, InvInit, InvNext, PTL DEF BankSpec
============================================================================
