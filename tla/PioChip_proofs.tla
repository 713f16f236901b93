--------------------------- MODULE PioChip_proofs ---------------------------
(***************************************************************************)
(* Proofs about the chip.  The clock tree, for every range, width and      *)
(* scale: a refused setting leaves no trace, and all conversions round     *)
(* the way they are documented without an overflow.  The drain idiom, for  *)
(* every program, configuration and host it is meant for: TXSTALL, once    *)
(* cleared, is set again only when all words sent before are consumed.     *)
(***************************************************************************)
EXTENDS PioChipRef, PioSim_proofs, FiniteSetTheorems

-----------------------------------------------------------------------------
(* Arithmetic.                                                             *)

(* Powers of two are the sizes of power sets.                              *)
LEMMA PowerType ==
    ASSUME NEW n \in Nat
    PROVE  2^n \in Nat \ {0}
  <1>1. IsFiniteSet(1 .. n) /\ Cardinality(1 .. n) = n
    BY FS_Interval
  <1>2. IsFiniteSet(SUBSET (1 .. n)) /\ Cardinality(SUBSET (1 .. n)) = 2^n
    BY <1>1, FS_SUBSET
  <1>3. SUBSET (1 .. n) # {}
    OBVIOUS
  <1>4. 2^n \in Nat /\ 2^n # 0
    BY <1>2, <1>3, FS_CardinalityType, FS_EmptySet
  <1> QED  BY <1>4

LEMMA Division ==
    ASSUME NEW a \in Nat, NEW d \in Nat, d > 0
    PROVE  /\ a \div d \in Nat /\ a % d \in Nat /\ a % d < d
           /\ \E q, r \in Nat : q = a \div d /\ r = a % d /\ a = q * d + r
  <1>1. a \div d \in Nat /\ a % d \in Nat /\ a % d < d
    OBVIOUS
  <1>2. ASSUME NEW q \in Nat, q = a \div d, NEW r \in Nat, r = a % d
        PROVE  a = q * d + r
    BY <1>2, SMTT(30)
  <1> QED  BY <1>1, <1>2

(* A number below the modulus is not reduced.                              *)
LEMMA NoWrap ==
    ASSUME NEW x \in Nat, x < 2^CLK_BITS
    PROVE  Long(x) = x
  BY PowerType, ClkAssumption DEF Long

(* Products are monotonic.                                                 *)
LEMMA ProductOrder ==
    ASSUME NEW a \in Nat, NEW b \in Nat, NEW c \in Nat, NEW d \in Nat,
           a <= b, c <= d
    PROVE  a * c \in Nat /\ b * d \in Nat /\ a * c <= b * d
  <1>1. PICK x \in Nat, y \in Nat : b = a + x /\ d = c + y
    <2>1. b - a \in Nat /\ d - c \in Nat /\ b = a + (b - a) /\ d = c + (d - c)
      OBVIOUS
    <2> QED  BY <2>1
  <1>2. b * d = a * c + a * y + x * c + x * y
    BY <1>1
  <1>3. a * c \in Nat /\ a * y \in Nat /\ x * c \in Nat /\ x * y \in Nat
    OBVIOUS
  <1>4. b * d \in Nat
    OBVIOUS
  <1> QED  BY <1>2, <1>3, <1>4

(* Adding half of the divisor rounds a quotient to the nearest integer.    *)
LEMMA HalfUp ==
    ASSUME NEW a \in Nat, NEW d \in Nat, d > 0
    PROVE  /\ (a + d \div 2) \div d \in Nat
           /\ Nearest((a + d \div 2) \div d, a, d)
  <1> DEFINE h == d \div 2
             x == a + h
             q == x \div d
             r == x % d
             p == q * d
  <1>1. h \in Nat /\ d - 1 <= 2 * h /\ 2 * h <= d /\ x \in Nat
    OBVIOUS
  <1>2. x = a + h
    OBVIOUS
  <1>3. q \in Nat /\ r \in Nat /\ r < d /\ x = p + r
    <2> HIDE DEF x
    <2> QED  BY <1>1, Division
  <1>4. p \in Nat
    BY <1>3
  <1> HIDE DEF h, x, q, r, p
  <1>5. 2 * Abs(p - a) <= d
    BY <1>1, <1>2, <1>3, <1>4 DEF Abs
  <1>6. Nearest(q, a, d)
    BY <1>5 DEF Nearest, p
  <1> QED  BY <1>3, <1>6 DEF q, x, h

(* Adding all but one of the divisor rounds it up.                         *)
LEMMA AllUp ==
    ASSUME NEW a \in Nat, NEW d \in Nat, d > 0
    PROVE  /\ (a + d - 1) \div d \in Nat
           /\ Ceiling((a + d - 1) \div d, a, d)
  <1> DEFINE x == a + d - 1
             q == x \div d
             r == x % d
             p == q * d
  <1>1. x \in Nat
    OBVIOUS
  <1>2. q \in Nat /\ r \in Nat /\ r < d /\ x = p + r
    <2> HIDE DEF x
    <2> QED  BY <1>1, Division
  <1>3. p \in Nat /\ (q - 1) * d = p - d
    BY <1>2
  <1>4. p >= a /\ p - d < a
    <2> HIDE DEF q, r, p
    <2> QED  BY <1>2, <1>3
  <1>5. Ceiling(q, a, d)
    BY <1>3, <1>4 DEF Ceiling
  <1> QED  BY <1>2, <1>5

-----------------------------------------------------------------------------
(* The clock tree.                                                         *)

Legal(t) == pio_clk_validate(t) = "OK"

LEMMA LimitTypes ==
    /\ {XOSC_MIN, XOSC_MAX, FREF_MIN, REFDIV_MAX, FBDIV_MIN, FBDIV_MAX, VCO_MIN,
        VCO_MAX, POSTDIV_MAX, CLK_DIV_INT_MAX, NS, US} \subseteq Nat \ {0}
    /\ 2^CLK_BITS \in Nat \ {0} /\ 2^CLK_DIV_FRAC_BITS \in Nat \ {0}
  BY PowerType, ClkAssumption

(* A larger divisor gives a smaller quotient.                              *)
LEMMA QuotientOrder ==
    ASSUME NEW a \in Nat, NEW b \in Nat, NEW d \in Nat, NEW e \in Nat,
           a <= b, d > 0, d <= e
    PROVE  /\ a \div e \in Nat /\ b \div d \in Nat
           /\ a \div e <= b \div d
  <1> DEFINE q == a \div e
             r == a % e
             u == b \div d
             v == b % d
  <1>1. q \in Nat /\ r \in Nat /\ r < e /\ a = q * e + r
    BY Division
  <1>2. u \in Nat /\ v \in Nat /\ v < d /\ b = u * d + v
    BY Division
  <1> HIDE DEF q, r, u, v
  <1>3. SUFFICES ASSUME u < q PROVE FALSE
    BY <1>1, <1>2 DEF q, u
  <1>4. (u + 1) * d <= q * e
    BY <1>1, <1>2, <1>3, ProductOrder
  <1>5. (u + 1) * d = u * d + d /\ u * d \in Nat /\ q * e \in Nat
    BY <1>1, <1>2
  <1> QED  BY <1>1, <1>2, <1>4, <1>5

(* What a legal tree divides lies between the slowest and the fastest      *)
(* source, and the divisor is at least one.                                *)
LEMMA LegalTree ==
    ASSUME NEW t \in Tree, Legal(t)
    PROVE  /\ Source(t) \in 0 .. VCO_MAX
           /\ Divisor(t) \in Nat
           /\ 2^CLK_DIV_FRAC_BITS <= Divisor(t)
           /\ Divisor(t) < (CLK_DIV_INT_MAX + 1) * 2^CLK_DIV_FRAC_BITS
           /\ NeverStops => 2 * Source(t) > CLK_DIV_INT_MAX
  <1> DEFINE F == 2^CLK_DIV_FRAC_BITS
             i == t.clksys_div_int
             f == t.clksys_div_frac
             vco == pio_clk_vco_hz(t)
             half == vco \div t.pll_postdiv1
  <1>1. /\ t.xosc_hz \in XOSC_MIN .. XOSC_MAX
        /\ i \in 1 .. CLK_DIV_INT_MAX /\ f \in Nat /\ f < F
        /\ ~t.bypass_pll => /\ vco \in VCO_MIN .. VCO_MAX
                            /\ t.pll_postdiv1 \in 1 .. POSTDIV_MAX
                            /\ t.pll_postdiv2 \in 1 .. POSTDIV_MAX
    BY LimitTypes DEF Legal, pio_clk_validate, Tree
  <1>2. F \in Nat \ {0}
    BY LimitTypes
  <1>3. Divisor(t) = i * F + f
    BY DEF Divisor
  <1> HIDE DEF F, i, f, vco, half
  <1>4. F <= i * F /\ i * F \in Nat
    <2>1. 1 * F <= i * F /\ i * F \in Nat
      BY <1>1, <1>2, LimitTypes, ProductOrder
    <2> QED  BY <1>2, <2>1
  <1>5. i * F + F <= (CLK_DIV_INT_MAX + 1) * F
    <2>1. (i + 1) * F <= (CLK_DIV_INT_MAX + 1) * F
      BY <1>1, <1>2, LimitTypes, ProductOrder
    <2>2. (i + 1) * F = i * F + F
      BY <1>1, <1>2, LimitTypes
    <2> QED  BY <2>1, <2>2
  <1>6. /\ Divisor(t) \in Nat /\ F <= Divisor(t)
        /\ Divisor(t) < (CLK_DIV_INT_MAX + 1) * F
    <2>1. (CLK_DIV_INT_MAX + 1) * F \in Nat
      BY <1>2, LimitTypes
    <2> QED  BY <1>1, <1>2, <1>3, <1>4, <1>5, <2>1
  <1>7. CASE t.bypass_pll
    <2>1. Source(t) = t.xosc_hz
      BY <1>7 DEF Source
    <2>2. Source(t) \in 0 .. VCO_MAX
      BY <1>1, <2>1, LimitTypes, ClkAssumption
    <2>3. NeverStops => 2 * Source(t) > CLK_DIV_INT_MAX
      BY <1>1, <2>1, LimitTypes DEF NeverStops
    <2> QED  BY <1>6, <2>2, <2>3 DEF F
  <1>8. CASE ~t.bypass_pll
    <2>1. Source(t) = half \div t.pll_postdiv2
      BY <1>8 DEF Source, half, vco
    <2>2. /\ half \in Nat /\ half <= VCO_MAX
          /\ VCO_MIN \div POSTDIV_MAX \in Nat /\ VCO_MIN \div POSTDIV_MAX <= half
      <3>1. /\ VCO_MIN \div POSTDIV_MAX \in Nat /\ half \in Nat
            /\ VCO_MIN \div POSTDIV_MAX <= half
        BY <1>1, <1>8, LimitTypes, QuotientOrder DEF half
      <3>2. vco \div t.pll_postdiv1 <= VCO_MAX \div 1
        BY <1>1, <1>8, LimitTypes, QuotientOrder
      <3>3. VCO_MAX \div 1 = VCO_MAX
        BY LimitTypes
      <3> QED  BY <3>1, <3>2, <3>3 DEF half
    <2>3. /\ Source(t) \in Nat
          /\ (VCO_MIN \div POSTDIV_MAX) \div POSTDIV_MAX <= Source(t)
          /\ (VCO_MIN \div POSTDIV_MAX) \div POSTDIV_MAX \in Nat
      BY <1>1, <1>8, <2>1, <2>2, LimitTypes, QuotientOrder
    <2>4. Source(t) <= VCO_MAX
      <3>1. half \div t.pll_postdiv2 <= VCO_MAX \div 1
        BY <1>1, <1>8, <2>2, LimitTypes, QuotientOrder
      <3>2. VCO_MAX \div 1 = VCO_MAX
        BY LimitTypes
      <3> QED  BY <2>1, <3>1, <3>2
    <2>5. NeverStops => 2 * Source(t) > CLK_DIV_INT_MAX
      <3> DEFINE least == (VCO_MIN \div POSTDIV_MAX) \div POSTDIV_MAX
      <3>1. least \in Nat /\ least <= Source(t)
        BY <2>3
      <3>2. NeverStops => 2 * least > CLK_DIV_INT_MAX
        BY DEF NeverStops
      <3> HIDE DEF least
      <3> QED  BY <2>3, <3>1, <3>2, LimitTypes
    <2> QED  BY <1>6, <2>3, <2>4, <2>5, LimitTypes DEF F
  <1> QED  BY <1>7, <1>8

(* clk_sys of a legal tree is the divided source to the nearest integer.   *)
LEMMA LegalRate ==
    ASSUME NEW t \in Tree, Legal(t)
    PROVE  /\ pio_clk_sys_hz(t) \in 0 .. VCO_MAX
           /\ Nearest(pio_clk_sys_hz(t), Source(t) * 2^CLK_DIV_FRAC_BITS, Divisor(t))
           /\ NeverStops => pio_clk_sys_hz(t) > 0
  <1> DEFINE F == 2^CLK_DIV_FRAC_BITS
             M == 2^CLK_BITS
             S == Source(t)
             D1 == Divisor(t)
             N == S * F
             h == D1 \div 2
             hz == (N + h) \div D1
             I == CLK_DIV_INT_MAX
  <1>1. /\ S \in Nat /\ S <= VCO_MAX /\ D1 \in Nat /\ F <= D1 /\ D1 < (I + 1) * F
        /\ NeverStops => 2 * S > I
    BY LegalTree, LimitTypes
  <1>2. F \in Nat /\ F > 0 /\ M \in Nat /\ VCO_MAX \in Nat /\ I \in Nat
    BY LimitTypes
  <1>3. (VCO_MAX + I + 1) * F < M
    BY ClkAssumption
  <1>4. pio_clk_sys_hz(t) = Long(Long(N) + h) \div D1
    BY DEF pio_clk_sys_hz, Legal
  <1> HIDE DEF F, M, S, D1, h, I
  <1>5. h \in Nat /\ 2 * h <= D1 /\ D1 - 1 <= 2 * h
    BY <1>1 DEF h
  <1>6. /\ N \in Nat /\ N <= VCO_MAX * F /\ VCO_MAX * F \in Nat
        /\ (I + 1) * F \in Nat
        /\ VCO_MAX * F + (I + 1) * F = (VCO_MAX + I + 1) * F
    <2>1. N \in Nat /\ N <= VCO_MAX * F /\ VCO_MAX * F \in Nat
      BY <1>1, <1>2, ProductOrder
    <2>2. (I + 1) * F \in Nat
      BY <1>2
    <2>3. VCO_MAX * F + (I + 1) * F = (VCO_MAX + I + 1) * F
      BY <1>2
    <2> QED  BY <2>1, <2>2, <2>3
  <1>7. N < M /\ N + h < M
    <2> DEFINE V == VCO_MAX * F
               J == (I + 1) * F
    <2>1. V \in Nat /\ J \in Nat /\ N \in Nat /\ N <= V /\ V + J < M /\ D1 < J
      BY <1>1, <1>3, <1>6
    <2> HIDE DEF V, J, N
    <2> QED  BY <1>1, <1>2, <1>5, <2>1
  <1>8. pio_clk_sys_hz(t) = hz
    <2>1. Long(N) = N
      BY <1>6, <1>7, NoWrap DEF M
    <2>2. Long(N + h) = N + h
      BY <1>5, <1>6, <1>7, NoWrap DEF M
    <2> QED  BY <1>4, <2>1, <2>2
  <1>9. hz \in Nat /\ Nearest(hz, N, D1)
    <2> HIDE DEF N
    <2>1. D1 > 0
      BY <1>1, <1>2
    <2> QED  BY <1>1, <1>6, <2>1, HalfUp DEF h
  <1>10. hz <= VCO_MAX
    <2> HIDE DEF hz
    <2>1. SUFFICES ASSUME hz > VCO_MAX PROVE FALSE
      BY <1>2, <1>9
    <2>2. 2 * (hz * D1 - N) <= D1
      <3> DEFINE p == hz * D1
      <3>1. p \in Nat
        BY <1>1, <1>9
      <3>2. 2 * Abs(p - N) <= D1
        BY <1>9 DEF Nearest
      <3> HIDE DEF p, N
      <3>3. 2 * (p - N) <= D1
        BY <1>1, <1>6, <3>1, <3>2 DEF Abs
      <3> QED  BY <3>3 DEF p
    <2>3. (S + 1) * D1 <= hz * D1 /\ hz * D1 \in Nat
      BY <1>1, <1>2, <1>9, <2>1, ProductOrder
    <2>4. (S + 1) * D1 = S * D1 + D1 /\ S * D1 \in Nat
      BY <1>1
    <2>5. N <= S * D1
      BY <1>1, <1>2, ProductOrder
    <2> DEFINE p == hz * D1
               q == S * D1
    <2>6. /\ 2 * (p - N) <= D1 /\ q + D1 <= p /\ p \in Nat /\ q \in Nat /\ N <= q
          /\ D1 > 0
      BY <1>1, <1>2, <2>2, <2>3, <2>4, <2>5
    <2> HIDE DEF p, q, N
    <2> QED  BY <1>1, <1>6, <2>6
  <1>11. ASSUME NeverStops PROVE hz > 0
    <2>1. (I + 1) * F <= (2 * S) * F
      BY <1>1, <1>2, <1>11, ProductOrder
    <2>2. (2 * S) * F = 2 * N
      BY <1>1, <1>2
    <2>3. N + h >= D1
      <3> DEFINE J == (I + 1) * F
      <3>1. J \in Nat /\ J <= 2 * N /\ D1 < J
        BY <1>1, <1>6, <2>1, <2>2
      <3> HIDE DEF J, N
      <3> QED  BY <1>1, <1>5, <1>6, <3>1
    <2>4. D1 \div D1 <= hz /\ D1 \div D1 = 1
      <3> HIDE DEF N
      <3>1. D1 \in Nat /\ D1 > 0 /\ N + h \in Nat
        BY <1>1, <1>2, <1>5, <1>6
      <3>2. D1 \div D1 = 1
        BY <3>1
      <3> QED  BY <2>3, <3>1, <3>2, QuotientOrder
    <2> QED  BY <1>9, <2>4
  <1> QED  BY <1>2, <1>8, <1>9, <1>10, <1>11 DEF F, S, D1

(* Seconds and ticks: n * s / hz to the nearest integer, in two parts that *)
(* do not overflow as long as the result fits.                             *)
LEMMA MuldivRound ==
    ASSUME NEW n \in Nat, NEW s \in 1 .. NS, NEW hz \in 1 .. VCO_MAX,
           (n * s) \div hz < 2^CLK_BITS - 1
    PROVE  /\ muldiv_round(n, s, hz) \in Nat
           /\ Nearest(muldiv_round(n, s, hz), n * s, hz)
  <1> DEFINE M == 2^CLK_BITS
             w == n \div hz
             r == n % hz
             W0 == w * s
             R0 == r * s
             h == hz \div 2
             q == (R0 + h) \div hz
             N == n * s
  <1>1. /\ s \in Nat /\ hz \in Nat /\ hz > 0 /\ s <= NS /\ hz <= VCO_MAX
        /\ M \in Nat /\ NS \in Nat /\ VCO_MAX \in Nat
    BY LimitTypes
  <1>2. /\ w \in Nat /\ r \in Nat /\ r < hz /\ n = w * hz + r
    BY <1>1, Division
  <1>3. muldiv_round(n, s, hz) = Long(Long(W0) + Long(Long(R0) + h) \div hz)
    BY <1>1 DEF muldiv_round
  <1>4. W0 \in Nat /\ R0 \in Nat /\ h \in Nat /\ 2 * h <= hz /\ N \in Nat
    BY <1>1, <1>2
  <1>5. N = W0 * hz + R0
    <2> HIDE DEF w, r
    <2> QED  BY <1>1, <1>2
  <1>6. R0 + h < M
    <2>1. R0 <= VCO_MAX * NS /\ VCO_MAX * NS \in Nat
      BY <1>1, <1>2, ProductOrder
    <2> DEFINE V == VCO_MAX * NS
    <2>2. V + NS + VCO_MAX < M
      BY ClkAssumption
    <2> HIDE DEF V, R0, h, M
    <2> QED  BY <1>1, <1>4, <2>1, <2>2 DEF V
  <1> HIDE DEF M, w, r, W0, R0, h, N
  <1>7. Long(Long(R0) + h) = R0 + h
    BY <1>1, <1>4, <1>6, NoWrap DEF M
  <1>8. q \in Nat /\ Nearest(q, R0, hz)
    BY <1>1, <1>4, HalfUp DEF h
  <1>9. 2 * (q * hz - R0) <= hz /\ 2 * (R0 - q * hz) <= hz /\ q * hz \in Nat
    <2> DEFINE p == q * hz
    <2>1. p \in Nat
      BY <1>1, <1>8
    <2>2. 2 * Abs(p - R0) <= hz
      BY <1>8 DEF Nearest
    <2> HIDE DEF p
    <2>3. 2 * (p - R0) <= hz /\ 2 * (R0 - p) <= hz
      BY <1>1, <1>4, <2>1, <2>2 DEF Abs
    <2> QED  BY <2>1, <2>3 DEF p
  <1>10. W0 + q < M
    <2> DEFINE x == N \div hz
               y == N % hz
    <2>1. x \in Nat /\ y \in Nat /\ y < hz /\ N = x * hz + y
      BY <1>1, <1>4, Division
    <2>2. x < M - 1
      BY DEF M, N
    <2> HIDE DEF x, y, q
    <2>3. SUFFICES ASSUME x + 2 <= W0 + q PROVE FALSE
      BY <1>1, <1>4, <1>8, <2>1, <2>2
    <2>4. (x + 2) * hz <= (W0 + q) * hz
      BY <1>1, <1>4, <1>8, <2>1, <2>3, ProductOrder
    <2>5. (x + 2) * hz = x * hz + 2 * hz /\ (W0 + q) * hz = W0 * hz + q * hz
      BY <1>1, <1>4, <1>8, <2>1
    <2> DEFINE a == x * hz
               b == W0 * hz
               c == q * hz
    <2>6. /\ a \in Nat /\ b \in Nat /\ c \in Nat /\ N = a + y /\ N = b + R0
          /\ a + 2 * hz <= b + c /\ 2 * (c - R0) <= hz
      BY <1>1, <1>4, <1>5, <1>9, <2>1, <2>4, <2>5
    <2> HIDE DEF a, b, c
    <2> QED  BY <1>1, <1>4, <2>1, <2>6
  <1>11. muldiv_round(n, s, hz) = W0 + q
    <2>1. Long(W0) = W0
      BY <1>1, <1>4, <1>8, <1>10, NoWrap DEF M
    <2>2. Long(W0 + q) = W0 + q
      BY <1>1, <1>4, <1>8, <1>10, NoWrap DEF M
    <2> QED  BY <1>3, <1>7, <2>1, <2>2
  <1>12. 2 * Abs((W0 + q) * hz - N) <= hz
    <2> HIDE DEF q
    <2>1. (W0 + q) * hz = W0 * hz + q * hz /\ W0 * hz \in Nat
      BY <1>1, <1>4, <1>8
    <2> DEFINE b == W0 * hz
               c == q * hz
               d == (W0 + q) * hz
    <2>2. /\ b \in Nat /\ c \in Nat /\ d = b + c /\ N = b + R0
          /\ 2 * (c - R0) <= hz /\ 2 * (R0 - c) <= hz
      BY <1>5, <1>9, <2>1
    <2> HIDE DEF b, c, d
    <2>3. 2 * Abs(d - N) <= hz
      BY <1>1, <1>4, <2>2 DEF Abs
    <2> QED  BY <2>3 DEF d
  <1> QED  BY <1>4, <1>8, <1>11, <1>12 DEF Nearest, N

(* Time to ticks: n * hz / s rounded up, likewise in two parts.            *)
LEMMA MuldivCeil ==
    ASSUME NEW n \in Nat, NEW s \in 1 .. NS, NEW hz \in 0 .. VCO_MAX,
           (n * hz) \div s < 2^CLK_BITS - 1
    PROVE  /\ muldiv_ceil(n, hz, s) \in Nat
           /\ Ceiling(muldiv_ceil(n, hz, s), n * hz, s)
  <1> DEFINE M == 2^CLK_BITS
             w == n \div s
             r == n % s
             W0 == w * hz
             R0 == r * hz
             q == (R0 + s - 1) \div s
             N == n * hz
  <1>1. /\ s \in Nat /\ s > 0 /\ hz \in Nat /\ s <= NS /\ hz <= VCO_MAX
        /\ M \in Nat /\ NS \in Nat /\ VCO_MAX \in Nat
    BY LimitTypes
  <1>2. /\ w \in Nat /\ r \in Nat /\ r < s /\ n = w * s + r
    BY <1>1, Division
  <1>3. muldiv_ceil(n, hz, s) = Long(Long(W0) + Long(Long(R0) + s - 1) \div s)
    BY DEF muldiv_ceil
  <1>4. W0 \in Nat /\ R0 \in Nat /\ N \in Nat
    BY <1>1, <1>2
  <1>5. N = W0 * s + R0
    <2> HIDE DEF w, r
    <2> QED  BY <1>1, <1>2
  <1>6. R0 + s - 1 < M
    <2>1. R0 <= NS * VCO_MAX /\ NS * VCO_MAX \in Nat
      BY <1>1, <1>2, ProductOrder
    <2>2. NS * VCO_MAX = VCO_MAX * NS
      BY <1>1
    <2> DEFINE V == VCO_MAX * NS
    <2>3. V + NS + VCO_MAX < M
      BY ClkAssumption
    <2> HIDE DEF V, R0, M
    <2> QED  BY <1>1, <1>4, <2>1, <2>2, <2>3 DEF V
  <1> HIDE DEF M, w, r, W0, R0, N
  <1>7. Long(Long(R0) + s - 1) = R0 + s - 1
    <2>1. Long(R0) = R0
      BY <1>1, <1>4, <1>6, NoWrap DEF M
    <2>2. R0 + s - 1 \in Nat
      BY <1>1, <1>4
    <2>3. Long(R0 + s - 1) = R0 + s - 1
      BY <1>6, <2>2, NoWrap DEF M
    <2> QED  BY <2>1, <2>3
  <1>8. q \in Nat /\ Ceiling(q, R0, s)
    BY <1>1, <1>4, AllUp
  <1>9. q * s >= R0 /\ q * s < R0 + s /\ q * s \in Nat
    <2> HIDE DEF q
    <2>1. (q - 1) * s = q * s - s /\ q * s \in Nat
      BY <1>1, <1>8
    <2> DEFINE p == q * s
    <2>2. p \in Nat /\ p >= R0 /\ p - s < R0
      BY <1>8, <2>1 DEF Ceiling
    <2> HIDE DEF p
    <2>3. p >= R0 /\ p < R0 + s
      BY <1>1, <1>4, <2>2
    <2> QED  BY <2>2, <2>3 DEF p
  <1>10. W0 + q < M
    <2> DEFINE x == N \div s
               y == N % s
    <2>1. x \in Nat /\ y \in Nat /\ y < s /\ N = x * s + y
      BY <1>1, <1>4, Division
    <2>2. x < M - 1
      BY DEF M, N
    <2> HIDE DEF x, y, q
    <2>3. SUFFICES ASSUME x + 2 <= W0 + q PROVE FALSE
      BY <1>1, <1>4, <1>8, <2>1, <2>2
    <2>4. (x + 2) * s <= (W0 + q) * s
      BY <1>1, <1>4, <1>8, <2>1, <2>3, ProductOrder
    <2>5. (x + 2) * s = x * s + 2 * s /\ (W0 + q) * s = W0 * s + q * s
      BY <1>1, <1>4, <1>8, <2>1
    <2> DEFINE a == x * s
               b == W0 * s
               c == q * s
    <2>6. /\ a \in Nat /\ b \in Nat /\ c \in Nat /\ N = a + y /\ N = b + R0
          /\ a + 2 * s <= b + c /\ c < R0 + s
      BY <1>1, <1>4, <1>5, <1>9, <2>1, <2>4, <2>5
    <2> HIDE DEF a, b, c
    <2> QED  BY <1>1, <1>4, <2>1, <2>6
  <1>11. muldiv_ceil(n, hz, s) = W0 + q
    <2>1. Long(W0) = W0
      BY <1>1, <1>4, <1>8, <1>10, NoWrap DEF M
    <2>2. Long(W0 + q) = W0 + q
      BY <1>1, <1>4, <1>8, <1>10, NoWrap DEF M
    <2> QED  BY <1>3, <1>7, <2>1, <2>2
  <1>12. (W0 + q) * s >= N /\ (W0 + q - 1) * s < N
    <2> HIDE DEF q
    <2>1. /\ (W0 + q) * s = W0 * s + q * s /\ W0 * s \in Nat
          /\ (W0 + q - 1) * s = W0 * s + q * s - s
      BY <1>1, <1>4, <1>8
    <2> DEFINE b == W0 * s
               c == q * s
    <2>2. /\ b \in Nat /\ c \in Nat /\ N = b + R0 /\ R0 <= c /\ c < R0 + s
      BY <1>5, <1>9, <2>1
    <2> HIDE DEF b, c
    <2>3. b + c >= N /\ b + c - s < N
      BY <1>1, <1>4, <2>2
    <2> QED  BY <2>1, <2>3 DEF b, c
  <1> QED  BY <1>4, <1>8, <1>11, <1>12 DEF Ceiling, N

(* A tick count that covers a time reads back no earlier than that time.   *)
LEMMA ReadsBack ==
    ASSUME NEW n \in Nat, NEW t \in Nat, NEW q \in Nat, NEW hz \in Nat, hz > 0,
           NEW s \in Nat, t * s >= n * hz, Nearest(q, t * s, hz)
    PROVE  q >= n
  <1>1. SUFFICES ASSUME q + 1 <= n PROVE FALSE
    OBVIOUS
  <1> DEFINE a == q * hz
             b == n * hz
             c == t * s
  <1>2. (q + 1) * hz <= n * hz
    BY <1>1, ProductOrder
  <1>3. (q + 1) * hz = a + hz
    OBVIOUS
  <1>4. a \in Nat /\ b \in Nat /\ c \in Nat /\ a + hz <= b /\ b <= c
    BY <1>2, <1>3
  <1>5. 2 * Abs(a - c) <= hz
    BY DEF Nearest
  <1> HIDE DEF a, b, c
  <1> QED  BY <1>4, <1>5 DEF Abs

(* Without a rate every conversion returns 0.                              *)
LEMMA NoRate ==
    ASSUME NEW n \in Nat, NEW s \in 1 .. NS
    PROVE  muldiv_round(n, s, 0) = 0 /\ muldiv_ceil(n, 0, s) = 0
  <1>1. s \in Nat /\ s > 0 /\ n \div s \in Nat /\ n % s \in Nat
    BY LimitTypes
  <1>2. (n \div s) * 0 = 0 /\ (n % s) * 0 = 0
    BY <1>1
  <1>3. s - 1 \in Nat /\ 0 + s - 1 = s - 1
    BY <1>1
  <1>4. s - 1 < 2^CLK_BITS
    <2>1. VCO_MAX * NS \in Nat
      BY LimitTypes
    <2> QED  BY <1>1, <2>1, LimitTypes, ClkAssumption
  <1>5. Long(0) = 0 /\ Long(s - 1) = s - 1
    BY <1>3, <1>4, LimitTypes, NoWrap
  <1>6. (s - 1) \div s = 0 /\ 0 + 0 = 0
    BY <1>1
  <1> QED  BY <1>2, <1>3, <1>5, <1>6 DEF muldiv_round, muldiv_ceil

(* All conversions by a legal tree whose clock does not round to 0 Hz.     *)
LEMMA LegalConversions ==
    ASSUME NEW t \in Tree, Legal(t), NEW n \in Nat,
           NEW hz, hz = pio_clk_sys_hz(t), hz > 0
    PROVE  /\ (n * NS) \div hz < 2^CLK_BITS - 1 => Nearest(pio_clk_ticks_to_ns(t, n), n * NS, hz)
           /\ (n * US) \div hz < 2^CLK_BITS - 1 => Nearest(pio_clk_ticks_to_us(t, n), n * US, hz)
           /\ (n * hz) \div NS < 2^CLK_BITS - 1 =>
                /\ Ceiling(pio_clk_ns_to_ticks(t, n), n * hz, NS)
                /\ (pio_clk_ns_to_ticks(t, n) * NS) \div hz < 2^CLK_BITS - 1 =>
                     pio_clk_ticks_to_ns(t, pio_clk_ns_to_ticks(t, n)) >= n
           /\ (n * hz) \div US < 2^CLK_BITS - 1 => Ceiling(pio_clk_us_to_ticks(t, n), n * hz, US)
  <1>1. hz \in 1 .. VCO_MAX /\ hz \in 0 .. VCO_MAX
    BY LegalRate, LimitTypes
  <1>2. NS \in 1 .. NS /\ US \in 1 .. NS
    BY LimitTypes, ClkAssumption
  <1>3. ASSUME (n * NS) \div hz < 2^CLK_BITS - 1
        PROVE  Nearest(pio_clk_ticks_to_ns(t, n), n * NS, hz)
    BY <1>1, <1>2, <1>3, MuldivRound DEF pio_clk_ticks_to_ns
  <1>4. ASSUME (n * US) \div hz < 2^CLK_BITS - 1
        PROVE  Nearest(pio_clk_ticks_to_us(t, n), n * US, hz)
    BY <1>1, <1>2, <1>4, MuldivRound DEF pio_clk_ticks_to_us
  <1>5. ASSUME (n * hz) \div NS < 2^CLK_BITS - 1
        PROVE  /\ Ceiling(pio_clk_ns_to_ticks(t, n), n * hz, NS)
               /\ (pio_clk_ns_to_ticks(t, n) * NS) \div hz < 2^CLK_BITS - 1 =>
                    pio_clk_ticks_to_ns(t, pio_clk_ns_to_ticks(t, n)) >= n
    <2> DEFINE k == pio_clk_ns_to_ticks(t, n)
               q == pio_clk_ticks_to_ns(t, k)
    <2>1. k \in Nat /\ Ceiling(k, n * hz, NS)
      BY <1>1, <1>2, <1>5, MuldivCeil DEF pio_clk_ns_to_ticks
    <2> HIDE DEF k
    <2>2. ASSUME (k * NS) \div hz < 2^CLK_BITS - 1
          PROVE  q >= n
      <3>1. q \in Nat /\ Nearest(q, k * NS, hz)
        BY <1>1, <1>2, <2>1, <2>2, MuldivRound DEF pio_clk_ticks_to_ns
      <3>2. k * NS >= n * hz
        BY <2>1 DEF Ceiling
      <3> HIDE DEF q
      <3>3. NS \in Nat /\ hz \in Nat /\ hz > 0
        BY <1>1, LimitTypes
      <3> QED  BY <2>1, <3>1, <3>2, <3>3, ReadsBack
    <2> QED  BY <2>1, <2>2 DEF k, q
  <1>6. ASSUME (n * hz) \div US < 2^CLK_BITS - 1
        PROVE  Ceiling(pio_clk_us_to_ticks(t, n), n * hz, US)
    BY <1>1, <1>2, <1>6, MuldivCeil DEF pio_clk_us_to_ticks
  <1> QED  BY <1>3, <1>4, <1>5, <1>6

(* The host keeps the tree a record of numbers, legal or not.              *)
ClkOK == clk \in Tree

LEMMA TreeInit == ChipInit => ClkOK
  BY ClkAssumption DEF ChipInit, ClkOK

LEMMA FieldWritten ==
    ASSUME NEW t \in Tree, NEW f \in DOMAIN BOOT,
           NEW v \in (IF f = "bypass_pll" THEN BOOLEAN ELSE Nat)
    PROVE  [t EXCEPT ![f] = v] \in Tree
  <1>1. f \in {"xosc_hz", "pll_refdiv", "pll_fbdiv", "pll_postdiv1", "pll_postdiv2",
               "clksys_div_int", "clksys_div_frac", "bypass_pll"}
    BY ClkAssumption DEF Tree
  <1> QED  BY <1>1 DEF Tree

LEMMA TreeNext == ClkOK /\ [ChipNext]_cvars => ClkOK'
  <1> SUFFICES ASSUME clk \in Tree, [ChipNext]_cvars PROVE clk' \in Tree
    BY DEF ClkOK
  <1>1. CASE ClockCall
    <2>1. CASE \E q \in PllSettings :
                 clk' = pio_clk_configure_pll(clk, q[1], q[2], q[3], q[4])
      <3> PICK q \in PllSettings :
                 clk' = pio_clk_configure_pll(clk, q[1], q[2], q[3], q[4])
        BY <2>1
      <3>1. q[1] \in Nat /\ q[2] \in Nat /\ q[3] \in Nat /\ q[4] \in Nat
        BY ClockCallAssumption
      <3> DEFINE trial == [clk EXCEPT !.pll_refdiv = q[1], !.pll_fbdiv = q[2],
                             !.pll_postdiv1 = q[3], !.pll_postdiv2 = q[4],
                             !.bypass_pll = FALSE]
      <3>2. trial \in Tree
        BY <3>1 DEF Tree
      <3>3. clk' = trial \/ clk' = clk
        BY DEF pio_clk_configure_pll
      <3> QED  BY <3>2, <3>3
    <2>2. CASE \E f \in DOMAIN FieldWrites : \E v \in FieldWrites[f] :
                 clk' = [clk EXCEPT ![f] = v]
      <3> PICK f \in DOMAIN FieldWrites : \E v \in FieldWrites[f] : clk' = [clk EXCEPT ![f] = v]
        BY <2>2
      <3> PICK v \in FieldWrites[f] : clk' = [clk EXCEPT ![f] = v]
        OBVIOUS
      <3>1. f \in DOMAIN BOOT /\ v \in (IF f = "bypass_pll" THEN BOOLEAN ELSE Nat)
        BY ClockCallAssumption
      <3>2. [clk EXCEPT ![f] = v] \in Tree
        BY <3>1, FieldWritten
      <3> QED  BY <3>2
    <2> QED  BY <1>1, <2>1, <2>2 DEF ClockCall
  <1>2. CASE ~ClockCall
    <2>1. clk' = clk
      BY <1>2, Zenon DEF ChipNext, cvars, HostGet, HostCalls, ChipStep, BusCycle, IsrGet,
                  IsrPut, IsrBlockDone, HostLines, SetLine, Pause, SniffCall
    <2> QED  BY <2>1
  <1> QED  BY <1>1, <1>2

(* The clock tree of the chip: clk_sys is the nearest integer and never    *)
(* 0, conversions round as documented and do not overflow (pio_clk.c:      *)
(* muldiv_round, muldiv_ceil), whatever the host writes into the tree.     *)
THEOREM ChipClockExact == NeverStops => (ChipSpec => []ClockExact)
  <1> SUFFICES ASSUME NeverStops PROVE ChipSpec => []ClockExact
    OBVIOUS
  <1>1. ClkOK => ClockExact
    <2> SUFFICES ASSUME clk \in Tree PROVE ClockExact
      BY DEF ClkOK
    <2> DEFINE hz == pio_clk_sys_hz(clk)
    <2>1. CASE ~Legal(clk)
      <3>1. pio_clk_sys_hz(clk) = 0
        BY <2>1 DEF pio_clk_sys_hz, Legal
      <3>2. ASSUME NEW n \in Times
            PROVE  pio_clk_ticks_to_ns(clk, n) = 0 /\ pio_clk_us_to_ticks(clk, n) = 0
        <4>1. n \in Nat /\ NS \in 1 .. NS /\ US \in 1 .. NS
          BY LimitTypes, ClkAssumption DEF Times
        <4> QED  BY <3>1, <4>1, NoRate DEF pio_clk_ticks_to_ns, pio_clk_us_to_ticks
      <3> QED  BY <2>1, <3>2 DEF ClockExact, Legal
    <2>2. CASE Legal(clk)
      <3>1. /\ hz > 0
            /\ Nearest(hz, Source(clk) * 2^CLK_DIV_FRAC_BITS, Divisor(clk))
        BY <1>1, <2>2, LegalRate
      <3>2. \A n \in Times \union {2^CLK_BITS - 1} : n \in Nat
        BY LimitTypes DEF Times
      <3> HIDE DEF hz
      <3> QED  BY <1>1, <2>2, <3>1, <3>2, LegalConversions DEF ClockExact, Legal, hz
    <2> QED  BY <2>1, <2>2
  <1> QED  BY <1>1, TreeInit, TreeNext, PTL DEF ChipSpec

(* A refused PLL setting leaves the tree alone, so a changed one runs      *)
(* (pio_clk_configure_pll validates a trial copy).                         *)
THEOREM ChipPllAllOrNothing == NeverStops => (ChipSpec => PllAllOrNothing)
  <1> DEFINE Kept == (clk' # clk /\ \E q \in PllSettings :
                        clk' = pio_clk_configure_pll(clk, q[1], q[2], q[3], q[4]))
                       => pio_clk_sys_hz(clk') > 0
  <1> SUFFICES ASSUME NeverStops PROVE ChipSpec => PllAllOrNothing
    OBVIOUS
  <1>1. ClkOK' => Kept
    <2> SUFFICES ASSUME clk' \in Tree, clk' # clk, NEW q \in PllSettings,
                        clk' = pio_clk_configure_pll(clk, q[1], q[2], q[3], q[4])
                 PROVE  pio_clk_sys_hz(clk') > 0
      BY DEF ClkOK
    <2>1. Legal(clk')
      BY DEF pio_clk_configure_pll, Legal
    <2> QED  BY <1>1, <2>1, LegalRate
  <1> QED  BY <1>1, TreeInit, TreeNext, PTL DEF ChipSpec, PllAllOrNothing
-----------------------------------------------------------------------------
(* The drain idiom.  What a record of a state machine has consumed, when n *)
(* words were sent and d before the host began to wait.                    *)
Consumed(r, c, n, d) ==
    "TXSTALL" \in r.fdebug =>
      /\ n - r.tx.count >= d
      /\ c.autopull => (r.osr_count >= c.pull_thresh \/ n - r.tx.count > d)

(* Where a PULL may throw away a word in use, no word is ever partly used. *)
Whole(r, c) ==
    (c.autopull /\ \E i \in KnownInsns : i.op = "PULL" /\ ~i.ifempty) =>
      (r.osr_count = 0 \/ r.osr_count >= c.pull_thresh)

(* Replacing record r by q keeps both, for any history.                    *)
Keeps(q, r, c) ==
    Whole(r, c) =>
      /\ Whole(q, c)
      /\ \A n \in Nat : \A d \in 0 .. n : Consumed(r, c, n, d) => Consumed(q, c, n, d)

(* A step of state machine s of block b: it writes no other state machine, *)
(* and keeps what a streaming program has consumed.                        *)
Carries(m, z, b, s) ==
    /\ z.cfg = m.cfg
    /\ \A o \in Blocks, t \in SMs : (o # b \/ t # s) => z.sm[o][t] = m.sm[o][t]
    /\ Streaming(KnownInsns, m.cfg[b][s]) =>
         Keeps(z.sm[b][s], m.sm[b][s], m.cfg[b][s])

(* q differs from r in nothing these facts speak of.                       *)
Alike(q, r) ==
    /\ q.tx = r.tx /\ q.osr_count = r.osr_count
    /\ "TXSTALL" \in q.fdebug <=> "TXSTALL" \in r.fdebug

LEMMA AlikeKeeps ==
    ASSUME NEW q, NEW r, Alike(q, r), NEW c
    PROVE  Keeps(q, r, c)
  BY DEF Alike, Keeps, Whole, Consumed

LEMMA KeepsTrans ==
    ASSUME NEW p, NEW q, NEW r, NEW c, Keeps(q, r, c), Keeps(p, q, c)
    PROVE  Keeps(p, r, c)
  BY DEF Keeps

(* A step that leaves all state machines alone.                            *)
LEMMA StillCarries ==
    ASSUME NEW m, NEW z, z.cfg = m.cfg, z.sm = m.sm, NEW b, NEW s
    PROVE  Carries(m, z, b, s)
  <1>1. Keeps(z.sm[b][s], m.sm[b][s], m.cfg[b][s])
    BY AlikeKeeps DEF Alike
  <1> QED  BY <1>1 DEF Carries

LEMMA CarriesTrans ==
    ASSUME NEW m, NEW y, NEW z, NEW b, NEW s, Carries(m, y, b, s), Carries(y, z, b, s)
    PROVE  Carries(m, z, b, s)
  <1>1. Streaming(KnownInsns, m.cfg[b][s]) =>
          Keeps(z.sm[b][s], m.sm[b][s], m.cfg[b][s])
    BY KeepsTrans DEF Carries
  <1> QED  BY <1>1 DEF Carries

(* Writing one record.                                                     *)
LEMMA SetCarries ==
    ASSUME NEW m, MachineOK(m), NEW b \in Blocks, NEW s \in SMs, NEW q,
           Streaming(KnownInsns, m.cfg[b][s]) => Keeps(q, m.sm[b][s], m.cfg[b][s])
    PROVE  Carries(m, SetSm(m, b, s, q), b, s)
  <1> DEFINE f == [m.sm EXCEPT ![b][s] = q]
             z == [m EXCEPT !.sm = f]
  <1>1. m \in Machines
    BY DEF MachineOK
  <1>2. /\ f[b][s] = q
        /\ \A o \in Blocks, t \in SMs : (o # b \/ t # s) => f[o][t] = m.sm[o][t]
    BY <1>1 DEF Machines
  <1>3. SetSm(m, b, s, q) = z
    BY <1>1 DEF SetSm, Machines
  <1> HIDE DEF f
  <1>4. z.sm = f /\ z.cfg = m.cfg
    BY <1>1 DEF Machines
  <1> HIDE DEF z
  <1>5. Carries(m, z, b, s)
    BY <1>2, <1>4 DEF Carries
  <1> QED  BY <1>3, <1>5

(* The updates of the handlers that concern neither TX nor the OSR's count. *)
LEMMA PlainUpdates ==
    ASSUME NEW r \in SmRecs, NEW v, NEW w
    PROVE  /\ Alike(r, r) /\ Alike([r EXCEPT !.x = v], r) /\ Alike([r EXCEPT !.y = v], r)
           /\ Alike([r EXCEPT !.isr = v, !.isr_count = w], r)
           /\ Alike([r EXCEPT !.exec_pending = v, !.exec_insn = w], r)
           /\ Alike([r EXCEPT !.fdebug = @ \union {"RXSTALL"}], r)
           /\ Alike([r EXCEPT !.fdebug = @ \union {"RXSTALL"}, !.isr = v, !.isr_count = w], r)
           /\ Alike(isr_drain(r), r)
           /\ Alike([r EXCEPT !.rx.buf[v] = r.isr, !.isr = w, !.isr_count = 0], r)
           /\ Alike([r EXCEPT !.stalled = v], r) /\ Alike([r EXCEPT !.delay = v], r)
           /\ Alike([r EXCEPT !.clk_accum = v], r) /\ Alike([r EXCEPT !.pc = v], r)
           /\ Alike([r EXCEPT !.enabled = v], r)
           /\ Alike([r EXCEPT !.exec_pending = v, !.exec_insn = w, !.stalled = v], r)
  <1>1. Alike(r, r) /\ Alike([r EXCEPT !.x = v], r) /\ Alike([r EXCEPT !.y = v], r)
    BY DEF Alike, SmRecs
  <1>2. /\ Alike([r EXCEPT !.isr = v, !.isr_count = w], r)
        /\ Alike([r EXCEPT !.exec_pending = v, !.exec_insn = w], r)
        /\ Alike([r EXCEPT !.fdebug = @ \union {"RXSTALL"}], r)
    BY DEF Alike, SmRecs
  <1>3. /\ Alike([r EXCEPT !.fdebug = @ \union {"RXSTALL"}, !.isr = v, !.isr_count = w], r)
        /\ Alike(isr_drain(r), r)
    BY DEF Alike, SmRecs, isr_drain
  <1>4. Alike([r EXCEPT !.rx.buf[v] = r.isr, !.isr = w, !.isr_count = 0], r)
    BY DEF Alike, SmRecs
  <1>5. /\ Alike([r EXCEPT !.stalled = v], r) /\ Alike([r EXCEPT !.delay = v], r)
        /\ Alike([r EXCEPT !.clk_accum = v], r) /\ Alike([r EXCEPT !.pc = v], r)
        /\ Alike([r EXCEPT !.enabled = v], r)
        /\ Alike([r EXCEPT !.exec_pending = v, !.exec_insn = w, !.stalled = v], r)
    BY DEF Alike, SmRecs
  <1> QED  BY <1>1, <1>2, <1>3, <1>4, <1>5

(* Driving, releasing and resolving pins.                                  *)
LEMMA PinsCarry ==
    ASSUME NEW m \in Machines, NEW b, NEW s, NEW base, NEW count, NEW w
    PROVE  /\ Carries(m, ResolvePads(m, b), b, s)
           /\ Carries(m, drive_pins(m, b, s, base, count, w), b, s)
           /\ Carries(m, drive_pindirs(m, b, s, base, count, w), b, s)
           /\ Carries(m, release_out_pins(m, b, s, base, count), b, s)
  <1> DEFINE Still(z) == z.cfg = m.cfg /\ z.sm = m.sm
  <1>1. Still(ResolvePads(m, b))
    BY DEF ResolvePads, Machines
  <1>2. \A q : Still(ResolvePads([m EXCEPT !.reg[b][s] = q], b))
    BY DEF ResolvePads, Machines
  <1>3. /\ Still(drive_pins(m, b, s, base, count, w))
        /\ Still(drive_pindirs(m, b, s, base, count, w))
        /\ Still(release_out_pins(m, b, s, base, count))
    BY <1>2, ZenonT(30) DEF drive_pins, drive_pindirs, release_out_pins
  <1> QED  BY <1>1, <1>3, StillCarries

(* Where there is no autopull, the count of the OSR says nothing.          *)
LEMMA ManualKeeps ==
    ASSUME NEW q, NEW r, NEW c, ~c.autopull, q.tx = r.tx,
           "TXSTALL" \in q.fdebug <=> "TXSTALL" \in r.fdebug
    PROVE  Keeps(q, r, c)
  BY DEF Keeps, Whole, Consumed

(* The stores of OUT.                                                      *)
LEMMA OutStoreCarries ==
    ASSUME NEW m, MachineOK(m), NEW b \in Blocks, NEW s \in SMs, NEW dst, NEW v, NEW n
    PROVE  Carries(m, out_store(m, b, s, dst, v, n).m, b, s)
  <1> DEFINE r == m.sm[b][s]
  <1>1. r \in SmRecs /\ m \in Machines
    BY SmRecAt
  <1>2. ASSUME NEW q, Alike(q, r) PROVE Carries(m, SetSm(m, b, s, q), b, s)
    BY <1>2, AlikeKeeps, SetCarries, Zenon
  <1>3. /\ Carries(m, SetSm(m, b, s, [r EXCEPT !.x = v]), b, s)
        /\ Carries(m, SetSm(m, b, s, [r EXCEPT !.y = v]), b, s)
        /\ Carries(m, SetSm(m, b, s, [r EXCEPT !.isr = v, !.isr_count = n]), b, s)
        /\ Carries(m, SetSm(m, b, s, [r EXCEPT !.exec_pending = TRUE,
                                               !.exec_insn = DecodeWord(v)]), b, s)
    <2> HIDE DEF r
    <2> QED  BY <1>1, <1>2, PlainUpdates, Zenon
  <1>4. Carries(m, m, b, s)
    BY StillCarries
  <1> QED  BY <1>1, <1>3, <1>4, PinsCarry, ReturnedMachine DEF out_store

(* The stores of MOV.                                                      *)
LEMMA MovCarries ==
    ASSUME NEW m, MachineOK(m), NEW b \in Blocks, NEW s \in SMs, NEW i \in KnownInsns,
           i.op = "MOV"
    PROVE  Carries(m, exec_mov(m, b, s, i).m, b, s)
  <1> DEFINE r == m.sm[b][s]
             v == MovOp(i.mop, read_source(m, b, s, i.src))
  <1>1. r \in SmRecs /\ m \in Machines
    BY SmRecAt
  <1>2. ASSUME NEW q, Alike(q, r) PROVE Carries(m, SetSm(m, b, s, q), b, s)
    BY <1>2, AlikeKeeps, SetCarries
  <1>3. exec_mov(m, b, s, i) = mov_store(m, b, s, i.dst, v)
    BY ZenonT(30) DEF exec_mov
  <1> HIDE DEF v
  <1>4. /\ Carries(m, SetSm(m, b, s, [r EXCEPT !.x = v]), b, s)
        /\ Carries(m, SetSm(m, b, s, [r EXCEPT !.y = v]), b, s)
        /\ Carries(m, SetSm(m, b, s, [r EXCEPT !.isr = v, !.isr_count = 0]), b, s)
        /\ Carries(m, SetSm(m, b, s, [r EXCEPT !.exec_pending = TRUE,
                                               !.exec_insn = DecodeWord(v)]), b, s)
    <2> HIDE DEF r
    <2> QED  BY <1>1, <1>2, PlainUpdates, Zenon
  <1>5. Carries(m, m, b, s)
    BY StillCarries
  <1>6. i.dst = "OSR" =>
          Carries(m, SetSm(m, b, s, [r EXCEPT !.osr = v, !.osr_count = 0]), b, s)
    <2> SUFFICES ASSUME i.dst = "OSR"
                 PROVE  Carries(m, SetSm(m, b, s, [r EXCEPT !.osr = v, !.osr_count = 0]), b, s)
      OBVIOUS
    <2> DEFINE q == [r EXCEPT !.osr = v, !.osr_count = 0]
    <2>1. q.tx = r.tx /\ q.fdebug = r.fdebug
      <3> HIDE DEF r
      <3> QED  BY <1>1 DEF SmRecs
    <2>2. Streaming(KnownInsns, m.cfg[b][s]) => ~m.cfg[b][s].autopull
      BY DEF Streaming
    <2> HIDE DEF q
    <2>3. Streaming(KnownInsns, m.cfg[b][s]) => Keeps(q, r, m.cfg[b][s])
      BY <2>1, <2>2, ManualKeeps
    <2> QED  BY <2>3, SetCarries DEF q
  <1> QED  BY <1>1, <1>3, <1>4, <1>5, <1>6, PinsCarry, ReturnedMachine DEF mov_store

(* The handlers that know neither TX nor the OSR.                          *)
LEMMA PlainHandlersCarry ==
    ASSUME NEW m, MachineOK(m), NEW b \in Blocks, NEW s \in SMs, NEW i
    PROVE  /\ Carries(m, exec_jmp(m, b, s, i).m, b, s)
           /\ Carries(m, exec_in(m, b, s, i).m, b, s)
           /\ Carries(m, exec_push(m, b, s, i).m, b, s)
           /\ Carries(m, exec_irq(m, b, s, i).m, b, s)
           /\ Carries(m, exec_set(m, b, s, i).m, b, s)
           /\ i.src \in {"GPIO", "PIN", "JMPPIN", "IRQ"} =>
                Carries(m, exec_wait(m, b, s, i).m, b, s)
  <1> DEFINE r == m.sm[b][s]
             c == m.cfg[b][s]
  <1>1. r \in SmRecs /\ m \in Machines
    BY SmRecAt
  <1>2. ASSUME NEW q, Alike(q, r) PROVE Carries(m, SetSm(m, b, s, q), b, s)
    BY <1>2, AlikeKeeps, SetCarries
  <1>3. /\ \A v : /\ Carries(m, SetSm(m, b, s, [r EXCEPT !.x = v]), b, s)
                  /\ Carries(m, SetSm(m, b, s, [r EXCEPT !.y = v]), b, s)
        /\ Carries(m, SetSm(m, b, s, [r EXCEPT !.fdebug = @ \union {"RXSTALL"}]), b, s)
        /\ Carries(m, SetSm(m, b, s, [r EXCEPT !.fdebug = @ \union {"RXSTALL"},
                                               !.isr = ZERO, !.isr_count = 0]), b, s)
        /\ Carries(m, SetSm(m, b, s, isr_drain(r)), b, s)
    <2> HIDE DEF r
    <2> QED  BY <1>1, <1>2, PlainUpdates, Zenon
  <1>4. \A g : Carries(m, [m EXCEPT !.irq = g], b, s)
    BY <1>1, StillCarries DEF Machines
  <1>5. Carries(m, m, b, s)
    BY StillCarries
  <1>6. Carries(m, exec_jmp(m, b, s, i).m, b, s)
    <2> DEFINE y == CASE i.cond = "XDEC" -> SetSm(m, b, s, [r EXCEPT !.x = Decrement(@)])
                      [] i.cond = "YDEC" -> SetSm(m, b, s, [r EXCEPT !.y = Decrement(@)])
                      [] OTHER           -> m
    <2>1. Carries(m, y, b, s)
      BY <1>3, <1>5
    <2>2. exec_jmp(m, b, s, i) \in {JumpTo(y, i.addr), Done(y)}
      BY Zenon DEF exec_jmp
    <2> HIDE DEF y
    <2> QED  BY <2>1, <2>2, ReturnedMachine
  <1>7. Carries(m, exec_in(m, b, s, i).m, b, s)
    <2> DEFINE data == mask_n(read_source(m, b, s, i.src), i.cnt)
               v == ShiftIn(c, r.isr, data, i.cnt)
               w == Saturate(r.isr_count + i.cnt)
               p == [r EXCEPT !.isr = v, !.isr_count = w]
    <2>1. exec_in(m, b, s, i) \in
            {Stall(SetSm(m, b, s, [r EXCEPT !.fdebug = @ \union {"RXSTALL"}])),
             Done(SetSm(m, b, s, p)), Done(SetSm(m, b, s, isr_drain(p)))}
      BY DEF exec_in
    <2> HIDE DEF v, w
    <2>2. Alike(p, r) /\ Alike(isr_drain(p), r)
      <3> HIDE DEF r
      <3> QED  BY <1>1 DEF Alike, SmRecs, isr_drain
    <2> HIDE DEF p
    <2>3. Carries(m, SetSm(m, b, s, p), b, s) /\ Carries(m, SetSm(m, b, s, isr_drain(p)), b, s)
      BY <1>2, <2>2
    <2> QED  BY <1>3, <2>1, <2>3, ReturnedMachine
  <1>8. Carries(m, exec_push(m, b, s, i).m, b, s)
    <2> DEFINE f == [r EXCEPT !.fdebug = @ \union {"RXSTALL"}]
               g == [r EXCEPT !.fdebug = @ \union {"RXSTALL"}, !.isr = ZERO, !.isr_count = 0]
    <2>1. exec_push(m, b, s, i) \in
            {Done(m), Done(SetSm(m, b, s, isr_drain(r))), Stall(SetSm(m, b, s, f)),
             Done(SetSm(m, b, s, g))}
      BY Zenon DEF exec_push
    <2> QED  BY <1>3, <1>5, <2>1, ReturnedMachine
  <1>9. Carries(m, exec_irq(m, b, s, i).m, b, s)
    <2> DEFINE n == resolve_irq_index(s, i.mode, i.idx)
               target == irq_target_block(b, i.mode)
               up == [m EXCEPT !.irq = [t \in Blocks |->
                        IF t \in target THEN m.irq[t] \union {n} ELSE m.irq[t]]]
               down == [m EXCEPT !.irq = [t \in Blocks |->
                          IF t \in target THEN m.irq[t] \ {n} ELSE m.irq[t]]]
               y == IF m.sm[b][s].stalled THEN m ELSE up
    <2>1. Carries(m, up, b, s) /\ Carries(m, down, b, s)
      BY <1>4
    <2>2. exec_irq(m, b, s, i) \in {Stall(m), Done(m), Done(down), Done(up), Stall(y), Done(y)}
      BY Zenon DEF exec_irq
    <2> HIDE DEF up, down
    <2> QED  BY <1>5, <2>1, <2>2, ReturnedMachine
  <1>10. Carries(m, exec_set(m, b, s, i).m, b, s)
    <2>1. \A base, count, w : /\ Carries(m, drive_pins(m, b, s, base, count, w), b, s)
                              /\ Carries(m, drive_pindirs(m, b, s, base, count, w), b, s)
      BY <1>1, PinsCarry
    <2>2. exec_set(m, b, s, i) \in
            {Done(drive_pins(m, b, s, c.set_base, c.set_count, i.val)),
             Done(drive_pindirs(m, b, s, c.set_base, c.set_count, i.val)),
             Done(SetSm(m, b, s, [r EXCEPT !.x = i.val])),
             Done(SetSm(m, b, s, [r EXCEPT !.y = i.val])), Done(m)}
      BY ZenonT(60) DEF exec_set
    <2> HIDE DEF r, c
    <2> QED  BY <1>3, <1>5, <2>1, <2>2, ReturnedMachine DEF r
  <1>11. ASSUME i.src \in {"GPIO", "PIN", "JMPPIN", "IRQ"}
         PROVE  Carries(m, exec_wait(m, b, s, i).m, b, s)
    BY <1>4, <1>5, <1>11, ReturnedMachine DEF exec_wait
  <1> QED  BY <1>6, <1>7, <1>8, <1>9, <1>10, <1>11

(* Taking a word out of TX: one more has left it.                          *)
LEMMA RefillKeeps ==
    ASSUME NEW r \in SmRecs, NEW c, ~fifo_empty(r.tx)
    PROVE  Keeps(osr_refill(r), r, c)
  <1> DEFINE f == fifo_pop(r.tx)
             w == fifo_front(r.tx)
             q == [r EXCEPT !.osr = w, !.osr_count = 0, !.tx = f]
  <1>1. r.tx \in Fifo(Words) /\ r.tx.count \in Nat /\ r.tx.count # 0
    BY FifoAssumption DEF SmRecs, Fifo, fifo_empty
  <1>2. f.count = r.tx.count - 1
    BY <1>1 DEF fifo_pop, Fifo
  <1>3. osr_refill(r) = q
    BY DEF osr_refill
  <1> HIDE DEF f, w
  <1>4. q.tx = f /\ q.osr_count = 0 /\ q.fdebug = r.fdebug
    BY DEF SmRecs
  <1> HIDE DEF q
  <1>5. ASSUME NEW n \in Nat, NEW d \in 0 .. n, Consumed(r, c, n, d)
        PROVE  Consumed(q, c, n, d)
    BY <1>1, <1>2, <1>4, <1>5 DEF Consumed
  <1>6. Whole(q, c)
    BY <1>4 DEF Whole
  <1> QED  BY <1>3, <1>5, <1>6 DEF Keeps

(* The flag goes up when TX is empty and, under autopull, the OSR is used  *)
(* up.                                                                     *)
LEMMA StallKeeps ==
    ASSUME NEW r \in SmRecs, NEW c, r.tx.count = 0,
           c.autopull => r.osr_count >= c.pull_thresh
    PROVE  Keeps([r EXCEPT !.fdebug = @ \union {"TXSTALL"}], r, c)
  <1> DEFINE q == [r EXCEPT !.fdebug = @ \union {"TXSTALL"}]
  <1>1. q.tx = r.tx /\ q.osr_count = r.osr_count
    BY DEF SmRecs
  <1> HIDE DEF q
  <1>2. \A n \in Nat : \A d \in 0 .. n : Consumed(q, c, n, d)
    BY <1>1 DEF Consumed
  <1>3. Whole(r, c) => Whole(q, c)
    BY <1>1 DEF Whole
  <1>4. Keeps(q, r, c)
    BY <1>2, <1>3 DEF Keeps
  <1> QED  BY <1>4 DEF q

(* Under autopull an OUT that stalls finds TX empty.                       *)
Ready(r, c) == (c.autopull /\ r.osr_count >= c.pull_thresh) => r.tx.count = 0

(* exec_out: stall, or shift and store.                                    *)
LEMMA OutCarries ==
    ASSUME NEW m, MachineOK(m), NEW b \in Blocks, NEW s \in SMs, InsnOK,
           NEW i \in KnownInsns, i.op = "OUT", i.cnt \in 1 .. WORD_BITS,
           Streaming(KnownInsns, m.cfg[b][s]) => Ready(m.sm[b][s], m.cfg[b][s])
    PROVE  Carries(m, exec_out(m, b, s, i).m, b, s)
  <1> DEFINE r == m.sm[b][s]
             c == m.cfg[b][s]
             val == ShiftOutValue(c, r.osr, i.cnt)
             w == ShiftOutRest(c, r.osr, i.cnt)
             n == Saturate(r.osr_count + i.cnt)
             q == [r EXCEPT !.osr = w, !.osr_count = n]
             f == [r EXCEPT !.fdebug = @ \union {"TXSTALL"}]
             y == SetSm(m, b, s, q)
             h == exec_out(m, b, s, i)
  <1>1. /\ r \in SmRecs /\ c \in Confs /\ c.pull_thresh \in 1 .. WORD_BITS
        /\ r.osr_count \in 0 .. WORD_BITS /\ WORD_BITS \in Nat
    <2>1. r \in SmRecs /\ c \in Confs
      BY SmRecAt, Zenon
    <2> HIDE DEF r, c
    <2> QED  BY <2>1, WordBitsAssumption DEF SmRecs, Confs
  <1>2. MachineOK(y)
    BY OutShifted, Zenon DEF Evolves, Frames
  <1>3. h = IF c.autopull /\ r.osr_count >= c.pull_thresh THEN Stall(SetSm(m, b, s, f))
            ELSE out_store(y, b, s, i.dst, val, i.cnt)
    BY DEF exec_out
  <1> HIDE DEF h, val, w
  <1>4. CASE c.autopull /\ r.osr_count >= c.pull_thresh
    <2>1. Streaming(KnownInsns, c) => Keeps(f, r, c)
      <3>1. Streaming(KnownInsns, c) => r.tx.count = 0
        BY <1>4 DEF Ready
      <3> HIDE DEF r, c
      <3> QED  BY <1>1, <1>4, <3>1, StallKeeps
    <2>2. Carries(m, SetSm(m, b, s, f), b, s)
      BY <2>1, SetCarries
    <2>3. h.m = SetSm(m, b, s, f)
      BY <1>3, <1>4, ReturnedMachine
    <2> QED  BY <2>2, <2>3 DEF h
  <1>5. CASE ~(c.autopull /\ r.osr_count >= c.pull_thresh)
    <2>1. n >= r.osr_count /\ (i.cnt >= c.pull_thresh => n >= c.pull_thresh)
      <3> HIDE DEF r, c
      <3> QED  BY <1>1 DEF Saturate
    <2> HIDE DEF n
    <2>2. q.tx = r.tx /\ q.fdebug = r.fdebug /\ q.osr_count = n
      <3> HIDE DEF r
      <3> QED  BY <1>1 DEF SmRecs
    <2> HIDE DEF q
    <2>3. ASSUME Streaming(KnownInsns, c) PROVE Keeps(q, r, c)
      <3>1. CASE ~c.autopull
        BY <2>2, <3>1, ManualKeeps
      <3>2. CASE c.autopull
        <4>1. Whole(q, c)
          BY <2>1, <2>2, <2>3, <3>2 DEF Whole, Streaming
        <4>2. ASSUME NEW k \in Nat, NEW d \in 0 .. k, Consumed(r, c, k, d)
              PROVE  Consumed(q, c, k, d)
          <5> HIDE DEF r, c
          <5> QED  BY <1>5, <2>2, <3>2, <4>2, Zenon DEF Consumed
        <4> QED  BY <4>1, <4>2 DEF Keeps
      <3> QED  BY <3>1, <3>2
    <2>4. Carries(m, y, b, s)
      BY <2>3, SetCarries
    <2> HIDE DEF y
    <2>5. Carries(y, h.m, b, s)
      BY <1>2, <1>3, <1>5, OutStoreCarries
    <2> QED  BY <2>4, <2>5, CarriesTrans DEF h
  <1> QED  BY <1>4, <1>5

(* exec_pull.                                                              *)
LEMMA PullCarries ==
    ASSUME NEW m, MachineOK(m), NEW b \in Blocks, NEW s \in SMs,
           NEW i \in KnownInsns, i.op = "PULL"
    PROVE  Carries(m, exec_pull(m, b, s, i).m, b, s)
  <1> DEFINE r == m.sm[b][s]
             c == m.cfg[b][s]
             f == [r EXCEPT !.fdebug = @ \union {"TXSTALL"}]
             g == [f EXCEPT !.osr = r.x, !.osr_count = 0]
             h == exec_pull(m, b, s, i)
  <1>1. r \in SmRecs /\ Carries(m, m, b, s)
    BY SmRecAt, StillCarries
  <1>2. CASE (i.ifempty /\ r.osr_count < c.pull_thresh) \/ (c.autopull /\ r.osr_count = 0)
    <2>1. h = Done(m)
      BY <1>2, Zenon DEF exec_pull
    <2> HIDE DEF h
    <2> QED  BY <1>1, <2>1, ReturnedMachine DEF h
  <1>3. CASE /\ ~(i.ifempty /\ r.osr_count < c.pull_thresh)
             /\ ~(c.autopull /\ r.osr_count = 0) /\ ~fifo_empty(r.tx)
    <2>1. h = Done(SetSm(m, b, s, osr_refill(r)))
      BY <1>3, Zenon DEF exec_pull
    <2>2. Keeps(osr_refill(r), r, c)
      <3> HIDE DEF r, c
      <3> QED  BY <1>1, <1>3, RefillKeeps
    <2>3. Carries(m, SetSm(m, b, s, osr_refill(r)), b, s)
      BY <2>2, SetCarries
    <2> HIDE DEF h
    <2> QED  BY <2>1, <2>3, ReturnedMachine DEF h
  <1>4. CASE /\ ~(i.ifempty /\ r.osr_count < c.pull_thresh)
             /\ ~(c.autopull /\ r.osr_count = 0) /\ fifo_empty(r.tx)
    <2>1. h \in {Stall(SetSm(m, b, s, f)), Done(SetSm(m, b, s, g))}
          /\ (i.block => h = Stall(SetSm(m, b, s, f)))
      BY <1>4, Zenon DEF exec_pull
    <2>2. r.tx.count = 0
      BY <1>4 DEF fifo_empty
    <2>3. ASSUME Streaming(KnownInsns, c), Whole(r, c), c.autopull
          PROVE  r.osr_count >= c.pull_thresh
      <3>1. r.osr_count \in Int /\ c.pull_thresh \in Int
        <4>1. c \in Confs
          BY SmRecAt
        <4> HIDE DEF r, c
        <4> QED  BY <1>1, <4>1, WordBitsAssumption DEF SmRecs, Confs
      <3>2. CASE i.ifempty
        BY <1>4, <3>1, <3>2
      <3>3. CASE ~i.ifempty
        BY <1>4, <2>3, <3>3 DEF Whole
      <3> QED  BY <3>2, <3>3
    <2>4. Streaming(KnownInsns, c) => Keeps(f, r, c)
      <3> SUFFICES ASSUME Streaming(KnownInsns, c) PROVE Keeps(f, r, c)
        OBVIOUS
      <3>1. Whole(r, c) => Keeps(f, r, c)
        BY <1>1, <2>2, <2>3, StallKeeps
      <3> QED  BY <3>1 DEF Keeps
    <2>5. (Streaming(KnownInsns, c) /\ ~i.block) => Keeps(g, r, c)
      <3> SUFFICES ASSUME Streaming(KnownInsns, c), ~i.block PROVE Keeps(g, r, c)
        OBVIOUS
      <3>1. ~c.autopull
        BY DEF Streaming
      <3>2. g.tx = r.tx
        <4> HIDE DEF r
        <4> QED  BY <1>1 DEF SmRecs
      <3> HIDE DEF g
      <3> QED  BY <2>2, <3>1, <3>2 DEF Keeps, Whole, Consumed
    <2> HIDE DEF h, f, g
    <2>6. Carries(m, SetSm(m, b, s, f), b, s)
      BY <2>4, SetCarries
    <2>7. ~i.block => Carries(m, SetSm(m, b, s, g), b, s)
      BY <2>5, SetCarries
    <2> QED  BY <2>1, <2>6, <2>7, ReturnedMachine DEF h
  <1> QED  BY <1>2, <1>3, <1>4

(* exec_mov_rxfifo.                                                        *)
LEMMA MovRxCarries ==
    ASSUME NEW m, MachineOK(m), NEW b \in Blocks, NEW s \in SMs,
           NEW i \in KnownInsns, i.op = "MOVRX"
    PROVE  Carries(m, exec_mov_rxfifo(m, b, s, i).m, b, s)
  <1> DEFINE r == m.sm[b][s]
             c == m.cfg[b][s]
             idx == IF i.literal THEN i.idx ELSE LowBits(r.y, WORD_BITS) % FIFO_DEPTH
             w == r.rx.buf[idx]
             p == [r EXCEPT !.osr = w, !.osr_count = 0]
             q == [r EXCEPT !.rx.buf[idx] = r.isr, !.isr = ZERO, !.isr_count = 0]
             h == exec_mov_rxfifo(m, b, s, i)
  <1>1. r \in SmRecs /\ Carries(m, m, b, s)
    BY SmRecAt, StillCarries
  <1>2. /\ h \in {Done(m), Done(SetSm(m, b, s, p)), Done(SetSm(m, b, s, q))}
        /\ ~i.get => h \in {Done(m), Done(SetSm(m, b, s, q))}
    BY ZenonT(60) DEF exec_mov_rxfifo
  <1> HIDE DEF h, idx, w
  <1>3. Alike(q, r)
    <2> HIDE DEF r
    <2> QED  BY <1>1, PlainUpdates, Zenon
  <1>4. (Streaming(KnownInsns, c) /\ i.get) => Keeps(p, r, c)
    <2> SUFFICES ASSUME Streaming(KnownInsns, c), i.get PROVE Keeps(p, r, c)
      OBVIOUS
    <2>1. ~c.autopull
      BY DEF Streaming
    <2>2. p.tx = r.tx /\ p.fdebug = r.fdebug
      <3> HIDE DEF r
      <3> QED  BY <1>1 DEF SmRecs
    <2> HIDE DEF p
    <2> QED  BY <2>1, <2>2, ManualKeeps
  <1> HIDE DEF p, q
  <1>5. Carries(m, SetSm(m, b, s, q), b, s)
    BY <1>3, AlikeKeeps, SetCarries
  <1>6. i.get => Carries(m, SetSm(m, b, s, p), b, s)
    BY <1>4, SetCarries
  <1> QED  BY <1>1, <1>2, <1>5, <1>6, ReturnedMachine DEF h

(* Every instruction, with its side-set.                                   *)
LEMMA ExecuteCarries ==
    ASSUME NEW m, MachineOK(m), NEW b \in Blocks, NEW s \in SMs, InsnOK,
           NEW i \in KnownInsns,
           (i.op = "OUT" /\ Streaming(KnownInsns, m.cfg[b][s])) =>
             Ready(m.sm[b][s], m.cfg[b][s])
    PROVE  Carries(m, exec_one(m, b, s, i).m, b, s)
  <1> DEFINE h == Execute(m, b, s, i)
  <1>1. i \in Insns
    BY KnownAreInsns
  <1>2. i.op \in {"JMP", "WAIT", "IN", "OUT", "PUSH", "PULL", "MOVRX", "MOV", "IRQ", "SET"}
    BY <1>1, InsnFields
  <1>3. Carries(m, h.m, b, s)
    <2>1. CASE i.op = "OUT"
      <3>1. h = exec_out(m, b, s, i) /\ i.cnt \in 1 .. WORD_BITS
        BY <1>1, <2>1, InsnFields DEF Execute
      <3> HIDE DEF h
      <3> QED  BY <2>1, <3>1, OutCarries
    <2>2. CASE i.op = "PULL"
      BY <2>2, PullCarries DEF Execute
    <2>3. CASE i.op = "MOVRX"
      BY <2>3, MovRxCarries DEF Execute
    <2>4. CASE i.op = "MOV"
      BY <2>4, MovCarries DEF Execute
    <2>5. CASE i.op \in {"JMP", "WAIT", "IN", "PUSH", "IRQ", "SET"}
      BY <1>1, <2>5, InsnFields, PlainHandlersCarry DEF Execute
    <2> QED  BY <1>2, <2>1, <2>2, <2>3, <2>4, <2>5
  <1>4. h \in Outcomes(m, b)
    BY <1>1, ExecuteOutcome
  <1> DEFINE z == SideSet(h.m, b, s, i)
  <1>5. exec_one(m, b, s, i) = [h EXCEPT !.m = z]
    BY DEF exec_one
  <1> HIDE DEF h
  <1>6. Carries(h.m, z, b, s)
    <2>1. h.m \in Machines
      BY <1>4 DEF Outcomes
    <2>2. Carries(h.m, h.m, b, s)
      BY StillCarries
    <2> QED  BY <2>1, <2>2, PinsCarry DEF SideSet
  <1> HIDE DEF z
  <1>7. [h EXCEPT !.m = z].m = z
    BY <1>4 DEF Outcomes
  <1> QED  BY <1>3, <1>5, <1>6, <1>7, CarriesTrans

(* Writing back a record alike.                                            *)
LEMMA AlikeCarries ==
    ASSUME NEW m, MachineOK(m), NEW b \in Blocks, NEW s \in SMs, NEW q, Alike(q, m.sm[b][s])
    PROVE  Carries(m, SetSm(m, b, s, q), b, s)
  BY AlikeKeeps, SetCarries

(* The background refill leaves the state machine ready.                   *)
LEMMA BackgroundCarries ==
    ASSUME NEW m, MachineOK(m), NEW b \in Blocks, NEW s \in SMs
    PROVE  LET z == BackgroundRefill(m, b, s)
           IN  Carries(m, z, b, s) /\ Ready(z.sm[b][s], z.cfg[b][s])
  <1> DEFINE r == m.sm[b][s]
             c == m.cfg[b][s]
             q == osr_refill(r)
             z == BackgroundRefill(m, b, s)
  <1>1. r \in SmRecs /\ c \in Confs /\ c.pull_thresh \in 1 .. WORD_BITS
    <2>1. r \in SmRecs /\ c \in Confs
      BY SmRecAt
    <2> HIDE DEF r, c
    <2> QED  BY <2>1 DEF Confs
  <1>2. CASE c.autopull /\ r.osr_count >= c.pull_thresh /\ ~fifo_empty(r.tx)
    <2>1. z = SetSm(m, b, s, q)
      BY <1>2 DEF BackgroundRefill
    <2>2. Keeps(q, r, c) /\ q.osr_count = 0
      <3> HIDE DEF r, c
      <3> QED  BY <1>1, <1>2, RefillKeeps DEF osr_refill, SmRecs
    <2> HIDE DEF q
    <2>3. Carries(m, SetSm(m, b, s, q), b, s)
      BY <2>2, SetCarries
    <2>4. SetSm(m, b, s, q).sm[b][s] = q
      BY DEF SetSm, MachineOK, Machines
    <2> HIDE DEF z
    <2>5. z.sm[b][s].osr_count = 0 /\ z.cfg = m.cfg
      BY <2>1, <2>2, <2>3, <2>4 DEF Carries
    <2>6. Ready(z.sm[b][s], z.cfg[b][s])
      BY <1>1, <2>5, WordBitsAssumption DEF Ready
    <2> QED  BY <2>1, <2>3, <2>6 DEF z
  <1>3. CASE ~(c.autopull /\ r.osr_count >= c.pull_thresh /\ ~fifo_empty(r.tx))
    <2>1. z = m
      BY <1>3, Zenon DEF BackgroundRefill
    <2>2. Ready(r, c)
      BY <1>3 DEF Ready, fifo_empty
    <2> HIDE DEF z
    <2> QED  BY <2>1, <2>2, StillCarries DEF z
  <1> QED  BY <1>2, <1>3

(* The rest of the cycle.                                                  *)
LEMMA CycleCarries ==
    ASSUME NEW m, MachineOK(m), NEW b \in Blocks, NEW s \in SMs, InsnOK,
           Ready(m.sm[b][s], m.cfg[b][s])
    PROVE  Carries(m, DelayOrExecute(m, insn, b, s), b, s)
  <1> DEFINE r == m.sm[b][s]
             i == IF r.exec_pending THEN r.exec_insn ELSE insn[b][r.pc]
             h == exec_one(m, b, s, i)
             q == [r EXCEPT !.delay = @ - 1]
             z == DelayOrExecute(m, insn, b, s)
  <1>1. r \in SmRecs
    BY SmRecAt
  <1>2. i \in KnownInsns /\ i \in Insns
    <2>1. r.exec_insn \in KnownInsns /\ r.pc \in PCs
      BY <1>1 DEF SmRecs
    <2> HIDE DEF r
    <2> QED  BY <2>1, KnownAreInsns
  <1>3. CASE r.delay > 0
    <2>1. z = SetSm(m, b, s, q)
      BY <1>3, ZenonT(30) DEF DelayOrExecute
    <2>2. Alike(q, r)
      <3> HIDE DEF r
      <3> QED  BY <1>1, PlainUpdates, Zenon
    <2> HIDE DEF z, q
    <2> QED  BY <2>1, <2>2, AlikeCarries DEF z
  <1>4. CASE ~(r.delay > 0)
    <2>1. Carries(m, h.m, b, s)
      <3> HIDE DEF i
      <3> QED  BY <1>2, ExecuteCarries
    <2>2. h \in Outcomes(m, b)
      BY <1>2, ExecOneOutcome
    <2> DEFINE y == h.m
               p == y.sm[b][s]
               c == y.cfg[b][s]
               next == CASE h.set_pc -> h.next_pc
                         [] ~h.set_pc /\ r.exec_pending -> p.pc
                         [] ~h.set_pc /\ ~r.exec_pending /\ p.pc = c.wrap_top -> c.wrap_bottom
                         [] OTHER -> (p.pc + 1) % INSN_COUNT
               pend == p.exec_pending /\ ~r.exec_pending
               dl == IF p.exec_pending /\ ~r.exec_pending THEN 0 ELSE i.delay
               st == [p EXCEPT !.stalled = TRUE]
               cm == [p EXCEPT !.stalled = FALSE, !.pc = next, !.exec_pending = pend,
                               !.delay = dl]
    <2>3. z = SetSm(y, b, s, IF h.stalled THEN st ELSE cm)
      BY <1>4, ZenonT(60) DEF DelayOrExecute, Commit
    <2> HIDE DEF z, h, i, r, next, pend, dl
    <2>4. MachineOK(y) /\ p \in SmRecs
      <3>1. MachineOK(y)
        BY <2>2 DEF Outcomes, Evolves, Frames
      <3> HIDE DEF y
      <3> QED  BY <3>1, SmRecAt
    <2> HIDE DEF y, p
    <2>5. Alike(st, p) /\ Alike(cm, p)
      BY <2>4 DEF Alike, SmRecs
    <2> HIDE DEF st, cm
    <2>6. Carries(y, z, b, s)
      BY <2>3, <2>4, <2>5, AlikeCarries DEF p
    <2> QED  BY <2>1, <2>6, CarriesTrans DEF z, y
  <1> QED  BY <1>3, <1>4

(* A tick of one state machine.                                            *)
LEMMA SmTickCarries ==
    ASSUME NEW m, MachineOK(m), NEW b \in Blocks, NEW s \in SMs, InsnOK
    PROVE  Carries(m, SmTick(m, insn, b, s), b, s)
  <1> DEFINE r == m.sm[b][s]
             c == m.cfg[b][s]
             a == div_next(r.clk_accum, c.div)
             q == [r EXCEPT !.clk_accum = a]
             m1 == SetSm(m, b, s, q)
             m2 == BackgroundRefill(m1, b, s)
             m3 == DelayOrExecute(m2, insn, b, s)
             m4 == [m3 EXCEPT !.reg[b][s].wrote = @ \union m3.reg[b][s].oe]
  <1>1. SmTick(m, insn, b, s) \in {m1, m3, m4}
    BY ZenonT(60) DEF SmTick, sm_cycle
  <1>2. r \in SmRecs /\ c \in Confs /\ Fits(r, c)
    BY SmRecAt
  <1>3. a \in Nat
    <2>1. r.clk_accum \in Nat /\ c.div \in Nat /\ DIV_ONE \in Nat
      <3> HIDE DEF r, c
      <3> QED  BY <1>2, DivAssumption, Zenon DEF SmRecs, Confs
    <2> HIDE DEF r
    <2> QED  BY <2>1 DEF div_next, div_due
  <1> HIDE DEF a
  <1>4. q \in SmRecs /\ q.enabled = r.enabled /\ q.tx = r.tx /\ q.rx = r.rx /\ Alike(q, r)
    <2> HIDE DEF r
    <2> QED  BY <1>2, <1>3, PlainUpdates, Zenon DEF SmRecs
  <1> HIDE DEF q
  <1>5. Carries(m, m1, b, s) /\ MachineOK(m1)
    BY <1>4, AlikeCarries, StoreSm DEF Evolves, Frames
  <1> HIDE DEF m1
  <1>6. Carries(m1, m2, b, s) /\ MachineOK(m2) /\ Ready(m2.sm[b][s], m2.cfg[b][s])
    BY <1>5, BackgroundCarries, RefillEvolves DEF Evolves, Frames
  <1> HIDE DEF m2
  <1>7. Carries(m2, m3, b, s) /\ m3 \in Machines
    BY <1>6, CycleCarries, CycleEvolves DEF Evolves, Frames, MachineOK
  <1> HIDE DEF m3
  <1>8. Carries(m3, m4, b, s)
    BY <1>7, StillCarries DEF Machines
  <1> HIDE DEF m4
  <1>9. Carries(m, m3, b, s)
    BY <1>5, <1>6, <1>7, CarriesTrans
  <1> QED  BY <1>1, <1>5, <1>8, <1>9, CarriesTrans

(* State machine 0 of block 0 is the one under the host of the drain.      *)
Follows(m, z) ==
    /\ z.cfg = m.cfg
    /\ Streaming(KnownInsns, m.cfg[0][0]) =>
         Keeps(z.sm[0][0], m.sm[0][0], m.cfg[0][0])

LEMMA FirstPlace == 0 \in Blocks /\ 0 \in SMs
  BY PadsAssumption DEF Blocks, SMs

LEMMA CarriesFollows ==
    ASSUME NEW m, NEW z, NEW b \in Blocks, NEW s \in SMs, Carries(m, z, b, s)
    PROVE  Follows(m, z)
  <1>1. CASE b = 0 /\ s = 0
    BY <1>1 DEF Carries, Follows
  <1>2. CASE b # 0 \/ s # 0
    <2>1. z.sm[0][0] = m.sm[0][0]
      BY <1>2, FirstPlace DEF Carries
    <2>2. Keeps(z.sm[0][0], m.sm[0][0], m.cfg[0][0])
      BY <2>1, AlikeKeeps DEF Alike
    <2> QED  BY <2>2 DEF Carries, Follows
  <1> QED  BY <1>1, <1>2

LEMMA FollowsTrans ==
    ASSUME NEW m, NEW y, NEW z, Follows(m, y), Follows(y, z)
    PROVE  Follows(m, z)
  BY KeepsTrans DEF Follows

(* What leaves the state machines and their configurations alone.          *)
LEMMA StillFollows ==
    ASSUME NEW m, NEW z, z.cfg = m.cfg, z.sm = m.sm
    PROVE  Follows(m, z)
  BY AlikeKeeps DEF Alike, Follows

(* A tick of a block: its state machines in turn.                          *)
LEMMA BlockFollows ==
    ASSUME NEW m, MachineOK(m), NEW b \in Blocks, InsnOK
    PROVE  Follows(m, TickBlock(m, insn, b))
  <1>1. PICK g : TickChain(g, m, b)
    BY TickIsChain
  <1>2. NUM_SM \in Nat /\ NUM_SM \in 0 .. NUM_SM
    BY PadsAssumption
  <1> DEFINE S == {k \in Nat : k <= NUM_SM => Follows(m, g[k])}
  <1>3. 0 \in S
    <2>1. Follows(m, OpenWriteWindow(m, {b}))
      BY WindowFrame, StillFollows
    <2> QED  BY <1>1, <2>1 DEF TickChain
  <1>4. ASSUME NEW k \in Nat, k \in S PROVE k + 1 \in S
    <2> SUFFICES ASSUME k + 1 <= NUM_SM PROVE Follows(m, g[k + 1])
      OBVIOUS
    <2>1. k \in SMs /\ k \in 0 .. NUM_SM /\ Follows(m, g[k])
      BY <1>2, <1>4 DEF SMs
    <2>2. MachineOK(g[k]) /\ g[k + 1] = SmTick(g[k], insn, b, k)
      BY <1>1, <2>1 DEF TickChain, Evolves, Frames
    <2>3. Follows(g[k], g[k + 1])
      BY <2>1, <2>2, SmTickCarries, CarriesFollows
    <2> QED  BY <2>1, <2>3, FollowsTrans
  <1> HIDE DEF S
  <1>5. Nat \subseteq S
    BY <1>3, <1>4, SetInduction
  <1>6. Follows(m, g[NUM_SM])
    BY <1>2, <1>5 DEF S
  <1>7. g[NUM_SM] \in Machines
    BY <1>1, <1>2 DEF TickChain, Evolves, Frames, MachineOK
  <1>8. Follows(g[NUM_SM], TickBlock(m, insn, b))
    <2>1. Follows(g[NUM_SM], ResolvePads(g[NUM_SM], b))
      BY <1>7, FirstPlace, PinsCarry, CarriesFollows
    <2> QED  BY <1>1, <2>1 DEF TickChain
  <1> QED  BY <1>6, <1>8, FollowsTrans

(* Clocking the pads.                                                      *)
LEMMA ClocksFollow ==
    ASSUME NEW m, MachineOK(m), NEW b \in Blocks
    PROVE  /\ Follows(m, ClockOwn(m, b)) /\ MachineOK(ClockOwn(m, b))
           /\ Follows(m, ClockShared(ClockOwn(m, b)))
           /\ MachineOK(ClockShared(ClockOwn(m, b)))
  <1>1. MachineOK(ClockOwn(m, b)) /\ MachineOK(ClockShared(ClockOwn(m, b)))
    BY ClocksOK DEF Touches
  <1>2. ASSUME NEW y \in Machines
        PROVE  Follows(y, ClockOwn(y, b)) /\ Follows(y, ClockShared(y))
    <2>1. /\ ClockOwn(y, b).cfg = y.cfg /\ ClockOwn(y, b).sm = y.sm
          /\ ClockShared(y).cfg = y.cfg /\ ClockShared(y).sm = y.sm
      BY DEF ClockOwn, ClockShared, Machines
    <2> QED  BY <2>1, StillFollows
  <1>3. m \in Machines /\ ClockOwn(m, b) \in Machines
    BY <1>1 DEF MachineOK
  <1> QED  BY <1>1, <1>2, <1>3, FollowsTrans

(* An injected instruction: under autopull none of them is an OUT, which   *)
(* would run without the refill that opens a cycle.                        *)
LEMMA InjectCarries ==
    ASSUME NEW m, MachineOK(m), NEW b \in Blocks, NEW s \in SMs, InsnOK, NEW i \in ExecInsns
    PROVE  Carries(m, sm_exec(m, b, s, i), b, s)
  <1> DEFINE z == SetSm(m, b, s, [m.sm[b][s] EXCEPT !.stalled = FALSE])
             h == exec_one(z, b, s, i)
             r == h.m.sm[b][s]
             npc == IF h.set_pc THEN h.next_pc ELSE r.pc
             q == [r EXCEPT !.exec_pending = TRUE, !.exec_insn = i, !.stalled = TRUE]
             p == [r EXCEPT !.pc = npc]
  <1>1. Carries(m, z, b, s)
    <2>1. m.sm[b][s] \in SmRecs
      BY SmRecAt, Zenon
    <2>2. Alike([m.sm[b][s] EXCEPT !.stalled = FALSE], m.sm[b][s])
      BY <2>1, PlainUpdates, Zenon
    <2> QED  BY <2>2, AlikeCarries
  <1>2. MachineOK(z) /\ i \in Insns /\ i \in KnownInsns
    BY StalledEvolves, KnownAreInsns DEF Evolves, Frames
  <1>3. sm_exec(m, b, s, i) = SetSm(h.m, b, s, IF h.stalled THEN q ELSE p)
    BY DEF sm_exec
  <1> HIDE DEF z
  <1>4. h \in Outcomes(z, b)
    BY <1>2, ExecOneOutcome
  <1>5. Carries(z, h.m, b, s)
    <2>1. (i.op = "OUT" /\ Streaming(KnownInsns, z.cfg[b][s])) =>
            Ready(z.sm[b][s], z.cfg[b][s])
      BY DEF Streaming, Ready
    <2> QED  BY <1>2, <2>1, ExecuteCarries
  <1> HIDE DEF h
  <1>6. MachineOK(h.m) /\ r \in SmRecs
    <2>1. MachineOK(h.m)
      BY <1>4, Zenon DEF Outcomes, Evolves, Frames
    <2> QED  BY <2>1, SmRecAt
  <1> HIDE DEF npc
  <1>7. Alike(q, r) /\ Alike(p, r)
    <2> HIDE DEF r
    <2> QED  BY <1>6, PlainUpdates, Zenon
  <1> HIDE DEF q, p
  <1>8. Carries(h.m, sm_exec(m, b, s, i), b, s)
    BY <1>3, <1>6, <1>7, AlikeCarries
  <1> QED  BY <1>1, <1>5, <1>8, CarriesTrans

(* Stopping and starting state machines.                                   *)
LEMMA EnableFollows ==
    ASSUME NEW m, MachineOK(m), NEW mask, NEW on \in BOOLEAN
    PROVE  Follows(m, EnableMask(m, 0, mask, on))
  <1> DEFINE g == [s \in SMs |-> IF s \in mask THEN [m.sm[0][s] EXCEPT !.enabled = on]
                                               ELSE m.sm[0][s]]
             f == [m.sm EXCEPT ![0] = g]
             y == [m EXCEPT !.sm = f]
  <1>1. m \in Machines /\ m.sm[0][0] \in SmRecs
    BY FirstPlace, SmRecAt, Zenon
  <1>2. Alike(g[0], m.sm[0][0])
    <2>1. g[0] \in {[m.sm[0][0] EXCEPT !.enabled = on], m.sm[0][0]}
      BY FirstPlace
    <2> HIDE DEF g
    <2> QED  BY <1>1, <2>1, PlainUpdates, ZenonT(30)
  <1> HIDE DEF g
  <1>3. f[0][0] = g[0]
    BY <1>1, FirstPlace DEF Machines
  <1>4. EnableMask(m, 0, mask, on) = ResolvePads(y, 0)
    BY <1>1 DEF EnableMask, g, Machines
  <1> HIDE DEF f
  <1>5. y.sm = f /\ y.cfg = m.cfg
    BY <1>1 DEF Machines
  <1>6. ResolvePads(y, 0).sm = y.sm /\ ResolvePads(y, 0).cfg = y.cfg
    BY <1>1 DEF ResolvePads, Machines
  <1> HIDE DEF y
  <1>7. Keeps(ResolvePads(y, 0).sm[0][0], m.sm[0][0], m.cfg[0][0])
    BY <1>2, <1>3, <1>5, <1>6, AlikeKeeps
  <1> QED  BY <1>4, <1>5, <1>6, <1>7 DEF Follows

(* Writing the configuration that is there leaves the FIFO alone.          *)
LEMMA RewriteFollows ==
    ASSUME NEW m, MachineOK(m)
    PROVE  Follows(m, ApplyConfig(m, 0, 0, m.cfg[0][0]))
  <1> DEFINE r == m.sm[0][0]
             c == m.cfg[0][0]
             j == c.fifo_join
             f == Rejoin(r.tx, j, j, TxCap(j))
             g == Rejoin(r.rx, j, j, RxCap(j))
             q == [r EXCEPT !.tx = f, !.rx = g, !.status = <<>>]
             z == ApplyConfig(m, 0, 0, c)
  <1>1. r \in SmRecs /\ Fits(r, c) /\ m \in Machines
    BY FirstPlace, SmRecAt
  <1>2. f = r.tx
    <2>1. r.tx \in Fifo(Words) /\ r.tx.cap = TxCap(j)
      BY <1>1 DEF SmRecs, Fits
    <2> HIDE DEF r, j
    <2> QED  BY <2>1 DEF Rejoin, Fifo
  <1> HIDE DEF f, g
  <1>3. Alike(q, r)
    <2> HIDE DEF r
    <2> QED  BY <1>1, <1>2 DEF Alike, SmRecs
  <1>4. z.sm[0][0] = q /\ z.cfg = m.cfg
    BY <1>1, FirstPlace DEF ApplyConfig, Machines, f, g
  <1> HIDE DEF q, z
  <1>5. Keeps(z.sm[0][0], r, c)
    BY <1>3, <1>4, AlikeKeeps
  <1> QED  BY <1>4, <1>5 DEF Follows, z

(* What the host that waits for TXSTALL relies on, n words sent so far and *)
(* d of them when it began to wait.                                        *)
Streams(m, n, d) ==
    LET r == m.sm[0][0]
        c == m.cfg[0][0]
    IN  /\ Streaming(KnownInsns, c) /\ Whole(r, c)
        /\ d # -1 => d \in 0 .. n /\ Consumed(r, c, n, d)

(* The inductive invariant.                                                *)
DrainInv ==
    IF Planned THEN drain = -1
    ELSE /\ bus = FALSE /\ InsnOK /\ MachineOK(Machine) /\ turn \in 0 .. Idle
         /\ sent \in Seq(Words)
         /\ IF "clear_fdebug" \in host.calls THEN Streams(Machine, Len(sent), drain)
            ELSE drain = -1

LEMMA FollowsStreams ==
    ASSUME NEW m, NEW z, Follows(m, z), NEW n \in Nat, NEW d, Streams(m, n, d)
    PROVE  Streams(z, n, d)
  BY Zenon DEF Follows, Keeps, Streams

(* The host's put, and the start of its wait.                              *)
LEMMA PutStreams ==
    ASSUME NEW m, MachineOK(m), ~fifo_full(m.sm[0][0].tx), NEW w \in Words,
           NEW n \in Nat, NEW d, Streams(m, n, d)
    PROVE  Streams(SetSm(m, 0, 0, PutWord(m.sm[0][0], w)), n + 1, d)
  <1> DEFINE r == m.sm[0][0]
             c == m.cfg[0][0]
             q == PutWord(r, w)
             z == SetSm(m, 0, 0, q)
  <1>1. r \in SmRecs /\ Fits(r, c) /\ m \in Machines
    BY FirstPlace, SmRecAt
  <1>2. /\ q.tx.count = r.tx.count + 1 /\ r.tx.count \in Nat
        /\ q.fdebug = r.fdebug /\ q.osr_count = r.osr_count
    <2>1. r.tx \in Fifo(Words) /\ RingOK(r.tx)
      BY <1>1 DEF SmRecs, Fits
    <2>2. q = [r EXCEPT !.tx = fifo_push(r.tx, w)]
      BY DEF PutWord
    <2>3. fifo_push(r.tx, w).count = r.tx.count + 1
      BY <2>1, PushRing
    <2>4. r.tx.count \in Nat
      BY <2>1 DEF Fifo
    <2> HIDE DEF r, q
    <2> QED  BY <1>1, <2>2, <2>3, <2>4 DEF SmRecs
  <1> HIDE DEF q
  <1>3. z.sm[0][0] = q /\ z.cfg = m.cfg
    BY <1>1, FirstPlace DEF SetSm, Machines
  <1> HIDE DEF z
  <1>4. Whole(q, c)
    BY <1>2 DEF Streams, Whole
  <1>5. ASSUME d # -1 PROVE d \in 0 .. n + 1 /\ Consumed(q, c, n + 1, d)
    <2>1. d \in 0 .. n /\ Consumed(r, c, n, d)
      BY <1>5 DEF Streams
    <2> HIDE DEF r, c
    <2>2. n + 1 - q.tx.count = n - r.tx.count
      BY <1>2
    <2> QED  BY <1>2, <2>1, <2>2 DEF Consumed
  <1> QED  BY <1>3, <1>4, <1>5 DEF Streams, q, z

LEMMA StartStreams ==
    ASSUME NEW m, MachineOK(m), NEW n \in Nat, Streams(m, n, -1)
    PROVE  Streams(SetSm(m, 0, 0, [m.sm[0][0] EXCEPT !.fdebug = @ \ {"TXSTALL"}]), n, n)
  <1> DEFINE r == m.sm[0][0]
             q == [r EXCEPT !.fdebug = @ \ {"TXSTALL"}]
             z == SetSm(m, 0, 0, q)
  <1>1. r \in SmRecs /\ m \in Machines
    BY FirstPlace, SmRecAt
  <1>2. "TXSTALL" \notin q.fdebug /\ q.osr_count = r.osr_count
    <2> HIDE DEF r
    <2> QED  BY <1>1 DEF SmRecs
  <1> HIDE DEF q
  <1>3. z.sm[0][0] = q /\ z.cfg = m.cfg
    BY <1>1, FirstPlace DEF SetSm, Machines
  <1> HIDE DEF z
  <1>4. Whole(q, m.cfg[0][0])
    BY <1>2 DEF Streams, Whole
  <1>5. Consumed(q, m.cfg[0][0], n, n)
    BY <1>2 DEF Consumed
  <1>6. Streaming(KnownInsns, m.cfg[0][0]) /\ n \in 0 .. n
    BY DEF Streams
  <1>7. Streams(z, n, n)
    BY <1>3, <1>4, <1>5, <1>6 DEF Streams
  <1> QED  BY <1>7 DEF q, z

(* A step of a block without a DMA controller.                             *)
LEMMA DrainBecomes ==
    ASSUME DrainInv, ~Planned, NEW z, MachineOK(z), Become(z),
           UNCHANGED <<insn, host>>, bus' = FALSE, turn' \in 0 .. Idle,
           sent' \in Seq(Words),
           IF "clear_fdebug" \in host.calls THEN Streams(z, Len(sent'), drain')
           ELSE drain' = -1
    PROVE  DrainInv'
  <1>1. Machine' = z /\ MachineOK(Machine)'
    BY BecomeOK
  <1>2. KnownInsns' = KnownInsns /\ ~Planned'
    BY DEF KnownInsns, Planned
  <1>3. InsnOK' /\ Idle' = Idle
    BY DEF DrainInv, InsnOK, Idle
  <1>4. Streams(z, Len(sent'), drain') => Streams(Machine, Len(sent), drain)'
    BY <1>1, <1>2 DEF Streams, Whole
  <1> QED  BY <1>1, <1>2, <1>3, <1>4 DEF DrainInv

(* One that the drain does not see.                                        *)
LEMMA DrainFollows ==
    ASSUME DrainInv, ~Planned, NEW z, MachineOK(z), Follows(Machine, z), Become(z),
           UNCHANGED <<insn, host, sent, drain>>, bus' = FALSE, turn' \in 0 .. Idle
    PROVE  DrainInv'
  <1>1. Len(sent) \in Nat
    BY DEF DrainInv
  <1>2. IF "clear_fdebug" \in host.calls THEN Streams(z, Len(sent'), drain')
        ELSE drain' = -1
    BY <1>1, FollowsStreams DEF DrainInv
  <1> QED  BY <1>2, DrainBecomes DEF DrainInv

(* A tick.                                                                 *)
LEMMA DrainTick ==
    ASSUME DrainInv, ~Planned, Step, UNCHANGED <<sent, drain>>, bus' = FALSE
    PROVE  DrainInv'
  <1>1. MachineOK(Machine) /\ InsnOK
    BY DEF DrainInv
  <1>2. ASSUME NEW m, MachineOK(m), NEW b \in Blocks
        PROVE  Follows(m, TickBlock(m, insn, b)) /\ MachineOK(TickBlock(m, insn, b))
    BY <1>1, <1>2, BlockFollows, TickBlockEvolves DEF Evolves, Frames
  <1>3. CASE StartTick
    <2> DEFINE y == OpenWriteWindow(Machine, Blocks)
               z == TickBlock(y, insn, 0)
    <2>1. Follows(Machine, y) /\ MachineOK(y)
      BY <1>1, WindowFrame, StillFollows
    <2>2. Become(z) /\ UNCHANGED <<insn, host>> /\ turn' \in 0 .. Idle
      BY <1>3, PadsAssumption DEF StartTick, Idle
    <2> HIDE DEF y
    <2>3. Follows(Machine, z) /\ MachineOK(z)
      BY <1>2, <2>1, FirstPlace, FollowsTrans
    <2> HIDE DEF z
    <2> QED  BY <2>2, <2>3, DrainFollows
  <1>4. CASE NextBlock
    <2> DEFINE y == ClockOwn(Machine, turn)
               z == TickBlock(y, insn, turn + 1)
    <2>1. turn \in Blocks /\ turn + 1 \in Blocks /\ turn + 1 \in 0 .. Idle
      BY <1>4, PadsAssumption DEF NextBlock, DrainInv, Blocks, Idle
    <2>2. Follows(Machine, y) /\ MachineOK(y)
      BY <1>1, <2>1, ClocksFollow
    <2>3. Become(z) /\ UNCHANGED <<insn, host>> /\ turn' \in 0 .. Idle
      BY <1>4, <2>1 DEF NextBlock
    <2> HIDE DEF y
    <2>4. Follows(Machine, z) /\ MachineOK(z)
      BY <1>2, <2>1, <2>2, FollowsTrans
    <2> HIDE DEF z
    <2> QED  BY <2>3, <2>4, DrainFollows
  <1>5. CASE EndTick
    <2> DEFINE z == ClockShared(ClockOwn(Machine, turn))
    <2>1. turn \in Blocks /\ Idle \in 0 .. Idle
      BY <1>5, PadsAssumption DEF EndTick, DrainInv, Blocks, Idle
    <2>2. Follows(Machine, z) /\ MachineOK(z)
      BY <1>1, <2>1, ClocksFollow
    <2>3. Become(z) /\ UNCHANGED <<insn, host>> /\ turn' \in 0 .. Idle
      BY <1>5, <2>1 DEF EndTick
    <2> HIDE DEF z
    <2> QED  BY <2>2, <2>3, DrainFollows
  <1> QED  BY <1>3, <1>4, <1>5 DEF Step

(* The words of the host.                                                  *)
LEMMA DrainPut ==
    ASSUME DrainInv, ~Planned, StreamPut, UNCHANGED bus
    PROVE  DrainInv'
  <1> PICK w \in HostWords :
         /\ ~fifo_full(R.tx) /\ pio_sim_sm_put(0, 0, w)
         /\ sent' = Append(sent, w) /\ UNCHANGED drain
    BY DEF StreamPut
  <1> DEFINE r == Machine.sm[0][0]
             z == SetSm(Machine, 0, 0, PutWord(r, w))
  <1>1. r = R /\ MachineOK(Machine) /\ w \in Words /\ ZERO \in Words
    BY MachineIs, SimAssumption, SameRings DEF R, DrainInv
  <1>2. MachineOK(z)
    <2>1. r \in SmRecs /\ Fits(r, Machine.cfg[0][0])
      BY <1>1, FirstPlace, SmRecAt
    <2>2. 0 \in RegIdx
      BY FifoAssumption DEF RegIdx
    <2> HIDE DEF r
    <2>3. Replaces(PutWord(r, w), r, Machine.cfg[0][0])
      BY <1>1, <2>1, <2>2, FifoCalls
    <2> QED  BY <1>1, <2>3, FirstPlace, SetSmFrames DEF Replaces
  <1>3. Become(z) /\ UNCHANGED <<insn, turn, host>>
    BY <1>1 DEF pio_sim_sm_put, HostCall, R
  <1>4. sent' \in Seq(Words) /\ Len(sent') = Len(sent) + 1 /\ Len(sent) \in Nat
    BY <1>1 DEF DrainInv
  <1>5. \A d : Streams(Machine, Len(sent), d) => Streams(z, Len(sent'), d)
    BY <1>1, <1>4, PutStreams
  <1> HIDE DEF z
  <1> QED  BY <1>2, <1>3, <1>4, <1>5, DrainBecomes DEF DrainInv

LEMMA DrainGet ==
    ASSUME DrainInv, ~Planned, StreamGet, UNCHANGED bus
    PROVE  DrainInv'
  <1> DEFINE r == Machine.sm[0][0]
             q == GetWord(r)
             z == SetSm(Machine, 0, 0, q)
  <1>1. r = R /\ MachineOK(Machine) /\ ZERO \in Words
    BY MachineIs, SameRings DEF R, DrainInv
  <1>2. r \in SmRecs /\ Fits(r, Machine.cfg[0][0])
    BY <1>1, FirstPlace, SmRecAt
  <1>3. MachineOK(z)
    <2>1. 0 \in RegIdx
      BY FifoAssumption DEF RegIdx
    <2> HIDE DEF r
    <2>2. Replaces(GetWord(r), r, Machine.cfg[0][0])
      BY <1>1, <1>2, <2>1, FifoCalls
    <2> QED  BY <1>1, <2>2, FirstPlace, SetSmFrames DEF Replaces, r
  <1>4. Become(z) /\ UNCHANGED <<insn, turn, host, sent, drain>>
    BY <1>1 DEF StreamGet, pio_sim_sm_get, HostCall, R
  <1>5. Alike(q, r)
    <2> HIDE DEF r
    <2> QED  BY <1>2 DEF GetWord, Alike, SmRecs
  <1> HIDE DEF q
  <1>6. Follows(Machine, z)
    BY <1>1, <1>5, FirstPlace, AlikeCarries, CarriesFollows
  <1> HIDE DEF z
  <1> QED  BY <1>3, <1>4, <1>6, DrainFollows DEF DrainInv

(* The wait itself.                                                        *)
LEMMA DrainWaits ==
    ASSUME DrainInv, ~Planned, DrainStart \/ DrainEnd, UNCHANGED bus
    PROVE  DrainInv'
  <1>1. MachineOK(Machine) /\ Machine.sm[0][0] = sm[0][0] /\ Len(sent) \in Nat
    BY MachineIs DEF DrainInv
  <1>2. CASE DrainStart
    <2> DEFINE r == Machine.sm[0][0]
               q == [r EXCEPT !.fdebug = @ \ {"TXSTALL"}]
               z == SetSm(Machine, 0, 0, q)
    <2>1. /\ "clear_fdebug" \in host.calls /\ drain = -1 /\ drain' = Len(sent)
          /\ Become(z) /\ UNCHANGED <<insn, turn, host, sent>>
      BY <1>1, <1>2 DEF DrainStart, pio_sim_sm_clear_fdebug, HostCall
    <2>2. Streams(z, Len(sent'), drain')
      BY <1>1, <2>1, StartStreams DEF DrainInv
    <2>3. r \in SmRecs /\ Fits(r, Machine.cfg[0][0])
      BY <1>1, FirstPlace, SmRecAt
    <2>4. q \in SmRecs /\ q.tx = r.tx /\ q.rx = r.rx
      <3> HIDE DEF r
      <3> QED  BY <2>3 DEF SmRecs
    <2> HIDE DEF q
    <2>5. Fits(q, Machine.cfg[0][0])
      BY <2>3, <2>4 DEF Fits
    <2>6. MachineOK(z)
      BY <1>1, <2>4, <2>5, FirstPlace, SetSmFrames
    <2> HIDE DEF z
    <2> QED  BY <2>1, <2>2, <2>6, DrainBecomes DEF DrainInv
  <1>3. CASE DrainEnd
    <2>1. Become(Machine) /\ UNCHANGED <<insn, turn, host, sent>> /\ drain' = -1
      BY <1>3, MachineIs DEF DrainEnd, vars, Become
    <2>2. Streams(Machine, Len(sent), drain) => Streams(Machine, Len(sent'), drain')
      BY <2>1 DEF Streams
    <2> QED  BY <1>1, <2>1, <2>2, DrainBecomes DEF DrainInv
  <1> QED  BY <1>2, <1>3

(* The other calls of the host.                                            *)
LEMMA DrainControl ==
    ASSUME DrainInv, ~Planned, StreamExec \/ StreamControl, UNCHANGED bus
    PROVE  DrainInv'
  <1>1. MachineOK(Machine) /\ InsnOK /\ cfg[0][0] = Machine.cfg[0][0]
    BY MachineIs DEF DrainInv
  <1>2. UNCHANGED <<sent, drain>>
    BY DEF StreamExec, StreamControl
  <1>3. ASSUME NEW op, NEW z, HostCall(op, z), MachineOK(z), Follows(Machine, z)
        PROVE  DrainInv'
    BY <1>2, <1>3, DrainFollows DEF HostCall, DrainInv
  <1>4. CASE StreamExec
    <2> PICK i \in ExecInsns : pio_sim_sm_exec(0, 0, i)
      BY <1>4 DEF StreamExec
    <2>1. /\ Follows(Machine, sm_exec(Machine, 0, 0, i))
          /\ MachineOK(sm_exec(Machine, 0, 0, i))
      BY <1>1, FirstPlace, InjectCarries, CarriesFollows, SmExecEvolves DEF Evolves, Frames
    <2> QED  BY <1>3, <2>1 DEF pio_sim_sm_exec
  <1>5. CASE \E on \in BOOLEAN : pio_sim_set_sm_mask_enabled(0, {0}, on)
    <2> PICK on \in BOOLEAN : pio_sim_set_sm_mask_enabled(0, {0}, on)
      BY <1>5
    <2>1. /\ Follows(Machine, EnableMask(Machine, 0, {0}, on))
          /\ MachineOK(EnableMask(Machine, 0, {0}, on))
      BY <1>1, FirstPlace, EnableFollows, EnableOK DEF Touches
    <2> QED  BY <1>3, <2>1 DEF pio_sim_set_sm_mask_enabled
  <1>6. CASE pio_sim_sm_set_config(0, 0, cfg[0][0])
    <2> DEFINE z == ApplyConfig(Machine, 0, 0, Machine.cfg[0][0])
    <2>1. Machine.cfg[0][0] \in Confs
      BY <1>1, FirstPlace, SmRecAt
    <2>2. Follows(Machine, z) /\ MachineOK(z)
      BY <1>1, <2>1, FirstPlace, RewriteFollows, ConfigOK DEF Touches
    <2>3. HostCall("set_config", z)
      BY <1>1, <1>6 DEF pio_sim_sm_set_config
    <2> HIDE DEF z
    <2> QED  BY <1>3, <2>2, <2>3
  <1>7. CASE pio_sim_irq_force(0, 0, TRUE)
    <2> DEFINE z == [Machine EXCEPT !.irq[0] = IF TRUE THEN @ \union {0} ELSE @ \ {0}]
    <2>1. 0 \in Irqs
      BY SmAssumption DEF Irqs
    <2>2. MachineOK(z)
      BY <1>1, <2>1, FirstPlace, ForceEvolves DEF Evolves, Frames
    <2>3. Follows(Machine, z)
      BY StillFollows DEF Machine
    <2>4. HostCall("irq_force", z)
      BY <1>7 DEF pio_sim_irq_force
    <2> HIDE DEF z
    <2> QED  BY <1>3, <2>2, <2>3, <2>4
  <1> QED  BY <1>4, <1>5, <1>6, <1>7 DEF StreamControl

(* What the program, the words and the injected instructions hold.         *)
LEMMA DrainInit == DrainIdiom /\ ChipInit => DrainInv
  <1> SUFFICES ASSUME DrainIdiom, ChipInit, ~Planned PROVE DrainInv
    BY DEF ChipInit, StreamInit, DrainInv
  <1>1. Init /\ sent = <<>> /\ drain = -1 /\ bus = FALSE
    BY DEF ChipInit, StreamInit
  <1>2. InsnOK /\ MachineOK(Machine) /\ turn \in 0 .. Idle
    BY <1>1, InitInv DEF Inv
  <1>3. ASSUME "clear_fdebug" \in host.calls PROVE Streams(Machine, 0, -1)
    <2> PICK su \in Setups :
          /\ insn = su.prog /\ cfg = su.conf /\ host = su.host
          /\ sm = [b \in Blocks |-> [s \in SMs |->
                     [Configured(su.conf[b][s]) EXCEPT !.enabled = <<b, s>> \in su.on]]]
      BY <1>1, Zenon DEF Init
    <2> DEFINE r == Machine.sm[0][0]
               c == Machine.cfg[0][0]
               code == ExecInsns \union {DecodeWord(w) : w \in Words}
                         \union UNION {{su.prog[b][a] : a \in PCs} : b \in Blocks}
    <2>1. Streaming(code, c)
      BY <1>3, MachineIs DEF DrainIdiom, Planned
    <2>2. KnownInsns = code \union {NoInsn} /\ NoInsn.op = "JMP"
      BY DEF KnownInsns, NoInsn
    <2> HIDE DEF code
    <2>3. Streaming(KnownInsns, c)
      BY <2>1, <2>2 DEF Streaming
    <2>4. r.osr_count = WORD_BITS
      <3>1. r = [Configured(su.conf[0][0]) EXCEPT !.enabled = <<0, 0>> \in su.on]
        BY MachineIs, FirstPlace
      <3>2. \A k, v : [Configured(k) EXCEPT !.enabled = v].osr_count = ResetSm.osr_count
        BY DEF Configured, ResetSm
      <3> QED  BY <3>1, <3>2 DEF ResetSm
    <2>5. WORD_BITS >= c.pull_thresh
      <3>1. c \in Confs
        BY <1>2, FirstPlace, SmRecAt
      <3> HIDE DEF c
      <3> QED  BY <3>1, WordBitsAssumption DEF Confs
    <2> HIDE DEF r, c
    <2>6. Whole(r, c)
      BY <2>4, <2>5 DEF Whole
    <2> QED  BY <2>3, <2>6 DEF Streams, r, c
  <1> QED  BY <1>1, <1>2, <1>3 DEF DrainInv

LEMMA DrainNext == DrainInv /\ [ChipNext]_cvars => DrainInv'
  <1> SUFFICES ASSUME DrainInv, [ChipNext]_cvars PROVE DrainInv'
    OBVIOUS
  <1>1. ASSUME UNCHANGED <<svars, bus>> PROVE DrainInv'
    <2>1. Become(Machine) /\ UNCHANGED <<insn, turn, host, sent, drain, bus>>
      BY <1>1, MachineIs DEF svars, vars, Become
    <2>2. CASE Planned
      BY <2>1, <2>2 DEF DrainInv, Planned
    <2>3. CASE ~Planned
      <3>1. Follows(Machine, Machine)
        BY StillFollows
      <3> QED  BY <2>1, <2>3, <3>1, DrainFollows DEF DrainInv
    <2> QED  BY <2>2, <2>3
  <1>2. CASE Planned
    <2>1. UNCHANGED <<host, drain>>
      <3>1. \A op, z : HostCall(op, z) => UNCHANGED host
        BY DEF HostCall
      <3>2. CASE IsrGet \/ IsrPut
        BY <3>1, <3>2 DEF IsrGet, IsrPut, StreamGet, StreamPut, pio_sim_sm_get, pio_sim_sm_put
      <3>3. CASE ChipStep \/ BusCycle
        BY <3>3, Zenon DEF ChipStep, StreamStep, Step, StartTick, NextBlock, EndTick, BusCycle,
                           Deliver, svars, vars
      <3>4. CASE IsrBlockDone \/ HostLines \/ Pause \/ SniffCall \/ ClockCall \/ UNCHANGED cvars
        BY <3>4, Zenon DEF IsrBlockDone, HostLines, SetLine, Pause, SniffCall, ClockCall, cvars,
                           svars, vars
      <3> QED  BY <1>2, <3>2, <3>3, <3>4 DEF ChipNext, HostGet, HostCalls
    <2> QED  BY <1>2, <2>1 DEF DrainInv, Planned
  <1>3. CASE ~Planned
    <2>1. CASE ChipStep
      BY <1>3, <2>1, DrainTick DEF ChipStep, StreamStep
    <2>2. CASE StreamGet /\ UNCHANGED bus
      BY <1>3, <2>2, DrainGet
    <2>3. CASE StreamPut /\ UNCHANGED bus
      BY <1>3, <2>3, DrainPut
    <2>4. CASE HostCalls
      BY <1>3, <2>3, <2>4, DrainWaits, DrainControl DEF HostCalls
    <2>5. CASE BusCycle
      BY <1>3, <2>5, Zenon DEF BusCycle, DrainInv
    <2>6. CASE IsrBlockDone \/ HostLines \/ Pause \/ SniffCall \/ ClockCall \/ UNCHANGED cvars
      BY <1>1, <2>6, Zenon DEF IsrBlockDone, HostLines, SetLine, Pause, SniffCall, ClockCall, cvars
    <2> QED  BY <2>1, <2>2, <2>3, <2>4, <2>5, <2>6 DEF ChipNext, HostGet, IsrGet, IsrPut
  <1> QED  BY <1>2, <1>3

(* When the host that cleared TXSTALL sees it again, every word it had     *)
(* sent has left the TX FIFO and the OSR (pio_sim_run_until_tx_drained),   *)
(* for every program, configuration and host within the idiom: however     *)
(* puts, gets, stops, injected instructions and rewritten configurations   *)
(* fall between the ticks.                                                 *)
THEOREM ChipDrained == DrainIdiom => (ChipSpec => []DrainedMeansConsumed)
  <1> SUFFICES ASSUME DrainIdiom PROVE ChipSpec => []DrainedMeansConsumed
    OBVIOUS
  <1>1. ChipInit => DrainInv
    BY DrainInit
  <1>2. DrainInv => DrainedMeansConsumed
    <2> SUFFICES ASSUME DrainInv, drain # -1, "TXSTALL" \in R.fdebug
                 PROVE  /\ Len(sent) - R.tx.count >= drain
                        /\ cfg[0][0].autopull =>
                             \/ R.osr_count >= cfg[0][0].pull_thresh
                             \/ Len(sent) - R.tx.count > drain
      BY DEF DrainedMeansConsumed
    <2>1. Streams(Machine, Len(sent), drain)
      BY DEF DrainInv
    <2>2. Consumed(R, cfg[0][0], Len(sent), drain)
      BY <2>1, MachineIs DEF Streams, R
    <2> QED  BY <2>2 DEF Consumed
  <1> QED  BY <1>1, <1>2, DrainNext, PTL DEF ChipSpec
=============================================================================
