------------------------------- MODULE PioClk -------------------------------
(***************************************************************************)
(* The clock tree (pio_clk.c): crystal, PLL and clk_sys divider, validated *)
(* against the datasheet limits, and the conversions between ticks and     *)
(* time.  Limits and scales are parameters, so that every range check and  *)
(* both roundings are met with small numbers; arithmetic is modulo         *)
(* 2^CLK_BITS (uint64_t), so that an intermediate overflow would show.     *)
(***************************************************************************)
EXTENDS Integers

CONSTANTS
    CLK_BITS,                   \* width of the arithmetic (64)
    XOSC_MIN, XOSC_MAX,         \* crystal range (1 MHz, 15 MHz)
    FREF_MIN,                   \* slowest PLL reference (5 MHz)
    REFDIV_MAX,                 \* 63
    FBDIV_MIN, FBDIV_MAX,       \* 16, 320
    VCO_MIN, VCO_MAX,           \* 400 MHz, 1600 MHz
    POSTDIV_MAX,                \* 7
    CLK_DIV_FRAC_BITS,          \* 16
    CLK_DIV_INT_MAX,            \* 65535
    BOOT,                       \* the tree of pio_clk_init_default
    NS, US                      \* nanoseconds and microseconds in a second

Tree == [xosc_hz : Nat, pll_refdiv : Nat, pll_fbdiv : Nat, pll_postdiv1 : Nat,
         pll_postdiv2 : Nat, clksys_div_int : Nat, clksys_div_frac : Nat,
         bypass_pll : BOOLEAN]

(* The bounds the comments of muldiv_round and muldiv_ceil rely on.        *)
ASSUME ClkAssumption ==
    /\ {CLK_BITS, XOSC_MIN, XOSC_MAX, FREF_MIN, REFDIV_MAX, FBDIV_MIN, FBDIV_MAX,
        VCO_MIN, VCO_MAX, POSTDIV_MAX, CLK_DIV_FRAC_BITS, CLK_DIV_INT_MAX, NS, US}
         \subseteq Nat \ {0}
    /\ BOOT \in Tree
    /\ VCO_MAX * NS + NS + VCO_MAX < 2^CLK_BITS /\ US <= NS
    /\ (VCO_MAX + CLK_DIV_INT_MAX + 1) * 2^CLK_DIV_FRAC_BITS < 2^CLK_BITS
    /\ XOSC_MAX * FBDIV_MAX < 2^CLK_BITS /\ XOSC_MAX <= VCO_MAX

Long(n) == n % 2^CLK_BITS

pio_clk_vco_hz(t) ==
    IF t.pll_refdiv = 0 THEN 0
    ELSE Long((t.xosc_hz \div t.pll_refdiv) * t.pll_fbdiv)

(* The checks in the order they are made; a bypassed PLL is not checked.   *)
pio_clk_validate(t) ==
    IF t.xosc_hz \notin XOSC_MIN .. XOSC_MAX THEN "XOSC_RANGE"
    ELSE IF \/ t.clksys_div_int \notin 1 .. CLK_DIV_INT_MAX
            \/ t.clksys_div_frac >= 2^CLK_DIV_FRAC_BITS
    THEN "DIV_RANGE"
    ELSE IF t.bypass_pll THEN "OK"
    ELSE IF t.pll_refdiv \notin 1 .. REFDIV_MAX \/ t.xosc_hz \div t.pll_refdiv < FREF_MIN
    THEN "REFDIV_RANGE"
    ELSE IF t.pll_fbdiv \notin FBDIV_MIN .. FBDIV_MAX THEN "FBDIV_RANGE"
    ELSE IF pio_clk_vco_hz(t) \notin VCO_MIN .. VCO_MAX THEN "VCO_RANGE"
    ELSE IF {t.pll_postdiv1, t.pll_postdiv2} \subseteq 1 .. POSTDIV_MAX THEN "OK"
    ELSE "POSTDIV_RANGE"

(* Faulty variant: the tree is written before it is validated.             *)
pio_clk_configure_pll_in_place(t, refdiv, fbdiv, postdiv1, postdiv2) ==
    [t EXCEPT !.pll_refdiv = refdiv, !.pll_fbdiv = fbdiv, !.pll_postdiv1 = postdiv1,
              !.pll_postdiv2 = postdiv2, !.bypass_pll = FALSE]

(* The tree after the call: a trial copy, kept only when it validates.     *)
pio_clk_configure_pll(t, refdiv, fbdiv, postdiv1, postdiv2) ==
    LET trial == [t EXCEPT !.pll_refdiv = refdiv, !.pll_fbdiv = fbdiv,
                           !.pll_postdiv1 = postdiv1, !.pll_postdiv2 = postdiv2,
                           !.bypass_pll = FALSE]
    IN  IF pio_clk_validate(trial) = "OK" THEN trial ELSE t

Source(t) ==
    IF t.bypass_pll THEN t.xosc_hz
    ELSE (pio_clk_vco_hz(t) \div t.pll_postdiv1) \div t.pll_postdiv2
Divisor(t) == t.clksys_div_int * 2^CLK_DIV_FRAC_BITS + t.clksys_div_frac

pio_clk_sys_hz(t) ==
    IF pio_clk_validate(t) # "OK" THEN 0
    ELSE Long(Long(Source(t) * 2^CLK_DIV_FRAC_BITS) + Divisor(t) \div 2) \div Divisor(t)

-----------------------------------------------------------------------------
muldiv_round(ticks, scale, hz) ==
    IF hz = 0 THEN 0
    ELSE Long(Long((ticks \div hz) * scale)
                + Long(Long((ticks % hz) * scale) + hz \div 2) \div hz)

(* Faulty variant: rounds to nearest.                                      *)
muldiv_ceil_nearest(time, hz, scale) ==
    Long(Long((time \div scale) * hz)
           + Long(Long((time % scale) * hz) + scale \div 2) \div scale)

muldiv_ceil(time, hz, scale) ==
    Long(Long((time \div scale) * hz)
           + Long(Long((time % scale) * hz) + scale - 1) \div scale)

pio_clk_ticks_to_ns(t, ticks) == muldiv_round(ticks, NS, pio_clk_sys_hz(t))
pio_clk_ticks_to_us(t, ticks) == muldiv_round(ticks, US, pio_clk_sys_hz(t))
pio_clk_ns_to_ticks(t, ns) == muldiv_ceil(ns, pio_clk_sys_hz(t), NS)
pio_clk_us_to_ticks(t, us) == muldiv_ceil(us, pio_clk_sys_hz(t), US)
============================================================================
