----------------------------- MODULE PioClkdiv -----------------------------
(***************************************************************************)
(* The fractional clock divider of a state machine.  The divisor is in     *)
(* units of 1/DIV_ONE; an integer part of 0, which encodes 65536, is kept  *)
(* decoded, so a divisor is never below DIV_ONE.                           *)
(***************************************************************************)
EXTENDS Integers

CONSTANT DIV_ONE        \* a clock divisor of 1.0 (256: 8 fractional bits)

ASSUME DivAssumption == DIV_ONE \in Nat \ {0}

(* Faulty variant: the divisor must be exceeded.                           *)
div_due_strict(accum, div) == accum + DIV_ONE > div

(* One system tick adds 1.0; a cycle is due when the divisor is reached,   *)
(* and at most one cycle is taken off per tick.                            *)
div_due(accum, div) == accum + DIV_ONE >= div

(* Faulty variant: the remainder is thrown away.                           *)
div_next_reset(accum, div) ==
    IF div_due(accum, div) THEN 0 ELSE accum + DIV_ONE

div_next(accum, div) ==
    IF div_due(accum, div) THEN accum + DIV_ONE - div ELSE accum + DIV_ONE
============================================================================
