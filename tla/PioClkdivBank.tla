--------------------------- MODULE PioClkdivBank ---------------------------
(***************************************************************************)
(* The dividers of the state machines of a block.  They free-run, enabled  *)
(* or not; the host restarts any of them and changes divisors, which       *)
(* leaves the accumulator alone.  For each divider, history variables      *)
(* count system ticks and clock pulses since its last restart or change,   *)
(* and record the accumulator it had then.                                 *)
(***************************************************************************)
EXTENDS PioClkdiv

CONSTANTS
    SM,             \* the state machines
    Divisors,       \* the divisors the host configures
    MAX_TICKS       \* bound on the ticks counted since a restart

ASSUME BankAssumption ==
    /\ Divisors \subseteq Nat
    /\ \A d \in Divisors : d >= DIV_ONE
    /\ MAX_TICKS \in Nat

VARIABLES
    div, accum,             \* clkdiv and clk_accum of each state machine
    ticks, pulses, base     \* history: see above

bankVars == <<div, accum, ticks, pulses, base>>

BankTypeOK ==
    /\ div \in [SM -> Divisors]
    /\ accum \in [SM -> Nat] /\ base \in [SM -> Nat]
    /\ ticks \in [SM -> Nat] /\ pulses \in [SM -> Nat]

BankInit ==
    /\ div \in [SM -> Divisors]
    /\ accum = [s \in SM |-> 0] /\ base = [s \in SM |-> 0]
    /\ ticks = [s \in SM |-> 0] /\ pulses = [s \in SM |-> 0]

Tick ==
    /\ \A s \in SM : ticks[s] < MAX_TICKS
    /\ accum' = [s \in SM |-> div_next(accum[s], div[s])]
    /\ pulses' = [s \in SM |-> IF div_due(accum[s], div[s]) THEN pulses[s] + 1
                               ELSE pulses[s]]
    /\ ticks' = [s \in SM |-> ticks[s] + 1]
    /\ UNCHANGED <<div, base>>

Restarted(mask, f) == [s \in SM |-> IF s \in mask THEN 0 ELSE f[s]]

(* Faulty variant: the accumulators keep their phase.                      *)
clkdiv_restart_keeps_phase(mask) ==
    /\ base' = Restarted(mask, base)
    /\ ticks' = Restarted(mask, ticks)
    /\ pulses' = Restarted(mask, pulses)
    /\ UNCHANGED <<div, accum>>

pio_sim_clkdiv_restart_sm_mask(mask) ==
    /\ accum' = Restarted(mask, accum)
    /\ base' = Restarted(mask, base)
    /\ ticks' = Restarted(mask, ticks)
    /\ pulses' = Restarted(mask, pulses)
    /\ UNCHANGED div

SetClkdiv(s, d) ==
    /\ div' = [div EXCEPT ![s] = d]
    /\ base' = [base EXCEPT ![s] = accum[s]]
    /\ ticks' = [ticks EXCEPT ![s] = 0]
    /\ pulses' = [pulses EXCEPT ![s] = 0]
    /\ UNCHANGED accum

BankNext ==
    \/ Tick
    \/ \E mask \in SUBSET SM : pio_sim_clkdiv_restart_sm_mask(mask)
    \/ \E s \in SM, d \in Divisors : SetClkdiv(s, d)

BankSpec == BankInit /\ [][BankNext]_bankVars

(***************************************************************************)
(* Properties.                                                             *)
(***************************************************************************)

(* No fraction of a clock is ever lost or gained: the pulses given, times  *)
(* the divisor, plus what is left in the accumulator are exactly the ticks *)
(* seen plus what was there at the start.                                  *)
RateExact ==
    \A s \in SM :
      pulses[s] * div[s] + accum[s] = ticks[s] * DIV_ONE + base[s]

(* What makes RateExact a bound: a divider whose accumulator was below its *)
(* divisor when it was set stays below it.  (Shrinking a divisor may leave *)
(* more in the accumulator; then a pulse comes on every tick until it is   *)
(* used up.)                                                               *)
Settled ==
    \A s \in SM : base[s] < div[s] => accum[s] < div[s]

(* A restarted divider is never early nor late: after t ticks it has given *)
(* exactly the whole number of periods that fit in t, whatever the other   *)
(* dividers and their restarts do, so jitter never exceeds one tick and    *)
(* never accumulates.                                                      *)
OnTime ==
    \A s \in SM :
      base[s] = 0 => /\ pulses[s] * div[s] <= ticks[s] * DIV_ONE
                     /\ ticks[s] * DIV_ONE < (pulses[s] + 1) * div[s]

(* Dividers restarted together (pio_sim_enable_sm_mask_in_sync) with equal *)
(* divisors stay in phase.                                                 *)
InPhase ==
    \A s, t \in SM :
      (/\ base[s] = 0 /\ base[t] = 0
       /\ div[s] = div[t] /\ ticks[s] = ticks[t])
        => accum[s] = accum[t] /\ pulses[s] = pulses[t]
============================================================================
