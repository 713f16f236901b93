----------------------------- MODULE PioDmaPace -----------------------------
(***************************************************************************)
(* The pacing timers of the DMA controller, shared by channels that the    *)
(* arbiter of PioDmaArb serves.  Further history variables count, for each *)
(* timer, the system ticks and the transfers it paced on all channels      *)
(* together since the window it is watched over was opened: when its       *)
(* fraction was set, or at any later moment.                               *)
(***************************************************************************)
EXTENDS PioDmaArb

CONSTANT MAX_ELAPSED        \* bound on the ticks of a window

ASSUME PaceAssumption == MAX_ELAPSED \in Nat

VARIABLES elapsed, paced,
          ahead     \* what a window may owe to the time before it

pvars == <<avars, elapsed, paced, ahead>>

PInit == /\ AInit
         /\ elapsed = [t \in Timers |-> 0] /\ paced = [t \in Timers |-> 0]
         /\ ahead = [t \in Timers |-> 0]

PTick ==
    /\ \A t \in Timers : elapsed[t] < MAX_ELAPSED
    /\ elapsed' = [t \in Timers |-> elapsed[t] + 1]
    /\ UNCHANGED ahead

PServe(c) ==
    /\ PTick /\ AServe(c)
    /\ paced' = [t \in Timers |->
                   IF ch[c].ctrl.treq_sel = <<"TIMER", t>> THEN paced[t] + 1
                   ELSE paced[t]]

PIdle == PTick /\ AIdle /\ UNCHANGED paced

OpenWindow(t, owed) ==
    /\ elapsed' = [elapsed EXCEPT ![t] = 0]
    /\ paced' = [paced EXCEPT ![t] = 0]
    /\ ahead' = [ahead EXCEPT ![t] = owed]

(* A timer whose fraction is set owes nothing to the time before.          *)
PSetFraction ==
    \E t \in Timers, q \in Fractions : AFraction(t, q) /\ OpenWindow(t, 0)

(* Any other window starts in some phase, short of a whole period, and     *)
(* with at most one request pending: together less than two periods.       *)
PWatch ==
    \E t \in Timers :
      /\ timer[t].den # 0
      /\ OpenWindow(t, 2 * timer[t].den - 1)
      /\ UNCHANGED avars

PControl == (AConfigure \/ AControl) /\ UNCHANGED <<elapsed, paced, ahead>>

PNext == (\E c \in Ch : PServe(c)) \/ PIdle \/ PSetFraction \/ PWatch \/ PControl

PSpec == PInit /\ [][PNext]_pvars

(* Over any window of ticks, whenever it is opened, a timer paces no       *)
(* faster than clk_sys * num / den allows from the window's first phase,   *)
(* plus the one request that may have been pending; over a window that     *)
(* starts when the fraction is set, not even that.  Requests that went     *)
(* unused before the window are lost, whatever the host triggers and       *)
(* however many channels share the timer: they never come out as a burst.  *)
TimerRate ==
    \A t \in Timers :
      paced[t] * timer[t].den <= elapsed[t] * timer[t].num + ahead[t]

(* The strengthening that makes TimerRate inductive: the request that is   *)
(* pending and the phase already gathered count as well, and the phase is  *)
(* short of a period.                                                      *)
Pending(t) == IF timer[t].credit THEN 1 ELSE 0

TimerBudget ==
    \A t \in Timers :
      /\ timer[t].den # 0 => timer[t].accum < timer[t].den
      /\ (paced[t] + Pending(t)) * timer[t].den + timer[t].accum
            <= elapsed[t] * timer[t].num + ahead[t]
============================================================================
