----------------------------- MODULE PioDmaArb -----------------------------
(***************************************************************************)
(* Fairness of the DMA arbiter.  A history variable counts, for each       *)
(* channel, how often another channel of its own priority was served at    *)
(* ticks at which it was ready itself, since it was last served, found     *)
(* not ready or reprogrammed.                                              *)
(***************************************************************************)
EXTENDS PioDma

VARIABLE waited

avars == <<vars, waited>>

AInit == Init /\ waited = [c \in Ch |-> 0]

(* The count saturates at NUM_CH.                                          *)
OneMore(n) == IF n < NUM_CH THEN n + 1 ELSE n

SamePriority(c, x) == ch[c].ctrl.high_priority = ch[x].ctrl.high_priority

AServe(x) ==
    /\ Serve(x)
    /\ waited' = [c \in Ch |->
                    IF c = x \/ ~dma_channel_ready(dma_timers_tick, c) THEN 0
                    ELSE IF SamePriority(c, x) THEN OneMore(waited[c])
                    ELSE waited[c]]

AIdle == NobodyReady /\ waited' = [c \in Ch |-> 0]

AConfigure ==
    \E c \in Ch, j \in Jobs, trigger \in BOOLEAN :
      /\ pio_dma_channel_configure(c, j, trigger)
      /\ waited' = [waited EXCEPT ![c] = 0]

AControl ==
    /\ \/ \E c \in Ch, en \in BOOLEAN : pio_dma_channel_set_enabled(c, en)
       \/ \E mask \in SUBSET Ch : pio_dma_start_channel_mask(mask)
       \/ \E f \in Attached : SmPull(f)
    /\ UNCHANGED waited

AFraction(t, q) == pio_dma_timer_set_fraction(t, q) /\ UNCHANGED waited

ANext == \/ \E c \in Ch : AServe(c)
         \/ AIdle \/ AConfigure \/ AControl
         \/ \E t \in Timers, q \in Fractions : AFraction(t, q)

ASpec == AInit /\ [][ANext]_avars

RoundRobin(hp) ==
    \A c \in Ch : ch[c].ctrl.high_priority = hp => waited[c] <= NUM_CH - 1

(* A high-priority channel that is ready is passed over at most NUM_CH - 1 *)
(* times, however the host starts, stops and reprograms the others.        *)
HighRoundRobin == RoundRobin(TRUE)

(* The same of the normal channels among themselves: between two of its    *)
(* own turns a ready channel sees at most one turn of each other normal    *)
(* channel.  pio_dma_tick keeps one seat for both passes.                  *)
NormalRoundRobin == RoundRobin(FALSE)

(* The strengthening that makes HighRoundRobin inductive: a channel has    *)
(* been passed over at most as often as the seat has come closer to it.    *)
SeatApproaches ==
    \A c \in Ch : ch[c].ctrl.high_priority =>
                    waited[c] + Distance(rr_next, c) <= NUM_CH - 1
============================================================================
