----------------------------- MODULE PioStream -----------------------------
(***************************************************************************)
(* One state machine as a data path: the host puts words into TX, a        *)
(* program echoes every word it takes from TX to RX, the host gets them    *)
(* back.  History variables record what went in and what came out.  The    *)
(* host also stops and restarts the clock of the state machine, injects    *)
(* instructions, rewrites an unchanged configuration and runs the          *)
(* drain idiom of pio_sim_run_until_tx_drained at any moment.              *)
(***************************************************************************)
EXTENDS PioSim, PioInsns, SequencesExt

CONSTANT
    MAX_SENT        \* bound on the words the host sends

VARIABLES
    sent,           \* words accepted by pio_sim_sm_put, in order
    got,            \* words returned by pio_sim_sm_get, in order
    drain           \* -1, or Len(sent) when the host began to wait for TXSTALL

svars == <<vars, sent, got, drain>>

R == sm[0][0]

StreamInit ==
    /\ Init
    /\ sent = <<>> /\ got = <<>> /\ drain = -1

(* The host polls the FIFO levels before it puts or gets.                  *)
StreamPut ==
    \E w \in HostWords :
      /\ Len(sent) < MAX_SENT /\ ~fifo_full(R.tx)
      /\ pio_sim_sm_put(0, 0, w)
      /\ sent' = Append(sent, w)
      /\ UNCHANGED <<got, drain>>

StreamGet ==
    /\ ~fifo_empty(R.rx)
    /\ pio_sim_sm_get(0, 0)
    /\ got' = Append(got, fifo_front(R.rx))
    /\ UNCHANGED <<sent, drain>>

(* pio_sim_run_until_tx_drained: clear the sticky flag, run until it is    *)
(* set again.                                                              *)
DrainStart ==
    /\ drain = -1
    /\ pio_sim_sm_clear_fdebug(0, 0, {"TXSTALL"})
    /\ drain' = Len(sent)
    /\ UNCHANGED <<sent, got>>

DrainEnd ==
    /\ drain # -1 /\ "TXSTALL" \in R.fdebug
    /\ drain' = -1
    /\ UNCHANGED <<vars, sent, got>>

(* The host injects only when no injected instruction is still pending.    *)
StreamExec ==
    /\ ~R.exec_pending
    /\ \E i \in ExecInsns : pio_sim_sm_exec(0, 0, i)
    /\ UNCHANGED <<sent, got, drain>>

(* Stop, go, rewrite the configuration, release an injected wait.          *)
StreamControl ==
    /\ \/ \E on \in BOOLEAN : pio_sim_set_sm_mask_enabled(0, {0}, on)
       \/ pio_sim_sm_set_config(0, 0, cfg[0][0])
       \/ R.exec_pending /\ pio_sim_irq_force(0, 0, TRUE)
    /\ UNCHANGED <<sent, got, drain>>

StreamStep == Step /\ UNCHANGED <<sent, got, drain>>

(***************************************************************************)
(* Properties.                                                             *)
(***************************************************************************)

(* What the host has read, and what waits in RX, is exactly the beginning  *)
(* of what it sent; what waits in TX is exactly the end of it; and at most *)
(* two words are in between (one in the OSR, one in a scratch register or  *)
(* the ISR).  So neither a stalled IN that is retried, nor a PULL on a     *)
(* prefetched OSR, nor a refill during a delay, an injected instruction, a *)
(* stop of the state machine or a rewritten configuration can lose,        *)
(* duplicate or reorder a word.                                            *)
EchoFidelity ==
    LET out == got \o Contents(R.rx)
        rest == Contents(R.tx)
    IN  /\ IsPrefix(out, sent)
        /\ IsSuffix(rest, sent)
        /\ Len(sent) - Len(out) - Len(rest) \in 0 .. 2

(* The idiom pio_sim_run_until_tx_drained relies on: once TXSTALL is set   *)
(* again after it was cleared, every word sent before the clear has left   *)
(* the TX FIFO and the OSR.                                                *)
DrainedMeansConsumed ==
    (drain # -1 /\ "TXSTALL" \in R.fdebug) =>
        /\ Len(sent) - R.tx.count >= drain
        /\ cfg[0][0].autopull =>
             \/ R.osr_count >= cfg[0][0].pull_thresh
             \/ Len(sent) - R.tx.count > drain

(* Every word sent is eventually read back by a host that only puts and    *)
(* gets, whether it polls or is driven by interrupts: no combination of    *)
(* stall, delay and clock divider parks the echo for good.                 *)
Delivered ==
    (Len(got) < Len(sent) /\ host.calls \in {{"put", "get"}, {"put", "get", "isr"}})
      ~> (Len(got) = Len(sent))
============================================================================
