------------------------------ MODULE MCPioDma ------------------------------
(* Two channels, one FIFO pair, one timer.                                 *)
EXTENDS PioDma

Control(c, treq, chain) == [pio_dma_channel_get_default_config(c) EXCEPT
                           !.treq_sel = treq, !.chain_to = chain]

(* Feed TX, paced by its request or not paced at all, then chain on.       *)
Feed(treq, chain, hp) ==
    [ctrl |-> [Control(0, treq, chain) EXCEPT !.incr_read = FALSE,
                                           !.high_priority = hp],
     read |-> <<"MEM", 2>>, write |-> <<"TXF", 0>>, count |-> 2]

(* Drain RX on a timer's pace, quietly.                                    *)
Drain(chain) ==
    [ctrl |-> [Control(0, <<"TIMER", 0>>, chain) EXCEPT
                 !.incr_read = FALSE, !.incr_write = TRUE, !.ring_sel = TRUE,
                 !.ring = 2, !.bytes = 1, !.irq_quiet = TRUE],
     read |-> <<"RXF", 0>>, write |-> <<"MEM", 2>>, count |-> 1]

(* The end of a control-block chain.                                       *)
NullJob == [ctrl |-> [Control(0, <<"FORCE", 0>>, 0) EXCEPT !.irq_quiet = TRUE],
            read |-> <<"NULL", 0>>, write |-> <<"NULL", 0>>, count |-> 0]

SafeJobs == {Feed(<<"RX", 0>>, 1, FALSE), Drain(0), NullJob}
MCJobs == SafeJobs
MCFractions == {<<1, 1>>}
MCCallbacks == {{0}}
============================================================================
