---------------------------- MODULE MCPioDmaPace ----------------------------
(* Copies between memory cells, unpaced, paced by a timer, or feeding a TX *)
(* FIFO.                                                                   *)
EXTENDS PioDmaPace

Copy(treq, hp, n) ==
    [ctrl |-> [pio_dma_channel_get_default_config(0) EXCEPT
                 !.treq_sel = treq, !.high_priority = hp, !.incr_read = FALSE],
     read |-> <<"MEM", 0>>, write |-> <<"MEM", 1>>, count |-> n]

Feed == [Copy(<<"TX", 0>>, TRUE, 1) EXCEPT !.write = <<"TXF", 0>>]

MCJobs == {Copy(<<"TIMER", 0>>, TRUE, 2), Copy(<<"FORCE", 0>>, FALSE, 1),
           Feed}
MCFractions == {<<1, 2>>}
============================================================================
