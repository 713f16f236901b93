---------------------------- MODULE MCPioDmaArb ----------------------------
(* Copies between memory cells, unpaced or paced by a TX request.          *)
EXTENDS PioDmaArb

Copy(treq, hp) ==
    [ctrl |-> [pio_dma_channel_get_default_config(0) EXCEPT
                 !.treq_sel = treq, !.high_priority = hp, !.incr_read = FALSE],
     read |-> <<"MEM", 0>>, write |-> <<"MEM", 1>>, count |-> 1]

Feed(hp) == [Copy(<<"TX", 0>>, hp) EXCEPT !.write = <<"TXF", 0>>]

MCJobs == {Copy(<<"FORCE", 0>>, TRUE), Copy(<<"FORCE", 0>>, FALSE), Feed(TRUE)}
============================================================================
