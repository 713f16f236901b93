\* Depth 2 of 3 slots: the capacity does not divide the storage, so the
\* cursors wrap out of step with the capacity in every join mode.
\* Divisors of 1, 3/2, 2 and 7/2 in halves.
SPECIFICATION PartsSpec
CONSTANTS
    FIFO_DEPTH = 2
    FIFO_MAX = 3
    Word = {w0, w1}
    ZeroWord = w0
    DIV_ONE = 2
    SM = {s0, s1}
    Divisors = {2, 3, 4, 7}
    MAX_TICKS = 8
INVARIANTS FifosConsistent RateExact OnTime InPhase
PROPERTY ImplementsQueues
