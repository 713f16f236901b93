\* Every job on either channel, mis-paced feeds included.
CONSTANTS
    NUM_CH = 2
    Timers = {0}
    Attached = {0}
    FIFO_CAP = 1
    ADDR_SPACE = 4
    Jobs <- MCJobs
    Fractions <- MCFractions
    Callbacks <- MCCallbacks
    HostOps = {"configure", "start", "enable", "abort", "callback", "timer", "ack"}
SPECIFICATION Spec
INVARIANTS BusyHasWork FifoSafe
PROPERTIES Handover CursorsConfined
