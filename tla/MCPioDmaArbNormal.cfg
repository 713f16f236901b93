\* Three channels: a high-priority one between two normal ones.
CONSTANTS
    NUM_CH = 3
    Timers = {}
    Attached = {0}
    FIFO_CAP = 1
    ADDR_SPACE = 4
    Jobs <- MCJobs
    Fractions = {}
    Callbacks = {}
    HostOps = {"configure", "start", "enable"}
SPECIFICATION ASpec
INVARIANT NormalRoundRobin
