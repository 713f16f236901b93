\* Two channels of either priority, one timer, one TX FIFO.
CONSTANTS
    NUM_CH = 2
    Timers = {0}
    Attached = {0}
    FIFO_CAP = 1
    ADDR_SPACE = 4
    Jobs <- MCJobs
    Fractions <- MCFractions
    Callbacks = {}
    HostOps = {"configure", "start", "enable", "timer"}
    MAX_ELAPSED = 4
SPECIFICATION PSpec
INVARIANTS HighRoundRobin TimerRate
