\* A program that has no directives, applied after a fixed STATUS value is set.
SPECIFICATION Spec
CONSTANTS
    LONG_BITS = 20
    WORD_BITS = 17
    EXPR_MAX_DEPTH = 3
    PIO_SIM_PIO_VERSION = 1
    INSN_COUNT = 4
    MAX_LABELS = 3
    MAX_DEFINES = 3
    MAX_PUBLIC = 2
    SMs = {s0, s1}
    Jobs <- ApplyJobs
    HostConfig <- MCHostConfig
PROPERTY StatusKept
CHECK_DEADLOCK FALSE
