SPECIFICATION Spec
CONSTANTS
    LONG_BITS = 20
    WORD_BITS = 17
    EXPR_MAX_DEPTH = 3
    PIO_SIM_PIO_VERSION = 1
    INSN_COUNT = 4
    MAX_LABELS = 3
    MAX_DEFINES = 3
    MAX_PUBLIC = 2
    SMs = {s0, s1}
    Jobs <- MCJobs
    HostConfig <- MCHostConfig
INVARIANTS
    WithinTables
    PassesAgree
    EmittedMeans
    DefinesMeanTheirText
    RefusedForCause
    StaysHome
PROPERTY DirectivesOnly
SYMMETRY SMSymmetry
CHECK_DEADLOCK FALSE
