\* The host injects a nop with pio_sim_sm_exec while the caller is parked.
CONSTANTS
    WORD_BITS = 1
    FIFO_DEPTH = 1
    FIFO_MAX = 1
    NUM_PIO = 3
    NUM_SM = 2
    NUM_PINS = 1
    SHARED = TRUE
    INSN_COUNT = 4
    PIN_WINDOW = 1
    NUM_IRQ = 2
    DIV_ONE = 2
    GPIO_BASE <- MCBase
    LINKED = TRUE
    DecodeWord <- MCDecode
    Configs = {}
    HostWords = {}
    ExecInsns <- MCExec
    Setups <- MeetSetups
    EXEC_PARKED = TRUE
    LAPS = 4
SPECIFICATION PSpec
INVARIANT Paired
