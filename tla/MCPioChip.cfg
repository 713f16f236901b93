\* One state machine, four-bit words, FIFOs of depth one, three words
\* sent: the FIFOs fill, wrap and drain, and words queue on both sides.
CONSTANTS
    WORD_BITS = 4
    FIFO_DEPTH = 1
    FIFO_MAX = 2
    NUM_PIO = 1
    NUM_SM = 1
    NUM_PINS = 1
    SHARED = FALSE
    INSN_COUNT = 3
    PIN_WINDOW = 1
    NUM_IRQ = 1
    DIV_ONE = 2
    GPIO_BASE <- MCBase
    LINKED = FALSE
    DecodeWord <- MCDecode
    Configs = {}
    HostWords <- MCWords
    ExecInsns <- MCExec
    Setups <- MCSetups
    MAX_SENT = 3
    BYTE_BITS = 1
    POLY32 <- MCPoly32
    POLY32R <- MCPoly32R
    POLY16 <- MCPoly16
    POLY16R <- MCPoly16R
    NUM_CH = 3
    Timers = {0}
    ADDR_SPACE = 24
    Plans <- MCPlans
    PllSettings <- MCPll
    FieldWrites <- MCFields
    CLK_BITS = 10
    XOSC_MIN = 3
    XOSC_MAX = 8
    FREF_MIN = 2
    REFDIV_MAX = 2
    FBDIV_MIN = 2
    FBDIV_MAX = 5
    VCO_MIN = 18
    VCO_MAX = 25
    POSTDIV_MAX = 3
    CLK_DIV_FRAC_BITS = 2
    CLK_DIV_INT_MAX = 3
    BOOT <- MCBoot
    NS = 20
    US = 4
SPECIFICATION FairChipSpec
INVARIANTS EchoFidelity DrainedMeansConsumed MemoryExact SniffFollows ClockExact
PROPERTIES Delivered BlockArrives StreamsOn PllAllOrNothing
