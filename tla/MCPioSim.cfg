\* Two blocks of two state machines on one shared pin, one-bit words, FIFOs of
\* depth one of two slots.
CONSTANTS
    WORD_BITS = 1
    FIFO_DEPTH = 1
    FIFO_MAX = 2
    NUM_PIO = 2
    NUM_SM = 2
    NUM_PINS = 1
    SHARED = TRUE
    INSN_COUNT = 8
    PIN_WINDOW = 1
    NUM_IRQ = 2
    DIV_ONE = 1
    GPIO_BASE <- MCBase
    LINKED = FALSE
    DecodeWord <- MCDecode
    Configs <- FifoConfigs
    HostWords <- MCWords
    ExecInsns <- PinExec
    Setups <- AllSetups
SPECIFICATION Spec
INVARIANTS Consistent PadDirsFresh StickyPriority
PROPERTY LevelsHold
