\* One pin, two blocks of one state machine each, every user in turn.
CONSTANTS
    NUM_PIO = 2
    NUM_SM = 1
    NUM_PINS = 1
    SHARED = TRUE
    Users <- MCUsers
SPECIFICATION Spec
INVARIANTS PadsConsistent SyncLag
PROPERTIES IsoFreezes KeeperHolds
