\* A coprocessor user opens and closes its window at any moment.
SPECIFICATION HookLiveSpec
CONSTANTS
    ModNum = 2
    SecNum = 1
    SecLen = 1
    Bits <- MCBits
    OpraNum = 2
    BufferNum = 1
    Suspend = TRUE
    Users <- MCUsers
INVARIANTS
    OneSuspended
    NothingLeftBehind
PROPERTY
    DrainsWhenQuiet
