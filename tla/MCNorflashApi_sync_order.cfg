SPECIFICATION Spec
CONSTANTS
    ModNum = 1
    SecNum = 1
    SecLen = 1
    Bits <- MCBits
    OpraNum = 3
    BufferNum = 1
    Suspend = TRUE
    Users <- MCUsers
PROPERTY
    SyncAfterQueue
