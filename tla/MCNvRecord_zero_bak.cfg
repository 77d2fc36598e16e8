\* The repair of the bak sector at boot.
SPECIFICATION NvSpec
CONSTANTS
    ModNum = 1
    SecNum = 2
    SecLen = 1
    Bits <- MCBits
    OpraNum = 2
    BufferNum = 1
    Suspend = TRUE
    Users = {}
    MaxVer = 1
    CrashNum = 2
INVARIANT
    ValidRecordWritten
