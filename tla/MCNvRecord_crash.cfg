\* The record alone on the service, through two power failures.
SPECIFICATION NvSpec
CONSTANTS
    ModNum = 1
    SecNum = 2
    SecLen = 2
    Bits <- MCBits
    OpraNum = 2
    BufferNum = 1
    Suspend = TRUE
    Users = {}
    MaxVer = 2
    CrashNum = 2
INVARIANTS
    NvTypeOK
    CleanIsSaved
    SavedSurvives
    OneSectorAtATime
