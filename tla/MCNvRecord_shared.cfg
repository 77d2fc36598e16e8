\* A second module competes for the nodes and the buffer; a save runs to its end.
SPECIFICATION NvLiveSpec
CONSTANTS
    ModNum = 2
    SecNum = 2
    SecLen = 1
    Bits <- MCBits
    OpraNum = 2
    BufferNum = 1
    Suspend = TRUE
    Users = {}
    MaxVer = 1
    CrashNum = 0
PROPERTY
    SavedWhenQuiet
