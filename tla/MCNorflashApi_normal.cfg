\* FLASH_API_NORMAL with FLASH_SUSPEND: the build of best1502x_ibrt_anc.
SPECIFICATION Spec
CONSTANTS
    ModNum = 2
    SecNum = 1
    SecLen = 2
    Bits <- MCBits
    OpraNum = 3
    BufferNum = 1
    Suspend = TRUE
    Users = {}
INVARIANTS
    TypeOK
    PoolsExact
    OneSuspended
    NoAssert
    DrainedIsContents
    ReadYourWrites
PROPERTIES
    StoreSpec
