\* Three threads wake the norflash thread.
SPECIFICATION Spec
CONSTANTS
    Putters <- MCPutters
    osPriority <- MCPriority
\* The ASSERT of PutAlloc stops the system.
CHECK_DEADLOCK FALSE
INVARIANTS
    ThreadTypeOK
    PoolIsMessages
    RefusedMeansQueued
