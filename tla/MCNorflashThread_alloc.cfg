\* The unprotected counter.
SPECIFICATION Spec
CONSTANTS
    Putters <- MCPutters
    osPriority <- MCPriority
\* The ASSERT of PutAlloc stops the system.
CHECK_DEADLOCK FALSE
INVARIANT
    MailAllocSucceeds
