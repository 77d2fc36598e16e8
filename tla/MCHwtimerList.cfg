\* Three timers, callers that preempt the handler anywhere.
SPECIFICATION LiveSpec
CONSTANTS
    Timers = {t1, t2, t3}
    Ticks = {1, 2, 4}
    MaxLate = 2
INVARIANTS
    HwTypeOK
    ListsMatchStates
    NoCollapse
    InterruptArmed
PROPERTIES
    OthersKeepTime
    CalledInTime
    TimersFire
