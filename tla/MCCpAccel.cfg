\* Two tasks opened and closed at any time, a tx_pending that fills up.
SPECIFICATION CpLiveSpec
CONSTANTS
    MAX_SEND_RECORD_COUNT = 2
    Msgs <- MCMsgs
    Tasks = {a2dp, sco}
    MAX_CP_MSG_NUM = 2
INVARIANTS
    CpTypeOK
    TxCountExact
    NoEventLost
    ClosedNotWorked
PROPERTY
    EventsWorked
