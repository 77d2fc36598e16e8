\* The three records of the build, two messages that can be told apart.
SPECIFICATION LiveSpec
CONSTANTS
    MAX_SEND_RECORD_COUNT = 3
    Msgs = {m1, m2}
INVARIANTS
    ChannelTypeOK
    RecordsExact
    OneHolder
PROPERTIES
    Delivers
    RecordsReturn
