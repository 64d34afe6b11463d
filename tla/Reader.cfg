SPECIFICATION FairReaderSpec
CONSTANTS
    MaxCommands = 4
    SeqModulus = 3
    MaxGiveUps = 2
    SleepTimeout = 2
INVARIANTS
    ReaderTypeOK
    SeqIdentifies
    OneTimer
PROPERTIES
    RefinesLink
    Answered
    FallsAsleep
