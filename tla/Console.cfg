SPECIFICATION FairConsoleSpec
CONSTANTS
    MaxSessions = 2
INVARIANTS
    ConsoleTypeOK
    OwnTerminal
    LogReturns
PROPERTIES
    LoopsEnd
