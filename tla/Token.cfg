SPECIFICATION FairTokenSpec
CONSTANTS
    Consoles = {c1, c2}
    MaxChannels = 2
    MaxCounter = 3
    TokenBuilds <- AllTokens
INVARIANTS
    PresenceConfirmed
    BlinkerJoined
    TokenInv
PROPERTIES
    CounterIncreases
    PresenceTestEnds
