SPECIFICATION Spec
CONSTANTS
    p1 = p1
    p2 = p2
    NoPassphrase = NoPassphrase
    Passphrases = {p1, p2}
    Sessions = {s1}
    DEFAULT_PW1_ERROR_COUNTER = 3
    DSCLimit = 1
    DSCModulus = 3
    Builds <- ApduBuilds
    Entities <- AllEntities
INVARIANTS
    CommandAnswers
