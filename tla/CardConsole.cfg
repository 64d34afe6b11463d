SPECIFICATION Spec
CONSTANTS
    p1 = p1
    p2 = p2
    NoPassphrase = NoPassphrase
    Passphrases = {p1, p2}
    Sessions = {s1, s2}
    DEFAULT_PW1_ERROR_COUNTER = 2
    DSCLimit = 0
    DSCModulus = 2
    Builds <- SshBuilds
    Entities <- SshEntities
INVARIANTS
    BruteForceBound
PROPERTIES
    BlockedUntilRestart
    RefinesAuth
SYMMETRY Alike
VIEW ButAnswers
