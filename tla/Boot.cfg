SPECIFICATION FairFirmwareSpec
CONSTANTS
    Units = {u1, u2}
INVARIANTS
    FirmwareTypeOK
    KeysStayHome
    BootsAtHome
    ServesWhenReady
    IdentityStaysHome
PROPERTIES
    BootEnds
CHECK_DEADLOCK FALSE
