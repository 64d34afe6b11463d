SPECIFICATION FirmwareSpec
CONSTANTS
    Units = {u1, u2}
INVARIANTS
    HostKeyOfUnit
CHECK_DEADLOCK FALSE
