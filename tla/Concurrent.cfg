SPECIFICATION ConcurrentSpec
CONSTANTS
    Sessions = {s1, s2}
    usb = usb
    DEFAULT_PW1_ERROR_COUNTER = 2
INVARIANTS
    ConcurrentTypeOK
    RetriesPerInit
    SharedVerification
    LEDsSettle
