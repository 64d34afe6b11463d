SPECIFICATION EncodingsSpec
CONSTANTS
    Lengths = {0, 1, 39, 127, 128, 255, 256, 300}
    MaxBuffer = 4
    BlockSize = 16
    MaxInt = 31
    MaxMessage = 20
    HeaderSize = 10
    CurveOctets = 5
    Counters = {0, 255, 256, 65535, 65536, 16777215, 16777216, 16777217}
    LengthModulus = 8
INVARIANTS
    ValuesFound
    HostReadsBack
    PadWhole
    SignatureSplits
    DataIsField
    FrameReadBack
CHECK_DEADLOCK FALSE
