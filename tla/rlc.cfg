SPECIFICATION MCSpec
CONSTANTS
    WS = 4
    Blocks = 10
    PerAck = 2
    Slip = 2
    NStuck = 3
    N3105Max = 1
    Channels = 2
    UpBlocks = 10
    UpFinals = {3, 10}
    UpPerAck = 1
    N3101Max = 1
    N3103Max = 0
    Lag = 1
CHECK_DEADLOCK FALSE
INVARIANTS
    BothAligned
    AckedIsReceived
    BitmapIsExact
PROPERTIES
    DownEnds
