SPECIFICATION DhtSpec
CONSTANTS
    Width = 2
    Release = 1
    RespLow = 2
    RespHigh = 2
    BitLow = 3
    HighZero = 2
    HighOne = 4
    Sample = 2
    Slack = 1
    HeldMax = 4
    Measured <- Some
    ReadEvery = 1
    AlarmEvery = 3
    HumHigh = 3
    HumLow = 0
    TempHigh = 3
    TempLow = 0
INVARIANTS DecodesTheFrame EndedReadKeptStep CaughtOnlyByHoldUp
PROPERTIES AlarmIsJustified KeepsLooping
