SPECIFICATION DriveSpec
CONSTANTS
    Width = 2
    Stick = {0, 1, 2, 3}
    Frame <- RestAndPush
    CentreLY = 2
    CentreLX = 1
    GainY = 6
    GainX = 3
    max_change_rate = 1
    LimUsual = 7
    LimDelta = 5
    LimA = 8
    LimB = 6
    BootDelay = 1
    Period = 1
INVARIANTS PadReady PublishesThePoll BrakeIsGentle
PROPERTIES ImplementsSlewLimiter SettlesOnStick HandsOffStops LostPadMeansReverse
