SPECIFICATION FairSpec
CONSTANTS
    Reading = {0, 1, 2, 3, 5}
    Key = {0, 8}
    Blank = 1
    CentreX = 2
    CentreY = 3
    Reach = 3
    Gain = 1
    Lo = 3
    Hi = 12
    Boot = 7
    Home <- HomeSmall
    HomeKey = 8
    Hold = 3
    Word = 32
INVARIANTS InRange
PROPERTIES MovesSmoothly ReturnsHome SweepsToLimit
