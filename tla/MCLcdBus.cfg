SPECIFICATION LcdFairSpec
CONSTANTS
    Columns = 5
    Lines = 6
    Cell = 2
    Offset = 35
    Labels <- Line1
    Text <- Line2
    AlarmText <- Line3
    Gap = 2
INVARIANTS InitTakesEffect WrittenStays
PROPERTIES DarkOnlyInsideAByte TextHeals
