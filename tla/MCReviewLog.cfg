SPECIFICATION FairSpec
CONSTANTS
    Rows = 2
    LastRow = 2
    ByteMod = 2
    CountMod = 4
    Radix = 2
    Reading <- One
INVARIANTS CursorFollows
PROPERTIES ImplementsRecordLog ScreenHeals
