SPECIFICATION FairSpec
CONSTANTS
    KeyHold = 25
    Poll = 5
    Loud = 20
    BootDelay = 30
    Cooldown = 2
    CountMod = 2
INVARIANTS PressIsHeard
PROPERTIES FallsSilent CountsAreSpaced CooldownEnds
