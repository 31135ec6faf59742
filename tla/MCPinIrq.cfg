SPECIFICATION PinFairSpec
CONSTANTS Pins <- SomePins
          Free = Free
INVARIANTS EnabledIsHeard
PROPERTIES EdgeIsHandled
