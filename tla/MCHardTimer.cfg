SPECIFICATION Spec
CONSTANTS TickMod = 7
          Timers = {t1, t2, t3}
          Times <- ShortTimes
          MaxOps = 1
          None = None
          Off = Off
SYMMETRY Symmetry
INVARIANTS FlagMeansListed
PROPERTIES ImplementsCountdown
