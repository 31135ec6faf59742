SPECIFICATION FairSpec
CONSTANTS a = a
          b = b
          idle = idle
          Threads <- AllThreads
          Idle = idle
          Prios <- Levels
          Prio <- GivenPrio
          Order <- StartOrder
          Slice = 2
          Sleeps = {1, 2}
          NewPrios = {1, 2}
          MaxNest = 1
          None = None
          Off = Off
INVARIANTS ReadyAgrees HighestRuns TimerMeansSuspended
PROPERTIES TakesTurns
