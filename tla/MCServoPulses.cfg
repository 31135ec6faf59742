SPECIFICATION FairSpec
CONSTANTS Pclk = 17
          Kilo = 100
          MAX_PERIOD = 63
          MIN_PERIOD = 3
          MIN_PULSE = 2
          Word = 65536
          Channels = {1, 2}
          Periods <- ServoPeriod
          Pulses <- ServoRange
          Writes <- None
          LoopTicks = 30
PROPERTIES PulsesWhole KeepsPulsing
