SPECIFICATION Spec
CONSTANTS Pclk = 17
          Kilo = 100
          MAX_PERIOD = 15
          MIN_PERIOD = 3
          MIN_PULSE = 2
          Word = 65536
          Channels = {1, 2}
          Periods <- SomePeriods
          Pulses <- SomePulses
          Writes <- OnePulse
INVARIANT TimesAreNs
