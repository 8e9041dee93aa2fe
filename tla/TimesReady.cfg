\* One process and four ticks.
CONSTANTS
  Tasks = {1}
  MaxTicks = 4
  MaxPids = 1
  NINFO = 2
SPECIFICATION TimesSpec
INVARIANT ReadyIsReady
