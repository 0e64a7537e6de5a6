\* Every timer, chained PIT channels included, over batches and one change of the clock tree.
SPECIFICATION FairSpec
CONSTANTS
  LastChannel = 1
  CounterSize = 3
  LastOcr = 1
  CntrSize = 4
  Clocks <- MCClocks
  Osc = 1
  LowFreq = 1
  SysTickHz = 1
  Second = 4
  HostBatches = {3}
  Drivers = {"pit", "gpt", "qtmr", "systick"}
  Values = {0, 2}
  Divisors = {1, 3}
  MaxRetunes = 1
INVARIANTS TypeInvariant TicksFollowClock PitKeepsTime GptKeepsTime QtmrKeepsTime SysTickKeepsTime
PROPERTY TimersKeepFiring
