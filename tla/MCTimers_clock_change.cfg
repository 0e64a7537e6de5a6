\* The external SysTick clock while the firmware changes the core clock.
SPECIFICATION Spec
CONSTANTS
  LastChannel = 0
  CounterSize = 3
  LastOcr = 1
  CntrSize = 4
  Clocks <- MCClocks
  Osc = 1
  LowFreq = 1
  SysTickHz = 1
  Second = 4
  HostBatches = {3}
  Drivers = {"systick"}
  Values = {2}
  Divisors = {1}
  MaxRetunes = 1
INVARIANT TicksFollowWallClock
