SPECIFICATION PassSpec
CONSTANTS
  Timeout = 2
  ReinitPeriod = 2
  Gap = 1
  Period <- MCPeriod
  SummonFrames = 2
  BurstFrames = 2
  Delays <- MCDelays
  Sessions <- MCDisable
INVARIANTS DisableStopsAll
