SPECIFICATION FramesSpec
CONSTANTS
  Programs = {"pad", "pass"}
  Timeout = 2
  ReinitPeriod = 2
  Gap = 1
  Period <- MCPeriod
  SummonFrames = 2
  BurstFrames = 2
  Delays <- MCDelays
  CancelFrames = 1
  CtrlInterval = 1
  SteerInterval = 1
  EacInterval = 1
  DeadMan = 1
  ControlRequests <- MCRequests
  KphArgs <- MCKphArgs
  Telemetry <- MCTelemetry
  Pauses <- MCPauses
  StickReports <- MCSticks
  TriggerReports <- MCTriggers
  Sessions <- MCSessions
INVARIANTS PedalsExclusive SummonArmed FreshFrames KillSwitchHolds
PROPERTIES UserLimitHeld OnlySummonOpensInDrive
VIEW View
