SPECIFICATION SavedSpec
CONSTANTS
  Programs = {"settings"}
  Sessions <- MCSessions
  Profiles <- MCProfiles
  OffsetArgs <- MCOffsetArgs
  BoardClock = 8
  CancelFrames = 2
  CtrlInterval = 2
  SteerInterval = 1
  EacInterval = 2
  DeadMan = 2
  ControlRequests <- MCRequests
  KphArgs <- MCKphArgs
  Telemetry <- MCTelemetry
  Pauses <- MCPauses
PROPERTIES FlagsSurvive
