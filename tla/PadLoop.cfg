SPECIFICATION FairLoopSpec
CONSTANTS
    CancelFrames = 2
    CtrlInterval = 1
    SteerInterval = 1
    EacInterval = 1
    DeadMan = 1
    ControlRequests <- MCRequests
    KphArgs <- MCKphArgs
    Telemetry <- MCTelemetry
    Pauses <- MCPauses
    StickReports <- MCSticks
    TriggerReports <- MCTriggers
INVARIANTS LossStopsControl
PROPERTIES ImplementsDasDrive BurstDelivered LinkLossEndsControl
