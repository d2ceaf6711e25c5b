SPECIFICATION LoopSpec
CONSTANTS
    CancelFrames = 5
    CtrlInterval = 2
    SteerInterval = 1
    EacInterval = 1
    DeadMan = 7
    ControlRequests <- MCRequests
    KphArgs <- MCKphArgs
    Telemetry <- MCTelemetry
    Pauses <- MCPauses
    StickReports <- MCSticks
    TriggerReports <- MCTriggers
INVARIANTS PanicStopWorks
