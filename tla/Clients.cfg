SPECIFICATION ClientsSpec
CONSTANTS
  Programs = {"tools", "app", "store", "screens", "tables"}
  Clients = {"c1", "c2"}
  Typed <- MCTyped
  Docs = {"", "guide"}
  Cmds = {"powerOff", "fsdForce"}
  Pictures <- MCPictures
  MaxQueued = 2
  MaxJobs = 2
  MaxPrints = 1
  Talks <- ToolPlans
  MaxCalls = 2
  FeedCap = 2
  ConsoleCap = 3
  HistoryCap = 1
  ControlCap = 1
  BusCap = 2
  MaxEvents = 2
  Plans <- AppPlans
  Cap <- MCCap
  SaveCap <- MCSaveCap
  Entries = 3
  Faults = 2
INVARIANTS
  NoLostWakeup SentWhereAsked ReloadRestores RouteFollowsHash FeedResumes
  TablesAgree LossesAreListed ViewsAgree
PROPERTIES EveryClientEnds SavesKeepEntries PauseFreezesOnceQuiet ConfirmationIsFresh
CHECK_DEADLOCK FALSE
