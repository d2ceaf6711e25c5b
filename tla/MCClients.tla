------------------------------ MODULE MCClients ------------------------------
(***************************************************************************)
(* The client and the tools beside it, checked in one run.  A behaviour is *)
(* one of "tools" (SerialTools), "app" (ClientApp), "store" (ClientStore)  *)
(* or "screens" (Screens), chosen at first; the others stay in an initial  *)
(* state in which nothing was asked of them.  The behaviour "tables" does  *)
(* nothing: the tables and the views, which are functions, are checked in  *)
(* its only state.                                                         *)
(***************************************************************************)
EXTENDS Screens, SerialTools, ClientApp, ClientStore, FrameViews, TLC

CONSTANTS Programs

VARIABLE program

-----------------------------------------------------------------------------
(* What the users do.  The first plan of each is to do nothing.             *)

\* A conversation of the tools: the script of each client, what the board says
\* unasked, what it refuses, and whether the cable may be pulled.
Talk(scripts, prints, refuses, unplugs) ==
  {[script |-> s, began |-> {}, prints |-> prints, refuses |-> refuses, unplugs |-> unplugs]
     : s \in scripts}
Alone(steps) == [c \in Clients |-> IF c = "c1" THEN steps ELSE <<>>]
Each(steps) == {Alone(s) : s \in steps}
Pair(s, t) == [c \in Clients |-> IF c = "c1" THEN s ELSE t]

ToolIdle == CHOOSE p \in Talk({Alone(<<>>)}, {}, {}, FALSE) : TRUE
BridgePlans ==
  Talk({Pair(GetStatus, PostCommand(On("fsd"))),
        Pair(PostCommand(On("fsd")), PostCommand(Off("fsd")))},
       {"status", "noise"}, {}, FALSE)
  \cup Talk({Pair(GetStatus, PostCommand(On("fsd")))}, {"boot"}, {"fsd"}, TRUE)
\* The shorter tools, with a board that talks; the longer ones, with one that
\* only answers, late or not.
DebugPlans ==
  Talk(Each({runDasDrive("status"), runVehicle, runDriveContext, verifyBoot,
             runReplay, Command(TRUE, runScan(FALSE)), runDasDrive("soak"),
             runWatch(TRUE), runDump(TRUE), runBenchmark}),
       {"status", "frame"}, {"other"}, FALSE)
  \cup Talk(Each({runDasDrive(a) : a \in {"set-cap", "set-speed", "toggle"}}
              \cup {runTest("profile", TRUE), runTest("listen", FALSE)}), {"status"}, {}, FALSE)
  \cup Talk(Each({runTest("fsd", TRUE), runSmoke}), {}, {}, FALSE)
ToolPlans == {ToolIdle} \cup BridgePlans \cup DebugPlans

AppUser(kinds, others, use) == [kinds |-> kinds, others |-> others, use |-> use]
AppIdle == AppUser({}, {}, {})
AppPlans ==
  {AppIdle}
  \cup {AppUser({"command", "raw"}, {o}, {"ble"}) : o \in {"pause", "clear", "drive"}}
  \cup {AppUser({"raw", "status"}, {o}, {"serial"}) : o \in {"pause", "snapshot", "export"}}
  \cup {AppUser({"live", "ble"}, {o}, {"ble", "serial"}) : o \in {"apply", "preset", "disconnect"}}
  \cup {AppUser({"control", "raw"}, {o}, {"ble"}) : o \in {"preset", "drive"}}

MCTyped == {<<>>, <<"monitor">>, <<"docs", "guide">>, <<"controls">>}
MCPictures == {{}, {"chassisOnline"}}

-----------------------------------------------------------------------------
MCCap == [history |-> 2, frameSnapshots |-> 2, archive |-> 2]
MCSaveCap == [history |-> 3, frameSnapshots |-> 3, archive |-> 2]

ClientsInit ==
  /\ program \in Programs
  /\ plan \in IF program = "tools" THEN ToolPlans ELSE {ToolIdle}
  /\ does \in IF program = "app" THEN AppPlans ELSE {AppIdle}
  /\ hash \in IF program = "screens" THEN MCTyped ELSE {<<>>}
  /\ picture \in IF program = "screens" THEN MCPictures ELSE {{}}
  /\ supports \in IF program = "screens" THEN BOOLEAN ELSE {TRUE}
  /\ SessionInit /\ AppInit /\ StoreInit /\ Init

ToolsRun == program = "tools" /\ SessionNext /\ UNCHANGED <<program, appVars, storeVars, vars>>
AppRuns == program = "app" /\ AppNext /\ UNCHANGED <<program, sessionVars, storeVars, vars>>
StoreRuns == program = "store" /\ StoreNext /\ UNCHANGED <<program, sessionVars, appVars, vars>>
TabsRun == program = "screens" /\ Next /\ UNCHANGED <<program, sessionVars, appVars, storeVars>>
ClientsNext == ToolsRun \/ AppRuns \/ StoreRuns \/ TabsRun
ClientsSpec ==
  /\ ClientsInit /\ [][ClientsNext]_<<program, sessionVars, appVars, storeVars, vars>>
  /\ SessionFairness

-----------------------------------------------------------------------------
(* Properties *)

\* The tables of the client.  Every command a table or a panel offers exists and
\* takes the arguments it is sent with, but for mirrorAutoFold, which a list of
\* the Controls sends without the flag it takes (ControlPanels!NotAccepted); every gate guards
\* a command that exists but for nag (CommandTables!DeadGates).
TablesAgree == program = "tables" => Tables!TablesAgree /\ PanelsAgree
\* Of what the board prints, the picture the client keeps of it lacks what
\* NoField and Dropped list, and nothing else, by whichever message it came.
Picture == INSTANCE BoardPicture
LossesAreListed ==
  program = "tables" =>
    /\ Picture!LossesAreListed /\ Picture!MessagesAgree /\ Picture!TypesAreRead
    /\ Picture!ChunksAgree /\ Picture!ChargeViewsAgree
\* The views, the gates, the lifecycle and the exports say the same of one state.
ViewsAgree ==
  program = "tables" =>
    /\ GatesAgree /\ LifecyclesAgree /\ DisplaysAgree
    /\ PipelinesAgree /\ ExportsAgree /\ TimelineAgrees
===============================================================================
