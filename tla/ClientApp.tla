----------------------------- MODULE ClientApp -----------------------------
(***************************************************************************)
(* The client's handlers around the controller (src/client/src:            *)
(* AppExperience.tsx, hooks/useBleConfig.ts and the three contexts         *)
(* state/TransportContext.tsx, BoardStateContext.tsx, CommandContext.tsx,  *)
(* composed in BoardConnectionContext.tsx).                                *)
(*                                                                         *)
(* The client holds two pictures of the board: "app", the one of the       *)
(* Console, and "ctx", the one of the Dashboard and the Controls.  A       *)
(* handler reads the state of the render it was created in; what it read   *)
(* before an await is kept in its call, and used after it.  ClientLink     *)
(* says how the controller's promises settle, BoardReducer what a message  *)
(* changes.                                                                *)
(***************************************************************************)
EXTENDS ClientViews

Gates == INSTANCE CommandTables

CONSTANTS
  MaxCalls,      \* bound on the calls of the handlers
  FeedCap,       \* of frames and of notifications (100)
  ConsoleCap,    \* of notifications, when the console adds one (200)
  HistoryCap,    \* of the Console's history and of its snapshots (20)
  ControlCap,    \* of the history of the Controls (40)
  Plans          \* what a user does: the handlers called and the transports chosen

Calls == 1..MaxCalls

Kinds == {"command", "raw", "live", "status", "control", "ble"}
Others == {"drive", "clear", "snapshot", "export", "pause", "apply", "preset", "disconnect"}

VARIABLES
  does,          \* the user's plan
  selected,      \* selectedTransportType
  active,        \* controller.activeTransportType
  ready,         \* isSelectedTransportReady, as of the providers' last render
  said,          \* lastResult of BoardStateContext: what the last refusal said
  connecting,    \* connectionBusy: the transport applyConnection waits for, or "none"
  app, ctx,      \* the two pictures
  paused,        \* frameFeedPaused and boardInfoFeedPaused
  calls,         \* the calls
  board,         \* whether the chassis bus is online, and the frames sent so far
  bus,           \* commandBusReducer's state
  history, ctxHistory, snapshots,
  archive        \* how the calls ended, as the diagnostics keep it
link == <<selected, active, ready, said, connecting>>
logs == <<bus, history, ctxHistory, snapshots, archive>>
appVars == <<does, link, app, ctx, paused, calls, board, logs>>

Chassis == "chassisOnline"
EmptyPicture == [facts |-> {}, frames |-> <<>>, frameCount |-> 0, messages |-> <<>>]
NotMade == [kind |-> "none", at |-> "idle", cmd |-> "none", selected |-> "http", on |-> "unsupported",
            gate |-> TRUE, frames |-> FALSE, info |-> FALSE]

AppInit ==
  /\ does \in Plans
  /\ selected = "http" /\ active = "http" /\ ready = TRUE /\ said = "Ready" /\ connecting = "none"
  /\ app = EmptyPicture /\ ctx = EmptyPicture
  /\ paused = [frames |-> FALSE, info |-> FALSE]
  /\ calls = [c \in Calls |-> NotMade]
  /\ board = [online |-> FALSE, frames |-> 0]
  /\ bus = initialCommandBusState
  /\ history = <<>> /\ ctxHistory = <<>> /\ snapshots = <<>> /\ archive = {}

Entry(c, ok) == [command |-> c, ok |-> ok]

\* A render of the providers reads the controller's transport, which is no
\* state of theirs: what changes it alone renders nothing.
Rendered == ready' = isMonitorTransportReady(selected', active')
NotRendered == UNCHANGED <<ready, said>>

\* setLastResult renders the providers, unless it says what was said before.
SetLastResult(text) == /\ said' = text
              /\ IF text = said THEN UNCHANGED ready ELSE Rendered

-----------------------------------------------------------------------------
(* state/TransportContext.tsx                                               *)

Select(type) ==
  /\ type \in does.use \ {selected}
  /\ selected' = type /\ UNCHANGED active /\ Rendered
  /\ UNCHANGED <<does, said, connecting, app, ctx, paused, calls, board, logs>>

\* REST is there at once; a line transport asks the user to pick a device.
ApplyConnection ==
  /\ "apply" \in does.others /\ connecting = "none"
  /\ IF selected = "http" THEN active' = "http" /\ UNCHANGED connecting
     ELSE connecting' = selected /\ UNCHANGED active
  /\ UNCHANGED selected /\ Rendered
  /\ UNCHANGED <<does, said, app, ctx, paused, calls, board, logs>>

ConnectionApplied(picked) ==
  /\ connecting # "none"
  /\ active' = IF picked THEN connecting ELSE active
  /\ connecting' = "none" /\ UNCHANGED selected /\ Rendered
  /\ UNCHANGED <<does, said, app, ctx, paused, calls, board, logs>>

\* A preset that changes nothing but the controller renders nothing.
ApplyPreset ==
  /\ "preset" \in does.others
  /\ active' = "http" /\ selected' = "http"
  /\ IF selected = "http" THEN NotRendered ELSE Rendered /\ UNCHANGED said
  /\ UNCHANGED <<does, connecting, app, ctx, paused, calls, board, logs>>

\* disconnectTransport; the controller waits for its request first.
Disconnect ==
  /\ "disconnect" \in does.others /\ \A c \in Calls : calls[c].at # "sent"
  /\ active' = "unsupported" /\ UNCHANGED selected /\ Rendered
  /\ UNCHANGED <<does, said, connecting, app, ctx, paused, calls, board, logs>>

-----------------------------------------------------------------------------
\* state/commandGating.ts
getCommandGate(cmd, picture) == Gates!getCommandGate(cmd, picture.facts) = Gates!Available

(* What the board answers, by the transport and by what was asked.          *)

\* REST acknowledges a command and answers a status with a whole snapshot; on a
\* line the next line answers: an acknowledgement, an error, a frame of the
\* stream, a text, or the compact status that was asked for.
Answers(c) ==
  IF calls[c].on = "http"
  THEN IF calls[c].kind = "status" THEN {"snapshot"} ELSE {"info"}
  ELSE {"info", "error", "frame", "text"} \cup (IF calls[c].cmd = "statusCompact" THEN {"compact"} ELSE {})

Reported == IF board.online THEN {Chassis} ELSE {}
reduceBoardPayload(picture, payload) ==
  CASE payload \in {"info", "error"} ->
         [picture EXCEPT !.messages = Newest(payload, @, FeedCap)]
    [] payload = "frame" ->
         [picture EXCEPT !.frames = Newest(board.frames + 1, @, FeedCap), !.frameCount = @ + 1]
    [] payload = "compact" -> [picture EXCEPT !.facts = Reported]
    [] payload = "snapshot" -> [EmptyPicture EXCEPT !.facts = Reported]
    [] OTHER -> picture

applyBoardPayloadCounts(picture, payload, pausedFrames, pausedInfo) ==   \* mutant: frames counted on
  LET next == reduceBoardPayload(picture, payload)
      kept == IF pausedFrames THEN [next EXCEPT !.frames = picture.frames] ELSE next
  IN IF pausedInfo THEN [kept EXCEPT !.messages = picture.messages] ELSE kept

\* AppExperience.applyBoardPayload, with the pauses of the render it closes over.
applyBoardPayload(picture, payload, pausedFrames, pausedInfo) ==
  LET next == reduceBoardPayload(picture, payload)
      held == [next EXCEPT !.frames = picture.frames, !.frameCount = picture.frameCount]
      kept == IF pausedFrames THEN held ELSE next
  IN IF pausedInfo THEN [kept EXCEPT !.messages = picture.messages] ELSE kept

appendBoardConsoleMessage(picture, type, pausedInfo) ==
  IF pausedInfo THEN picture ELSE [picture EXCEPT !.messages = Newest(type, @, ConsoleCap)]

-----------------------------------------------------------------------------
(* The handlers of the Console                                              *)

\* pushDiagnosticsArchive
Archived(c, ok) == archive' = archive \cup {Entry(c, ok)}

\* The transport is there: the call is sent, but for a command whose gate was
\* closed when the handler began.
Proceed(c, call, on) ==
  IF call.kind = "command" /\ resolveCommandExecutionReadiness(TRUE, call.gate) # "canExecute"
  THEN calls' = [calls EXCEPT ![c] = [call EXCEPT !.at = "done"]] /\ Archived(c, FALSE)
  ELSE calls' = [calls EXCEPT ![c] = [call EXCEPT !.at = "sent", !.on = on]] /\ UNCHANGED archive

\* ensureSharedTransportReady up to its first await, and what follows when
\* there is none.
EnsureAnyTransport(c, call) ==             \* mutant: REST is taken for connected
  /\ UNCHANGED active
  /\ IF call.selected = "http" \/ matchesSelectedTransport(call.selected, active)
     THEN Proceed(c, call, active)
     ELSE calls' = [calls EXCEPT ![c] = [call EXCEPT !.at = "picking"]] /\ UNCHANGED archive
EnsureSharedTransportReady(c, call) ==
  IF call.selected = "http"
  THEN active' = "http" /\ Proceed(c, call, "http")
  ELSE /\ UNCHANGED active
       /\ IF matchesSelectedTransport(call.selected, active)
          THEN Proceed(c, call, active)
          ELSE calls' = [calls EXCEPT ![c] = [call EXCEPT !.at = "picking"]] /\ UNCHANGED archive

Closing(kind, cmd) ==
  [kind |-> kind, at |-> "picking", cmd |-> cmd, selected |-> selected, on |-> "unsupported",
   gate |-> getCommandGate(cmd, app), frames |-> paused.frames, info |-> paused.info]

Called(c, kind) == calls[c].at = "idle" /\ kind \in does.kinds /\ \A d \in 1..c - 1 : calls[d].at # "idle"

\* A button of the Console is disabled while its call is under way.
BeginsCall(c, kind) == Called(c, kind) /\ \A d \in Calls : calls[d].kind = kind => calls[d].at = "done"

\* runCommand, of the command runner.
RunCommand(c, cmd) ==
  /\ BeginsCall(c, "command")
  /\ EnsureSharedTransportReady(c, Closing("command", cmd))
  /\ NotRendered
  /\ UNCHANGED <<does, selected, connecting, app, ctx, paused, board, bus, history, ctxHistory, snapshots>>

\* runRawConsoleCommand: the line typed is shown before anything is sent.
RunRawConsoleCommand(c, cmd) ==
  /\ BeginsCall(c, "raw")
  /\ app' = appendBoardConsoleMessage(app, ">", paused.info)
  /\ EnsureSharedTransportReady(c, Closing("raw", cmd))
  /\ NotRendered
  /\ UNCHANGED <<does, selected, connecting, ctx, paused, board, bus, history, ctxHistory, snapshots>>

ReadStatus(c) ==
  /\ BeginsCall(c, "status")
  /\ EnsureSharedTransportReady(c, Closing("status", "status"))
  /\ NotRendered
  /\ UNCHANGED <<does, selected, connecting, app, ctx, paused, board, bus, history, ctxHistory, snapshots>>

\* handleBoardInfoFeedPausedChange: the pause holds at once, whether or not the
\* board can be told; nothing keeps a second change from overtaking the first.
HandleBoardInfoFeedPausedChange(c) ==
  /\ Called(c, "live")
  /\ paused' = [paused EXCEPT !.info = ~@]
  /\ EnsureSharedTransportReady(c, Closing("live", "statusLive"))
  /\ NotRendered
  /\ UNCHANGED <<does, selected, connecting, app, ctx, board, bus, history, ctxHistory, snapshots>>

\* The user picks a device, which becomes the transport, or none: nothing is sent.
Picked(c) ==
  /\ calls[c].at = "picking"
  /\ active' = calls[c].selected
  /\ Proceed(c, calls[c], calls[c].selected)
  /\ NotRendered
  /\ UNCHANGED <<does, selected, connecting, app, ctx, paused, board, bus, history, ctxHistory, snapshots>>
NotPicked(c) ==
  /\ calls[c].at = "picking"
  /\ calls' = [calls EXCEPT ![c].at = "done"]
  /\ Archived(c, FALSE)
  /\ UNCHANGED <<does, link, app, ctx, paused, board, bus, history, ctxHistory, snapshots>>

Done(c) == calls' = [calls EXCEPT ![c] = [NotMade EXCEPT !.kind = calls[c].kind, !.at = "done"]]
Seen(payload) == board' = [board EXCEPT !.frames = IF payload = "frame" THEN @ + 1 ELSE @]

\* After the await of runCommand.
CommandAnswered(c, ok, payload) ==
  LET result == buildCommandExecutionResult(c, ok)
  IN /\ calls[c].at = "sent" /\ calls[c].kind = "command" /\ Done(c)
     /\ bus' = Dispatched(bus, result.dispatchActions)
     /\ app' = IF result.shouldApplyBoardPayload
               THEN applyBoardPayload(app, payload, calls[c].frames, calls[c].info) ELSE app
     /\ history' = Newest(result.historyEntry, history, HistoryCap)
     /\ Archived(c, ok)
     /\ UNCHANGED <<does, link, ctx, paused, ctxHistory, snapshots>>

\* After the await of runRawConsoleCommand.
RawAnswered(c, ok, payload) ==
  LET told == IF ok THEN applyBoardPayload(app, payload, calls[c].frames, calls[c].info) ELSE app
  IN /\ calls[c].at = "sent" /\ calls[c].kind = "raw" /\ Done(c)
     /\ app' = appendBoardConsoleMessage(told, IF ok THEN "<" ELSE "error", calls[c].info)
     /\ history' = Newest(Entry(c, ok), history, HistoryCap)
     /\ Archived(c, ok)
     /\ UNCHANGED <<does, link, ctx, paused, bus, ctxHistory, snapshots>>

\* The answer to "live" tells nothing; a status that failed changes nothing.
SystemAnswered(c, ok, payload) ==
  /\ calls[c].at = "sent" /\ calls[c].kind \in {"live", "status", "ble"} /\ Done(c)
  /\ app' = IF ok /\ calls[c].kind = "status"
            THEN applyBoardPayload(app, payload, calls[c].frames, calls[c].info) ELSE app
  /\ Archived(c, ok)
  /\ UNCHANGED <<does, link, ctx, paused, bus, history, ctxHistory, snapshots>>

\* refreshBleStatus and applyBleDeviceName (hooks/useBleConfig.ts) go to the
\* board's REST interface whatever the transport, one of them at a time.
BleConfig(c) ==
  /\ BeginsCall(c, "ble")
  /\ calls' = [calls EXCEPT ![c] = [Closing("ble", "bleStatus") EXCEPT !.at = "sent", !.on = "http"]]
  /\ UNCHANGED <<does, link, app, ctx, paused, board, logs>>

-----------------------------------------------------------------------------
(* What the Console does without the board                                  *)

SetFrameFeedPaused ==
  /\ "pause" \in does.others /\ paused' = [paused EXCEPT !.frames = ~@]
  /\ UNCHANGED <<does, link, app, ctx, calls, board, logs>>
ClearMonitorFeed ==
  /\ "clear" \in does.others /\ app.frames \o app.messages # <<>>
  /\ app' = [EmptyPicture EXCEPT !.facts = app.facts]
  /\ UNCHANGED <<does, link, ctx, paused, calls, board, logs>>
SaveFrameSnapshot ==
  /\ "snapshot" \in does.others /\ Len(snapshots) < HistoryCap
  /\ snapshots' = Newest(Len(app.frames), snapshots, HistoryCap)
  /\ UNCHANGED <<does, link, app, ctx, paused, calls, board, bus, history, ctxHistory, archive>>

\* An export shows the frames as a text (FrameViews) and takes a place in the history.
Exported(kind) ==
  /\ "export" \in does.others /\ Entry(kind, TRUE) \notin Range(history)
  /\ history' = Newest(Entry(kind, TRUE), history, HistoryCap)
  /\ UNCHANGED <<does, link, app, ctx, paused, calls, board, bus, ctxHistory, snapshots, archive>>

-----------------------------------------------------------------------------
(* state/CommandContext.tsx: the commands of the Controls                   *)

\* A command is refused or sent without an await; what is refused for the link
\* is what the providers' last render found.
RunControl(c, cmd) ==
  LET gate == getCommandGate(cmd, ctx)
      verdict == resolveCommandExecutionReadiness(ready, gate)
      call == [Closing("control", cmd) EXCEPT !.gate = gate, !.frames = FALSE]
  IN /\ Called(c, "control")
     /\ UNCHANGED <<selected, active>>
     /\ IF verdict = "canExecute"
        THEN /\ calls' = [calls EXCEPT ![c] = [call EXCEPT !.at = "sent", !.on = active]]
             /\ NotRendered
        ELSE /\ calls' = [calls EXCEPT ![c] = [call EXCEPT !.at = "done"]]
             /\ SetLastResult(verdict)
     /\ UNCHANGED <<does, connecting, app, ctx, paused, board, logs>>

ControlAnswered(c, ok, payload) ==
  LET result == buildCommandExecutionResult(c, ok)
  IN /\ calls[c].at = "sent" /\ calls[c].kind = "control" /\ Done(c)
     /\ ctx' = IF result.shouldApplyBoardPayload
               THEN applyBoardPayload(ctx, payload, FALSE, FALSE) ELSE ctx
     /\ ctxHistory' = Newest(result.historyEntry, ctxHistory, ControlCap)
     /\ UNCHANGED <<selected, active>> /\ said' = "answer" /\ Rendered
     /\ UNCHANGED <<does, connecting, app, paused, bus, history, snapshots, archive>>

\* The chassis bus of the board goes silent or speaks again.
BoardChanges ==
  /\ "drive" \in does.others /\ board' = [board EXCEPT !.online = ~@]
  /\ UNCHANGED <<does, link, app, ctx, paused, calls, logs>>

-----------------------------------------------------------------------------
Answered(c) ==
  \E ok \in BOOLEAN : \E payload \in IF ok THEN Answers(c) ELSE {"none"} :
    /\ Seen(payload)
    /\ \/ CommandAnswered(c, ok, payload) \/ RawAnswered(c, ok, payload)
       \/ SystemAnswered(c, ok, payload) \/ ControlAnswered(c, ok, payload)

Console(c) ==
  \/ \E cmd \in {"fsd", "statusCompact"} : RunCommand(c, cmd) \/ RunRawConsoleCommand(c, cmd)
  \/ ReadStatus(c) \/ HandleBoardInfoFeedPausedChange(c) \/ BleConfig(c)
  \/ Picked(c) \/ NotPicked(c)

AppNext ==
  \/ \E type \in Selectable : Select(type)
  \/ ApplyConnection \/ \E picked \in BOOLEAN : ConnectionApplied(picked)
  \/ ApplyPreset \/ Disconnect
  \/ \E c \in Calls : Console(c) \/ Answered(c)
  \/ SetFrameFeedPaused \/ ClearMonitorFeed \/ SaveFrameSnapshot
  \/ \E kind \in {0, -1} : Exported(kind)
  \/ \E c \in Calls, cmd \in {"fsd", "statusCompact"} : RunControl(c, cmd)
  \/ BoardChanges

AppSpec == AppInit /\ [][AppNext]_appVars

-----------------------------------------------------------------------------
(* Properties *)

\* A paused feed of frames stands still, whatever answers arrive, once the
\* calls begun before the pause are answered; only the user clears it.
UnderWay(c) == calls[c].at \in {"picking", "sent"}
Quiet == paused.frames /\ \A c \in Calls : UnderWay(c) /\ calls[c].kind # "control" => calls[c].frames
Feed(picture) == <<picture.frames, picture.frameCount>>
PauseFreezesOnceQuiet ==
  [][ (Quiet /\ paused'.frames /\ app' # [EmptyPicture EXCEPT !.facts = app.facts]) => Feed(app') = Feed(app) ]_appVars

\* What the Console asks for goes over the transport that was selected when it
\* was asked for, whatever is selected or connected while the user picks a device.
SentWhereAsked ==
  \A c \in Calls :
    (calls[c].at = "sent" /\ calls[c].kind \in {"command", "raw", "status", "live"})
       => matchesSelectedTransport(calls[c].selected, calls[c].on)

\* What a refusal of the Controls says: the selected transport "is selected but
\* not active yet" (transportPresentation.ts).
RefusedMeansNotActive ==
  [][ \A c \in Calls : (calls[c].at = "idle" /\ calls'[c].at = "done" /\ calls'[c].kind = "control"
                          /\ calls'[c].gate)
        => ~isMonitorTransportReady(selected, active) ]_appVars
===============================================================================
