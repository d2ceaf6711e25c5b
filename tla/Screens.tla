------------------------------- MODULE Screens -------------------------------
(***************************************************************************)
(* What the client's tabs keep (src/client/src: state/appRoute.ts,         *)
(* screens/ControlsScreen.tsx, screens/FlasherScreen.tsx,                  *)
(* hardware/webEspFlasher.ts).                                             *)
(*                                                                         *)
(* The route and the address bar follow each other, the latter through     *)
(* events that are handled later.  A tab that is left forgets its state;   *)
(* the calls it began go on.  The connection header is there on every tab. *)
(***************************************************************************)
EXTENDS ControlPanels

CONSTANTS
  Typed,         \* the addresses a user types or goes back to, as their segments
  Docs,          \* documents a user opens
  Cmds,          \* commands a user taps
  Pictures,      \* the facts the board may report
  MaxQueued,     \* bound on the events of the address bar that wait
  MaxJobs        \* bound on the downloads and the flashes

Jobs == 1..MaxJobs

VARIABLES
  route,         \* the tab and its document
  hash,          \* the address bar
  queued,        \* hashchange events that wait
  confirm,       \* pendingConfirm of the Controls
  picture,       \* what the board reported
  last,          \* the last tap of the Controls that counts for a confirmation
  status,        \* of the Flasher
  jobs,          \* what the Flasher began
  frameFeedPaused,
  serialOpen,    \* whether the shared connection is a serial one
  supports       \* whether the browser can flash
controls == <<confirm, picture, last>>
flasher == <<status, jobs, frameFeedPaused, serialOpen>>
vars == <<route, hash, queued, controls, flasher, supports>>

-----------------------------------------------------------------------------
(* state/appRoute.ts                                                        *)

VALID_TABS == {"dashboard", "controls", "console", "flasher", "docs"}
DEFAULT_DOC_ROUTE == ""
getDefaultRoute == [tab |-> "dashboard", docRoute |-> DEFAULT_DOC_ROUTE]

normalizeTab(raw) ==
  CASE raw = "monitor" -> "console"
    [] raw \in VALID_TABS -> raw
    [] OTHER -> "dashboard"        \* "drive" is one of its old names

parseHashRoute(h) ==
  IF h = <<>> THEN getDefaultRoute
  ELSE LET tab == normalizeTab(h[1])
       IN [tab |-> tab,
           docRoute |-> IF tab # "docs" THEN DEFAULT_DOC_ROUTE ELSE IF Len(h) > 1 THEN h[2] ELSE ""]

buildHashRoute(r) ==
  IF r.tab = "docs" /\ r.docRoute # "" THEN <<"docs", r.docRoute>> ELSE <<r.tab>>

None == "none"
NoTap == [by |-> None, name |-> None, sent |-> FALSE, turn |-> FALSE]

Init ==
  /\ hash \in Typed /\ route = parseHashRoute(hash) /\ queued = 0
  /\ confirm = None /\ picture \in Pictures /\ last = NoTap
  /\ status = "idle" /\ jobs = [j \in Jobs |-> [kind |-> None, at |-> "idle", here |-> FALSE, ok |-> FALSE]]
  /\ frameFeedPaused = FALSE /\ serialOpen = FALSE
  /\ supports \in BOOLEAN

\* The tab shown is the only one mounted: the one left forgets its state, and
\* what it began tells it nothing any more.
Shows(r) ==
  /\ route' = r
  /\ IF r.tab = route.tab THEN UNCHANGED <<confirm, last, status, jobs>>
     ELSE /\ confirm' = None /\ last' = NoTap /\ status' = "idle"
          /\ jobs' = [j \in Jobs |-> [jobs[j] EXCEPT !.here = FALSE]]
  /\ UNCHANGED <<picture, frameFeedPaused, serialOpen, supports>>

\* navigate: the route at once, and the address if it differs.
Navigate(r) ==
  /\ queued < MaxQueued
  /\ Shows(r)
  /\ hash' = buildHashRoute(r)
  /\ queued' = IF hash' = hash THEN queued ELSE queued + 1
NavigateToTab == \E tab \in VALID_TABS : Navigate([tab |-> tab, docRoute |-> route.docRoute])
NavigateToDoc == \E doc \in Docs : Navigate([tab |-> "docs", docRoute |-> doc])

\* The user edits the address or goes back.
Types ==
  /\ queued < MaxQueued
  /\ hash' \in Typed \ {hash} /\ queued' = queued + 1
  /\ UNCHANGED <<route, controls, flasher, supports>>

HandleHashChangeOfTab ==                   \* mutant: an event within the tab is dropped
  /\ queued > 0 /\ queued' = queued - 1
  /\ Shows(IF parseHashRoute(hash).tab = route.tab THEN route ELSE parseHashRoute(hash))
  /\ UNCHANGED hash
HandleHashChange ==
  /\ queued > 0 /\ queued' = queued - 1
  /\ Shows(parseHashRoute(hash))
  /\ UNCHANGED hash

-----------------------------------------------------------------------------
(* screens/ControlsScreen.tsx                                               *)

Available(c) == Tables!getCommandGate(c, picture) = Tables!Available
Tapped(by, c, sent) == last' = [by |-> by, name |-> c, sent |-> sent, turn |-> ~last.turn]

runWithGuardsKeeps(c) ==                   \* mutant: a sent command stays confirmed
  LET refused == ~Available(c) \/ requiresInput(c)
      warned  == c \in ADVANCED_CONFIRMATION /\ confirm # c
  IN /\ route.tab = "controls" /\ c \in Cmds
     /\ confirm' = IF refused THEN None ELSE IF warned THEN c ELSE confirm
     /\ Tapped("list", c, ~refused /\ ~warned)
     /\ UNCHANGED <<route, hash, queued, picture, flasher, supports>>

\* A tap in a list or in the palette: refused, warned about, or sent.
runWithGuards(c) ==
  LET refused == ~Available(c) \/ requiresInput(c)
      warned  == c \in ADVANCED_CONFIRMATION /\ confirm # c
  IN /\ route.tab = "controls" /\ c \in Cmds
     /\ confirm' = IF ~refused /\ warned THEN c ELSE None
     /\ Tapped("list", c, ~refused /\ ~warned)
     /\ UNCHANGED <<route, hash, queued, picture, flasher, supports>>

\* A tap of a panel's button; a refusal leaves what waits for a confirmation.
runDirectCommand(s) ==
  /\ route.tab = "controls" /\ s.name \in Cmds
  /\ IF Available(s.name) THEN confirm' = None /\ Tapped("panel", s.name, TRUE)
     ELSE UNCHANGED <<confirm, last>>
  /\ UNCHANGED <<route, hash, queued, picture, flasher, supports>>
TapsPanel ==
  \E s \in FsdPanel(picture) \cup DasPanel({25}, 0) \cup VehicleCommandsPanel(picture) : runDirectCommand(s)

\* The banner is closed, and with it what waits for a confirmation.
ClosesBanner ==
  /\ route.tab = "controls" /\ last # NoTap
  /\ confirm' = None /\ last' = NoTap
  /\ UNCHANGED <<route, hash, queued, picture, flasher, supports>>

BoardReports ==
  /\ picture' \in Pictures
  /\ UNCHANGED <<route, hash, queued, confirm, last, flasher, supports>>

-----------------------------------------------------------------------------
(* screens/FlasherScreen.tsx, hardware/webEspFlasher.ts                     *)

Busy == {"building", "connecting", "flashing"}

pauseFrameFeed(paused) == frameFeedPaused' = paused

\* setStatus of the instance that began the job, which may be gone.
Says(j, text) == status' = IF jobs[j].here THEN text ELSE status
At(j, at) == jobs' = [jobs EXCEPT ![j].at = at]
Begins(j, kind, at) ==
  /\ route.tab = "flasher" /\ jobs[j].at = "idle" /\ \A i \in Jobs : i < j => jobs[i].at # "idle"
  /\ jobs' = [jobs EXCEPT ![j] = [kind |-> kind, at |-> at, here |-> TRUE, ok |-> FALSE]]
  /\ UNCHANGED <<route, hash, queued, controls, serialOpen, supports>>

\* The download button is free unless a download is under way.
HandleBuild(j) ==
  /\ status # "building" /\ status' = "building"
  /\ Begins(j, "build", "resolving")
  /\ UNCHANGED frameFeedPaused

BuildEnds(j) ==
  /\ jobs[j].kind = "build" /\ jobs[j].at = "resolving" /\ At(j, "over")
  /\ \E text \in {"done", "error"} : Says(j, text)
  /\ UNCHANGED <<route, hash, queued, controls, frameFeedPaused, serialOpen, supports>>

\* The finally of handleFlash, after its last statement or its catch.
Ends(j, text) ==
  /\ At(j, "over") /\ Says(j, text) /\ pauseFrameFeed(FALSE)
  /\ UNCHANGED <<route, hash, queued, controls, serialOpen, supports>>

\* handleFlash up to its first await.
HandleFlash(j) ==
  /\ status \notin Busy
  /\ status' = IF supports THEN "connecting" ELSE "error"
  /\ Begins(j, "flash", IF ~supports THEN "over" ELSE IF serialOpen THEN "closing" ELSE "resolving")
  /\ pauseFrameFeed(supports /\ frameFeedPaused)

\* disconnectTransport ends, whether or not the port could be closed.
FlashClosed(j) ==
  /\ jobs[j].at = "closing" /\ At(j, "resolving") /\ serialOpen' = FALSE
  /\ UNCHANGED <<route, hash, queued, controls, status, frameFeedPaused, supports>>

\* The release is known: the shared feed stops, and the image is fetched.
FlashResolved(j) ==
  /\ jobs[j].kind = "flash" /\ jobs[j].at = "resolving" /\ At(j, "fetching")
  /\ Says(j, "flashing") /\ pauseFrameFeed(TRUE)
  /\ UNCHANGED <<route, hash, queued, controls, serialOpen, supports>>

\* flashMergedEspReleaseImage: the image is there, the user picks a port, the
\* image is written or not, and the port is closed.
Stages == [fetching |-> "picking", picking |-> "writing"]
FlashGoesOn(j) ==
  /\ jobs[j].at \in DOMAIN Stages /\ At(j, Stages[jobs[j].at])
  /\ UNCHANGED <<route, hash, queued, controls, status, frameFeedPaused, serialOpen, supports>>
FlashWritten(j) ==
  /\ jobs[j].at = "writing"
  /\ \E ok \in BOOLEAN : jobs' = [jobs EXCEPT ![j].at = "cleanup", ![j].ok = ok]
  /\ UNCHANGED <<route, hash, queued, controls, status, frameFeedPaused, serialOpen, supports>>
FlashDisconnected(j) ==
  /\ jobs[j].at = "cleanup"
  /\ Ends(j, IF jobs[j].ok THEN "done" ELSE "error")

\* No release, no image, or no port.
FlashFailsPaused(j) ==                     \* mutant: the catch without the finally
  /\ jobs[j].kind = "flash" /\ jobs[j].at \in {"resolving", "fetching", "picking"}
  /\ At(j, "over") /\ Says(j, "error") /\ UNCHANGED frameFeedPaused
  /\ UNCHANGED <<route, hash, queued, controls, serialOpen, supports>>
FlashFails(j) ==
  /\ jobs[j].kind = "flash" /\ jobs[j].at \in {"resolving", "fetching", "picking"}
  /\ Ends(j, "error")

\* The connection header.
ConnectsSerial ==
  /\ serialOpen' \in BOOLEAN
  /\ UNCHANGED <<route, hash, queued, controls, status, jobs, frameFeedPaused, supports>>

-----------------------------------------------------------------------------
Next ==
  \/ NavigateToTab \/ NavigateToDoc \/ Types \/ HandleHashChange
  \/ \E c \in Cmds : runWithGuards(c)
  \/ TapsPanel \/ ClosesBanner \/ BoardReports
  \/ \E j \in Jobs : \/ HandleBuild(j) \/ BuildEnds(j) \/ HandleFlash(j) \/ FlashClosed(j) \/ FlashResolved(j)
                     \/ FlashGoesOn(j) \/ FlashWritten(j) \/ FlashDisconnected(j) \/ FlashFails(j)
  \/ ConnectsSerial
Spec == Init /\ [][Next]_vars

-----------------------------------------------------------------------------
(* Properties *)

\* Once the events of the address bar are handled, the tab and its document are
\* those of the address, in whatever order the user tapped, typed and went back.
RouteFollowsHash == queued = 0 => route = parseHashRoute(hash)

\* A high-risk command of a list is sent only by a second tap of it: the tap
\* before was of the same command and sent nothing, whatever else was tapped,
\* sent, closed, left or reported before.
IsTap == last'.turn # last.turn
ConfirmationIsFresh ==
  [][ (IsTap /\ last'.by = "list" /\ last'.sent /\ last'.name \in ADVANCED_CONFIRMATION)
        => (last.by = "list" /\ last.name = last'.name /\ ~last.sent) ]_vars

\* What the release checklist asks of every high-risk action: a warning first.
HighRiskConfirmed ==
  [][ (IsTap /\ last'.sent /\ last'.name \in ADVANCED_CONFIRMATION)
        => (last.name = last'.name /\ ~last.sent) ]_vars

\* The feed the Flasher paused runs again once no flash is under way, however the
\* flashes failed or overlapped, and although the tab was left meanwhile.
FeedResumes ==
  (\A j \in Jobs : jobs[j].kind = "flash" => jobs[j].at \in {"idle", "closing", "resolving", "over"})
    => ~frameFeedPaused
===============================================================================
