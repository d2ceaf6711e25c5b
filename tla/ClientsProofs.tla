---------------------------- MODULE ClientsProofs ----------------------------
(***************************************************************************)
(* What runs beside the board, for every value of the constants: the tabs  *)
(* (the route follows the address, a confirmation is fresh, a feed that a  *)
(* flash paused runs again), the handlers of the Console (a request goes   *)
(* over the transport it was made for, a paused feed stands still), the    *)
(* store (a reload restores what a good save wrote, and no save takes what *)
(* is already there), the session of the serial tools (no client sleeps    *)
(* through the line it waits for) and the text of the port (where it is    *)
(* cut changes nothing).                                                   *)
(***************************************************************************)
EXTENDS ViewProofs

-----------------------------------------------------------------------------
(* The address bar.  RouteFollowsHash is inductive: navigation that leaves  *)
(* the address as it was goes where that address already leads.             *)

\* The two forms of address that buildHashRoute makes, read back.
LEMMA ReadDocument ==
  ASSUME NEW doc
  PROVE  parseHashRoute(<<"docs", doc>>) = [tab |-> "docs", docRoute |-> doc]
<1> DEFINE h == <<"docs", doc>>
<1>1. h # <<>> /\ h[1] = "docs" /\ h[2] = doc /\ Len(h) > 1
  OBVIOUS
<1>2. normalizeTab("docs") = "docs"
  BY DEF normalizeTab, VALID_TABS
<1> HIDE DEF h
<1>3. parseHashRoute(h) = [tab |-> "docs", docRoute |-> doc]
  BY <1>1, <1>2 DEF parseHashRoute
<1> QED BY <1>3 DEF h

LEMMA ReadTab ==
  ASSUME NEW tab \in VALID_TABS
  PROVE  parseHashRoute(<<tab>>) = [tab |-> tab, docRoute |-> DEFAULT_DOC_ROUTE]
<1> DEFINE h == <<tab>>
<1>1. h # <<>> /\ h[1] = tab /\ ~(Len(h) > 1)
  OBVIOUS
<1>2. normalizeTab(tab) = tab
  BY DEF normalizeTab, VALID_TABS
<1> HIDE DEF h
<1>3. parseHashRoute(h) = [tab |-> tab, docRoute |-> DEFAULT_DOC_ROUTE]
  BY <1>1, <1>2 DEF parseHashRoute, DEFAULT_DOC_ROUTE
<1> QED BY <1>3 DEF h

\* What a document's or a tab's own address leads to, when the route that is left
\* is the one its address leads to.
LEMMA TabOfItsHash ==
  ASSUME NEW h, NEW tab \in VALID_TABS, NEW r, r = parseHashRoute(h),
         buildHashRoute([tab |-> tab, docRoute |-> r.docRoute]) = h
  PROVE  r = [tab |-> tab, docRoute |-> r.docRoute]
<1>1. CASE tab = "docs" /\ r.docRoute # ""
  <2>1. h = <<"docs", r.docRoute>>
    BY <1>1 DEF buildHashRoute
  <2>2. r = [tab |-> "docs", docRoute |-> r.docRoute]
    BY <2>1, ReadDocument
  <2> QED BY <1>1, <2>2
<1>2. CASE ~(tab = "docs" /\ r.docRoute # "")
  <2>1. h = <<tab>>
    BY <1>2 DEF buildHashRoute
  <2>2. r = [tab |-> tab, docRoute |-> DEFAULT_DOC_ROUTE]
    BY <2>1, ReadTab
  <2> QED BY <2>2
<1> QED BY <1>1, <1>2

LEMMA DocOfItsHash ==
  ASSUME NEW doc
  PROVE  parseHashRoute(buildHashRoute([tab |-> "docs", docRoute |-> doc]))
           = [tab |-> "docs", docRoute |-> doc]
<1>1. CASE doc # ""
  <2>1. buildHashRoute([tab |-> "docs", docRoute |-> doc]) = <<"docs", doc>>
    BY <1>1 DEF buildHashRoute
  <2> QED BY <2>1, ReadDocument
<1>2. CASE doc = ""
  <2>1. buildHashRoute([tab |-> "docs", docRoute |-> doc]) = <<"docs">>
    BY <1>2 DEF buildHashRoute
  <2> QED BY <1>2, <2>1, ReadTab DEF VALID_TABS, DEFAULT_DOC_ROUTE
<1> QED BY <1>1, <1>2

\* A step that leaves the address bar and the tabs alone.
LEMMA NoStepOfTheRoute ==
  ASSUME Next
  PROVE  \/ NavigateToTab \/ NavigateToDoc \/ Types \/ HandleHashChange
         \/ UNCHANGED <<route, hash, queued>>
BY DEF Next, runWithGuards, TapsPanel, runDirectCommand, ClosesBanner, BoardReports, HandleBuild, BuildEnds,
       HandleFlash, FlashClosed, FlashResolved, FlashGoesOn, FlashWritten, FlashDisconnected, FlashFails,
       ConnectsSerial, Begins, Ends

\* Navigation: the address changes and an event is to come, or it leads there already.
LEMMA NavigationFollows ==
  ASSUME NEW r, queued \in Nat, Navigate(r),
         hash = buildHashRoute(r) /\ queued = 0 => parseHashRoute(hash) = r
  PROVE  queued' \in Nat /\ RouteFollowsHash'
<1>1. route' = r /\ hash' = buildHashRoute(r) /\ queued' = IF hash' = hash THEN queued ELSE queued + 1
  BY DEF Navigate, Shows
<1>2. CASE hash' = hash
  BY <1>1, <1>2 DEF RouteFollowsHash
<1>3. CASE hash' # hash
  BY <1>1, <1>3 DEF RouteFollowsHash
<1> QED BY <1>2, <1>3

RInv == queued \in Nat /\ RouteFollowsHash

LEMMA RouteStep ==
  ASSUME RInv, [Next]_vars
  PROVE  RInv'
<1> USE DEF RInv
<1>1. CASE NavigateToTab
  <2>1. PICK tab \in VALID_TABS : Navigate([tab |-> tab, docRoute |-> route.docRoute])
    BY <1>1 DEF NavigateToTab
  <2> DEFINE r == [tab |-> tab, docRoute |-> route.docRoute]
  <2>2. ASSUME hash = buildHashRoute(r), queued = 0
        PROVE  parseHashRoute(hash) = r
    <3>1. route = parseHashRoute(hash)
      BY <2>2 DEF RouteFollowsHash
    <3>2. route = r
      BY <2>2, <3>1, TabOfItsHash
    <3> QED BY <3>1, <3>2
  <2> QED BY <2>1, <2>2, NavigationFollows
<1>2. CASE NavigateToDoc
  <2>1. PICK doc \in Docs : Navigate([tab |-> "docs", docRoute |-> doc])
    BY <1>2 DEF NavigateToDoc
  <2>2. hash = buildHashRoute([tab |-> "docs", docRoute |-> doc])
          => parseHashRoute(hash) = [tab |-> "docs", docRoute |-> doc]
    BY DocOfItsHash
  <2> QED BY <2>1, <2>2, NavigationFollows
<1>3. CASE Types
  BY <1>3 DEF Types, RouteFollowsHash
<1>4. CASE HandleHashChange
  <2>1. queued > 0 /\ queued' = queued - 1 /\ route' = parseHashRoute(hash) /\ hash' = hash
    BY <1>4 DEF HandleHashChange, Shows
  <2> QED BY <2>1 DEF RouteFollowsHash
<1>5. CASE UNCHANGED <<route, hash, queued>>
  BY <1>5 DEF RouteFollowsHash
<1>6. CASE UNCHANGED vars
  BY <1>5, <1>6 DEF vars
<1> QED BY <1>1, <1>2, <1>3, <1>4, <1>5, <1>6, NoStepOfTheRoute

\* Once the events of the address bar are handled, the route is the one of the
\* address: whatever the user typed, tapped and went back to in between.
THEOREM TheRouteFollows == Spec => []RouteFollowsHash
<1>1. Init => RInv
  BY DEF Init, RInv, RouteFollowsHash
<1>2. RInv /\ [Next]_vars => RInv'
  BY RouteStep
<1>3. RInv => RouteFollowsHash
  BY DEF RInv
<1> QED BY <1>1, <1>2, <1>3, PTL DEF Spec

-----------------------------------------------------------------------------
(* The confirmation.  While a command waits for its second tap, the last    *)
(* tap was the first one of it, in a list, and sent nothing.                *)

CInv == confirm # None => last.by = "list" /\ last.name = confirm /\ ~last.sent

\* A step that taps nothing: what waits goes on waiting, or is forgotten.
NoTapStep == \/ UNCHANGED <<confirm, last>>
             \/ confirm' = None /\ last' \in {last, NoTap}

LEMMA StepsOfTheControls ==
  ASSUME Next
  PROVE  \/ \E c \in Cmds : runWithGuards(c)
         \/ \E s : runDirectCommand(s)
         \/ NoTapStep
<1>1. CASE NavigateToTab \/ NavigateToDoc \/ HandleHashChange
  <2>1. \E r : Shows(r)
    BY <1>1 DEF NavigateToTab, NavigateToDoc, HandleHashChange, Navigate
  <2> QED BY <2>1 DEF Shows, NoTapStep
<1>2. CASE \E c \in Cmds : runWithGuards(c)
  BY <1>2
<1>3. CASE TapsPanel
  BY <1>3 DEF TapsPanel
<1>4. CASE ClosesBanner \/ BoardReports \/ Types \/ ConnectsSerial
  BY <1>4 DEF ClosesBanner, BoardReports, Types, ConnectsSerial, NoTapStep, controls
<1>5. CASE \E j \in Jobs : \/ HandleBuild(j) \/ BuildEnds(j) \/ HandleFlash(j) \/ FlashClosed(j)
                           \/ FlashResolved(j) \/ FlashGoesOn(j) \/ FlashWritten(j)
                           \/ FlashDisconnected(j) \/ FlashFails(j)
  BY <1>5 DEF HandleBuild, BuildEnds, HandleFlash, FlashClosed, FlashResolved, FlashGoesOn, FlashWritten,
              FlashDisconnected, FlashFails, Begins, Ends, NoTapStep, controls
<1> QED BY <1>1, <1>2, <1>3, <1>4, <1>5 DEF Next

\* A confirmation that the next step gives, or asks for, is of the tap before.
LEMMA ConfirmationStep ==
  ASSUME CInv, [Next]_vars
  PROVE  /\ CInv'
         /\ (IsTap /\ last'.by = "list" /\ last'.sent /\ last'.name \in ADVANCED_CONFIRMATION)
               => (last.by = "list" /\ last.name = last'.name /\ ~last.sent)
<1>1. CASE \E c \in Cmds : runWithGuards(c)
  <2>1. PICK c \in Cmds : runWithGuards(c)
    BY <1>1
  <2> DEFINE refused == ~Available(c) \/ requiresInput(c)
             warned == c \in ADVANCED_CONFIRMATION /\ confirm # c
  <2>2. /\ confirm' = IF ~refused /\ warned THEN c ELSE None
        /\ last' = [by |-> "list", name |-> c, sent |-> ~refused /\ ~warned, turn |-> ~last.turn]
    BY <2>1 DEF runWithGuards, Tapped
  <2>3. CInv'
    BY <2>2 DEF CInv
  <2>4. ASSUME last'.sent, last'.name \in ADVANCED_CONFIRMATION
        PROVE  last.by = "list" /\ last.name = last'.name /\ ~last.sent
    <3>1. confirm = c /\ last'.name = c
      BY <2>2, <2>4
    <3>2. c # None
      BY <2>2, <2>4 DEF ADVANCED_CONFIRMATION, None
    <3> QED BY <3>1, <3>2 DEF CInv
  <2> QED BY <2>3, <2>4
<1>2. CASE \E s : runDirectCommand(s)
  <2>1. PICK s : runDirectCommand(s)
    BY <1>2
  <2>2. CASE confirm' = None /\ Tapped("panel", s.name, TRUE)
    BY <2>2 DEF CInv, Tapped
  <2>3. CASE UNCHANGED <<confirm, last>>
    BY <2>3 DEF CInv, IsTap
  <2> QED BY <2>1, <2>2, <2>3 DEF runDirectCommand
<1>3. CASE NoTapStep
  <2>1. CASE UNCHANGED <<confirm, last>>
    BY <2>1 DEF CInv, IsTap
  <2>2. CASE confirm' = None /\ last' \in {last, NoTap}
    BY <2>2 DEF CInv, IsTap, NoTap, None
  <2> QED BY <1>3, <2>1, <2>2 DEF NoTapStep
<1>4. CASE UNCHANGED vars
  BY <1>4 DEF vars, controls, CInv, IsTap
<1> QED BY <1>1, <1>2, <1>3, <1>4, StepsOfTheControls

\* A high-risk command of a list is sent only by a tap that follows a tap of the
\* same command which sent nothing.
THEOREM ConfirmationsAreFresh == Spec => ConfirmationIsFresh
<1>1. Init => CInv
  BY DEF Init, CInv
<1>2. CInv /\ [Next]_vars => CInv'
  BY ConfirmationStep
<1>3. CInv /\ [Next]_vars
        => [ (IsTap /\ last'.by = "list" /\ last'.sent /\ last'.name \in ADVANCED_CONFIRMATION)
               => (last.by = "list" /\ last.name = last'.name /\ ~last.sent) ]_vars
  BY ConfirmationStep
<1> QED BY <1>1, <1>2, <1>3, PTL DEF Spec, ConfirmationIsFresh

-----------------------------------------------------------------------------
(* The feed.  It is paused only while some flash is at a stage which ends   *)
(* in resuming it.                                                          *)

JobKinds == {None, "build", "flash"}
Ats == {"idle", "resolving", "closing", "fetching", "picking", "writing", "cleanup", "over"}
JobsOK == jobs \in [Jobs -> [kind : JobKinds, at : Ats, here : BOOLEAN, ok : BOOLEAN]]
Flashing(j) == jobs[j].kind = "flash" /\ jobs[j].at \in {"fetching", "picking", "writing", "cleanup"}
FInv == JobsOK /\ (frameFeedPaused => \E j \in Jobs : Flashing(j))

\* A step that leaves the Flasher's jobs where they are.
KeepsJobs ==
  /\ frameFeedPaused' = frameFeedPaused
  /\ \/ jobs' = jobs
     \/ jobs' = [j \in Jobs |-> [jobs[j] EXCEPT !.here = FALSE]]

LEMMA StepsOfTheFlasher ==
  ASSUME Next
  PROVE  \/ KeepsJobs
         \/ \E j \in Jobs : \/ HandleBuild(j) \/ BuildEnds(j) \/ HandleFlash(j) \/ FlashClosed(j)
                            \/ FlashResolved(j) \/ FlashGoesOn(j) \/ FlashWritten(j)
                            \/ FlashDisconnected(j) \/ FlashFails(j)
<1>1. CASE NavigateToTab \/ NavigateToDoc \/ HandleHashChange
  <2>1. \E r : Shows(r)
    BY <1>1 DEF NavigateToTab, NavigateToDoc, HandleHashChange, Navigate
  <2> QED BY <2>1 DEF Shows, KeepsJobs
<1>2. CASE (\E c \in Cmds : runWithGuards(c)) \/ TapsPanel \/ ClosesBanner \/ BoardReports \/ Types \/ ConnectsSerial
  BY <1>2 DEF runWithGuards, TapsPanel, runDirectCommand, ClosesBanner, BoardReports, Types, ConnectsSerial,
              KeepsJobs, flasher
<1> QED BY <1>1, <1>2 DEF Next

LEMMA FeedStep ==
  ASSUME FInv, [Next]_vars
  PROVE  FInv'
<1> USE DEF JobsOK, JobKinds, Ats
<1>1. CASE KeepsJobs
  <2>1. JobsOK'
    <3>1. CASE jobs' = jobs
      BY <3>1 DEF FInv
    <3>2. CASE jobs' = [j \in Jobs |-> [jobs[j] EXCEPT !.here = FALSE]]
      BY <3>2 DEF FInv
    <3> QED BY <1>1, <3>1, <3>2 DEF KeepsJobs
  <2>2. \A j \in Jobs : jobs'[j].kind = jobs[j].kind /\ jobs'[j].at = jobs[j].at
    BY <1>1 DEF FInv, KeepsJobs
  <2> QED BY <1>1, <2>1, <2>2 DEF FInv, KeepsJobs, Flashing
<1>2. ASSUME NEW j \in Jobs, NEW kind \in JobKinds, NEW at \in Ats, Begins(j, kind, at),
             frameFeedPaused' => frameFeedPaused
      PROVE  FInv'
  <2>1. jobs[j].at = "idle" /\ jobs' = [jobs EXCEPT ![j] = [kind |-> kind, at |-> at, here |-> TRUE, ok |-> FALSE]]
    BY <1>2 DEF Begins
  <2>2. JobsOK'
    BY <2>1 DEF FInv
  <2>3. \A i \in Jobs : i # j => jobs'[i] = jobs[i]
    BY <2>1 DEF FInv
  <2>4. ~Flashing(j)
    BY <2>1 DEF Flashing
  <2> QED BY <1>2, <2>2, <2>3, <2>4 DEF FInv, Flashing
<1>3. ASSUME NEW j \in Jobs, NEW at \in Ats, At(j, at), ~Flashing(j), frameFeedPaused' = frameFeedPaused
      PROVE  FInv'
  <2>1. JobsOK'
    BY <1>3 DEF FInv, At
  <2>2. \A i \in Jobs : i # j => jobs'[i] = jobs[i]
    BY <1>3 DEF FInv, At
  <2> QED BY <1>3, <2>1, <2>2 DEF FInv, Flashing
<1>4. ASSUME NEW j \in Jobs, FlashResolved(j) \/ FlashGoesOn(j) \/ FlashWritten(j)
      PROVE  FInv'
  <2>1. JobsOK' /\ \A i \in Jobs : i # j => jobs'[i] = jobs[i]
    BY <1>4 DEF FInv, FlashResolved, FlashGoesOn, FlashWritten, At, Stages, pauseFrameFeed
  <2>2. jobs'[j].kind = jobs[j].kind /\ jobs'[j].at \in {"fetching", "picking", "writing", "cleanup"}
    BY <1>4 DEF FInv, FlashResolved, FlashGoesOn, FlashWritten, At, Stages, pauseFrameFeed
  <2>3. frameFeedPaused' => frameFeedPaused \/ Flashing(j)'
    BY <1>4, <2>2 DEF FlashResolved, FlashGoesOn, FlashWritten, Flashing, pauseFrameFeed
  <2> QED BY <2>1, <2>2, <2>3 DEF FInv, Flashing
<1>5. ASSUME NEW j \in Jobs, FlashDisconnected(j) \/ FlashFails(j)
      PROVE  FInv'
  <2>1. At(j, "over") /\ frameFeedPaused' = FALSE
    BY <1>5 DEF FlashDisconnected, FlashFails, Ends, pauseFrameFeed
  <2>2. JobsOK'
    BY <2>1 DEF FInv, At
  <2> QED BY <2>1, <2>2 DEF FInv
<1>6. ASSUME NEW j \in Jobs, HandleBuild(j)
      PROVE  FInv'
  BY <1>2, <1>6 DEF HandleBuild
<1>7. ASSUME NEW j \in Jobs, HandleFlash(j)
      PROVE  FInv'
  <2>1. PICK at \in {"over", "closing", "resolving"} : Begins(j, "flash", at)
    BY <1>7 DEF HandleFlash, pauseFrameFeed
  <2>2. frameFeedPaused' => frameFeedPaused
    BY <1>7 DEF HandleFlash, pauseFrameFeed
  <2> QED BY <1>2, <2>1, <2>2
<1>8. ASSUME NEW j \in Jobs, BuildEnds(j)
      PROVE  FInv'
  <2>1. At(j, "over") /\ ~Flashing(j) /\ frameFeedPaused' = frameFeedPaused
    BY <1>8 DEF BuildEnds, Flashing
  <2> QED BY <1>3, <2>1
<1>9. ASSUME NEW j \in Jobs, FlashClosed(j)
      PROVE  FInv'
  <2>1. At(j, "resolving") /\ ~Flashing(j) /\ frameFeedPaused' = frameFeedPaused
    BY <1>9 DEF FlashClosed, Flashing
  <2> QED BY <1>3, <2>1
<1>10. CASE UNCHANGED vars
  BY <1>1, <1>10 DEF vars, flasher, KeepsJobs
<1> QED BY <1>1, <1>4, <1>5, <1>6, <1>7, <1>8, <1>9, <1>10, StepsOfTheFlasher

\* The feed runs whenever no flash has begun to write, however the flashes before
\* failed or overlapped: for any number of them.
THEOREM TheFeedResumes == Spec => []FeedResumes
<1>1. Init => FInv
  <2>1. ASSUME Init PROVE jobs \in [Jobs -> [kind : JobKinds, at : Ats, here : BOOLEAN, ok : BOOLEAN]]
    BY <2>1 DEF Init, JobKinds, Ats
  <2> QED BY <2>1 DEF Init, FInv, JobsOK
<1>2. FInv /\ [Next]_vars => FInv'
  BY FeedStep
<1>3. FInv => FeedResumes
  BY DEF FInv, FeedResumes, Flashing
<1> QED BY <1>1, <1>2, <1>3, PTL DEF Spec
-----------------------------------------------------------------------------
(* The Console.  A call that was sent is on the transport it was made for.  *)

CmdNames == {"none", "fsd", "statusCompact", "status", "statusLive", "bleStatus"}
CallType ==
  [kind : Kinds \cup {"none"}, at : {"idle", "picking", "sent", "done"}, cmd : CmdNames,
   selected : TransportType, on : TransportType, gate : BOOLEAN, frames : BOOLEAN, info : BOOLEAN]
PictureOf(f, n, k, m) == [facts |-> f, frames |-> n, frameCount |-> k, messages |-> m]
IsPicture(p) == \E f, n, k, m : p = PictureOf(f, n, k, m)
Asked(k) == k.at = "sent" /\ k.kind \in {"command", "raw", "status", "live"}
Rightly(k) == Asked(k) => matchesSelectedTransport(k.selected, k.on)
AppInv ==
  /\ calls \in [Calls -> CallType] /\ \A c \in Calls : Rightly(calls[c])
  /\ selected \in MonitorTransportType /\ active \in TransportType
  /\ connecting \in TransportType \cup {"none"}
  /\ paused \in [frames : BOOLEAN, info : BOOLEAN]
  /\ IsPicture(app)

LEMMA ItsOwnTransport == \A type : matchesSelectedTransport(type, type)
BY DEF matchesSelectedTransport, isSerialFamily

LEMMA ClosingFacts ==
  ASSUME AppInv, NEW kind \in Kinds, NEW cmd \in CmdNames
  PROVE  /\ Closing(kind, cmd) \in CallType
         /\ Closing(kind, cmd).kind = kind /\ Closing(kind, cmd).at = "picking"
         /\ Closing(kind, cmd).selected = selected
<1>1. getCommandGate(cmd, app) \in BOOLEAN BY DEF getCommandGate
<1>2. selected \in TransportType /\ "unsupported" \in TransportType
  BY DEF AppInv, TransportType
<1>3. paused.frames \in BOOLEAN /\ paused.info \in BOOLEAN BY DEF AppInv
<1> QED BY <1>1, <1>2, <1>3 DEF Closing, CallType

\* What a step may make of one call.
Becomes(c, k) == k \in CallType /\ Rightly(k) /\ calls' = [calls EXCEPT ![c] = k]

LEMMA ProceedFacts ==
  ASSUME NEW c \in Calls, NEW call \in CallType, NEW on \in TransportType,
         matchesSelectedTransport(call.selected, on), Proceed(c, call, on)
  PROVE  \E k : Becomes(c, k)
<1> DEFINE done == [call EXCEPT !.at = "done"]
           gone == [call EXCEPT !.at = "sent", !.on = on]
<1>1. done \in CallType /\ Rightly(done) BY DEF CallType, Rightly, Asked
<1>2. gone \in CallType /\ Rightly(gone) BY DEF CallType, Rightly, Asked
<1>3. calls' = [calls EXCEPT ![c] = done] \/ calls' = [calls EXCEPT ![c] = gone]
  BY DEF Proceed
<1> QED BY <1>1, <1>2, <1>3 DEF Becomes

LEMMA EnsureFacts ==
  ASSUME AppInv, NEW c \in Calls, NEW call \in CallType, call.at = "picking",
         EnsureSharedTransportReady(c, call)
  PROVE  active' \in TransportType /\ \E k : Becomes(c, k)
<1>1. "http" \in TransportType /\ active \in TransportType
  BY DEF AppInv, TransportType, MonitorTransportType
<1>2. CASE call.selected = "http"
  BY <1>1, <1>2, ProceedFacts, ItsOwnTransport DEF EnsureSharedTransportReady
<1>3. CASE call.selected # "http" /\ matchesSelectedTransport(call.selected, active)
  BY <1>1, <1>3, ProceedFacts DEF EnsureSharedTransportReady
<1>4. CASE call.selected # "http" /\ ~matchesSelectedTransport(call.selected, active)
  <2>1. calls' = [calls EXCEPT ![c] = call] /\ active' = active
    BY <1>4 DEF EnsureSharedTransportReady, CallType
  <2> QED BY <1>1, <2>1 DEF Becomes, Rightly, Asked
<1> QED BY <1>2, <1>3, <1>4

\* The handlers and what they wait for, one call at a time.
LEMMA ConsoleCalls ==
  ASSUME AppInv, NEW c \in Calls, Console(c)
  PROVE  /\ active' \in TransportType /\ \E k : Becomes(c, k)
         /\ selected' = selected /\ connecting' = connecting
         /\ paused' \in [frames : BOOLEAN, info : BOOLEAN]
<1>1. ASSUME NEW kind \in Kinds, NEW cmd \in CmdNames,
             EnsureSharedTransportReady(c, Closing(kind, cmd))
      PROVE  active' \in TransportType /\ \E k : Becomes(c, k)
  BY <1>1, ClosingFacts, EnsureFacts
<1>2. {"command", "raw", "live", "status", "ble"} \subseteq Kinds
      /\ {"fsd", "statusCompact", "status", "statusLive", "bleStatus"} \subseteq CmdNames
  BY DEF Kinds, CmdNames
<1>3. ASSUME NEW cmd \in {"fsd", "statusCompact"}, RunCommand(c, cmd) \/ RunRawConsoleCommand(c, cmd)
      PROVE  /\ active' \in TransportType /\ \E k : Becomes(c, k)
             /\ selected' = selected /\ connecting' = connecting /\ paused' = paused
  BY <1>1, <1>2, <1>3 DEF RunCommand, RunRawConsoleCommand
<1>4. ASSUME ReadStatus(c)
      PROVE  /\ active' \in TransportType /\ \E k : Becomes(c, k)
             /\ selected' = selected /\ connecting' = connecting /\ paused' = paused
  BY <1>1, <1>2, <1>4 DEF ReadStatus
<1>5. ASSUME HandleBoardInfoFeedPausedChange(c)
      PROVE  /\ active' \in TransportType /\ \E k : Becomes(c, k)
             /\ selected' = selected /\ connecting' = connecting
             /\ paused' \in [frames : BOOLEAN, info : BOOLEAN]
  <2>1. paused' = [paused EXCEPT !.info = ~@] BY <1>5 DEF HandleBoardInfoFeedPausedChange
  <2>2. paused' \in [frames : BOOLEAN, info : BOOLEAN] BY <2>1 DEF AppInv
  <2> QED BY <1>1, <1>2, <1>5, <2>2 DEF HandleBoardInfoFeedPausedChange
<1>6. ASSUME BleConfig(c)
      PROVE  /\ active' = active /\ \E k : Becomes(c, k)
             /\ selected' = selected /\ connecting' = connecting /\ paused' = paused
  <2> DEFINE k == [Closing("ble", "bleStatus") EXCEPT !.at = "sent", !.on = "http"]
  <2>1. Closing("ble", "bleStatus") \in CallType /\ Closing("ble", "bleStatus").kind = "ble"
    BY <1>2, ClosingFacts
  <2>2. "http" \in TransportType BY DEF TransportType, MonitorTransportType
  <2>3. k \in CallType /\ k.kind = "ble" BY <2>1, <2>2 DEF CallType
  <2>4. calls' = [calls EXCEPT ![c] = k] BY <1>6 DEF BleConfig
  <2> HIDE DEF k
  <2>5. Becomes(c, k) BY <2>3, <2>4 DEF Becomes, Rightly, Asked
  <2> QED BY <1>6, <2>5 DEF BleConfig, link
<1>7. ASSUME Picked(c)
      PROVE  /\ active' \in TransportType /\ \E k : Becomes(c, k)
             /\ selected' = selected /\ connecting' = connecting /\ paused' = paused
  <2>1. calls[c] \in CallType /\ calls[c].selected \in TransportType BY DEF AppInv, CallType
  <2> QED BY <1>7, <2>1, ItsOwnTransport, ProceedFacts DEF Picked
<1>8. ASSUME NotPicked(c)
      PROVE  /\ active' = active /\ \E k : Becomes(c, k)
             /\ selected' = selected /\ connecting' = connecting /\ paused' = paused
  <2> DEFINE k == [calls[c] EXCEPT !.at = "done"]
  <2>1. k \in CallType /\ k.at = "done" BY DEF AppInv, CallType
  <2>2. calls' = [calls EXCEPT ![c] = k] BY <1>8 DEF NotPicked, AppInv
  <2> HIDE DEF k
  <2>3. Becomes(c, k) BY <2>1, <2>2 DEF Becomes, Rightly, Asked
  <2> QED BY <1>8, <2>3 DEF NotPicked, link
<1> QED BY <1>3, <1>4, <1>5, <1>6, <1>7, <1>8 DEF Console, AppInv

\* An answer ends its call; a command of the Controls is sent or refused.
LEMMA OtherCalls ==
  ASSUME AppInv, NEW c \in Calls,
         Answered(c) \/ \E cmd \in {"fsd", "statusCompact"} : RunControl(c, cmd)
  PROVE  /\ \E k : Becomes(c, k)
         /\ selected' = selected /\ active' = active /\ connecting' = connecting
         /\ paused' = paused
<1>1. CASE Answered(c)
  <2>1. /\ Done(c) /\ selected' = selected /\ active' = active /\ connecting' = connecting
        /\ paused' = paused
    BY <1>1, ZenonT(40) DEF Answered, CommandAnswered, RawAnswered, SystemAnswered, ControlAnswered, link
  <2> DEFINE k == [NotMade EXCEPT !.kind = calls[c].kind, !.at = "done"]
  <2>2. NotMade \in CallType
    BY DEF NotMade, CallType, CmdNames, TransportType, MonitorTransportType
  <2>3. k \in CallType /\ k.at = "done" BY <2>2 DEF AppInv, CallType
  <2>4. calls' = [calls EXCEPT ![c] = k] BY <2>1 DEF Done
  <2> HIDE DEF k
  <2> QED BY <2>1, <2>3, <2>4 DEF Becomes, Rightly, Asked
<1>2. ASSUME NEW cmd \in {"fsd", "statusCompact"}, RunControl(c, cmd)
      PROVE  /\ \E k : Becomes(c, k)
             /\ selected' = selected /\ active' = active /\ connecting' = connecting
             /\ paused' = paused
  <2> DEFINE gate == getCommandGate(cmd, ctx)
             call == [Closing("control", cmd) EXCEPT !.gate = gate, !.frames = FALSE]
             gone == [call EXCEPT !.at = "sent", !.on = active]
             refused == [call EXCEPT !.at = "done"]
  <2>1. Closing("control", cmd) \in CallType /\ Closing("control", cmd).kind = "control"
    BY ClosingFacts DEF Kinds, CmdNames
  <2>2. gate \in BOOLEAN BY DEF getCommandGate
  <2>3. active \in TransportType BY DEF AppInv
  <2>4. call \in CallType /\ call.kind = "control"
    <3> HIDE DEF gate
    <3> QED BY <2>1, <2>2 DEF CallType
  <2>5. calls' = [calls EXCEPT ![c] = gone] \/ calls' = [calls EXCEPT ![c] = refused]
    BY <1>2 DEF RunControl
  <2> HIDE DEF call
  <2>6. /\ gone \in CallType /\ gone.kind = "control"
        /\ refused \in CallType /\ refused.kind = "control"
    BY <2>3, <2>4 DEF CallType
  <2> HIDE DEF gone, refused
  <2>7. \E k : Becomes(c, k) BY <2>5, <2>6 DEF Becomes, Rightly, Asked
  <2> QED BY <1>2, <2>7 DEF RunControl
<1> QED BY <1>1, <1>2

\* A picture with a field replaced.
LEMMA PictureWith ==
  ASSUME NEW p, IsPicture(p), NEW x, NEW y
  PROVE  /\ IsPicture([p EXCEPT !.facts = x])
         /\ IsPicture([p EXCEPT !.messages = x]) /\ Feed([p EXCEPT !.messages = x]) = Feed(p)
         /\ IsPicture([p EXCEPT !.frames = x, !.frameCount = y])
<1>1. PICK f, n, k, m : p = PictureOf(f, n, k, m) BY DEF IsPicture
<1>2. [p EXCEPT !.facts = x] = PictureOf(x, n, k, m) BY <1>1 DEF PictureOf
<1>3. [p EXCEPT !.messages = x] = PictureOf(f, n, k, x) BY <1>1 DEF PictureOf
<1>4. [p EXCEPT !.frames = x, !.frameCount = y] = PictureOf(f, x, y, m)
  <2>1. [p EXCEPT !.frames = x] = PictureOf(f, x, k, m) BY <1>1 DEF PictureOf
  <2>2. [PictureOf(f, x, k, m) EXCEPT !.frameCount = y] = PictureOf(f, x, y, m) BY DEF PictureOf
  <2>3. [p EXCEPT !.frames = x, !.frameCount = y] = [[p EXCEPT !.frames = x] EXCEPT !.frameCount = y]
    BY Zenon
  <2> QED BY <2>1, <2>2, <2>3
<1>5. \A a, b, c, d : IsPicture(PictureOf(a, b, c, d)) /\ Feed(PictureOf(a, b, c, d)) = <<b, c>>
  BY DEF IsPicture, Feed, PictureOf
<1>6. Feed(p) = <<n, k>> BY <1>1, <1>5
<1>7. IsPicture([p EXCEPT !.facts = x]) BY <1>2, <1>5
<1>8. IsPicture([p EXCEPT !.messages = x]) /\ Feed([p EXCEPT !.messages = x]) = <<n, k>>
  BY <1>3, <1>5
<1>9. IsPicture([p EXCEPT !.frames = x, !.frameCount = y]) BY <1>4, <1>5
<1> QED BY <1>6, <1>7, <1>8, <1>9

\* A picture with the frames of another.
LEMMA PictureHeld ==
  ASSUME NEW p, IsPicture(p), NEW q, IsPicture(q)
  PROVE  /\ IsPicture([q EXCEPT !.frames = p.frames, !.frameCount = p.frameCount])
         /\ Feed([q EXCEPT !.frames = p.frames, !.frameCount = p.frameCount]) = Feed(p)
<1> DEFINE held == [q EXCEPT !.frames = p.frames, !.frameCount = p.frameCount]
<1> SUFFICES IsPicture(held) /\ Feed(held) = Feed(p) OBVIOUS
<1>1. PICK f, n, k, m : q = PictureOf(f, n, k, m) BY DEF IsPicture
<1>2. held = PictureOf(f, p.frames, p.frameCount, m)
  <2>1. [q EXCEPT !.frames = p.frames] = PictureOf(f, p.frames, k, m) BY <1>1 DEF PictureOf
  <2>2. [PictureOf(f, p.frames, k, m) EXCEPT !.frameCount = p.frameCount]
          = PictureOf(f, p.frames, p.frameCount, m)
    BY DEF PictureOf
  <2>3. held = [[q EXCEPT !.frames = p.frames] EXCEPT !.frameCount = p.frameCount] BY Zenon
  <2> QED BY <2>1, <2>2, <2>3
<1> HIDE DEF held
<1>3. Feed(held) = <<p.frames, p.frameCount>> BY <1>2 DEF Feed, PictureOf
<1> QED BY <1>2, <1>3 DEF IsPicture, Feed

\* What a payload and a line of the console do to a picture; a paused feed of
\* frames keeps both the frames and their number.
LEMMA PictureFacts ==
  ASSUME NEW p, IsPicture(p), NEW payload, NEW type, NEW held \in BOOLEAN, NEW quiet \in BOOLEAN
  PROVE  /\ IsPicture(applyBoardPayload(p, payload, held, quiet))
         /\ held => Feed(applyBoardPayload(p, payload, held, quiet)) = Feed(p)
         /\ IsPicture(appendBoardConsoleMessage(p, type, quiet))
         /\ Feed(appendBoardConsoleMessage(p, type, quiet)) = Feed(p)
<1> DEFINE next == reduceBoardPayload(p, payload)
           frozen == [next EXCEPT !.frames = p.frames, !.frameCount = p.frameCount]
           left == IF held THEN frozen ELSE next
           silent == [left EXCEPT !.messages = p.messages]
           told == IF quiet THEN silent ELSE left
<1>1. IsPicture(next)
  <2> DEFINE framed == [p EXCEPT !.frames = Newest(board.frames + 1, @, FeedCap), !.frameCount = @ + 1]
             noted == [p EXCEPT !.messages = Newest(payload, @, FeedCap)]
             reported == [p EXCEPT !.facts = Reported]
             anew == [EmptyPicture EXCEPT !.facts = Reported]
  <2>1. IsPicture(framed)
    <3>1. framed = [p EXCEPT !.frames = Newest(board.frames + 1, p.frames, FeedCap),
                            !.frameCount = p.frameCount + 1]
      BY Zenon
    <3> QED BY <3>1, PictureWith
  <2>2. IsPicture(noted) BY PictureWith
  <2>3. IsPicture(reported) BY PictureWith
  <2>4. IsPicture(anew)
    <3>1. EmptyPicture = PictureOf({}, <<>>, 0, <<>>) BY DEF EmptyPicture, PictureOf
    <3>2. IsPicture(EmptyPicture) BY <3>1 DEF IsPicture
    <3> QED BY <3>2, PictureWith
  <2>5. next = (CASE payload \in {"info", "error"} -> noted
                  [] payload = "frame" -> framed
                  [] payload = "compact" -> reported
                  [] payload = "snapshot" -> anew
                  [] OTHER -> p)
    BY Zenon DEF reduceBoardPayload
  <2> HIDE DEF next, framed, noted, reported, anew
  <2> QED BY <2>1, <2>2, <2>3, <2>4, <2>5
<1>2. applyBoardPayload(p, payload, held, quiet) = told BY Zenon DEF applyBoardPayload
<1> HIDE DEF next
<1>3. IsPicture(frozen) /\ Feed(frozen) = Feed(p) BY <1>1, PictureHeld
<1> HIDE DEF frozen
<1>4. IsPicture(left) /\ (held => Feed(left) = Feed(p)) BY <1>1, <1>3
<1> HIDE DEF left
<1>5. IsPicture(silent) /\ Feed(silent) = Feed(left) BY <1>4, PictureWith
<1> HIDE DEF silent
<1>6. IsPicture(told) /\ Feed(told) = Feed(left) BY <1>4, <1>5
<1> HIDE DEF told
<1>7. /\ IsPicture(appendBoardConsoleMessage(p, type, quiet))
      /\ Feed(appendBoardConsoleMessage(p, type, quiet)) = Feed(p)
  <2> DEFINE line == [p EXCEPT !.messages = Newest(type, @, ConsoleCap)]
  <2>1. IsPicture(line) /\ Feed(line) = Feed(p) BY PictureWith
  <2>2. appendBoardConsoleMessage(p, type, quiet) = IF quiet THEN p ELSE line
    BY Zenon DEF appendBoardConsoleMessage
  <2> HIDE DEF line
  <2> QED BY <2>1, <2>2
<1> QED BY <1>2, <1>4, <1>6, <1>7

Cleared == [EmptyPicture EXCEPT !.facts = app.facts]
Frozen == Quiet /\ paused'.frames /\ app' # Cleared => Feed(app') = Feed(app)

\* The answers are the only steps that may show a frame; a call of the Console
\* that is under way while all is quiet was begun with the feed paused.
LEMMA AnswersFreeze ==
  ASSUME AppInv, NEW c \in Calls, Answered(c)
  PROVE  IsPicture(app') /\ Frozen
<1>1. PICK ok \in BOOLEAN : \E payload :
        \/ CommandAnswered(c, ok, payload) \/ RawAnswered(c, ok, payload)
        \/ SystemAnswered(c, ok, payload) \/ ControlAnswered(c, ok, payload)
  BY DEF Answered
<1>2. PICK payload :
        \/ CommandAnswered(c, ok, payload) \/ RawAnswered(c, ok, payload)
        \/ SystemAnswered(c, ok, payload) \/ ControlAnswered(c, ok, payload)
  BY <1>1
<1> DEFINE told == applyBoardPayload(app, payload, calls[c].frames, calls[c].info)
<1>3. calls[c].at = "sent" /\ calls[c].info \in BOOLEAN /\ calls[c].frames \in BOOLEAN
  BY <1>2 DEF CommandAnswered, RawAnswered, SystemAnswered, ControlAnswered, AppInv, CallType
<1>4. Quiet /\ calls[c].kind # "control" => calls[c].frames
  BY <1>3 DEF Quiet, UnderWay
<1>5. IsPicture(told) /\ (calls[c].frames => Feed(told) = Feed(app))
  BY <1>3, PictureFacts DEF AppInv
<1>6. IsPicture(app) BY DEF AppInv
<1>7. CASE calls[c].kind # "control"
  <2>1. \/ app' = app \/ app' = told
        \/ \E p \in {app, told} : \E type :
             app' = appendBoardConsoleMessage(p, type, calls[c].info)
    BY <1>2, <1>7 DEF CommandAnswered, RawAnswered, SystemAnswered, ControlAnswered
  <2> HIDE DEF told
  <2>2. \A p \in {app, told} : \A type :
          /\ IsPicture(appendBoardConsoleMessage(p, type, calls[c].info))
          /\ Feed(appendBoardConsoleMessage(p, type, calls[c].info)) = Feed(p)
    BY <1>3, <1>5, <1>6, PictureFacts
  <2> QED BY <1>4, <1>5, <1>6, <1>7, <2>1, <2>2 DEF Frozen
<1>8. CASE calls[c].kind = "control"
  <2>1. app' = app
    BY <1>2, <1>8 DEF CommandAnswered, RawAnswered, SystemAnswered, ControlAnswered
  <2> QED BY <1>6, <2>1 DEF Frozen
<1> QED BY <1>7, <1>8

LEMMA AppStep ==
  ASSUME AppInv, [AppNext]_appVars
  PROVE  AppInv' /\ Frozen
<1>1. /\ selected \in MonitorTransportType /\ active \in TransportType
      /\ connecting \in TransportType \cup {"none"} /\ IsPicture(app)
      /\ "http" \in MonitorTransportType /\ {"http", "unsupported"} \subseteq TransportType
      /\ MonitorTransportType \subseteq TransportType /\ Selectable \subseteq MonitorTransportType
  BY DEF AppInv, TransportType, MonitorTransportType, Selectable
<1>2. ASSUME \/ calls' = calls
             \/ \E c \in Calls : \E k : Becomes(c, k),
             selected' \in MonitorTransportType, active' \in TransportType,
             connecting' \in TransportType \cup {"none"},
             paused' \in [frames : BOOLEAN, info : BOOLEAN], IsPicture(app')
      PROVE  AppInv'
  <2>1. calls' \in [Calls -> CallType] /\ \A c \in Calls : Rightly(calls'[c])
    BY <1>2 DEF AppInv, Becomes
  <2> QED BY <1>2, <2>1 DEF AppInv, Rightly, Asked
<1>3. ASSUME Feed(app') = Feed(app) PROVE Frozen BY <1>3 DEF Frozen
<1>4. ASSUME NEW c \in Calls, Console(c) PROVE AppInv' /\ Frozen
  <2>1. app' = app \/ \E type : app' = appendBoardConsoleMessage(app, type, paused.info)
    BY <1>4 DEF Console, RunCommand, RunRawConsoleCommand, ReadStatus,
                HandleBoardInfoFeedPausedChange, BleConfig, Picked, NotPicked
  <2>2. paused.info \in BOOLEAN BY DEF AppInv
  <2>3. IsPicture(app') /\ Feed(app') = Feed(app) BY <1>1, <2>1, <2>2, PictureFacts
  <2> QED BY <1>1, <1>2, <1>3, <1>4, <2>3, ConsoleCalls
<1>5. ASSUME NEW c \in Calls, Answered(c) PROVE AppInv' /\ Frozen
  <2>1. paused' \in [frames : BOOLEAN, info : BOOLEAN] BY <1>5, OtherCalls DEF AppInv
  <2> QED BY <1>1, <1>2, <1>5, <2>1, AnswersFreeze, OtherCalls
<1>6. ASSUME NEW c \in Calls, NEW cmd \in {"fsd", "statusCompact"}, RunControl(c, cmd)
      PROVE  AppInv' /\ Frozen
  <2>1. app' = app BY <1>6 DEF RunControl
  <2>2. paused' \in [frames : BOOLEAN, info : BOOLEAN] BY <1>6, OtherCalls DEF AppInv
  <2> QED BY <1>1, <1>2, <1>3, <1>6, <2>1, <2>2, OtherCalls
<1>7. CASE \/ \E type \in Selectable : Select(type)
           \/ ApplyConnection \/ \E picked \in BOOLEAN : ConnectionApplied(picked)
           \/ ApplyPreset \/ Disconnect
  <2>1. UNCHANGED <<calls, paused, app>>
    BY <1>7 DEF Select, ApplyConnection, ConnectionApplied, ApplyPreset, Disconnect
  <2>2. /\ selected' \in MonitorTransportType /\ active' \in TransportType
        /\ connecting' \in TransportType \cup {"none"}
    BY <1>1, <1>7 DEF Select, ApplyConnection, ConnectionApplied, ApplyPreset, Disconnect
  <2> QED BY <1>1, <1>2, <1>3, <2>1, <2>2 DEF AppInv
<1>8. CASE SetFrameFeedPaused
  <2>1. paused' \in [frames : BOOLEAN, info : BOOLEAN] BY <1>8 DEF SetFrameFeedPaused, AppInv
  <2> QED BY <1>1, <1>2, <1>3, <1>8, <2>1 DEF SetFrameFeedPaused, link
<1>9. CASE ClearMonitorFeed
  <2>1. app' = Cleared /\ UNCHANGED <<link, paused, calls>>
    BY <1>9 DEF ClearMonitorFeed, Cleared
  <2>2. IsPicture(app')
    <3>1. EmptyPicture = PictureOf({}, <<>>, 0, <<>>) BY DEF EmptyPicture, PictureOf
    <3>2. IsPicture(EmptyPicture) BY <3>1 DEF IsPicture
    <3>3. IsPicture([EmptyPicture EXCEPT !.facts = app.facts]) BY <3>2, PictureWith
    <3> QED BY <2>1, <3>3 DEF Cleared
  <2>3. Frozen BY <2>1 DEF Frozen
  <2> QED BY <1>1, <1>2, <2>1, <2>2, <2>3 DEF link, AppInv
<1>10. CASE \/ SaveFrameSnapshot \/ (\E kind \in {0, -1} : Exported(kind))
            \/ BoardChanges \/ UNCHANGED appVars
  <2>1. UNCHANGED <<link, app, paused, calls>>
    BY <1>10 DEF SaveFrameSnapshot, Exported, BoardChanges, appVars
  <2> QED BY <1>1, <1>2, <1>3, <2>1 DEF link, AppInv
<1> QED BY <1>4, <1>5, <1>6, <1>7, <1>8, <1>9, <1>10 DEF AppNext

LEMMA AppInit_AppInv == AppInit => AppInv
<1> SUFFICES ASSUME AppInit PROVE AppInv OBVIOUS
<1>1. NotMade \in CallType /\ ~Asked(NotMade)
  BY DEF NotMade, CallType, CmdNames, TransportType, MonitorTransportType, Asked
<1>2. calls \in [Calls -> CallType] /\ \A c \in Calls : Rightly(calls[c])
  BY <1>1 DEF AppInit, Rightly
<1>3. IsPicture(app) BY DEF AppInit, IsPicture, PictureOf, EmptyPicture
<1>4. paused \in [frames : BOOLEAN, info : BOOLEAN] BY DEF AppInit
<1> QED BY <1>2, <1>3, <1>4 DEF AppInit, AppInv, TransportType, MonitorTransportType

\* Whatever is selected, connected, picked or disconnected while a request of the
\* Console waits for its transport, it is sent on the one selected when it was made.
THEOREM RequestsGoWhereAsked == AppSpec => []SentWhereAsked
<1>1. AppInit => AppInv BY AppInit_AppInv
<1>2. AppInv /\ [AppNext]_appVars => AppInv' BY AppStep
<1>3. AppInv => SentWhereAsked BY DEF AppInv, Rightly, Asked, SentWhereAsked
<1> QED BY <1>1, <1>2, <1>3, PTL DEF AppSpec

\* Once every call of the Console under way was begun in the pause, nothing but the
\* user's own clearing changes the frames it shows or their number: for any number
\* of calls, any capacities and any answers.
THEOREM PausedFeedStandsStill == AppSpec => PauseFreezesOnceQuiet
<1>1. AppInit => AppInv BY AppInit_AppInv
<1>2. AppInv /\ [AppNext]_appVars => AppInv' BY AppStep
<1>3. AppInv /\ [AppNext]_appVars
        => [ (Quiet /\ paused'.frames /\ app' # [EmptyPicture EXCEPT !.facts = app.facts])
               => Feed(app') = Feed(app) ]_appVars
  BY AppStep DEF Frozen, Cleared
<1> QED BY <1>1, <1>2, <1>3, PTL DEF AppSpec, PauseFreezesOnceQuiet

-----------------------------------------------------------------------------
(* The store.  The record written last, or the last on its way, is what is *)
(* shown: a record already has the form sanitizeState gives it, because a  *)
(* list never outgrows its capacity.  Unless the record in IndexedDB could *)
(* not be read, the records to come, oldest first, and what is shown keep  *)
(* all of the one a reload finds, each what the ones before it hold.       *)

Record == {r \in [SavedLists -> Seq(Nat)] : \A l \in SavedLists : Len(r[l]) <= Cap[l]}
StoreInv ==
  /\ added \in Nat
  /\ shown \in Record \cup {Closed} /\ db \in Record \cup {Nothing} /\ local \in Record \cup {Nothing}
  /\ saves \in Seq(Record)
  /\ hydrated => shown # Closed
  /\ ~hydrated => saves = <<>>
  /\ (hydrated /\ saves # <<>>) => saves[Len(saves)] = shown
  /\ (hydrated /\ saves = <<>>) => (ended = "db" => db = shown) /\ (ended = "local" => local = shown)

LEMMA FirstFacts ==
  ASSUME NEW s \in Seq(Nat), NEW n \in Nat
  PROVE  /\ First(s, n) \in Seq(Nat) /\ Len(First(s, n)) <= n
         /\ Len(s) <= n => First(s, n) = s
<1> DEFINE m == IF Len(s) < n THEN Len(s) ELSE n
<1>1. m \in Nat /\ m <= Len(s) /\ m <= n /\ (Len(s) <= n => m = Len(s)) BY LenProperties
<1>2. First(s, n) = SubSeq(s, 1, m) BY DEF First
<1> HIDE DEF m
<1>3. SubSeq(s, 1, m) \in Seq(Nat) /\ Len(SubSeq(s, 1, m)) = m
  <2>1. \A i \in 1..m : s[i] \in Nat BY <1>1, LenProperties, ElementOfSeq
  <2>2. SubSeq(s, 1, m) \in Seq(Nat) /\ Len(SubSeq(s, 1, m)) = IF 1 <= m THEN m - 1 + 1 ELSE 0
    BY <1>1, <2>1, SubSeqProperties
  <2> QED BY <1>1, <2>2
<1> QED BY <1>1, <1>2, <1>3, SubSeqFull

\* What is read of a record, and what is written of it, is the record.
LEMMA SanitizedIsWhole ==
  ASSUME NEW r \in Record
  PROVE  sanitizeState(r) = r /\ r # Nothing
<1>1. \A l \in SavedLists : First(r[l], SaveCap[l]) = r[l]
  <2> SUFFICES ASSUME NEW l \in SavedLists PROVE First(r[l], SaveCap[l]) = r[l] OBVIOUS
  <2>1. r[l] \in Seq(Nat) /\ Len(r[l]) \in Nat /\ Len(r[l]) <= Cap[l] BY LenProperties DEF Record
  <2>2. Cap[l] \in Nat /\ SaveCap[l] \in Nat /\ Len(r[l]) <= SaveCap[l] BY <2>1, CapsAssumption
  <2> QED BY <2>1, <2>2, FirstFacts
<1>2. sanitizeState(r) = r BY <1>1 DEF sanitizeState, Record
<1>3. DOMAIN r = SavedLists /\ DOMAIN Nothing = {} /\ "archive" \in SavedLists
  BY DEF Record, Nothing, SavedLists
<1> QED BY <1>2, <1>3

LEMMA LoadsRecord ==
  ASSUME StoreInv, NEW fails
  PROVE  loadPersistedDiagnosticsState(fails) \in Record \cup {Nothing}
<1>1. \A r \in Record \cup {Nothing} : r = Nothing \/ (sanitizeState(r) = r /\ r \in Record)
  BY SanitizedIsWhole
<1> QED BY <1>1 DEF loadPersistedDiagnosticsState, readIndexedDbRecord, StoreInv

\* A record joins those on their way when it is what is shown from now on.
LEMMA SaveJoins ==
  ASSUME StoreInv, shown' \in Record, hydrated' => saves' = Append(saves, sanitizeState(shown')),
         ~hydrated' => ~hydrated /\ saves' = saves, UNCHANGED <<db, local, ended>>, added' \in Nat
  PROVE  StoreInv'
<1>1. sanitizeState(shown') = shown' /\ shown' # Closed
  <2>1. PICK r \in Record : r = shown' OBVIOUS
  <2>2. sanitizeState(r) = r /\ r # Nothing BY SanitizedIsWhole
  <2>3. sanitizeState(shown') = sanitizeState(r) BY <2>1
  <2> QED BY <2>1, <2>2, <2>3 DEF Closed
<1>2. CASE hydrated'
  <2>1. saves' = Append(saves, shown') BY <1>1, <1>2
  <2>2. saves \in Seq(Record) BY DEF StoreInv
  <2>3. /\ saves' \in Seq(Record) /\ saves' # <<>> /\ Len(saves') = Len(saves) + 1
        /\ saves'[Len(saves) + 1] = shown'
    BY <2>1, <2>2, AppendProperties
  <2> QED BY <1>1, <1>2, <2>3 DEF StoreInv, Record
<1>3. CASE ~hydrated' BY <1>1, <1>3 DEF StoreInv, Record
<1> QED BY <1>2, <1>3

LEMMA ShowKeepsStoreInv ==
  ASSUME StoreInv, NEW l \in SavedLists,
         Show(l, addEntry(shown[l], added, Cap[l]))
  PROVE  StoreInv'
<1>1. shown \in Record BY DEF StoreInv, Show
<1>2. shown[l] \in Seq(Nat) /\ <<added>> \in Seq(Nat) BY <1>1 DEF StoreInv, Record
<1>3. <<added>> \o shown[l] \in Seq(Nat) BY <1>2, ConcatProperties
<1> DEFINE list == addEntry(shown[l], added, Cap[l])
<1>4. list \in Seq(Nat) /\ Len(list) <= Cap[l]
  BY <1>3, CapsAssumption, FirstFacts DEF addEntry
<1>5. shown' = [shown EXCEPT ![l] = list] BY DEF Show
<1> HIDE DEF list
<1>6. shown' \in Record
  BY <1>1, <1>4, <1>5 DEF Record
<1>7. added' = added + 1 /\ added' \in Nat BY DEF Show, StoreInv
<1>8. /\ UNCHANGED <<hydrated, db, local, ended>>
      /\ saves' = IF hydrated THEN Append(saves, sanitizeState(shown')) ELSE saves
  BY DEF Show
<1> QED BY <1>6, <1>7, <1>8, SaveJoins

LEMMA StoreStep == StoreInv /\ [StoreNext]_storeVars => StoreInv'
<1> SUFFICES ASSUME StoreInv, [StoreNext]_storeVars PROVE StoreInv' OBVIOUS
<1>1. CASE Open
  <2>1. EmptyLists \in Record
    <3>1. <<>> \in Seq(Nat) /\ Len(<<>>) = 0 BY EmptySeq
    <3> QED BY <3>1, CapsAssumption DEF EmptyLists, Record
  <2> QED BY <1>1, <2>1 DEF Open, StoreInv
<1>2. ASSUME NEW fails \in BOOLEAN, hydrateDiagnostics(fails) PROVE StoreInv'
  <2>1. shown' \in Record
    BY <1>2, LoadsRecord DEF hydrateDiagnostics, StoreInv
  <2>2. /\ hydrated' = TRUE /\ saves' = Append(saves, sanitizeState(shown'))
        /\ UNCHANGED <<db, local, ended, added>>
    BY <1>2 DEF hydrateDiagnostics, live
  <2> QED BY <2>1, <2>2, SaveJoins DEF StoreInv
<1>3. CASE PushHistory
  BY <1>3, ShowKeepsStoreInv DEF PushHistory, addHistoryEntry, SavedLists
<1>4. CASE SaveSnapshot
  BY <1>4, ShowKeepsStoreInv DEF SaveSnapshot, addFrameSnapshot, SavedLists
<1>5. CASE PushArchive
  BY <1>5, ShowKeepsStoreInv DEF PushArchive, pushDiagnosticsArchive, SavedLists
<1>6. ASSUME NEW fails \in BOOLEAN, savePersistedDiagnosticsState(fails) PROVE StoreInv'
  <2>1. /\ saves # <<>> /\ saves' = Tail(saves) /\ UNCHANGED <<shown, hydrated, added>>
        /\ IF fails THEN saveToLocalStorage ELSE writeIndexedDbRecord
    BY <1>6 DEF savePersistedDiagnosticsState
  <2>2. saves \in Seq(Record) BY DEF StoreInv
  <2>3. /\ saves[1] \in Record /\ saves' \in Seq(Record) /\ Len(saves') = Len(saves) - 1
        /\ Len(saves) \in Nat \ {0}
        /\ \A i \in 1..Len(saves') : saves'[i] = saves[i + 1]
    BY <2>1, <2>2, HeadTailProperties, EmptySeq, ElementOfSeq
  <2>4. /\ db' \in Record \cup {Nothing} /\ local' \in Record \cup {Nothing}
        /\ (ended' = "db" => db' = saves[1]) /\ (ended' = "local" => local' = saves[1])
    BY <2>1, <2>3 DEF saveToLocalStorage, writeIndexedDbRecord, StoreInv
  <2>5. hydrated /\ saves' = <<>> => saves[1] = shown
    <3>1. saves' = <<>> => Len(saves') = 0 BY EmptySeq
    <3> QED BY <2>1, <2>3, <3>1 DEF StoreInv
  <2>6. hydrated /\ saves' # <<>> => saves'[Len(saves')] = shown
    <3> SUFFICES ASSUME hydrated, saves' # <<>> PROVE saves'[Len(saves')] = shown OBVIOUS
    <3>1. Len(saves') \in Nat \ {0} BY <2>3, EmptySeq
    <3>2. saves'[Len(saves')] = saves[Len(saves)] BY <2>3, <3>1
    <3> QED BY <2>1, <3>2 DEF StoreInv
  <2> QED BY <2>1, <2>3, <2>4, <2>5, <2>6 DEF StoreInv, Record
<1>7. CASE FeedChanges BY <1>7 DEF FeedChanges, kept, StoreInv, Record
<1>8. CASE \E fails \in BOOLEAN : saveLiveCanFramesToIndexedDb(fails)
  BY <1>8 DEF saveLiveCanFramesToIndexedDb, kept, StoreInv, Record
<1>9. CASE Close BY <1>9, EmptySeq DEF Close, StoreInv, Record
<1>10. CASE UNCHANGED storeVars BY <1>10 DEF storeVars, kept, StoreInv, Record
<1> QED BY <1>1, <1>2, <1>3, <1>4, <1>5, <1>6, <1>7, <1>8, <1>9, <1>10 DEF StoreNext

\* Once the saves are written, and the last of them reached IndexedDB, or localStorage
\* while IndexedDB holds no record, a reload restores what is shown: for lists of any
\* length, any number of entries and of reloads, and whatever failed before.
THEOREM GoodSavesAreRestored == StoreSpec => []ReloadRestores
<1>1. StoreInit => StoreInv BY EmptySeq DEF StoreInit, StoreInv
<1>2. StoreInv => ReloadRestores
  <2> SUFFICES ASSUME StoreInv, hydrated, saves = <<>>,
                      ended = "db" \/ (ended = "local" /\ db = Nothing)
               PROVE  loadPersistedDiagnosticsState(FALSE) = shown
    BY DEF ReloadRestores
  <2>1. shown \in Record BY DEF StoreInv
  <2>2. sanitizeState(shown) = shown /\ shown # Nothing BY <2>1, SanitizedIsWhole
  <2>3. db = shown \/ (db = Nothing /\ local = shown) BY DEF StoreInv
  <2> QED BY <2>2, <2>3 DEF loadPersistedDiagnosticsState, readIndexedDbRecord
<1> QED BY <1>1, <1>2, StoreStep, PTL DEF StoreSpec

\* What a reload finds is the record in IndexedDB, or the one in localStorage.
Found == IF db # Nothing THEN db ELSE local
LEMMA ReloadFinds == StoreInv => Reloaded = Found /\ Found \in Record \cup {Nothing}
<1> SUFFICES ASSUME StoreInv PROVE Reloaded = Found /\ Found \in Record \cup {Nothing} OBVIOUS
<1>1. Found \in Record \cup {Nothing} BY DEF Found, StoreInv
<1>2. Found = Nothing \/ sanitizeState(Found) = Found BY <1>1, SanitizedIsWhole
<1> QED BY <1>1, <1>2 DEF Reloaded, loadPersistedDiagnosticsState, readIndexedDbRecord, Found

\* A list that keeps one that keeps a third keeps the third.
LEMMA ListsKeepOnward ==
  ASSUME NEW C \in Nat, NEW a \in Seq(Nat), NEW b \in Seq(Nat), NEW c \in Seq(Nat),
         KeepsList(b, a, C), KeepsList(c, b, C)
  PROVE  KeepsList(c, a, C)
<1>1. PICK j \in 0..C : /\ Len(b) = IF j + Len(a) < C THEN j + Len(a) ELSE C
                        /\ \A i \in 1..Len(b) : i > j => b[i] = a[i - j]
  BY DEF KeepsList
<1>2. PICK k \in 0..C : /\ Len(c) = IF k + Len(b) < C THEN k + Len(b) ELSE C
                        /\ \A i \in 1..Len(c) : i > k => c[i] = b[i - k]
  BY DEF KeepsList
<1>3. Len(a) \in Nat /\ Len(b) \in Nat /\ Len(c) \in Nat BY LenProperties
<1> DEFINE m == IF j + k < C THEN j + k ELSE C
<1>4. m \in 0..C OBVIOUS
<1>5. Len(c) = IF m + Len(a) < C THEN m + Len(a) ELSE C BY <1>1, <1>2, <1>3
<1>6. ASSUME NEW i \in 1..Len(c), i > m PROVE c[i] = a[i - m]
  <2>1. m = j + k BY <1>5, <1>6, <1>3
  <2>2. i > k /\ i - k > j /\ i - k \in 1..Len(b) BY <1>2, <1>3, <1>6, <2>1
  <2>3. c[i] = b[i - k] BY <1>2, <2>2
  <2>4. b[i - k] = a[(i - k) - j] BY <1>1, <2>2
  <2>5. (i - k) - j = i - m BY <2>1, <1>3
  <2> QED BY <2>3, <2>4, <2>5
<1> HIDE DEF m
<1> QED BY <1>4, <1>5, <1>6 DEF KeepsList

\* A record keeps itself, and what one that it keeps keeps.
LEMMA RecordsKeep ==
  /\ \A r \in Record \cup {Nothing} : KeepsAll(r, r)
  /\ \A a, b, c \in Record \cup {Nothing} : KeepsAll(b, a) /\ KeepsAll(c, b) => KeepsAll(c, a)
<1>1. ASSUME NEW r \in Record, NEW l \in SavedLists PROVE KeepsList(r[l], r[l], Cap[l])
  <2>1. Len(r[l]) \in Nat /\ Len(r[l]) <= Cap[l] /\ Cap[l] \in Nat
    BY CapsAssumption, LenProperties DEF Record
  <2>2. /\ Len(r[l]) = IF 0 + Len(r[l]) < Cap[l] THEN 0 + Len(r[l]) ELSE Cap[l]
        /\ \A i \in 1..Len(r[l]) : i > 0 => r[l][i] = r[l][i - 0]
    BY <2>1
  <2>3. 0 \in 0..Cap[l] BY <2>1
  <2> QED BY <2>2, <2>3 DEF KeepsList
<1>2. ASSUME NEW a \in Record, NEW b \in Record, NEW c \in Record, NEW l \in SavedLists,
             KeepsList(b[l], a[l], Cap[l]), KeepsList(c[l], b[l], Cap[l])
      PROVE  KeepsList(c[l], a[l], Cap[l])
  <2>1. a[l] \in Seq(Nat) /\ b[l] \in Seq(Nat) /\ c[l] \in Seq(Nat) /\ Cap[l] \in Nat
    BY CapsAssumption DEF Record
  <2> QED BY <1>2, <2>1, ListsKeepOnward
<1> QED BY <1>1, <1>2, SanitizedIsWhole DEF KeepsAll

\* A list with an entry added keeps the list.
LEMMA AddedKeeps ==
  ASSUME NEW C \in Nat, NEW old \in Seq(Nat), NEW e \in Nat, Len(old) <= C
  PROVE  KeepsList(addEntry(old, e, C), old, C)
<1> DEFINE s == <<e>> \o old
           m == IF Len(s) < C THEN Len(s) ELSE C
           k == IF C = 0 THEN 0 ELSE 1
<1>1. /\ s \in Seq(Nat) /\ Len(s) = 1 + Len(old) /\ Len(old) \in Nat
      /\ \A i \in 1..Len(s) : i > 1 => s[i] = old[i - 1]
  <2>1. <<e>> \in Seq(Nat) /\ Len(<<e>>) = 1 OBVIOUS
  <2> QED BY <2>1, ConcatProperties, LenProperties
<1>2. addEntry(old, e, C) = SubSeq(s, 1, m) BY DEF addEntry, First
<1> HIDE DEF s
<1>3. m \in Nat /\ m <= Len(s) /\ m <= C BY <1>1
<1>4. /\ Len(SubSeq(s, 1, m)) = m
      /\ \A i \in 1..m : SubSeq(s, 1, m)[i] = s[i]
  <2> HIDE DEF m
  <2>1. \A i \in 1..m : s[i] \in Nat BY <1>1, <1>3, ElementOfSeq
  <2>2. 1 \in Int /\ m \in Int BY <1>3
  <2>3. /\ Len(SubSeq(s, 1, m)) = IF 1 <= m THEN m - 1 + 1 ELSE 0
        /\ \A i \in 1..m - 1 + 1 : SubSeq(s, 1, m)[i] = s[1 + i - 1]
    BY <2>1, <2>2, SubSeqProperties
  <2> QED BY <1>3, <2>3
<1>5. k \in 0..C /\ m = IF k + Len(old) < C THEN k + Len(old) ELSE C BY <1>1
<1>6. ASSUME NEW i \in 1..m, i > k PROVE s[i] = old[i - k] BY <1>1, <1>6
<1> HIDE DEF m, k
<1>7. \A i \in 1..m : i > k => SubSeq(s, 1, m)[i] = old[i - k] BY <1>4, <1>6
<1> QED BY <1>2, <1>4, <1>5, <1>7 DEF KeepsList

\* What is shown keeps the records to come, each of them those before it, and all
\* of them the record a reload finds.
Chained ==
  /\ hydrated => KeepsAll(shown, Found)
  /\ \A i \in 1..Len(saves) : /\ KeepsAll(saves[i], Found)
                              /\ hydrated => KeepsAll(shown, saves[i])
                              /\ \A j \in 1..Len(saves) : i <= j => KeepsAll(saves[j], saves[i])
KeepInv == StoreInv /\ (failedLoad \/ Chained)

\* A record that is shown from now on and joins those to come keeps them, when it
\* keeps what was shown before or none is to come.
LEMMA JoinsTheChain ==
  ASSUME StoreInv, StoreInv', shown' \in Record, hydrated', saves' = Append(saves, shown'),
         UNCHANGED <<db, local>>, KeepsAll(shown', Found),
         \A i \in 1..Len(saves) : /\ KeepsAll(saves[i], Found) /\ KeepsAll(shown', saves[i])
                                  /\ \A j \in 1..Len(saves) : i <= j => KeepsAll(saves[j], saves[i])
  PROVE  Chained'
<1> DEFINE n == Len(saves)
<1>1. saves \in Seq(Record) BY DEF StoreInv
<1>2. /\ n \in Nat /\ Len(saves') = n + 1 /\ saves'[n + 1] = shown'
      /\ \A i \in 1..n : saves'[i] = saves[i]
  BY <1>1, AppendProperties, LenProperties
<1>3. Found' = Found BY DEF Found
<1>4. KeepsAll(shown', shown') BY RecordsKeep
<1> HIDE DEF n
<1>5. ASSUME NEW i \in 1..Len(saves') PROVE i = n + 1 \/ i \in 1..n BY <1>2
<1>6. ASSUME NEW i \in 1..Len(saves')
      PROVE  /\ KeepsAll(saves'[i], Found) /\ KeepsAll(shown', saves'[i])
             /\ \A j \in 1..Len(saves') : i <= j => KeepsAll(saves'[j], saves'[i])
  <2>1. CASE i = n + 1
    <3>1. \A j \in 1..Len(saves') : i <= j => j = n + 1 BY <1>2, <2>1
    <3> QED BY <1>2, <1>4, <2>1, <3>1
  <2>2. CASE i \in 1..n
    <3>1. saves'[i] = saves[i] BY <1>2, <2>2
    <3>2. KeepsAll(saves[i], Found) /\ KeepsAll(shown', saves[i]) BY <2>2 DEF n
    <3>3. ASSUME NEW j \in 1..Len(saves'), i <= j PROVE KeepsAll(saves'[j], saves'[i])
      <4>1. CASE j = n + 1 BY <1>2, <3>1, <3>2, <4>1
      <4>2. CASE j \in 1..n BY <1>2, <2>2, <3>1, <3>3, <4>2 DEF n
      <4> QED BY <1>5, <4>1, <4>2
    <3> QED BY <3>1, <3>2, <3>3
  <2> QED BY <1>5, <2>1, <2>2
<1> QED BY <1>3, <1>6 DEF Chained

\* What is shown with an entry added keeps what was shown.
LEMMA ShowKeeps ==
  ASSUME KeepInv, StoreInv', NEW l \in SavedLists, Show(l, addEntry(shown[l], added, Cap[l]))
  PROVE  KeepInv' /\ Found' = Found
<1>1. shown \in Record /\ added \in Nat BY DEF KeepInv, StoreInv, Show
<1> DEFINE list == addEntry(shown[l], added, Cap[l])
<1>2. KeepsList(list, shown[l], Cap[l])
  <2>1. shown[l] \in Seq(Nat) /\ Len(shown[l]) <= Cap[l] /\ Cap[l] \in Nat
    BY <1>1, CapsAssumption DEF Record
  <2> QED BY <1>1, <2>1, AddedKeeps
<1>3. /\ shown' = [shown EXCEPT ![l] = list] /\ UNCHANGED <<hydrated, db, local, failedLoad>>
      /\ saves' = IF hydrated THEN Append(saves, sanitizeState(shown')) ELSE saves
  BY DEF Show
<1> HIDE DEF list
<1>4. shown' # Nothing /\ shown' \in Record
  <2>1. shown' # Nothing
    <3>1. DOMAIN shown' = SavedLists /\ DOMAIN Nothing = {} /\ l \in SavedLists
      BY <1>1, <1>3 DEF Record, Nothing
    <3> QED BY <3>1
  <2> QED BY <2>1 DEF StoreInv, Closed
<1>5. KeepsAll(shown', shown)
  <2>1. KeepsAll(shown, shown) /\ shown # Nothing BY <1>1, RecordsKeep, SanitizedIsWhole
  <2>2. ASSUME NEW m \in SavedLists PROVE KeepsList(shown'[m], shown[m], Cap[m])
    <3>1. KeepsList(shown[m], shown[m], Cap[m]) BY <2>1 DEF KeepsAll
    <3>2. shown'[m] = IF m = l THEN list ELSE shown[m] BY <1>1, <1>3 DEF Record
    <3> QED BY <1>2, <3>1, <3>2
  <2> QED BY <1>4, <2>2 DEF KeepsAll
<1>6. sanitizeState(shown') = shown'
  <2>1. PICK r \in Record : r = shown' BY <1>4
  <2> QED BY <2>1, SanitizedIsWhole
<1>7. Found' = Found BY <1>3 DEF Found
<1>8. CASE failedLoad BY <1>3, <1>7, <1>8 DEF KeepInv
<1>9. CASE ~failedLoad /\ hydrated
  <2>1. Chained /\ StoreInv BY <1>9 DEF KeepInv
  <2>2. Found \in Record \cup {Nothing} BY <2>1, ReloadFinds
  <2>3. \A i \in 1..Len(saves) : saves[i] \in Record BY <2>1, ElementOfSeq DEF StoreInv
  <2>4. \A r \in Record \cup {Nothing} : KeepsAll(shown, r) => KeepsAll(shown', r)
    BY <1>1, <1>4, <1>5, RecordsKeep
  <2>5. KeepsAll(shown', Found) BY <1>9, <2>1, <2>2, <2>4 DEF Chained
  <2>6. \A i \in 1..Len(saves) : KeepsAll(shown', saves[i]) BY <1>9, <2>1, <2>3, <2>4 DEF Chained
  <2>7. Chained'
    BY <1>3, <1>4, <1>6, <1>9, <2>1, <2>5, <2>6, JoinsTheChain DEF Chained
  <2> QED BY <1>7, <2>7 DEF KeepInv
<1>10. CASE ~failedLoad /\ ~hydrated
  <2>1. saves' = <<>> /\ ~hydrated' BY <1>3, <1>10 DEF KeepInv, StoreInv
  <2> QED BY <1>7, <2>1, EmptySeq DEF KeepInv, Chained
<1> QED BY <1>8, <1>9, <1>10

\* A step keeps the invariant, and what a reload finds after it keeps what it found.
LEMMA KeepStep ==
  KeepInv /\ [StoreNext]_storeVars => KeepInv' /\ (~failedLoad => KeepsAll(Found', Found))
<1> SUFFICES ASSUME KeepInv, [StoreNext]_storeVars
             PROVE  KeepInv' /\ (~failedLoad => KeepsAll(Found', Found))
  OBVIOUS
<1>1. StoreInv /\ StoreInv' /\ Found \in Record \cup {Nothing} BY StoreStep, ReloadFinds DEF KeepInv
<1>2. KeepsAll(Found, Found) BY <1>1, RecordsKeep
<1>3. CASE Open \/ Close
  <2>1. saves' = <<>> /\ ~hydrated' BY <1>1, <1>3 DEF Open, Close, StoreInv
  <2>2. Found' = Found BY <1>3 DEF Open, Close, Found
  <2> QED BY <1>1, <1>2, <2>1, <2>2, EmptySeq DEF KeepInv, Chained
<1>4. ASSUME NEW fails \in BOOLEAN, hydrateDiagnostics(fails)
      PROVE  KeepInv' /\ KeepsAll(Found', Found)
  <2> DEFINE persisted == loadPersistedDiagnosticsState(fails)
             lists == IF persisted = Nothing THEN shown ELSE persisted
  <2>1. /\ shown' = lists /\ hydrated' = TRUE /\ failedLoad' = (fails /\ db # Nothing)
        /\ saves' = Append(saves, sanitizeState(lists)) /\ UNCHANGED <<db, local>>
        /\ shown # Closed /\ ~hydrated
    BY <1>4 DEF hydrateDiagnostics
  <2>2. Found' = Found BY <2>1 DEF Found
  <2>3. saves = <<>> BY <1>1, <2>1 DEF StoreInv
  <2>4. lists \in Record BY <1>1, <2>1, LoadsRecord DEF StoreInv
  <2>5. sanitizeState(lists) = lists
    <3> HIDE DEF lists
    <3> QED BY <2>4, SanitizedIsWhole
  <2>6. ~failedLoad' => persisted = Found
    <3>1. ~failedLoad' => readIndexedDbRecord(fails) = db BY <2>1 DEF readIndexedDbRecord
    <3>2. Found = Nothing \/ sanitizeState(Found) = Found BY <1>1, SanitizedIsWhole
    <3> QED BY <3>1, <3>2 DEF loadPersistedDiagnosticsState, Found
  <2>7. ~failedLoad' => KeepsAll(lists, Found)
    <3>1. Found = Nothing => KeepsAll(lists, Found) BY DEF KeepsAll
    <3> QED BY <1>2, <2>6, <3>1
  <2> HIDE DEF lists
  <2>8. ~failedLoad' => Chained'
    <3>1. Len(saves) = 0 BY <2>3, EmptySeq
    <3> QED BY <1>1, <2>1, <2>4, <2>5, <2>7, <3>1, JoinsTheChain
  <2> QED BY <1>1, <1>2, <2>2, <2>8 DEF KeepInv
<1>5. CASE PushHistory \/ SaveSnapshot \/ PushArchive
  <2>1. CASE PushHistory
    BY <1>1, <1>2, <2>1, ShowKeeps DEF PushHistory, addHistoryEntry, SavedLists
  <2>2. CASE SaveSnapshot
    BY <1>1, <1>2, <2>2, ShowKeeps DEF SaveSnapshot, addFrameSnapshot, SavedLists
  <2>3. CASE PushArchive
    BY <1>1, <1>2, <2>3, ShowKeeps DEF PushArchive, pushDiagnosticsArchive, SavedLists
  <2> QED BY <1>5, <2>1, <2>2, <2>3
<1>6. ASSUME NEW fails \in BOOLEAN, savePersistedDiagnosticsState(fails)
      PROVE  KeepInv' /\ (~failedLoad => KeepsAll(Found', Found))
  <2>1. /\ saves # <<>> /\ saves' = Tail(saves) /\ UNCHANGED <<shown, hydrated, failedLoad>>
        /\ IF fails THEN saveToLocalStorage ELSE writeIndexedDbRecord
    BY <1>6 DEF savePersistedDiagnosticsState
  <2>2. /\ Len(saves') = Len(saves) - 1 /\ Len(saves) \in Nat \ {0}
        /\ \A i \in 1..Len(saves') : saves'[i] = saves[i + 1]
        /\ saves[1] \in Record
    BY <1>1, <2>1, HeadTailProperties, EmptySeq, ElementOfSeq DEF StoreInv
  <2>3. Found' = Found \/ Found' = saves[1]
    <3>1. saves[1] # Nothing BY <2>2, SanitizedIsWhole
    <3> QED BY <2>1, <3>1 DEF saveToLocalStorage, writeIndexedDbRecord, Found
  <2>4. CASE failedLoad BY <1>1, <2>1, <2>4 DEF KeepInv
  <2>5. CASE ~failedLoad
    <3>1. Chained BY <2>5 DEF KeepInv
    <3>2. KeepsAll(Found', Found) BY <1>2, <2>2, <2>3, <3>1 DEF Chained
    <3>3. ASSUME NEW i \in 1..Len(saves')
          PROVE  /\ KeepsAll(saves'[i], Found')
                 /\ hydrated' => KeepsAll(shown', saves'[i])
                 /\ \A j \in 1..Len(saves') : i <= j => KeepsAll(saves'[j], saves'[i])
      <4>1. i + 1 \in 1..Len(saves) /\ saves'[i] = saves[i + 1] /\ 1 \in 1..Len(saves) /\ 1 <= i + 1
        BY <2>2
      <4>2. KeepsAll(saves'[i], Found') BY <2>3, <3>1, <4>1 DEF Chained
      <4>3. hydrated' => KeepsAll(shown', saves'[i]) BY <2>1, <3>1, <4>1 DEF Chained
      <4>4. ASSUME NEW j \in 1..Len(saves'), i <= j PROVE KeepsAll(saves'[j], saves'[i])
        <5>1. j + 1 \in 1..Len(saves) /\ saves'[j] = saves[j + 1] /\ i + 1 <= j + 1 BY <2>2, <4>4
        <5> QED BY <3>1, <4>1, <5>1 DEF Chained
      <4> QED BY <4>2, <4>3, <4>4
    <3>4. hydrated' => KeepsAll(shown', Found')
      BY <2>1, <2>2, <2>3, <3>1 DEF Chained
    <3> QED BY <1>1, <3>2, <3>3, <3>4 DEF KeepInv, Chained
  <2> QED BY <2>4, <2>5
<1>7. CASE FeedChanges \/ (\E fails \in BOOLEAN : saveLiveCanFramesToIndexedDb(fails)) \/ UNCHANGED storeVars
  <2>1. UNCHANGED kept BY <1>7 DEF FeedChanges, saveLiveCanFramesToIndexedDb, storeVars
  <2>2. UNCHANGED <<shown, hydrated, saves, db, local, failedLoad>> BY <2>1 DEF kept
  <2>3. Found' = Found /\ Chained' = Chained BY <2>2 DEF Found, Chained
  <2> QED BY <1>1, <1>2, <2>2, <2>3 DEF KeepInv
<1> QED BY <1>3, <1>4, <1>5, <1>6, <1>7 DEF StoreNext

\* No save takes an entry from the record a reload finds but for those that newer
\* ones push out, unless the page could not read the record in IndexedDB: for lists
\* of any length and capacity, any number of pages, and any failed saves.
THEOREM SavesAddToWhatWasFound == StoreSpec => SavesKeepEntries
<1>1. StoreInit => KeepInv
  BY EmptySeq DEF StoreInit, KeepInv, StoreInv, Chained
<1>2. KeepInv => StoreInv BY DEF KeepInv
<1>3. (StoreInv => Reloaded = Found)' BY ReloadFinds, PTL
<1>4. KeepInv /\ [StoreNext]_storeVars => KeepInv' /\ [~failedLoad => KeepsAll(Reloaded', Reloaded)]_storeVars
  BY <1>2, <1>3, ReloadFinds, KeepStep DEF KeepInv
<1> QED BY <1>1, <1>4, PTL DEF StoreSpec, SavesKeepEntries

-----------------------------------------------------------------------------
(* The session of the serial tools.                                         *)

\* The first that is wanted, by a set of places; 0 is none.
LEMMA LeastPlace ==
  ASSUME NEW n \in Nat, NEW I, I \subseteq 1..n
  PROVE  LET i == IF I # {} THEN Min(I) ELSE 0
         IN  /\ i \in 0..n /\ (i > 0 => i \in I) /\ (i = 0 => I = {})
<1>1. CASE I = {} BY <1>1
<1>2. CASE I # {}
  <2>1. I \subseteq Nat OBVIOUS
  <2>2. \E x \in I : \A y \in I : x <= y BY <1>2, <2>1, LeastOfNats
  <2>3. Min(I) \in I BY <2>2 DEF Min
  <2>4. Min(I) \in 1..n BY <2>3
  <2> QED BY <1>2, <2>3, <2>4
<1> QED BY <1>1, <1>2

Taken(c) == SelectInSeq(queue, LAMBDA e : Matches(Step(c).for, e))
Woken(e) == SelectInSeq(waiters, LAMBDA w : Matches(w.for, e))
Asleep(c) == SelectInSeq(waiters, LAMBDA w : w.client = c)
LEMMA Selected ==
  ASSUME NEW S, NEW T, queue \in Seq(S), waiters \in Seq(T), NEW c, NEW e
  PROVE  /\ Taken(c) \in 0..Len(queue)
         /\ Taken(c) = 0 => \A j \in 1..Len(queue) : ~Matches(Step(c).for, queue[j])
         /\ Woken(e) \in 0..Len(waiters)
         /\ Woken(e) = 0 => \A j \in 1..Len(waiters) : ~Matches(waiters[j].for, e)
         /\ Asleep(c) \in 0..Len(waiters)
         /\ Asleep(c) = 0 => \A j \in 1..Len(waiters) : waiters[j].client # c
<1>1. Len(queue) \in Nat /\ Len(waiters) \in Nat BY LenProperties
<1> DEFINE P == {i \in 1..Len(queue) : Matches(Step(c).for, queue[i])}
           Q == {i \in 1..Len(waiters) : Matches(waiters[i].for, e)}
           R == {i \in 1..Len(waiters) : waiters[i].client = c}
<1>2. /\ Taken(c) = IF P # {} THEN Min(P) ELSE 0
      /\ Woken(e) = IF Q # {} THEN Min(Q) ELSE 0
      /\ Asleep(c) = IF R # {} THEN Min(R) ELSE 0
  BY DEF Taken, Woken, Asleep, SelectInSeq
<1>3. Taken(c) \in 0..Len(queue) /\ (Taken(c) = 0 => P = {})
  <2> HIDE DEF P
  <2> QED BY <1>1, <1>2, LeastPlace DEF P
<1>4. Woken(e) \in 0..Len(waiters) /\ (Woken(e) = 0 => Q = {})
  BY <1>1, <1>2, LeastPlace
<1>5. Asleep(c) \in 0..Len(waiters) /\ (Asleep(c) = 0 => R = {})
  BY <1>1, <1>2, LeastPlace
<1> QED BY <1>3, <1>4, <1>5

LEMMA Removed ==
  ASSUME NEW S, NEW s \in Seq(S), NEW i \in 1..Len(s)
  PROVE  /\ RemoveAt(s, i) \in Seq(S) /\ Len(RemoveAt(s, i)) = Len(s) - 1
         /\ \A j \in 1..Len(s) - 1 : RemoveAt(s, i)[j] = IF j < i THEN s[j] ELSE s[j + 1]
<1>1. Len(s) \in Nat /\ \A j \in 1..Len(s) : s[j] \in S BY LenProperties, ElementOfSeq
<1> DEFINE a == SubSeq(s, 1, i - 1)
           b == SubSeq(s, i + 1, Len(s))
<1>2. /\ a \in Seq(S) /\ Len(a) = i - 1 /\ \A j \in 1..i - 1 : a[j] = s[j]
  <2>1. \A j \in 1..i - 1 : s[j] \in S BY <1>1
  <2>2. /\ a \in Seq(S) /\ Len(a) = IF 1 <= i - 1 THEN i - 1 - 1 + 1 ELSE 0
        /\ \A j \in 1..i - 1 - 1 + 1 : a[j] = s[1 + j - 1]
    BY <1>1, <2>1, SubSeqProperties
  <2> QED BY <1>1, <2>2
<1>3. /\ b \in Seq(S) /\ Len(b) = Len(s) - i /\ \A j \in 1..Len(s) - i : b[j] = s[i + j]
  <2>1. \A j \in i + 1..Len(s) : s[j] \in S BY <1>1
  <2>2. /\ b \in Seq(S) /\ Len(b) = IF i + 1 <= Len(s) THEN Len(s) - (i + 1) + 1 ELSE 0
        /\ \A j \in 1..Len(s) - (i + 1) + 1 : b[j] = s[i + 1 + j - 1]
    BY <1>1, <2>1, SubSeqProperties
  <2> QED BY <1>1, <2>2
<1>4. RemoveAt(s, i) = a \o b BY DEF RemoveAt
<1> HIDE DEF a, b
<1>5. /\ a \o b \in Seq(S) /\ Len(a \o b) = Len(a) + Len(b)
      /\ \A j \in 1..Len(a) + Len(b) : (a \o b)[j] = IF j <= Len(a) THEN a[j] ELSE b[j - Len(a)]
  BY <1>2, <1>3, ConcatProperties
<1>6. ASSUME NEW j \in 1..Len(s) - 1 PROVE (a \o b)[j] = IF j < i THEN s[j] ELSE s[j + 1]
  <2>1. CASE j < i BY <1>1, <1>2, <1>3, <1>5, <2>1
  <2>2. CASE ~(j < i)
    <3>1. j - (i - 1) \in 1..Len(s) - i /\ j \in 1..Len(a) + Len(b) BY <1>1, <1>2, <1>3, <2>2
    <3>2. (a \o b)[j] = b[j - (i - 1)] BY <1>1, <1>2, <1>5, <2>2, <3>1
    <3>3. b[j - (i - 1)] = s[i + (j - (i - 1))] BY <1>3, <3>1
    <3> QED BY <1>1, <2>2, <3>2, <3>3
  <2> QED BY <2>1, <2>2
<1> QED BY <1>1, <1>2, <1>3, <1>4, <1>5, <1>6

\* What is left of a queue are lines of the queue.
LEMMA DrainedFacts ==
  ASSUME NEW S, NEW q \in Seq(S), NEW t
  PROVE  Drained(q, t) \in Seq({q[j] : j \in 1..Len(q)})
<1> DEFINE Q == {q[j] : j \in 1..Len(q)}
           n == Len(q)
           Left(g, i) == IF i = 0 THEN <<>>
                         ELSE IF q[i].t = t THEN g[i - 1] ELSE Append(g[i - 1], q[i])
           IsLeft(g, k) == g = [i \in 0..k |-> Left(g, i)]
           left == CHOOSE g : IsLeft(g, n)
<1>1. n \in Nat BY LenProperties
<1>2. Drained(q, t) = left[n] BY DEF Drained
<1>3. \E g : IsLeft(g, n)
  <2> DEFINE Fails == {k \in 0..n : ~\E g : IsLeft(g, k)}
  <2> SUFFICES ASSUME Fails # {} PROVE FALSE BY <1>1
  <2>1. PICK k \in Fails : \A m \in Fails : k <= m
    <3>1. Fails \subseteq Nat BY <1>1
    <3> HIDE DEF Fails
    <3> QED BY <3>1, LeastOfNats
  <2>2. k \in 0..n /\ ~\E g : IsLeft(g, k) BY <2>1
  <2>3. CASE k = 0
    <3> DEFINE g == [i \in 0..0 |-> <<>>]
    <3>1. IsLeft(g, 0) OBVIOUS
    <3> HIDE DEF g, IsLeft
    <3> QED BY <2>2, <2>3, <3>1
  <2>4. CASE k # 0
    <3>1. k - 1 \notin Fails
      <4> HIDE DEF Fails
      <4> QED BY <1>1, <2>1, <2>2
    <3>2. k - 1 \in 0..n BY <1>1, <2>2, <2>4
    <3>3. PICK g : IsLeft(g, k - 1)
      <4> HIDE DEF IsLeft
      <4> QED BY <3>1, <3>2
    <3> DEFINE h == [i \in 0..k |-> IF i = k THEN Left(g, k) ELSE g[i]]
    <3>4. \A i \in 0..k - 1 : h[i] = g[i] /\ g[i] = Left(g, i)
      <4>1. \A i \in 0..k - 1 : h[i] = g[i] BY <1>1, <2>2, <2>4
      <4>2. \A i \in 0..k - 1 : g[i] = Left(g, i) BY <3>3
      <4> QED BY <4>1, <4>2
    <3>5. h[k] = Left(g, k) BY <1>1, <2>2
    <3>6. \A i \in 0..k : h[i] = Left(h, i)
      <4> SUFFICES ASSUME NEW i \in 0..k PROVE h[i] = Left(h, i) OBVIOUS
      <4>1. i # 0 => i - 1 \in 0..k - 1 BY <1>1, <2>2
      <4>2. i # 0 => h[i - 1] = g[i - 1] BY <3>4, <4>1
      <4>3. Left(h, i) = Left(g, i)
        <5> HIDE DEF h
        <5> QED BY <4>2
      <4>4. h[i] = Left(g, i)
        <5>1. i = k \/ i \in 0..k - 1 BY <1>1, <2>2
        <5> HIDE DEF h, Left
        <5> QED BY <3>4, <3>5, <5>1
      <4> HIDE DEF h, Left
      <4> QED BY <4>3, <4>4
    <3>7. h = [i \in 0..k |-> h[i]] OBVIOUS
    <3> HIDE DEF h
    <3>8. IsLeft(h, k)
      <4> HIDE DEF Left
      <4> QED BY <3>6, <3>7
    <3> HIDE DEF IsLeft
    <3> QED BY <2>2, <3>8
  <2> QED BY <2>3, <2>4
<1>4. IsLeft(left, n)
  <2> HIDE DEF IsLeft
  <2> QED BY <1>3
<1>5. \A i \in 0..n : left[i] = Left(left, i)
  <2> HIDE DEF left
  <2> QED BY <1>4
<1> HIDE DEF left
<1> DEFINE Bad == {i \in 0..n : left[i] \notin Seq(Q)}
<1>6. Bad = {}
  <2> SUFFICES ASSUME Bad # {} PROVE FALSE OBVIOUS
  <2>1. PICK i \in Bad : \A m \in Bad : i <= m
    <3>1. Bad \subseteq Nat BY <1>1
    <3> HIDE DEF Bad
    <3> QED BY <3>1, LeastOfNats
  <2>2. i \in 0..n /\ left[i] \notin Seq(Q) BY <2>1
  <2>3. i # 0 /\ left[i] = Left(left, i)
    <3>1. i = 0 => left[i] = <<>> BY <1>5, <2>2
    <3>2. <<>> \in Seq(Q) BY EmptySeq
    <3> QED BY <1>5, <2>2, <3>1, <3>2
  <2>4. left[i - 1] \in Seq(Q)
    <3>1. i - 1 \in 0..n /\ ~(i <= i - 1) BY <1>1, <2>2, <2>3
    <3>2. i - 1 \notin Bad
      <4> HIDE DEF Bad
      <4> QED BY <2>1, <3>1
    <3> QED BY <3>1, <3>2
  <2>5. q[i] \in Q BY <1>1, <2>2, <2>3
  <2> HIDE DEF Q
  <2>6. Append(left[i - 1], q[i]) \in Seq(Q) BY <2>4, <2>5, AppendProperties
  <2> QED BY <2>2, <2>3, <2>4, <2>6
<1>7. left[n] \in Seq(Q)
  <2> HIDE DEF Q
  <2> QED BY <1>1, <1>6
<1> QED BY <1>2, <1>7

Queues == (\E S : queue \in Seq(S)) /\ (\E T : waiters \in Seq(T))
WakeInv == Queues /\ NoLostWakeup

\* The three ways a step changes what is queued and who sleeps.
LEMMA QueueShrinks ==
  ASSUME WakeInv, waiters' = waiters, NEW U, queue' \in Seq(U),
         \A j \in 1..Len(queue') : \E i \in 1..Len(queue) : queue'[j] = queue[i]
  PROVE  WakeInv'
<1>1. PICK S, T : queue \in Seq(S) /\ waiters \in Seq(T) BY DEF WakeInv, Queues
<1>2. DOMAIN queue' = 1..Len(queue') /\ DOMAIN queue = 1..Len(queue) BY <1>1, LenProperties
<1>3. \A i \in DOMAIN waiters, j \in DOMAIN queue' : ~Matches(waiters[i].for, queue'[j])
  BY <1>2 DEF WakeInv, NoLostWakeup
<1>4. Queues' BY <1>1 DEF Queues
<1> QED BY <1>3, <1>4 DEF WakeInv, NoLostWakeup, Matches

LEMMA SleeperWoken ==
  ASSUME WakeInv, queue' = queue, NEW i \in DOMAIN waiters, waiters' = RemoveAt(waiters, i)
  PROVE  WakeInv'
<1>1. PICK S, T : queue \in Seq(S) /\ waiters \in Seq(T) BY DEF WakeInv, Queues
<1>2. Len(waiters) \in Nat /\ DOMAIN waiters = 1..Len(waiters) BY <1>1, LenProperties
<1>3. /\ waiters' \in Seq(T) /\ Len(waiters') = Len(waiters) - 1
      /\ \A j \in 1..Len(waiters) - 1 : waiters'[j] = IF j < i THEN waiters[j] ELSE waiters[j + 1]
  BY <1>1, <1>2, Removed
<1>4. DOMAIN waiters' = 1..Len(waiters) - 1 BY <1>3, LenProperties
<1> DEFINE was(j) == IF j < i THEN j ELSE j + 1
<1>5. \A j \in DOMAIN waiters' : was(j) \in DOMAIN waiters /\ waiters'[j] = waiters[was(j)]
  BY <1>2, <1>3, <1>4
<1>6. \A j, k \in DOMAIN waiters' : was(j) = was(k) => j = k BY <1>2, <1>4
<1> HIDE DEF was
<1>7. /\ \A j \in DOMAIN waiters', k \in DOMAIN queue : ~Matches(waiters'[j].for, queue[k])
      /\ \A j, k \in DOMAIN waiters' : waiters'[j].client = waiters'[k].client => j = k
  BY <1>5, <1>6 DEF WakeInv, NoLostWakeup
<1>8. Queues' BY <1>1, <1>3 DEF Queues
<1> QED BY <1>7, <1>8 DEF WakeInv, NoLostWakeup, Matches

LEMMA FallsAsleep ==
  ASSUME WakeInv, queue' = queue, NEW c, NEW for, ~Waiting(c),
         \A j \in 1..Len(queue) : ~Matches(for, queue[j]),
         waiters' = Append(waiters, [client |-> c, for |-> for])
  PROVE  WakeInv'
<1>1. PICK S, T : queue \in Seq(S) /\ waiters \in Seq(T) BY DEF WakeInv, Queues
<1> DEFINE w == [client |-> c, for |-> for]
           n == Len(waiters)
<1>2. waiters \in Seq(T \cup {w}) BY <1>1, SeqMonotonic
<1>3. /\ waiters' \in Seq(T \cup {w}) /\ Len(waiters') = n + 1
      /\ (\A i \in 1..n : waiters'[i] = waiters[i]) /\ waiters'[n + 1] = w
  BY <1>2, AppendProperties
<1>4. n \in Nat /\ DOMAIN waiters = 1..n /\ DOMAIN waiters' = 1..n + 1 /\ DOMAIN queue = 1..Len(queue)
  BY <1>1, <1>3, LenProperties
<1>5. w.client = c /\ w.for = for OBVIOUS
<1> HIDE DEF w
<1>6. \A i \in DOMAIN waiters' : i \in DOMAIN waiters \/ (i = n + 1 /\ waiters'[i] = w)
  BY <1>3, <1>4
<1>7. \A i \in DOMAIN waiters : waiters'[i] = waiters[i] /\ waiters[i].client # c
  BY <1>3, <1>4 DEF Waiting
<1>8. \A i \in DOMAIN waiters', j \in DOMAIN queue : ~Matches(waiters'[i].for, queue[j])
  BY <1>4, <1>5, <1>6, <1>7 DEF WakeInv, NoLostWakeup
<1>9. \A i, j \in DOMAIN waiters' : waiters'[i].client = waiters'[j].client => i = j
  BY <1>5, <1>6, <1>7 DEF WakeInv, NoLostWakeup
<1>10. Queues' BY <1>1, <1>3 DEF Queues
<1> QED BY <1>8, <1>9, <1>10 DEF WakeInv, NoLostWakeup, Matches

LEMMA WakeStep == WakeInv /\ [SessionNext]_sessionVars => WakeInv'
<1> SUFFICES ASSUME WakeInv, [SessionNext]_sessionVars PROVE WakeInv' OBVIOUS
<1>1. PICK S, T : queue \in Seq(S) /\ waiters \in Seq(T) BY DEF WakeInv, Queues
<1>2. /\ Len(queue) \in Nat /\ DOMAIN queue = 1..Len(queue)
      /\ Len(waiters) \in Nat /\ DOMAIN waiters = 1..Len(waiters)
  BY <1>1, LenProperties
<1>3. ASSUME UNCHANGED <<queue, waiters>> PROVE WakeInv'
  BY <1>3 DEF WakeInv, Queues, NoLostWakeup, Matches
<1>4. ASSUME NEW c \in Clients, WaitFor(c) PROVE WakeInv'
  <2>1. CASE Taken(c) > 0
    <3>1. queue' = RemoveAt(queue, Taken(c)) /\ waiters' = waiters
      BY <1>4, <2>1 DEF WaitFor, Taken
    <3>2. Taken(c) \in 1..Len(queue)
      <4>1. Taken(c) \in 0..Len(queue) BY <1>1, Selected
      <4> QED BY <1>2, <2>1, <4>1
    <3>3. /\ queue' \in Seq(S) /\ Len(queue') = Len(queue) - 1
          /\ \A j \in 1..Len(queue) - 1 : queue'[j] = IF j < Taken(c) THEN queue[j] ELSE queue[j + 1]
      BY <1>1, <3>1, <3>2, Removed
    <3>4. \A j \in 1..Len(queue') : \E i \in 1..Len(queue) : queue'[j] = queue[i]
      BY <1>2, <3>3
    <3> QED BY <3>1, <3>3, <3>4, QueueShrinks
  <2>2. CASE ~(Taken(c) > 0)
    <3>1. Taken(c) = 0 /\ \A j \in 1..Len(queue) : ~Matches(Step(c).for, queue[j])
      <4>1. Taken(c) \in 0..Len(queue) BY <1>1, Selected
      <4>2. Taken(c) = 0 BY <1>2, <2>2, <4>1
      <4> QED BY <1>1, <4>2, Selected
    <3>2. /\ waiters' = Append(waiters, [client |-> c, for |-> Step(c).for]) /\ queue' = queue
          /\ ~Waiting(c)
      BY <1>4, <2>2 DEF WaitFor, Taken, May
    <3> QED BY <3>1, <3>2, FallsAsleep
  <2> QED BY <2>1, <2>2
<1>5. ASSUME NEW c \in Clients, Timeout(c) PROVE WakeInv'
  <2>1. waiters' = RemoveAt(waiters, Asleep(c)) /\ queue' = queue /\ Waiting(c)
    BY <1>5 DEF Timeout, Asleep
  <2>2. /\ Asleep(c) \in 0..Len(waiters)
        /\ Asleep(c) = 0 => \A j \in 1..Len(waiters) : waiters[j].client # c
    BY <1>1, Selected
  <2>3. Asleep(c) \in DOMAIN waiters BY <1>2, <2>1, <2>2 DEF Waiting
  <2> QED BY <2>1, <2>3, SleeperWoken
<1>6. ASSUME NEW c \in Clients, drainType(c) PROVE WakeInv'
  <2>1. queue' = Drained(queue, Step(c).type) /\ waiters' = waiters BY <1>6 DEF drainType
  <2> DEFINE Q == {queue[j] : j \in 1..Len(queue)}
  <2>2. queue' \in Seq(Q) BY <1>1, <2>1, DrainedFacts
  <2>3. \A j \in 1..Len(queue') : queue'[j] \in Q
    <3> HIDE DEF Q
    <3> QED BY <2>2, ElementOfSeq
  <2>4. \A j \in 1..Len(queue') : \E i \in 1..Len(queue) : queue'[j] = queue[i] BY <2>3
  <2> HIDE DEF Q
  <2> QED BY <2>1, <2>2, <2>4, QueueShrinks
<1>7. CASE Receive
  <2> DEFINE e == Head(lines)
  <2>1. CASE Woken(e) > 0
    <3>1. waiters' = RemoveAt(waiters, Woken(e)) /\ queue' = queue BY <1>7, <2>1 DEF Receive, Woken
    <3>2. Woken(e) \in DOMAIN waiters
      <4> HIDE DEF e
      <4>1. Woken(e) \in 0..Len(waiters) BY <1>1, Selected
      <4> QED BY <1>2, <2>1, <4>1
    <3> HIDE DEF e
    <3> QED BY <3>1, <3>2, SleeperWoken
  <2>2. CASE ~(Woken(e) > 0)
    <3>1. queue' = Append(queue, e) /\ waiters' = waiters BY <1>7, <2>2 DEF Receive, Woken
    <3> HIDE DEF e
    <3>2. \A j \in DOMAIN waiters : ~Matches(waiters[j].for, e)
      <4>1. Woken(e) \in 0..Len(waiters) BY <1>1, Selected
      <4>2. Woken(e) = 0 BY <1>2, <2>2, <4>1
      <4> QED BY <1>1, <1>2, <4>2, Selected
    <3>3. queue \in Seq(S \cup {e}) BY <1>1, SeqMonotonic
    <3>4. /\ queue' \in Seq(S \cup {e}) /\ Len(queue') = Len(queue) + 1
          /\ \A j \in 1..Len(queue) : queue'[j] = queue[j]
          /\ queue'[Len(queue) + 1] = e
      BY <3>1, <3>3, AppendProperties
    <3>5. DOMAIN queue' = 1..Len(queue) + 1 BY <3>4, LenProperties
    <3>6. \A i \in DOMAIN waiters, j \in DOMAIN queue' : ~Matches(waiters[i].for, queue'[j])
      <4>1. \A j \in DOMAIN queue' : j \in DOMAIN queue \/ j = Len(queue) + 1 BY <1>2, <3>5
      <4> QED BY <1>2, <3>2, <3>4, <4>1 DEF WakeInv, NoLostWakeup
    <3>7. Queues' BY <1>1, <3>1, <3>4 DEF Queues
    <3> QED BY <3>1, <3>6, <3>7 DEF WakeInv, NoLostWakeup, Matches
  <2> QED BY <2>1, <2>2
<1>8. CASE \/ \E c \in Clients : \/ SendCommand(c) \/ Choose(c) \/ Deadline(c)
                                 \/ Check(c) \/ SkipUnless(c)
           \/ Execute \/ PrintsItself \/ Unplug \/ UNCHANGED sessionVars
  <2>1. UNCHANGED <<queue, waiters>>
    BY <1>8 DEF SendCommand, Choose, Deadline, Check, SkipUnless, Execute, PrintsItself, Unplug,
                sessionVars
  <2> QED BY <1>3, <2>1
<1> QED BY <1>4, <1>5, <1>6, <1>7, <1>8 DEF SessionNext, Run

\* No client sleeps through a line it asks for, and none sleeps twice: for any
\* scripts, any number of clients and whatever the board prints.
THEOREM SleepersAreWoken == SessionSpec => []NoLostWakeup
<1>1. SessionInit => WakeInv
  <2> SUFFICES ASSUME SessionInit PROVE WakeInv OBVIOUS
  <2>1. queue = <<>> /\ waiters = <<>> BY DEF SessionInit
  <2>2. Queues BY <2>1, EmptySeq DEF Queues
  <2>3. DOMAIN waiters = {} BY <2>1
  <2> QED BY <2>2, <2>3 DEF WakeInv, NoLostWakeup
<1>2. WakeInv => NoLostWakeup BY DEF WakeInv
<1> QED BY <1>1, <1>2, WakeStep, PTL DEF SessionSpec

-----------------------------------------------------------------------------
(* The lines of a text that comes in chunks                                 *)

\* What is cut off a text of the port: the lines that end in it, and the rest.
Text == Seq(Picture!Characters)
Parts(l, r) == [lines |-> l, rest |-> r]
Parted(t) == Picture!LinesOf(t)

\* Of what is left of a text nothing more is cut off.
RestIsWhole(t) ==
  /\ Parted(t).rest \in Text /\ Parted(t).lines \in Seq(Text)
  /\ Parted(t) = Parts(Parted(t).lines, Parted(t).rest)
  /\ Parted(Parted(t).rest) = Parts(<<>>, Parted(t).rest)

\* A text is cut as one of its beginnings, and then as what that leaves with the others.
CutsAnywhere(t) ==
  \A s \in Text :
    Parted(s \o t) = Parts(Parted(s).lines \o Parted(Parted(s).rest \o t).lines, Parted(Parted(s).rest \o t).rest)

RestFold == INSTANCE SeqInduction WITH P <- RestIsWhole, Op <- Picture!Cut
CutFold == INSTANCE SeqInduction WITH P <- CutsAnywhere, Op <- Picture!Cut

LEMMA PartedEquations ==
  /\ Parted(<<>>) = Parts(<<>>, <<>>)
  /\ \A S : \A s \in Seq(S), c \in S : Parted(Append(s, c)) = Picture!Cut(Parted(s), c)
<1> DEFINE base == Parts(<<>>, <<>>)
<1>1. \A s : RestFold!FoldLeft(Picture!Cut, base, s) = Parted(s)
  BY DEF Parted, Parts, Picture!LinesOf, Picture!FoldLeft, RestFold!FoldLeft, Picture!MapThenFoldSet,
         RestFold!MapThenFoldSet, Picture!Max, RestFold!Max
<1> HIDE DEF base
<1>2. /\ RestFold!FoldLeft(Picture!Cut, base, <<>>) = base
      /\ \A S : \A s \in Seq(S), c \in S :
           RestFold!FoldLeft(Picture!Cut, base, Append(s, c)) = Picture!Cut(RestFold!FoldLeft(Picture!Cut, base, s), c)
  BY RestFold!FoldEquations
<1> QED BY <1>1, <1>2 DEF base

LEMMA CutParts ==
  /\ \A l, r : Parts(l, r).lines = l /\ Parts(l, r).rest = r
  /\ \A l, r : Picture!Cut(Parts(l, r), Picture!Newline) = Parts(Append(l, r), <<>>)
  /\ \A l, r, c : c # Picture!Newline => Picture!Cut(Parts(l, r), c) = Parts(l, Append(r, c))
BY DEF Picture!Cut, Parts

LEMMA RestsAreWhole == \A t \in Text : RestIsWhole(t)
<1>1. RestIsWhole(<<>>)
  <2>1. <<>> \in Text /\ <<>> \in Seq(Text) BY EmptySeq DEF Text
  <2>2. Parted(<<>>).lines = <<>> /\ Parted(<<>>).rest = <<>> BY PartedEquations, CutParts
  <2> QED BY <2>1, <2>2, PartedEquations DEF RestIsWhole
<1>2. ASSUME NEW t \in Text, NEW c \in Picture!Characters, RestIsWhole(t) PROVE RestIsWhole(Append(t, c))
  <2> DEFINE l == Parted(t).lines
             r == Parted(t).rest
             u == Append(t, c)
  <2>1. r \in Text /\ l \in Seq(Text) /\ Parted(t) = Parts(l, r) /\ Parted(r) = Parts(<<>>, r)
    BY <1>2 DEF RestIsWhole
  <2>2. Parted(u) = Picture!Cut(Parted(t), c) BY PartedEquations DEF Text
  <2>3. Parted(Append(r, c)) = Picture!Cut(Parted(r), c) BY <2>1, PartedEquations DEF Text
  <2>4. <<>> \in Text /\ Append(l, r) \in Seq(Text) /\ Append(r, c) \in Text
    BY <2>1, EmptySeq, AppendProperties DEF Text
  <2> HIDE DEF l, r, u
  <2>5. CASE c = Picture!Newline
    <3>1. Parted(u) = Parts(Append(l, r), <<>>) BY <2>1, <2>2, <2>5, CutParts
    <3>2. Parted(u).lines = Append(l, r) /\ Parted(u).rest = <<>> BY <3>1, CutParts
    <3> QED BY <2>4, <3>1, <3>2, PartedEquations DEF RestIsWhole, u
  <2>6. CASE c # Picture!Newline
    <3>1. Parted(u) = Parts(l, Append(r, c)) BY <2>1, <2>2, <2>6, CutParts
    <3>2. Parted(u).lines = l /\ Parted(u).rest = Append(r, c) BY <3>1, CutParts
    <3>3. Parted(Append(r, c)) = Parts(<<>>, Append(r, c)) BY <2>1, <2>3, <2>6, CutParts
    <3> QED BY <2>1, <2>4, <3>1, <3>2, <3>3 DEF RestIsWhole, u
  <2> QED BY <2>5, <2>6
<1> QED BY <1>1, <1>2, RestFold!SequenceInduction DEF Text

LEMMA ConcatAppend ==
  ASSUME NEW S, NEW s \in Seq(S), NEW t \in Seq(S), NEW c \in S
  PROVE  /\ s \o Append(t, c) = Append(s \o t, c)
         /\ (s \o t) \in Seq(S)
<1>1. <<c>> \in Seq(S) OBVIOUS
<1>2. (s \o t) \in Seq(S) BY ConcatProperties
<1>3. Append(t, c) = t \o <<c>> BY AppendIsConcat
<1>4. Append(s \o t, c) = (s \o t) \o <<c>> BY <1>2, AppendIsConcat
<1>5. (s \o t) \o <<c>> = s \o (t \o <<c>>) BY <1>1, ConcatAssociative
<1> QED BY <1>2, <1>3, <1>4, <1>5

LEMMA CutsAreAnywhere == \A t \in Text : CutsAnywhere(t)
<1>1. CutsAnywhere(<<>>)
  <2> SUFFICES ASSUME NEW s \in Text
               PROVE  Parted(s \o <<>>) = Parts(Parted(s).lines \o Parted(Parted(s).rest \o <<>>).lines,
                                                Parted(Parted(s).rest \o <<>>).rest)
    BY DEF CutsAnywhere
  <2> DEFINE l == Parted(s).lines
             r == Parted(s).rest
  <2>1. r \in Text /\ l \in Seq(Text) /\ Parted(s) = Parts(l, r) /\ Parted(r) = Parts(<<>>, r)
    BY RestsAreWhole DEF RestIsWhole
  <2> HIDE DEF l, r
  <2>2. s \o <<>> = s /\ r \o <<>> = r /\ l \o <<>> = l BY <2>1, ConcatEmptySeq DEF Text
  <2>3. Parted(r).lines = <<>> /\ Parted(r).rest = r BY <2>1, CutParts
  <2> QED BY <2>1, <2>2, <2>3 DEF l, r
<1>2. ASSUME NEW t \in Text, NEW c \in Picture!Characters, CutsAnywhere(t) PROVE CutsAnywhere(Append(t, c))
  <2> SUFFICES ASSUME NEW s \in Text
               PROVE  Parted(s \o Append(t, c))
                        = Parts(Parted(s).lines \o Parted(Parted(s).rest \o Append(t, c)).lines,
                                Parted(Parted(s).rest \o Append(t, c)).rest)
    BY DEF CutsAnywhere
  <2> DEFINE l == Parted(s).lines
             r == Parted(s).rest
             u == s \o t
             v == r \o t
             m == Parted(v).lines
             q == Parted(v).rest
  <2>1. r \in Text /\ l \in Seq(Text) BY RestsAreWhole DEF RestIsWhole
  <2>2. u \in Text /\ s \o Append(t, c) = Append(u, c) BY ConcatAppend DEF Text
  <2>3. v \in Text /\ r \o Append(t, c) = Append(v, c)
    <3> HIDE DEF r
    <3> QED BY <2>1, ConcatAppend DEF Text
  <2>4. Parted(u) = Parts(l \o m, q) BY <1>2 DEF CutsAnywhere
  <2>5. q \in Text /\ m \in Seq(Text) /\ Parted(v) = Parts(m, q) BY <2>3, RestsAreWhole DEF RestIsWhole
  <2>6. Parted(Append(u, c)) = Picture!Cut(Parted(u), c) /\ Parted(Append(v, c)) = Picture!Cut(Parted(v), c)
    BY <2>2, <2>3, PartedEquations DEF Text
  <2> HIDE DEF u, v, m, q, l, r
  <2>7. Parted(Append(u, c)) = Parts(l \o Parted(Append(v, c)).lines, Parted(Append(v, c)).rest)
    <3>1. CASE c = Picture!Newline
      <4>1. Parted(Append(v, c)) = Parts(Append(m, q), <<>>) BY <2>5, <2>6, <3>1, CutParts
      <4>2. Parted(Append(u, c)) = Parts(Append(l \o m, q), <<>>) BY <2>4, <2>6, <3>1, CutParts
      <4>3. l \o Append(m, q) = Append(l \o m, q) BY <2>1, <2>5, ConcatAppend
      <4>4. Parted(Append(v, c)).lines = Append(m, q) /\ Parted(Append(v, c)).rest = <<>>
        BY ONLY <4>1, CutParts
      <4> QED BY ONLY <4>2, <4>3, <4>4
    <3>2. CASE c # Picture!Newline
      <4>1. Parted(Append(v, c)) = Parts(m, Append(q, c)) BY <2>5, <2>6, <3>2, CutParts
      <4>2. Parted(Append(u, c)) = Parts(l \o m, Append(q, c)) BY <2>4, <2>6, <3>2, CutParts
      <4>3. Parted(Append(v, c)).lines = m /\ Parted(Append(v, c)).rest = Append(q, c)
        BY ONLY <4>1, CutParts
      <4> QED BY ONLY <4>2, <4>3
    <3> QED BY <3>1, <3>2
  <2> QED BY <2>2, <2>3, <2>7 DEF l, r
<1> QED BY <1>1, <1>2, CutFold!SequenceInduction DEF Text

\* What the lines come to, the ones and then the others.
EventsOf(m) == Picture!FoldLeft(Picture!Pushed, <<>>, m)
EventKinds == {"ignore", "message", "parse-error"}
EventsAre(m) == EventsOf(m) \in Seq(EventKinds)
EventsAnywhere(m) == \A l \in Seq(Text) : EventsOf(l \o m) = EventsOf(l) \o EventsOf(m)

EventFold == INSTANCE SeqInduction WITH P <- EventsAre, Op <- Picture!Pushed
JoinFold == INSTANCE SeqInduction WITH P <- EventsAnywhere, Op <- Picture!Pushed

LEMMA EventsEquations ==
  /\ EventsOf(<<>>) = <<>>
  /\ \A S : \A m \in Seq(S), line \in S : EventsOf(Append(m, line)) = EventsOf(m) \o Picture!parseSerialLine(line)
<1>1. \A m : EventFold!FoldLeft(Picture!Pushed, <<>>, m) = EventsOf(m)
  BY DEF EventsOf, Picture!FoldLeft, EventFold!FoldLeft, Picture!MapThenFoldSet, EventFold!MapThenFoldSet,
         Picture!Max, EventFold!Max
<1>2. /\ EventFold!FoldLeft(Picture!Pushed, <<>>, <<>>) = <<>>
      /\ \A S : \A m \in Seq(S), line \in S :
           EventFold!FoldLeft(Picture!Pushed, <<>>, Append(m, line))
             = Picture!Pushed(EventFold!FoldLeft(Picture!Pushed, <<>>, m), line)
  BY EventFold!FoldEquations
<1> QED BY <1>1, <1>2 DEF Picture!Pushed

LEMMA LineEvents == \A line : Picture!parseSerialLine(line) \in Seq(EventKinds)
<1>1. ASSUME NEW S, NEW e \in S PROVE <<e>> \in Seq(S) OBVIOUS
<1>2. "ignore" \in EventKinds /\ "message" \in EventKinds /\ "parse-error" \in EventKinds BY DEF EventKinds
<1>3. /\ <<"ignore">> \in Seq(EventKinds) /\ <<"message">> \in Seq(EventKinds)
      /\ <<"parse-error">> \in Seq(EventKinds)
  BY <1>1, <1>2, Zenon
<1>4. <<>> \in Seq(EventKinds) BY EmptySeq
<1> QED BY <1>3, <1>4, Zenon DEF Picture!parseSerialLine

LEMMA EventsAreEvents == \A m \in Seq(Text) : EventsAre(m)
<1>1. EventsAre(<<>>) BY EventsEquations, EmptySeq DEF EventsAre
<1>2. ASSUME NEW m \in Seq(Text), NEW line \in Text, EventsAre(m) PROVE EventsAre(Append(m, line))
  <2>1. EventsOf(Append(m, line)) = EventsOf(m) \o Picture!parseSerialLine(line) BY EventsEquations
  <2> QED BY <1>2, <2>1, LineEvents, ConcatProperties DEF EventsAre
<1> QED BY <1>1, <1>2, EventFold!SequenceInduction

LEMMA EventsAreAnywhere == \A m \in Seq(Text) : EventsAnywhere(m)
<1>1. EventsAnywhere(<<>>)
  <2> SUFFICES ASSUME NEW l \in Seq(Text) PROVE EventsOf(l \o <<>>) = EventsOf(l) \o EventsOf(<<>>) BY DEF EventsAnywhere
  <2>1. EventsOf(l) \in Seq(EventKinds) BY EventsAreEvents DEF EventsAre
  <2>2. l \o <<>> = l /\ EventsOf(l) \o <<>> = EventsOf(l) BY <2>1, ConcatEmptySeq
  <2> QED BY <2>2, EventsEquations
<1>2. ASSUME NEW m \in Seq(Text), NEW line \in Text, EventsAnywhere(m) PROVE EventsAnywhere(Append(m, line))
  <2> SUFFICES ASSUME NEW l \in Seq(Text) PROVE EventsOf(l \o Append(m, line)) = EventsOf(l) \o EventsOf(Append(m, line))
    BY DEF EventsAnywhere
  <2> DEFINE e == Picture!parseSerialLine(line)
  <2>1. (l \o m) \in Seq(Text) /\ l \o Append(m, line) = Append(l \o m, line) BY ConcatAppend
  <2>2. EventsOf(Append(l \o m, line)) = EventsOf(l \o m) \o e /\ EventsOf(Append(m, line)) = EventsOf(m) \o e
    BY <2>1, EventsEquations
  <2>3. EventsOf(l) \in Seq(EventKinds) /\ EventsOf(m) \in Seq(EventKinds) /\ e \in Seq(EventKinds)
    BY EventsAreEvents, LineEvents DEF EventsAre
  <2>4. EventsOf(l \o m) = EventsOf(l) \o EventsOf(m) BY <1>2 DEF EventsAnywhere
  <2> HIDE DEF e
  <2>5. (EventsOf(l) \o EventsOf(m)) \o e = EventsOf(l) \o (EventsOf(m) \o e)
    BY ONLY <2>3, ConcatAssociative, SMTT(30)
  <2> QED BY <2>1, <2>2, <2>4, <2>5
<1> QED BY <1>1, <1>2, JoinFold!SequenceInduction

\* Wherever the port cuts a text of whatever length, the events are the same and the
\* same is left (parser.ts parseSerialChunk; LossesAreListed has it of the short ones).
THEOREM CutsAreInvisible ==
  \A text \in Seq(Picture!Characters) : \A k \in 0..Len(text) : Picture!CutAgrees(text, k)
<1> SUFFICES ASSUME NEW text \in Text, NEW k \in 0..Len(text) PROVE Picture!CutAgrees(text, k)
  BY DEF Text
<1> DEFINE a == SubSeq(text, 1, k)
           b == SubSeq(text, k + 1, Len(text))
           l == Parted(a).lines
           r == Parted(a).rest
           m == Parted(r \o b).lines
           q == Parted(r \o b).rest
<1>1. a \in Text /\ b \in Text /\ text = a \o b
  <2>1. Len(text) \in Nat /\ k \in Nat /\ k <= Len(text) BY LenProperties DEF Text
  <2>2. \A i \in 1..Len(text) : text[i] \in Picture!Characters BY ElementOfSeq DEF Text
  <2>3. a \in Text
    <3>1. \A i \in 1..k : text[i] \in Picture!Characters BY <2>1, <2>2
    <3> QED BY <2>1, <3>1, SubSeqProperties DEF Text
  <2>4. b \in Text
    <3>1. \A i \in k + 1..Len(text) : text[i] \in Picture!Characters BY <2>1, <2>2
    <3>2. k + 1 \in Int /\ Len(text) \in Int BY <2>1
    <3> QED BY <3>1, <3>2, SubSeqProperties DEF Text
  <2>5. text = a \o b
    <3>1. SubSeq(text, 1, Len(text)) = text BY SubSeqFull DEF Text
    <3>2. 1 \in 1..Len(text) + 1 /\ k \in 1 - 1..Len(text) /\ Len(text) \in k..Len(text) BY <2>1
    <3>3. SubSeq(text, 1, k) \o SubSeq(text, k + 1, Len(text)) = SubSeq(text, 1, Len(text))
      BY <3>2, ConcatAdjacentSubSeq DEF Text
    <3> QED BY <3>1, <3>3
  <2> QED BY <2>3, <2>4, <2>5
<1> HIDE DEF a, b
<1>2. l \in Seq(Text) /\ r \in Text BY <1>1, RestsAreWhole DEF RestIsWhole
<1>3. Parted(text) = Parts(l \o m, q) BY <1>1, CutsAreAnywhere DEF CutsAnywhere
<1>4. m \in Seq(Text)
  <2> HIDE DEF r
  <2>1. (r \o b) \in Text BY <1>1, <1>2, ConcatProperties DEF Text
  <2> QED BY <2>1, RestsAreWhole DEF RestIsWhole
<1> DEFINE first == Picture!parseSerialChunk(<<>>, a)
           second == Picture!parseSerialChunk(first.remainder, b)
           whole == Picture!parseSerialChunk(<<>>, text)
<1>5. first.remainder = r /\ first.events = EventsOf(l)
  <2>1. <<>> \o a = a BY <1>1, ConcatEmptySeq DEF Text
  <2> QED BY <2>1 DEF Picture!parseSerialChunk, Parted, EventsOf
<1>6. second.remainder = q /\ second.events = EventsOf(m)
  <2> HIDE DEF first
  <2> QED BY <1>5 DEF Picture!parseSerialChunk, Parted, EventsOf
<1>7. whole.remainder = q /\ whole.events = EventsOf(l \o m)
  <2>1. <<>> \o text = text BY ConcatEmptySeq DEF Text
  <2>2. whole.remainder = Parted(text).rest /\ whole.events = EventsOf(Parted(text).lines)
    BY <2>1 DEF Picture!parseSerialChunk, Parted, EventsOf
  <2> HIDE DEF whole, l, m, q
  <2> QED BY <1>3, <2>2, CutParts
<1>8. EventsOf(l \o m) = EventsOf(l) \o EventsOf(m)
  <2> HIDE DEF l, m
  <2> QED BY <1>2, <1>4, EventsAreAnywhere DEF EventsAnywhere
<1> QED BY <1>5, <1>6, <1>7, <1>8 DEF Picture!CutAgrees, a, b

-----------------------------------------------------------------------------
(* The client and its tools in one run                                      *)

\* The session of the tools, the handlers, the store and the tabs, run as MCClients
\* runs them, are each a behaviour of its own specification.
THEOREM ClientsImplement == ClientsSpec => SessionSpec /\ AppSpec /\ StoreSpec /\ Spec
<1>1. ClientsInit => SessionInit /\ AppInit /\ StoreInit /\ Init BY DEF ClientsInit
<1>2. ASSUME [ClientsNext]_<<program, sessionVars, appVars, storeVars, vars>>
      PROVE  [SessionNext]_sessionVars /\ [AppNext]_appVars /\ [StoreNext]_storeVars /\ [Next]_vars
  <2>1. CASE ToolsRun BY <2>1 DEF ToolsRun
  <2>2. CASE AppRuns BY <2>2 DEF AppRuns
  <2>3. CASE StoreRuns BY <2>3 DEF StoreRuns
  <2>4. CASE TabsRun BY <2>4 DEF TabsRun
  <2>5. CASE UNCHANGED <<program, sessionVars, appVars, storeVars, vars>> BY <2>5
  <2> QED BY <1>2, <2>1, <2>2, <2>3, <2>4, <2>5 DEF ClientsNext
<1> QED BY <1>1, <1>2, PTL DEF ClientsSpec, SessionSpec, AppSpec, StoreSpec, Spec

\* Whatever the user, the board and the links do: no waiting tool misses its line, a
\* request goes where it was asked to, a reload restores what a good save wrote and no
\* save of a page that read its record takes entries from it, the route is the one of
\* the address, the feed resumes, a pause freezes what is shown once it is quiet, every
\* risky command of a list was confirmed, and the views agree.
THEOREM ClientsAreRight ==
  ClientsSpec => /\ [](/\ NoLostWakeup /\ SentWhereAsked /\ ReloadRestores
                       /\ RouteFollowsHash /\ FeedResumes /\ ViewsAgree)
                 /\ PauseFreezesOnceQuiet /\ ConfirmationIsFresh /\ SavesKeepEntries
BY ClientsImplement, SleepersAreWoken, RequestsGoWhereAsked, GoodSavesAreRestored,
   SavesAddToWhatWasFound, TheRouteFollows, TheFeedResumes, PausedFeedStandsStill,
   ConfirmationsAreFresh, ViewsAlwaysAgree, PTL
===============================================================================
