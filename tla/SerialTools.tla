----------------------------- MODULE SerialTools -----------------------------
(***************************************************************************)
(* What the commands of debug.js (src/tools/commands) and the requests of  *)
(* the serial bridge do with a BoardSession: a script for each.            *)
(***************************************************************************)
EXTENDS BoardSession

\* Steps of a script
Tell(cmd) == [do |-> "send", cmd |-> cmd]
Await(for, slot) == [do |-> "await", for |-> for, slot |-> slot]
Listen(for) == [do |-> "listen", for |-> for, slot |-> "heard"]
Drain(t) == [do |-> "drain", type |-> t]
Expect(test) == [do |-> "check", test |-> test, stops |-> FALSE]
Require(test) == [do |-> "check", test |-> test, stops |-> TRUE]
If(test, steps) == <<[do |-> "skip unless", test |-> test, n |-> Len(steps)]>> \o steps
ByValue(when, slot, field, yes, no) ==
  [do |-> "choose", when |-> when, slot |-> slot, field |-> field, yes |-> yes, no |-> no]

Got(slot) == [is |-> "got", slot |-> slot]
Missed(slot) == [is |-> "missed", slot |-> slot]
Has(slot, field, value) == [is |-> "value", slot |-> slot, field |-> field, value |-> value]
Flipped(slot, from, field) == [is |-> "flipped", slot |-> slot, from |-> from, field |-> field]
IsA(slot, t) == [is |-> "type", slot |-> slot, value |-> t]

On(f) == Sets(f, TRUE)
Off(f) == Sets(f, FALSE)
AskStatus(slot) == <<Tell(Asks("status")), Await(TypesOf({"status"}), slot)>>
TellAndHear(cmd, slot) == <<Tell(cmd), Await(AckOf(cmd), slot)>>

\* Any line that a tool listens to until its time is up.
AllTypes == {"boot", "status", "pong", "ack", "log", "error", "frame", "noise"}
Anything == TypesOf(AllTypes)

-----------------------------------------------------------------------------
(* The commands of debug.js *)

\* debug.js sends the variant it was given before the command's own steps.
Command(variant, steps) == (IF variant THEN <<Tell(On("hw4"))>> ELSE <<>>) \o steps

\* das-drive: sendAndConfirm takes any ack or log for its answer, and a status
\* that has dasDriveEnabled, which none has.
sendAndConfirm(step) == <<step, Await(TypesOf({"ack", "log"}), "reply")>>

runDasDrive(action) ==
  AskStatus("before") \o <<Require(Got("before"))>> \o
  CASE action = "status" -> <<>>
    [] action = "set-cap" ->
         sendAndConfirm(Tell(On("cap"))) \o AskStatus("after") \o <<Expect(Has("after", "cap", "true"))>>
    [] action = "set-speed" ->
         sendAndConfirm(Tell(On("limit"))) \o AskStatus("after") \o <<Expect(Has("after", "limit", "true"))>>
    [] action = "toggle" ->
         sendAndConfirm(ByValue(Got("before"), "before", "drive", Off("drive"), On("drive")))
           \o AskStatus("mid") \o <<Require(Flipped("mid", "before", "drive"))>>
           \o sendAndConfirm(ByValue(Got("before"), "before", "drive", On("drive"), Off("drive")))
           \o AskStatus("back")
    [] action = "soak" ->
         TellAndHear(On("raw"), "raw") \o
         <<Tell(On("stream")), Listen(TypesOf({"frame"})), Tell(Off("stream")), Tell(Off("raw"))>>

\* test: a setting is turned on and off again, and put back to what the first
\* status said of it.
RoundTrip(f, restore) ==
  TellAndHear(On(f), "on") \o <<Expect(Got("on"))>>
    \o AskStatus("afterOn") \o <<Expect(Has("afterOn", f, "true"))>>
    \o TellAndHear(Off(f), "off") \o <<Expect(Got("off"))>>
    \o AskStatus("afterOff") \o <<Expect(Has("afterOff", f, "false"))>>
    \o (IF restore THEN <<ByValue(Got("base"), "base", f, On(f), Off(f))>> ELSE <<>>)

runTest(what, restore) ==
  AskStatus("base") \o
  CASE what = "fsd" -> RoundTrip("fsd", restore)
    [] what = "profile" ->
         TellAndHear(On("profile"), "on") \o <<Expect(Got("on"))>>
           \o AskStatus("after") \o <<Expect(Has("after", "profile", "true"))>>
           \o (IF restore THEN <<ByValue(Got("base"), "base", "profile", On("profile"), Off("profile"))>>
               ELSE <<>>)
    [] what = "listen" ->
         TellAndHear(On("fsd"), "on") \o <<Expect(Got("on"))>> \o AskStatus("after")
           \o If(Got("after"), <<Expect(Has("after", "fsd", "true"))>>)
           \o <<Tell(On("stream")), Listen(Anything), Tell(Off("stream"))>>

\* smoke: raw mode is turned off only where its ack was seen.
runSmoke ==
  <<Await(TypesOf({"boot"}), "boot")>>
    \o If(Missed("boot"), AskStatus("status") \o <<Expect(Got("status"))>>)
    \o <<Tell(Asks("ping")), Await(TypesOf({"pong"}), "pong"), Expect(Got("pong"))>>
    \o AskStatus("schema") \o <<Expect(Has("schema", "variant", "true"))>>
    \o <<Tell(On("stream")), Await(TypesOf({"ack"}), "streamAck"), Listen(TypesOf({"frame"})),
         Tell(Off("stream"))>>
    \o TellAndHear(On("raw"), "rawAck")
    \o If(Got("rawAck"), <<Tell(On("stream")), Tell(Off("stream")), Drain("frame"), Tell(Off("raw"))>>)
    \o AskStatus("pre") \o <<Tell(On("hw4"))>> \o AskStatus("post")
    \o <<Expect(Has("post", "hw4", "true"))>>
    \o <<ByValue(Has("pre", "hw4", "false"), "pre", "hw4", On("hw4"), Off("hw4"))>>

\* watch, scan and dump: the raw mode if asked, the stream, and back.
Capture(raw) ==
  (IF raw THEN TellAndHear(On("raw"), "raw") ELSE <<>>)
    \o <<Tell(On("stream")), Listen(Anything), Tell(Off("stream"))>>
    \o (IF raw THEN <<Tell(Off("raw"))>> ELSE <<>>)
runWatch(raw) == Capture(raw)
runScan(raw) == Capture(raw)
runDump(raw) == Capture(raw)
runBenchmark == Capture(FALSE)

\* vehicle: any ack or error is the answer of its command.
runVehicle == <<Tell(On("other")), Await(TypesOf({"ack", "error"}), "ack"), Expect(IsA("ack", "ack"))>>

\* drive-context: every status of its time is a sample, and none is a failure.
runDriveContext ==
  <<Tell(Asks("status")), Listen(TypesOf({"status"})), Expect(Got("heard"))>>

\* flash: after the write a new session looks at what the board said.
verifyBoot == <<Drain("log"), Drain("status")>>

\* replay: frames one after the other, nothing is waited for.
runReplay == <<Tell(On("other")), Tell(On("other"))>>

-----------------------------------------------------------------------------
(* The serial bridge: one script for a request. *)

GetStatus == <<Tell(Asks("status")), Await(TypesOf({"status", "boot"}), "reply")>>
PostCommand(cmd) ==
  <<Tell(cmd), Await([any |-> {"err", "status"}, ack |-> {cmd}], "reply")>>

-----------------------------------------------------------------------------
(* Properties *)

\* The tool has ended and the board has executed what it was sent.
Ended == /\ \A c \in Clients : Over(c)
         /\ wire = <<>> /\ writable

\* das-drive.js on its toggle: "Restore - we only flip momentarily so we don't
\* leave the board armed."  It asks nothing of a board that does not answer.
AllAnswered == \A c \in Clients : \A slot \in DOMAIN mem[c] : mem[c][slot] # NoLine
NotLeftArmed == Ended /\ AllAnswered => ("drive" \in settings) = ("drive" \in plan.began)
===============================================================================
