---------------------------- MODULE BoardSession ----------------------------
(***************************************************************************)
(* One serial session with the board (src/tools/lib/session.js), shared by *)
(* the clients that use it: the code of a command of debug.js, or the HTTP *)
(* requests the serial bridge serves at the same time.  A client runs a    *)
(* script, a sequence of steps: an await ends a step.  The board is        *)
(* external: it executes its commands in order, when it can, and prints on *)
(* its own besides.                                                        *)
(***************************************************************************)
EXTENDS Integers, Sequences, SequencesExt, TLC

CONSTANTS
  Clients,
  MaxPrints, \* bound on the lines the board prints on its own
  Talks      \* [script : client -> steps, began : the settings that are true at first,
             \*  prints : what the board prints on its own, refuses : the settings it
             \*  refuses to change, unplugs : whether the cable may be pulled]

\* Settings of the board that the tools read or change, each as a truth:
\* "profile", "cap" and "limit" say that the value is the one the tool sets,
\* "hw4" that the variant is hw4, "other" any other command of a vehicle.
Settings == {"drive", "fsd", "profile", "cap", "limit", "hw4", "stream", "raw", "other"}
Sets(f, on) == [does |-> f, on |-> on]
Asks(question) == [does |-> question, on |-> TRUE]  \* "status" or "ping"

\* A line, and what a wait asks for: a type of line, or the ack of a command.
Line(t) == [t |-> t, cmd |-> Asks("status")]
AckLine(cmd) == [t |-> "ack", cmd |-> cmd]
NoLine == Line("none")
TypesOf(ts) == [any |-> ts, ack |-> {}]
AckOf(cmd) == [any |-> {}, ack |-> {cmd}]
Matches(for, e) == e.t \in for.any \/ (e.t = "ack" /\ e.cmd \in for.ack)

\* What a tool reads at the top level of a status line: sendStatus puts every
\* setting in a section of its own, so each reads as undefined.
Value(e, f) == "undefined"

VARIABLES
  plan,
  settings, \* the settings that are true
  wire,     \* commands on their way to the board
  lines,    \* lines on their way to the session
  printed,  \* number of lines the board printed on its own
  queue,    \* BoardSession._queue
  waiters,  \* BoardSession._waiters
  pc,       \* client -> the step of its script it is at
  mem,      \* client -> what its waits returned, by name
  failed,   \* clients that reported a failure
  writable  \* the port accepts writes

sessionVars == <<plan, settings, wire, lines, printed, queue, waiters, pc, mem, failed, writable>>

SessionInit ==
  /\ plan \in Talks
  /\ settings = plan.began
  /\ wire = <<>> /\ lines = <<>> /\ printed = 0
  /\ queue = <<>> /\ waiters = <<>>
  /\ pc = [c \in Clients |-> 1]
  /\ mem = [c \in Clients |-> <<>>]
  /\ failed = {} /\ writable = TRUE

Over(c) == pc[c] > Len(plan.script[c])
Step(c) == plan.script[c][pc[c]]
Waiting(c) == \E i \in DOMAIN waiters : waiters[i].client = c
Recall(c, slot) == IF slot \in DOMAIN mem[c] THEN mem[c][slot] ELSE NoLine

\* A client runs, until it waits.
May(c, do) == /\ ~Over(c) /\ ~Waiting(c) /\ Step(c).do = do
Goes(c, n) == pc' = [pc EXCEPT ![c] = @ + n]
Stops(c) == pc' = [pc EXCEPT ![c] = Len(plan.script[c]) + 1]

\* The conditions of the scripts, on what the waits of c returned.
Passes(test, c) ==
  CASE test.is = "got"     -> Recall(c, test.slot) # NoLine
    [] test.is = "missed"  -> Recall(c, test.slot) = NoLine
    [] test.is = "value"   -> Value(Recall(c, test.slot), test.field) = test.value
    [] test.is = "type"    -> Recall(c, test.slot).t = test.value
    [] test.is = "flipped" -> Value(Recall(c, test.slot), test.field) =
                                IF Value(Recall(c, test.from), test.field) = "true" THEN "false" ELSE "true"

-----------------------------------------------------------------------------
(* BoardSession *)

Put(cmd) == wire' = IF writable THEN Append(wire, cmd) ELSE wire

SendCommand(c) ==
  /\ May(c, "send") /\ Put(Step(c).cmd) /\ Goes(c, 1)
  /\ UNCHANGED <<plan, settings, lines, printed, queue, waiters, mem, failed, writable>>

\* send of one of two commands, by a value read before.
Choose(c) ==
  /\ May(c, "choose")
  /\ IF Passes(Step(c).when, c)
     THEN Put(IF Value(Recall(c, Step(c).slot), Step(c).field) = "true"
              THEN Step(c).yes ELSE Step(c).no)
     ELSE UNCHANGED wire
  /\ Goes(c, 1)
  /\ UNCHANGED <<plan, settings, lines, printed, queue, waiters, mem, failed, writable>>

\* A wait returns to client c: an await ends, a listening loop goes round.
Resolve(c, e) ==
  /\ mem' = [mem EXCEPT ![c] = (Step(c).slot :> e) @@ @]
  /\ Goes(c, IF Step(c).do = "await" THEN 1 ELSE 0)

\* waitFor: a line that came before is taken at once, the oldest first.
WaitForTheNext(c) ==                       \* mutant: what came before is not looked at
  /\ May(c, "await") \/ May(c, "listen")
  /\ waiters' = Append(waiters, [client |-> c, for |-> Step(c).for])
  /\ UNCHANGED <<plan, settings, wire, lines, printed, queue, pc, mem, failed, writable>>
WaitFor(c) ==
  /\ May(c, "await") \/ May(c, "listen")
  /\ LET i == SelectInSeq(queue, LAMBDA e : Matches(Step(c).for, e))
     IN IF i > 0
        THEN Resolve(c, queue[i]) /\ queue' = RemoveAt(queue, i) /\ UNCHANGED waiters
        ELSE /\ waiters' = Append(waiters, [client |-> c, for |-> Step(c).for])
             /\ UNCHANGED <<queue, pc, mem>>
  /\ UNCHANGED <<plan, settings, wire, lines, printed, failed, writable>>

\* _onRawLine and _dispatch: the first waiter that wants the line has it.
Receive ==
  /\ lines # <<>> /\ lines' = Tail(lines)
  /\ LET e == Head(lines)
         i == SelectInSeq(waiters, LAMBDA w : Matches(w.for, e))
     IN IF i > 0
        THEN Resolve(waiters[i].client, e) /\ waiters' = RemoveAt(waiters, i) /\ UNCHANGED queue
        ELSE queue' = Append(queue, e) /\ UNCHANGED <<waiters, pc, mem>>
  /\ UNCHANGED <<plan, settings, wire, printed, failed, writable>>

\* The timer of a wait: it returns nothing, and a listening loop ends.
TimeoutForgets(c) ==                       \* mutant: the promise is dropped, not resolved
  /\ Waiting(c)
  /\ waiters' = RemoveAt(waiters, SelectInSeq(waiters, LAMBDA w : w.client = c))
  /\ UNCHANGED <<plan, settings, wire, lines, printed, queue, pc, mem, failed, writable>>
Timeout(c) ==
  /\ Waiting(c)
  /\ waiters' = RemoveAt(waiters, SelectInSeq(waiters, LAMBDA w : w.client = c))
  /\ mem' = [mem EXCEPT ![c] = (Step(c).slot :> NoLine) @@ @]
  /\ Goes(c, 1)
  /\ UNCHANGED <<plan, settings, wire, lines, printed, queue, failed, writable>>

\* The deadline of a listening loop passes between two of its waits.
Deadline(c) ==
  /\ May(c, "listen") /\ Goes(c, 1)
  /\ UNCHANGED <<plan, settings, wire, lines, printed, queue, waiters, mem, failed, writable>>

\* What is left of a queue without the lines of a type.
Drained(q, t) ==
  LET left[i \in 0..Len(q)] == IF i = 0 THEN <<>>
                               ELSE IF q[i].t = t THEN left[i - 1] ELSE Append(left[i - 1], q[i])
  IN left[Len(q)]
drainType(c) ==
  /\ May(c, "drain")
  /\ queue' = Drained(queue, Step(c).type) /\ Goes(c, 1)
  /\ UNCHANGED <<plan, settings, wire, lines, printed, waiters, mem, failed, writable>>

-----------------------------------------------------------------------------
(* The rest of a script: verdicts, early returns and branches. *)

Check(c) ==
  /\ May(c, "check")
  /\ LET fine == Passes(Step(c).test, c)
     IN /\ failed' = IF fine THEN failed ELSE failed \cup {c}
        /\ IF ~fine /\ Step(c).stops THEN Stops(c) ELSE Goes(c, 1)
  /\ UNCHANGED <<plan, settings, wire, lines, printed, queue, waiters, mem, writable>>

SkipUnless(c) ==
  /\ May(c, "skip unless")
  /\ Goes(c, IF Passes(Step(c).test, c) THEN 1 ELSE Step(c).n + 1)
  /\ UNCHANGED <<plan, settings, wire, lines, printed, queue, waiters, mem, failed, writable>>

Run(c) == \/ SendCommand(c) \/ Choose(c) \/ WaitFor(c) \/ Deadline(c)
          \/ drainType(c) \/ Check(c) \/ SkipUnless(c)

-----------------------------------------------------------------------------
(* The board *)

\* It answers a question, or changes a setting and says so three times, or
\* refuses.
Execute ==
  /\ wire # <<>> /\ wire' = Tail(wire)
  /\ LET cmd == Head(wire)
     IN CASE cmd.does = "status" -> lines' = Append(lines, Line("status")) /\ UNCHANGED settings
          [] cmd.does = "ping" -> lines' = Append(lines, Line("pong")) /\ UNCHANGED settings
          [] cmd.does \in plan.refuses \ {"status", "ping"} -> lines' = Append(lines, Line("error")) /\ UNCHANGED settings
          [] OTHER ->
               /\ lines' = lines \o <<AckLine(cmd), Line("log"), Line("status")>>
               /\ settings' = IF cmd.on THEN settings \cup {cmd.does} ELSE settings \ {cmd.does}
  /\ UNCHANGED <<plan, printed, queue, waiters, pc, mem, failed, writable>>

\* A periodic status, a frame of the stream, the banner, or noise.
PrintsItself ==
  /\ printed < MaxPrints /\ printed' = printed + 1 /\ writable
  /\ \E t \in plan.prints : /\ t = "frame" => "stream" \in settings
                            /\ lines' = Append(lines, Line(t))
  /\ UNCHANGED <<plan, settings, wire, queue, waiters, pc, mem, failed, writable>>

\* The cable is pulled.
Unplug ==
  /\ plan.unplugs /\ writable /\ writable' = FALSE
  /\ wire' = <<>> /\ lines' = <<>>
  /\ UNCHANGED <<plan, settings, printed, queue, waiters, pc, mem, failed>>

SessionNext == \/ \E c \in Clients : Run(c) \/ Timeout(c)
        \/ Receive \/ Execute \/ PrintsItself \/ Unplug

SessionSpec == SessionInit /\ [][SessionNext]_sessionVars

\* The process runs its code and its timers; the board is free to be silent.
SessionFairness ==
  \A c \in Clients :
    WF_sessionVars(Run(c)) /\ WF_sessionVars(Timeout(c)) /\ WF_sessionVars(Deadline(c))
FairSessionSpec == SessionSpec /\ SessionFairness

-----------------------------------------------------------------------------
(* Properties *)

TypeOK ==
  /\ plan \in Talks /\ settings \subseteq Settings
  /\ printed \in 0..MaxPrints /\ failed \subseteq Clients /\ writable \in BOOLEAN
  /\ \A i \in DOMAIN waiters : waiters[i].client \in Clients

\* No client sleeps while a line it asks for lies in the queue, and no client
\* sleeps twice.
NoLostWakeup ==
  /\ \A i \in DOMAIN waiters, j \in DOMAIN queue : ~Matches(waiters[i].for, queue[j])
  /\ \A i, j \in DOMAIN waiters : waiters[i].client = waiters[j].client => i = j

\* Every client gets to the end of its script, however silent or talkative the
\* board is: a request of the bridge is answered, a tool ends.
EveryClientEnds == \A c \in Clients : <>Over(c)
===============================================================================
