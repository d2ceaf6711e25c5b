---------------------------- MODULE MCBoardLinks ----------------------------
(***************************************************************************)
(* The two links of the board, checked in one run: the bytes of a client   *)
(* (CommandLink) and the frames of the car (CanDriver), each passed from   *)
(* an interrupt or another task to the main loop.  A behaviour is one of   *)
(* the two, chosen at first; the other stays in an initial state.          *)
(***************************************************************************)
EXTENDS CommandLink, CanDriver

CONSTANT Programs

VARIABLE program

-----------------------------------------------------------------------------
(* Bytes: a ring of three slots, so that two bytes fill it and every write  *)
(* can meet it full or wrapping, lines of at most three units, writes of at *)
(* most two, and a central that sends an unacceptable character, an         *)
(* overlong line and then a good one: a line, the one after it and the      *)
(* next, to see a loss end.  USB turns the radio off and on again.          *)

MCSize == 3
MCLineMax == 4
MCChunk == 2
MCBleLines == <<<<"bad", "nl">>,
                <<"open", "b", "b", "close", "nl">>,
                <<"open", "c", "close", "nl">>>>
MCUsbLines == <<<<"open", "ble:off", "close", "nl">>,
                <<"open", "ble:on", "close", "cr", "nl">>>>

-----------------------------------------------------------------------------
(* Frames: what flash held, and the commands of a client.                   *)

Factory == [raw |-> FALSE, variant |-> "HW4", fsd |-> FALSE, bit19 |-> FALSE,
            isa |-> FALSE, auto |-> TRUE, hwKnown |-> FALSE, oneShot |-> FALSE]
Fixed == [Factory EXCEPT !.auto = FALSE]

Client(commands, saved) == [commands |-> commands, saved |-> saved]
Idle == Client({}, Factory)
MCSessions == { Idle,
  Client({"fsd", "disable"}, Factory),
  Client({"variant", "disable"}, [Factory EXCEPT !.bit19 = TRUE]),
  Client({"can:raw", "isa-chime", "nag:mode"}, Fixed),
  Client({"singleshot", "canclock"}, [Fixed EXCEPT !.oneShot = TRUE]) }

-----------------------------------------------------------------------------
LinksInit ==
  /\ program \in Programs
  /\ Init /\ DriverInit
  /\ session \in IF program = "frames" THEN Sessions \ {Idle} ELSE {Idle}
  \* Which controllers answer does not matter to the bytes.
  /\ program = "bytes" => \A b \in Active : up[b]

BytesRun == program = "bytes" /\ Next /\ UNCHANGED <<program, driverVars>>
FramesRun == program = "frames" /\ DriverNext /\ UNCHANGED <<program, vars>>

\* The fairness of Spec and of FairSpec, each for the link that runs.
LinksSpec ==
  /\ LinksInit /\ [][BytesRun \/ FramesRun]_<<program, vars, driverVars>>
  /\ WF_vars(program = "bytes" /\ HostWrite)
  /\ WF_vars(program = "bytes" /\ Loop)
  /\ WF_driverVars(program = "frames" /\ DriverLoop /\ UNCHANGED session)
===============================================================================
