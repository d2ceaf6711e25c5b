------------------------------ MODULE MCCanLoop ------------------------------
(* Small instances of CanLoop: one tick stands for the 20 ms of a burst.    *)
EXTENDS CanLoop

MCPeriod == [b \in Beats |-> IF b = "sim" THEN 2 ELSE 1]
MCDelays == {1}

Client(commands, heard, needs) == [commands |-> commands, heard |-> heard, needs |-> needs]

\* Each session drives the features whose interplay one property is about.
MCLiveness == {
  Client({"summon", "summon:stop", "summon-inject", "apgate"}, {"ctrl"}, {}),
  Client({"burst", "precondition"}, {}, {"none"}) }
MCDisable == { Client({"burst", "disable"}, {"ctrl"}, {"none"}) }
===============================================================================
