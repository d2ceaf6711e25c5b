---------------------------- MODULE MCClientLink ----------------------------
(* Small instances of ClientLink. *)
EXTENDS ClientLink

User(use, adapters, calls, pieces) ==
  [use |-> use, adapters |-> adapters, calls |-> calls, pieces |-> pieces]
MCPlans == {
  User({"ble"}, 1, {"disconnect"}, 2),
  User({"ble"}, 2, {}, 1),
  User({"serial"}, 2, {"disconnect"}, 2),
  User({"http"}, 0, {"set", "disconnect", "readStatus", "badArguments"}, 0) }
MCSerial == { User({"serial"}, 1, {}, 0) }
===============================================================================
