---------------------------- MODULE MCNetworkPage ----------------------------
(* Model values for TLC: a router, a named printer before and after it was  *)
(* classified, and an address that was checked and never answered.          *)
EXTENDS NetworkPage

Host(alive, ports, type, name) ==
  [alive |-> alive, ports |-> ports, type |-> type, mac |-> alive, name |-> name]
Router  == Host(TRUE, {53}, "unknown", 2)
Untyped == Host(TRUE, {631}, "unknown", 1)
Printer == Host(TRUE, {631}, "printer", 1)
MCSights == {Router, Untyped, Printer, Blank}
MCFiles == {1 :> Router @@ 7 :> Printer @@ 9 :> Untyped, 7 :> Untyped @@ 9 :> Printer}
=============================================================================
