---------------------------- MODULE MCHistoryPage ----------------------------
(* Model values for TLC: one run more than the store keeps.  The user       *)
(* compares and deletes while one reload is under way and one call fails,   *)
(* or deletes and reloads while two are under way.                          *)
EXTENDS HistoryPage

Comparing == [compares |-> TRUE, runs |-> 3, reloads |-> 1, faults |-> 1]
Tidying   == [compares |-> FALSE, runs |-> 2, reloads |-> 2, faults |-> 0]
EitherUse == {Comparing, Tidying}
=============================================================================
