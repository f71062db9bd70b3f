------------------------------- MODULE MCProbe -------------------------------
(* Model values for TLC: two addresses, small budgets for each disturbance.  *)
EXTENDS Probe

WholeNetwork == {IPs}
EitherRange  == {IPs, {1}}
=============================================================================
