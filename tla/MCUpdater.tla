------------------------------ MODULE MCUpdater ------------------------------
(* Model values for TLC: every platform and one power loss.  Where only the  *)
(* order of an app and a swap matters, one platform and none.                *)
EXTENDS Updater
=============================================================================
