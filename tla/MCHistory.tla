------------------------------ MODULE MCHistory ------------------------------
(* Model values for TLC: one hardware address, fewer runs kept than scans   *)
(* made.  The app alone scans two overlapping ranges and its user deletes a *)
(* run between two saves; the app and the CLI share one range and two saves *)
(* overlap, over four scans, so that runs are pruned meanwhile, or over     *)
(* three, with a run deleted at any moment.                                 *)
EXTENDS History

TwoRanges == {{1}, {1, 2}}

AppAlone  == [clients |-> {"desktop"}, cidrs |-> TwoRanges, scans |-> 3, deletes |-> 1,
              saving |-> 1, undisturbed |-> TRUE]
AppAndCLI == [clients |-> {"desktop", "cli"}, cidrs |-> {{1}}, scans |-> 4, deletes |-> 0,
              saving |-> 2, undisturbed |-> TRUE]
Disturbed == [AppAndCLI EXCEPT !.scans = 3, !.deletes = 1, !.undisturbed = FALSE]

AnyUse      == {AppAlone, AppAndCLI, Disturbed}
OneUser     == {[AppAlone EXCEPT !.cidrs = {{1}}, !.deletes = 0]}
UserDeletes == {[AppAlone EXCEPT !.cidrs = {{1}}, !.undisturbed = FALSE]}
=============================================================================
