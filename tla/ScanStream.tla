----------------------------- MODULE ScanStream -----------------------------
(***************************************************************************)
(* What a scan promises to whoever drains its event channel: the contract  *)
(* between internal/scanner and its three consumers (the desktop app's     *)
(* consumeEvents, the probe's scan, the CLI's runScan).                    *)
(*                                                                         *)
(* A consumer sees at most one scan_started, then for each host a prefix   *)
(* of one fixed protocol of events, then one scan_finished, then the       *)
(* closed channel.  Every event of a host carries a snapshot of what is    *)
(* known of that host, and a consumer keeps the last one: `view' is what   *)
(* the consumers keep in their results maps.                               *)
(***************************************************************************)
EXTENDS ScanEvents

VARIABLES
  cancelled,  \* the caller's context is cancelled
  phase,      \* what the consumer has seen of the scan as a whole
  view        \* the last event received about each host

streamVars == <<cancelled, phase, view>>

AllDone == \A h \in Hosts : view[h].stage = "done"

-----------------------------------------------------------------------------

Init ==
  /\ cancelled = FALSE
  /\ phase = "idle"
  /\ view = [h \in Hosts |-> Unseen]

Cancel ==
  /\ ~cancelled
  /\ cancelled' = TRUE
  /\ UNCHANGED <<phase, view>>

Begin ==
  /\ phase = "idle"
  /\ phase' = "started"
  /\ UNCHANGED <<cancelled, view>>

Report(h) ==
  /\ phase = "started"
  /\ \E s \in Following(view[h].stage), o \in Snapshot :
        /\ Extends(o, view[h].obs)
        /\ view' = [view EXCEPT ![h] = [stage |-> s, obs |-> o]]
  /\ UNCHANGED <<cancelled, phase>>

\* Only a cancelled scan may end with hosts it has not finished.
End ==
  /\ phase = "started"
  /\ cancelled \/ AllDone
  /\ phase' = "finished"
  /\ UNCHANGED <<cancelled, view>>

\* A scan cancelled before its first event closes without any event at all.
Close ==
  /\ \/ phase = "finished"
     \/ phase = "idle" /\ cancelled
  /\ phase' = "closed"
  /\ UNCHANGED <<cancelled, view>>

Next == Cancel \/ Begin \/ (\E h \in Hosts : Report(h)) \/ End \/ Close

Spec == Init /\ [][Next]_streamVars

=============================================================================
