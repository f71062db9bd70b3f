------------------------------ MODULE ChangeLog ------------------------------
(***************************************************************************)
(* What the local scan history promises: a log of observed network states, *)
(* oldest first, in which a scan that saw nothing new adds no entry, the   *)
(* oldest entries go once there are too many, and the user may strike out  *)
(* any entry.                                                              *)
(***************************************************************************)
EXTENDS Naturals, Sequences, SequencesExt

CONSTANTS
  Observations,  \* what a scan can find: a range and the hosts in it
  Keep           \* entries retained

VARIABLES
  log,
  strikes  \* entries the user may still strike out

vars == <<log, strikes>>

Init == log = <<>> /\ strikes \in Nat

\* Some o is observed: it is the last entry then, and added unless it was before.
Observe ==
  LET o == Last(log') IN
  /\ log' # <<>> /\ o \in Observations
  /\ log' = IF log # <<>> /\ Last(log) = o THEN log ELSE Append(log, o)
  /\ UNCHANGED strikes

Trim ==
  /\ Len(log) > Keep /\ log' = SubSeq(log, Len(log) - Keep + 1, Len(log))
  /\ UNCHANGED strikes

Strike(i) == strikes > 0 /\ strikes' = strikes - 1 /\ log' = RemoveAt(log, i)

Next ==
  \/ Observe
  \/ Trim
  \/ \E i \in DOMAIN log : Strike(i)

Spec == Init /\ [][Next]_vars

=============================================================================
