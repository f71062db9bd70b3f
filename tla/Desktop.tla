------------------------------- MODULE Desktop -------------------------------
(***************************************************************************)
(* The desktop app around a scan: the Go side (desktop/app.go: startScan,  *)
(* CancelScan, OpenScanFile and one consumeEvents goroutine per scan) and  *)
(* the React side (frontend/src/state/useScan.ts), which mirrors whether a *)
(* scan runs from the replies to its calls and the events it receives, and *)
(* re-scans from a timer in monitor mode.                                  *)
(*                                                                         *)
(* The scan engine itself appears as what ScanStream promises: a started   *)
(* event, one row per address, a finished event, the closed channel.       *)
(***************************************************************************)
EXTENDS Naturals, FiniteSets, Sequences

CONSTANTS
  Ranges,    \* the CIDRs the user may scan, as sets of addresses
  File,      \* origin of the rows of an opened scan file
  NoRow,     \* no row of an address
  MaxScans,  \* bound: scans the backend starts
  MaxCalls,  \* bound: start calls from the UI
  MaxOpens,  \* bound: scan files opened
  MaxToggles, \* bound: switches of monitor mode
  MaxActs,   \* bound: all of these together
  InOrder    \* TRUE: the reply to a start call comes before the events of its scan

ASSUME DesktopAssumption ==
  /\ {MaxScans, MaxCalls, MaxOpens, MaxToggles, MaxActs} \subseteq Nat
  /\ InOrder \in BOOLEAN
  /\ {} \notin Ranges

Scans   == 1 .. MaxScans
IPs     == UNION Ranges
Origins == Scans \cup {File}

Request == [preserve : BOOLEAN, range : Ranges]
Run     == [id : Scans \cup {0}, range : Ranges \cup {{}}, ended : BOOLEAN]
Message == [type : {"state"}, on : BOOLEAN] \cup [type : {"finished"}]
             \cup [type : {"reply"}, ok : BOOLEAN]

VARIABLES
  scanning,   \* App.scanning
  cancel,     \* App.cancel: the scan it cancels, or 0
  results,    \* App.results: where the row of each address comes from
  seen,       \* the addresses of the scan in progress that it has reported
  run,        \* App.run
  cancelled,  \* the scans whose context is cancelled
  pc,         \* where the consumer of each scan is
  snap,       \* what each consumer took away to save
  stored,     \* history: what was saved, with the scan that saved it
  calls,      \* start calls on their way to the backend
  replying,   \* started scans whose startScan has not returned yet
  wire,       \* events and replies on their way to the UI
  uiScanning, \* scanning, as the UI shows it
  monitoring, \* monitor mode
  armed,      \* the monitor's timer is set
  orderly,    \* history: nobody acted while anything was in flight, and no scan
              \* was under way before the reply to its start
  budget      \* what is left of the bounds

backendVars == <<scanning, cancel, results, seen, run, cancelled, pc, snap, stored, replying>>
uiVars      == <<uiScanning, monitoring, armed>>
vars == <<backendVars, uiVars, calls, wire, orderly, budget>>

NoRun == [id |-> 0, range |-> {}, ended |-> FALSE]
Empty == [ip \in IPs |-> NoRow]

Init ==
  /\ scanning = FALSE
  /\ cancel = 0
  /\ results = Empty
  /\ seen = {}
  /\ run = NoRun
  /\ cancelled = {}
  /\ pc = [k \in Scans |-> "unused"]
  /\ snap = [k \in Scans |-> [run |-> NoRun, hosts |-> Empty]]
  /\ stored = {}
  /\ calls = <<>>
  /\ replying = {}
  /\ wire = <<>>
  /\ uiScanning = FALSE
  /\ monitoring = FALSE
  /\ armed = FALSE
  /\ orderly = TRUE
  /\ budget = [calls |-> MaxCalls, opens |-> MaxOpens, toggles |-> MaxToggles, all |-> MaxActs]

CanSpend(what) == budget[what] > 0 /\ budget.all > 0
Spend(what)    == CanSpend(what) /\ budget' = [budget EXCEPT ![what] = @ - 1, !.all = @ - 1]

\* A scan has started or ended and not everybody has been told.
Changing == {k \in Scans : pc[k] \in {"announce", "ended", "save", "notify"}}

InFlight == calls # <<>> \/ wire # <<>> \/ replying # {} \/ Changing # {}

\* What the user or the timer does while anything is in flight is hasty.
Act == orderly' = (orderly /\ ~InFlight)

-----------------------------------------------------------------------------
\* The UI.

\* Mutant of Rearm: the effect depends on monitor mode only.
RearmOnToggle ==
  armed' = IF monitoring' = monitoring THEN armed ELSE monitoring' /\ ~uiScanning'

\* The effect that owns the timer runs again when what it depends on changes
\* (the number of rows and the interval, which it depends on too, are left out).
Rearm ==
  armed' = IF <<monitoring', uiScanning'>> = <<monitoring, uiScanning>> THEN armed
           ELSE monitoring' /\ ~uiScanning'

Call(preserve) ==
  /\ Spend("calls")
  /\ \E r \in Ranges : calls' = Append(calls, [preserve |-> preserve, range |-> r])

\* The scan button while it does not show Cancel, or Enter in the range field
\* (which also scans while monitor mode is on).
ClickScan ==
  /\ Act
  /\ ~uiScanning
  /\ Call(FALSE)
  /\ UNCHANGED <<backendVars, uiVars, wire>>

\* Mutant of ClickCancel: CancelScan calls cancel without a nil check.
ClickCancelUnchecked ==
  /\ Act
  /\ uiScanning
  /\ ~monitoring
  /\ cancelled' = cancelled \cup {cancel}
  /\ UNCHANGED <<scanning, cancel, results, seen, run, pc, snap, stored, replying>>
  /\ UNCHANGED <<uiVars, calls, wire, budget>>

\* The cancel button, which takes the place of the scan button while the UI
\* shows a scan and monitor mode is off; CancelScan does nothing without one.
ClickCancel ==
  /\ Act
  /\ uiScanning
  /\ ~monitoring
  /\ cancel # 0 /\ cancel \notin cancelled
  /\ cancelled' = cancelled \cup {cancel}
  /\ UNCHANGED <<scanning, cancel, results, seen, run, pc, snap, stored, replying>>
  /\ UNCHANGED <<uiVars, calls, wire, budget>>

\* Switching monitor mode on scans at once unless a scan runs; it preserves the
\* results when there are any (in the model: when the backend has some).
MonitorOn ==
  /\ Act
  /\ ~monitoring
  /\ Spend("toggles")
  /\ monitoring' = TRUE
  /\ IF uiScanning
     THEN UNCHANGED calls
     ELSE \E r \in Ranges :
            calls' = Append(calls, [preserve |-> results # Empty, range |-> r])
  /\ UNCHANGED uiScanning
  /\ Rearm
  /\ UNCHANGED <<backendVars, wire>>

MonitorOff ==
  /\ Act
  /\ monitoring
  /\ monitoring' = FALSE
  /\ UNCHANGED uiScanning
  /\ Rearm
  /\ UNCHANGED <<backendVars, calls, wire, budget>>

\* The timer fires once per arming.
MonitorTick ==
  /\ Act
  /\ armed
  /\ armed' = FALSE
  /\ Call(TRUE)
  /\ UNCHANGED <<backendVars, uiScanning, monitoring, wire>>

\* The handlers of scan:event and scan:state, and the continuation of a call.
Shows(m) ==
  CASE m.type = "finished" -> FALSE
    [] m.type = "state"    -> m.on
    [] m.type = "reply"    -> m.ok

Receive ==
  /\ wire # <<>>
  /\ uiScanning' = Shows(Head(wire))
  /\ wire' = Tail(wire)
  /\ UNCHANGED monitoring
  /\ Rearm
  /\ UNCHANGED <<backendVars, calls, orderly, budget>>

-----------------------------------------------------------------------------
\* The backend.

Started == Cardinality({k \in Scans : pc[k] # "unused"})

\* startScan up to the end of its critical section.
StartScan ==
  /\ calls # <<>>
  /\ calls' = Tail(calls)
  /\ \/ /\ scanning
        /\ wire' = Append(wire, [type |-> "reply", ok |-> FALSE])
        /\ UNCHANGED <<scanning, cancel, results, seen, run, pc>>
     \/ /\ ~scanning
        /\ Started < MaxScans
        /\ scanning' = TRUE
        /\ cancel' = Started + 1
        /\ results' = IF Head(calls).preserve THEN results ELSE Empty
        /\ run' = [NoRun EXCEPT !.range = Head(calls).range]
        /\ seen' = {}
        /\ pc' = [pc EXCEPT ![Started + 1] = "announce"]
        /\ UNCHANGED wire
  /\ UNCHANGED <<cancelled, snap, stored, replying, uiVars, orderly, budget>>

\* The rest of it: scan:state is emitted, then the consumer is spawned.
Announce(k) ==
  /\ pc[k] = "announce"
  /\ wire' = Append(wire, [type |-> "state", on |-> TRUE])
  /\ pc' = [pc EXCEPT ![k] = "opening"]
  /\ replying' = replying \cup {k}
  /\ UNCHANGED <<scanning, cancel, results, seen, run, cancelled, snap, stored, uiVars, calls, orderly, budget>>

Return(k) ==
  /\ k \in replying
  /\ wire' = Append(wire, [type |-> "reply", ok |-> TRUE])
  /\ replying' = replying \ {k}
  /\ UNCHANGED <<scanning, cancel, results, seen, run, cancelled, pc, snap, stored>>
  /\ UNCHANGED <<uiVars, calls, orderly, budget>>

\* consumeEvents: scan_started, the rows, scan_finished.
SeeStarted(k) ==
  /\ pc[k] = "opening"
  /\ InOrder => k \notin replying
  /\ orderly' = (orderly /\ k \notin replying)
  /\ run' = [run EXCEPT !.id = k]
  /\ pc' = [pc EXCEPT ![k] = "draining"]
  /\ UNCHANGED <<scanning, cancel, results, seen, cancelled, snap, stored, replying>>
  /\ UNCHANGED <<uiVars, calls, wire, budget>>

SeeHost(k, ip) ==
  /\ pc[k] = "draining"
  /\ ip \in run.range \ seen
  /\ results' = [results EXCEPT ![ip] = k]
  /\ seen' = seen \cup {ip}
  /\ UNCHANGED <<scanning, cancel, run, cancelled, pc, snap, stored, replying>>
  /\ UNCHANGED <<uiVars, calls, wire, orderly, budget>>

\* Every address has been observed when nobody cancelled.
SeeFinished(k) ==
  /\ pc[k] = "draining"
  /\ k \in cancelled \/ seen = run.range
  /\ run' = [run EXCEPT !.ended = TRUE]
  /\ wire' = Append(wire, [type |-> "finished"])
  /\ pc' = [pc EXCEPT ![k] = "ended"]
  /\ UNCHANGED <<scanning, cancel, results, seen, cancelled, snap, stored, replying>>
  /\ UNCHANGED <<uiVars, calls, orderly, budget>>

\* Mutants of Close: the handle is kept; a cancelled scan is not cleaned up.
CloseKeepsCancel(k) ==
  /\ pc[k] = "ended" \/ (pc[k] = "opening" /\ k \in cancelled)
  /\ scanning' = FALSE
  /\ snap' = [snap EXCEPT ![k] = [run |-> run, hosts |-> results]]
  /\ pc' = [pc EXCEPT ![k] = "save"]
  /\ UNCHANGED <<cancel, results, seen, run, cancelled, stored, replying>>
  /\ UNCHANGED <<uiVars, calls, wire, orderly, budget>>

CloseUnlessCancelled(k) ==
  /\ pc[k] = "ended" /\ k \notin cancelled
  /\ scanning' = FALSE
  /\ cancel' = 0
  /\ snap' = [snap EXCEPT ![k] = [run |-> run, hosts |-> results]]
  /\ pc' = [pc EXCEPT ![k] = "save"]
  /\ UNCHANGED <<results, seen, run, cancelled, stored, replying, uiVars, calls, wire, orderly, budget>>

\* The channel is closed, after scan_finished or before scan_started: the flag
\* is cleared and the results are taken in one critical section.
Close(k) ==
  /\ pc[k] = "ended" \/ (pc[k] = "opening" /\ k \in cancelled)
  /\ scanning' = FALSE
  /\ cancel' = 0
  /\ snap' = [snap EXCEPT ![k] = [run |-> run, hosts |-> results]]
  /\ pc' = [pc EXCEPT ![k] = "save"]
  /\ UNCHANGED <<results, seen, run, cancelled, stored, replying, uiVars, calls, wire, orderly, budget>>

\* Mutant of Save: the run is read when it is saved, not when the flag is cleared.
SaveCurrent(k) ==
  /\ pc[k] = "save"
  /\ stored' = IF run.id # 0 /\ results # Empty
               THEN stored \cup {[by |-> k, run |-> run, hosts |-> results]}
               ELSE stored
  /\ pc' = [pc EXCEPT ![k] = "notify"]
  /\ UNCHANGED <<scanning, cancel, results, seen, run, cancelled, snap, replying>>
  /\ UNCHANGED <<uiVars, calls, wire, orderly, budget>>

Save(k) ==
  /\ pc[k] = "save"
  /\ stored' = IF snap[k].run.id # 0 /\ snap[k].hosts # Empty
               THEN stored \cup {[by |-> k, run |-> snap[k].run, hosts |-> snap[k].hosts]}
               ELSE stored
  /\ pc' = [pc EXCEPT ![k] = "notify"]
  /\ UNCHANGED <<scanning, cancel, results, seen, run, cancelled, snap, replying>>
  /\ UNCHANGED <<uiVars, calls, wire, orderly, budget>>

\* Mutant of Notify: scan_finished is left to tell the UI.
NotifySilent(k) ==
  /\ pc[k] = "notify"
  /\ pc' = [pc EXCEPT ![k] = "gone"]
  /\ UNCHANGED <<scanning, cancel, results, seen, run, cancelled, snap, stored, replying>>
  /\ UNCHANGED <<uiVars, calls, wire, orderly, budget>>

Notify(k) ==
  /\ pc[k] = "notify"
  /\ wire' = Append(wire, [type |-> "state", on |-> FALSE])
  /\ pc' = [pc EXCEPT ![k] = "gone"]
  /\ UNCHANGED <<scanning, cancel, results, seen, run, cancelled, snap, stored, replying>>
  /\ UNCHANGED <<uiVars, calls, orderly, budget>>

\* The rows of an opened file replace the results, whatever runs.
OpenScanFile ==
  /\ Act
  /\ Spend("opens")
  /\ \E ips \in (SUBSET IPs) \ {{}} :
       results' = [ip \in IPs |-> IF ip \in ips THEN File ELSE NoRow]
  /\ UNCHANGED <<scanning, cancel, seen, run, cancelled, pc, snap, stored, replying>>
  /\ UNCHANGED <<uiVars, calls, wire>>

Consumer(k) ==
  \/ SeeStarted(k) \/ (\E ip \in IPs : SeeHost(k, ip)) \/ SeeFinished(k)
  \/ Close(k) \/ Save(k) \/ Notify(k)

Backend == StartScan \/ \E k \in Scans : Announce(k) \/ Return(k) \/ Consumer(k)

User == ClickScan \/ ClickCancel \/ MonitorOn \/ MonitorOff \/ OpenScanFile

Next == User \/ MonitorTick \/ Receive \/ Backend

\* Goroutines run and the browser delivers what reached it; what the user does
\* carries no fairness, nor does the timer, whose budget is the model's.
Spec == Init /\ [][Next]_vars /\ WF_vars(Backend) /\ WF_vars(Receive)

-----------------------------------------------------------------------------
\* Properties.

TypeOK ==
  /\ scanning \in BOOLEAN
  /\ cancel \in Scans \cup {0}
  /\ results \in [IPs -> Origins \cup {NoRow}]
  /\ seen \subseteq run.range
  /\ run \in Run
  /\ cancelled \subseteq Scans
  /\ pc \in [Scans -> {"unused", "announce", "opening", "draining", "ended", "save",
                       "notify", "gone"}]
  /\ \A k \in Scans : snap[k].run \in Run
  /\ \A k \in DOMAIN calls : calls[k] \in Request
  /\ replying \subseteq Scans
  /\ \A i \in DOMAIN wire : wire[i] \in Message
  /\ {uiScanning, monitoring, armed, orderly} \subseteq BOOLEAN

\* However calls, cancels and slow saves interleave, a consumer saves under the
\* id and the range of its own scan: App.run is never taken over by the next
\* scan before it was copied.
RunIsOwn ==
  \A r \in stored : r.run.id = r.by /\ r.run.ended

\* The cancel handle always reaches the one scan in progress, and nothing once
\* it is over.
CancelReachesTheScan ==
  LET live == {k \in Scans : pc[k] \in {"announce", "opening", "draining", "ended"}}
  IN  /\ live = IF scanning THEN {cancel} ELSE {}
      /\ ~scanning => cancel = 0

\* As long as nobody acts while a call or an event is on its way, the UI shows
\* what the backend does as soon as everything has arrived.
UIAgrees == (orderly /\ ~InFlight) => uiScanning = scanning

\* The scan button "turns into Cancel scan while one runs" (ScanToolbar.tsx:25-26),
\* however hastily it is clicked.
ButtonShowsTheScan == ~InFlight => uiScanning = scanning

\* Monitor mode re-scans on an interval (README.md:90): while it is shown as on
\* and nothing runs, its timer is set.
MonitorAlive ==
  (orderly /\ ~InFlight /\ monitoring /\ ~scanning) => armed

\* A saved run holds observations of its own scan: HostHistory lists its rows
\* as the stored observations of an address.
RowsAreObserved ==
  \A r \in stored : \A ip \in IPs : r.hosts[ip] \in {r.by, NoRow}

\* A scan that was started is saved or found empty, and the UI hears of its end,
\* whatever else the user does.
EveryScanEnds == \A k \in Scans : pc[k] # "unused" ~> pc[k] = "gone"

=============================================================================
