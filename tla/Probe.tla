-------------------------------- MODULE Probe --------------------------------
(***************************************************************************)
(* The probe process and the backend it pushes to: the scan-and-push loop  *)
(* of cmd/netviz-probe/main.go, its retry queue and backoff, the config    *)
(* file it re-reads on every cycle, the HTTP exchange of                   *)
(* internal/anchordesk/client.go, and what a backend makes of an accepted  *)
(* push: the NetViz server's stored runs (internal/server/ingest.go) and   *)
(* AnchorDesk's device table, which is keyed by record id.                 *)
(*                                                                         *)
(* Around it: a network whose devices come, go and move, a link that loses *)
(* requests or only the replies, a service manager that stops and restarts *)
(* the process, and a desktop app that rewrites the config file.           *)
(***************************************************************************)
EXTENDS DeviceRecords, SequencesExt

CONSTANTS
  Observable,      \* the sightings the network may produce
  Ranges,          \* the CIDRs the config file may name, as sets of addresses
  Torn,            \* a config file caught half-written
  RetryBaseDelay,
  RetryMaxDelay,
  Keep,            \* runs the server retains (maxRunsKept)
  MaxMoves,        \* bound: changes of the network
  MaxFaults,       \* bound: pushes the link or the backend fails
  MaxRestarts,     \* bound: crashes, and starts after a stop
  MaxEdits,        \* bound: rewrites of the config file
  MaxStops,        \* bound: stops by the service manager
  MaxTrouble       \* bound: all of these together

ASSUME ProbeAssumption ==
  /\ Observable \subseteq Sightings /\ Silent \in Observable
  /\ Ranges \subseteq SUBSET IPs /\ Ranges # {} /\ Torn \notin Ranges
  /\ RetryBaseDelay \in Nat \ {0} /\ RetryMaxDelay \in Nat
  /\ RetryBaseDelay <= RetryMaxDelay
  /\ Keep \in Nat \ {0}
  /\ {MaxMoves, MaxFaults, MaxRestarts, MaxEdits, MaxStops, MaxTrouble} \subseteq Nat

VARIABLES
  net,        \* who is at each address
  file,       \* the config file
  pc,         \* the probe: "start", "wait", "scan", "send", "stopped"
  cancelled,  \* the process was told to stop
  active,     \* the range of the config in force
  inv,        \* inventoryState
  pending,    \* deliveryState.pending
  backoff,    \* deliveryState.backoff
  answering,  \* history: the devices really up in the range of the scan at hand
  runs,       \* server: the rows of each stored run, oldest first
  table,      \* AnchorDesk: the device table, by record id
  budget      \* what is left of each bound

probeVars   == <<pc, cancelled, active, inv, pending, backoff, answering>>
backendVars == <<runs, table>>
vars == <<net, file, probeVars, backendVars, budget>>

Networks ==
  {n \in [IPs -> Observable] : \A i, j \in IPs : n[i] \in Macs /\ n[i] = n[j] => i = j}

Spend(what) ==
  /\ budget[what] > 0 /\ budget.all > 0
  /\ budget' = [budget EXCEPT ![what] = @ - 1, !.all = @ - 1]

-----------------------------------------------------------------------------
\* inventoryState.records over one batch: the loop over the discovered hosts,
\* then the loop over the silent ones, each in address order.

Recorded(i, ip, s) == IF Discovered(s) THEN Sight(i, ip, s) ELSE Miss(i, ip)

Pass(i, batch, hosts) ==
  LET after[k \in 0..NumIPs] ==
        IF k = 0 THEN i
        ELSE IF k \in hosts THEN Recorded(after[k - 1], k, batch[k]) ELSE after[k - 1]
  IN  after[NumIPs]

Records(i, batch) ==
  LET found == {ip \in DOMAIN batch : Discovered(batch[ip])}
  IN  Pass(Pass(NewBatch(i), batch, found), batch, DOMAIN batch \ found)

\* The records one call returns, one for each reported device and no two for the
\* same address.  The code sorts them by id; Added leaves open in which order
\* they come.
Fresh(i) == {i.byID[id] : id \in i.reported}

IDsOf(records) == {records[k].id : k \in DOMAIN records}

\* What the push carries for devices that were not held over.
Added(held, fresh) == SetToSeq({r \in fresh : r.id \notin IDsOf(held)})

\* Mutant of MergeRecords: held records win over fresh ones.
MergeKeepsHeld(held, fresh) == held \o Added(held, fresh)

\* mergeRecords: held records keep their place and take their fresh content.
MergeRecords(held, fresh) ==
  LET Newest(r) == IF \E f \in fresh : f.id = r.id THEN CHOOSE f \in fresh : f.id = r.id ELSE r
  IN  [k \in DOMAIN held |-> Newest(held[k])] \o Added(held, fresh)

\* Mutant of NextBackoff: no cap.
NextBackoffUncapped(current) == IF current <= 0 THEN RetryBaseDelay ELSE current * 2

NextBackoff(current) ==
  IF current <= 0 THEN RetryBaseDelay
  ELSE IF current * 2 > RetryMaxDelay THEN RetryMaxDelay ELSE current * 2

-----------------------------------------------------------------------------

Init ==
  /\ net \in Networks
  /\ file \in Ranges
  /\ pc = "start"
  /\ cancelled = FALSE
  /\ active = file
  /\ inv = EmptyInventory
  /\ pending = <<>>
  /\ backoff = 0
  /\ answering = {}
  /\ runs = <<>>
  /\ table = [i \in IDs |-> NoRecord]
  /\ budget = [moves |-> MaxMoves, faults |-> MaxFaults,
               restarts |-> MaxRestarts, edits |-> MaxEdits, stops |-> MaxStops,
               all |-> MaxTrouble]

\* The surroundings.

Move ==
  /\ Spend("moves")
  /\ net' \in Networks
  /\ UNCHANGED <<file, probeVars, backendVars>>

\* probeconfig.Save truncates the file and then writes it.
BeginEdit ==
  /\ file # Torn
  /\ Spend("edits")
  /\ file' = Torn
  /\ UNCHANGED <<net, probeVars, backendVars>>

EndEdit ==
  /\ file = Torn
  /\ file' \in Ranges
  /\ UNCHANGED <<net, probeVars, backendVars, budget>>

\* SIGTERM, or the service manager's Stop.
Stop ==
  /\ pc # "stopped"
  /\ ~cancelled
  /\ Spend("stops")
  /\ cancelled' = TRUE
  /\ UNCHANGED <<net, file, pc, active, inv, pending, backoff, answering, backendVars>>

\* The process is gone, and with it everything it only had in memory.
Forget ==
  /\ inv' = EmptyInventory
  /\ pending' = <<>>
  /\ backoff' = 0
  /\ answering' = {}

\* A crash, or a start after a stop.
Restart ==
  /\ Spend("restarts")
  /\ pc' = "start"
  /\ cancelled' = FALSE
  /\ Forget
  /\ UNCHANGED <<net, file, active, backendVars>>

-----------------------------------------------------------------------------
\* The probe: runProbe.

\* cfg.reload before the first cycle: an unreadable file ends the process.
Start ==
  /\ pc = "start"
  /\ IF file = Torn
     THEN pc' = "stopped" /\ UNCHANGED active
     ELSE pc' = "scan" /\ active' = file
  /\ UNCHANGED <<net, file, cancelled, inv, pending, backoff, answering, backendVars, budget>>

\* Mutant of Wake: the timer is not set again after a failed push.
WakeUnlessOwing ==
  /\ pc = "wait"
  /\ backoff = 0
  /\ file # Torn
  /\ pc' = "scan"
  /\ active' = file
  /\ UNCHANGED <<net, file, cancelled, inv, pending, backoff, answering, backendVars, budget>>

\* The select of the loop: the timer fires and the config is re-read; an
\* unreadable file skips the cycle.
Wake ==
  /\ pc = "wait"
  /\ file # Torn
  /\ pc' = "scan"
  /\ active' = file
  /\ UNCHANGED <<net, file, cancelled, inv, pending, backoff, answering, backendVars, budget>>

Leave ==
  /\ pc = "wait"
  /\ cancelled
  /\ pc' = "stopped"
  /\ Forget
  /\ UNCHANGED <<net, file, cancelled, active, backendVars, budget>>

\* What scan returns: every address of the range, unless the context was
\* cancelled; then any of them may be missing, or cut short after any event:
\* with nothing of it known, with its name resolved but not yet found up, or
\* up before ARP gave its MAC.
CutShort(s) ==
  IF s = Silent THEN {Silent}
  ELSE {s, Silent, Named} \cup (IF s \in Macs THEN {Answers} ELSE {})

Batches ==
  IF ~cancelled THEN {[ip \in active |-> net[ip]]}
  ELSE {b \in UNION {[d -> Sightings] : d \in SUBSET active} :
          \A ip \in DOMAIN b : b[ip] \in CutShort(net[ip])}

EndCycle ==
  /\ pc' = "wait"
  /\ answering' = {}

ScanNetwork ==
  /\ pc = "scan"
  /\ \E b \in Batches : inv' = Records(inv, b)
  /\ IF inv'.reported = {} /\ pending = <<>>
     THEN EndCycle
     ELSE /\ pc' = "send"
          /\ answering' = {RecordID(ip, net[ip]) :
                             ip \in {a \in active : net[a] \notin {Silent, Named}}}
  /\ UNCHANGED <<net, file, cancelled, active, pending, backoff, backendVars, budget>>

Batch == MergeRecords(pending, Fresh(inv))

\* A push that fails holds everything it carried for the next cycle.
Hold ==
  /\ pending' = Batch
  /\ backoff' = NextBackoff(backoff)
  /\ EndCycle

Deliver ==
  /\ pending' = <<>>
  /\ backoff' = 0
  /\ EndCycle

\* What the backend does with a push it receives: probeDevices and
\* FromDeviceRecords on the NetViz server (count against the latest run, save
\* one row per address, prune); an upsert by id on AnchorDesk.
RowsOf(records) ==
  [ip \in IPs |-> LET at == {k \in DOMAIN records : records[k].ip = ip}
                  IN  IF at = {} THEN NoRecord ELSE records[Max(at)]]

KnownIDs(rows) == {rows[ip].id : ip \in {a \in IPs : rows[a] # NoRecord}}

\* countTransitions: the ids the reply counts as created, the others being
\* updates.
CountCreated(records) ==
  IDsOf(records) \ (IF runs = <<>> THEN {} ELSE KnownIDs(Last(runs)))

Prune(s) == IF Len(s) > Keep THEN Tail(s) ELSE s

Accept(records) ==
  /\ runs' = Prune(Append(runs, RowsOf(records)))
  /\ table' = [i \in IDs |-> IF i \in IDsOf(records)
                             THEN records[CHOOSE k \in DOMAIN records : records[k].id = i]
                             ELSE table[i]]

\* The request never takes effect; under a cancelled context it always fails.
SendFails ==
  /\ pc = "send"
  /\ IF cancelled THEN UNCHANGED budget ELSE Spend("faults")
  /\ Hold
  /\ UNCHANGED <<net, file, cancelled, active, inv, backendVars>>

\* Stored, but the probe sees an error: the reply was lost or unreadable, or
\* the server answered 500 because pruning failed after the save.
SendUnconfirmed ==
  /\ pc = "send"
  /\ ~cancelled
  /\ Spend("faults")
  /\ Accept(Batch)
  /\ Hold
  /\ UNCHANGED <<net, file, cancelled, active, inv>>

\* Mutant of SendSucceeds: the request does not carry the cancelled context.
SendSucceedsDetached ==
  /\ pc = "send"
  /\ Accept(Batch)
  /\ Deliver
  /\ UNCHANGED <<net, file, cancelled, active, inv, budget>>

SendSucceeds ==
  /\ pc = "send"
  /\ ~cancelled
  /\ Accept(Batch)
  /\ Deliver
  /\ UNCHANGED <<net, file, cancelled, active, inv, budget>>

ProbeStep == Start \/ Wake \/ Leave \/ ScanNetwork \/ SendFails \/ SendUnconfirmed \/ SendSucceeds

Next == Move \/ BeginEdit \/ EndEdit \/ Stop \/ Restart \/ ProbeStep

\* The loop's timer always fires and every call in a cycle returns (dials and
\* requests have timeouts); an edit of the config file ends.
Spec == Init /\ [][Next]_vars /\ WF_vars(ProbeStep) /\ WF_vars(EndEdit)

-----------------------------------------------------------------------------
\* Properties.

TypeOK ==
  /\ net \in Networks
  /\ file \in Ranges \cup {Torn}
  /\ pc \in {"start", "wait", "scan", "send", "stopped"}
  /\ cancelled \in BOOLEAN
  /\ active \in Ranges
  /\ inv \in Inventory
  /\ \A k \in DOMAIN pending : pending[k] \in DeviceRecord
  /\ backoff \in 0 .. RetryMaxDelay
  /\ answering \subseteq IDs
  /\ Len(runs) <= Keep
  /\ \A k \in DOMAIN runs : runs[k] \in [IPs -> DeviceRecord \cup {NoRecord}]
  /\ table \in [IDs -> DeviceRecord \cup {NoRecord}]

\* "A failed push is retried on the next cycle, not dropped": between cycles,
\* the latest record the probe made of any device is in the backend's device
\* table or in the retry queue, through lost requests, lost replies, failed
\* prunes and config reloads.
OwedOrDelivered ==
  pc = "wait" => \A i \in IDs :
    inv.byID[i] # NoRecord =>
      \/ table[i] = inv.byID[i]
      \/ \E k \in DOMAIN pending : pending[k] = inv.byID[i]

\* No push ever says "down" of a device that answered the scan it follows:
\* not from a scan cut short by a stop, and not from a record held over from
\* an earlier scan.
NoFalseDown ==
  [][runs' # runs => \A ip \in IPs :
       LET row == Last(runs')[ip] IN
       row # NoRecord /\ row.status = "down" => row.id \notin answering]_vars

\* Once the surroundings settle, a probe that keeps running makes the latest
\* run of the server show every reachable device of its range as it is.
Current ==
  \A ip \in active : Discovered(net[ip]) =>
    runs # <<>> /\ Last(runs)[ip] = ToDeviceRecord(ip, net[ip])
Converges == <>[](pc # "stopped" /\ ~cancelled) => <>[]Current

\* ingest.go:29-32: re-pushing a known device is an update, not a duplicate.
\* A device is known when some stored run holds it.
KnownDeviceIsUpdate ==
  [][runs' # runs =>
       \A k \in DOMAIN runs : CountCreated(Batch) \cap KnownIDs(runs[k]) = {}]_vars

=============================================================================
