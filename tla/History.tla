------------------------------- MODULE History -------------------------------
(***************************************************************************)
(* The scan history of one PC: the SQLite store of                         *)
(* internal/storage/sqlite.go, written by the desktop app (a coalescing    *)
(* save, then a prune, after every scan), by the CLI (a plain save), and   *)
(* by the user, who may delete a stored run.                               *)
(*                                                                         *)
(* Each statement or transaction of the store is one step; a coalescing    *)
(* save is four of them, on no transaction: list, compare, write, prune.   *)
(* Scans are numbered in the order they start, which is the order of       *)
(* started_at; ended_at is the order in which they end.                    *)
(*                                                                         *)
(* Its specification is StoreSpec, and so on, so that theorems can speak   *)
(* of it beside the updater, which keeps files on the same disk.           *)
(***************************************************************************)
EXTENDS Naturals, FiniteSets, FiniteSetsExt, SequencesExt

CONSTANTS
  CIDRs,       \* the ranges scanned, as sets of addresses
  Macs, NoMac,
  NoRun,       \* no stored run
  Keep,        \* desktopRunsKept
  MaxScans,    \* bound: scans in all
  Uses         \* how the store is used: by which clients, for which of the
               \* ranges, and whether the user never deletes in the middle of
               \* a save; bounds: scans, runs the user deletes, and finished
               \* scans that are between end and prune at once

ASSUME HistoryAssumption ==
  /\ Keep \in Nat \ {0}
  /\ MaxScans \in Nat
  /\ \A u \in Uses : /\ u.clients \subseteq {"desktop", "cli"} /\ u.cidrs \subseteq CIDRs
                     /\ {u.deletes, u.saving} \subseteq Nat /\ u.scans \in 0 .. MaxScans
                     /\ u.undisturbed \in BOOLEAN
  /\ NoMac \notin Macs /\ NoRun \notin 1 .. MaxScans

Scans == 1 .. MaxScans

\* A stored observation of one address: its MAC, whether a port was open,
\* whether it was alive.  A host with a MAC or an open port is alive; so is one
\* of which neither is known, when its scan was cut short after it was found
\* alive and before the port that told was reported.
Row         == [mac : Macs \cup {NoMac}, open : BOOLEAN, alive : BOOLEAN]
ScannedRows == {r \in Row : (r.mac # NoMac \/ r.open) => r.alive}
Bare(r)     == r.alive /\ r.mac = NoMac /\ ~r.open

\* A scan that runs to its end has a row for every address of its range,
\* answered or not; a cancelled one for some of them.
HostsOf(cidr) == UNION {[seen -> ScannedRows] : seen \in (SUBSET cidr) \ {{}}}

\* What a scan can have found.
Findings == UNION {{[cidr |-> c, hosts |-> h] : h \in HostsOf(c)} : c \in CIDRs}

VARIABLES
  runs,     \* scan_runs: by id, the range and ended_at
  rows,     \* host_observations: by run id, the row of each address
  started,  \* scans started so far
  ended,    \* scans ended so far
  scan,     \* each scan: its client, its range, where it is, what it found
  deletes,  \* what is left of the deletes
  use       \* which of Uses this is

storeVars == <<runs, rows, started, ended, scan, deletes, use>>

NoScan == [client |-> "desktop", cidr |-> {}, pc |-> "unused",
           hosts |-> <<>>, ended |-> 0, latest |-> NoRun]

-----------------------------------------------------------------------------
\* The store.

\* ListScanRuns(1): newest started_at first.
Latest == IF DOMAIN runs = {} THEN NoRun ELSE Max(DOMAIN runs)

HostsForRun(id) == IF id \in DOMAIN rows THEN rows[id] ELSE <<>>

Put(f, id, value) == [k \in DOMAIN f \cup {id} |-> IF k = id THEN value ELSE f[k]]
Without(f, ids)   == [k \in DOMAIN f \ ids |-> f[k]]

SameRow(a, b) == a.mac = b.mac /\ a.open = b.open

\* Mutant of hostsEquivalent: the lengths are not compared.
SubsetEquivalent(a, b) ==
  \A ip \in DOMAIN b :
    ip \in DOMAIN a /\ SameRow(a[ip], b[ip]) /\ a[ip].alive = b[ip].alive

hostsEquivalent(a, b) ==
  /\ DOMAIN a = DOMAIN b
  /\ \A ip \in DOMAIN b : SameRow(a[ip], b[ip]) /\ a[ip].alive = b[ip].alive

\* What is reported of a device that changed: neither aliveness nor times.
Changes(a, b) == {field \in {"mac", "open"} : a[field] # b[field]}

\* Mutant of DiffHosts: a changed MAC is not a change.
DiffPorts(base, compare) ==
  [new     |-> DOMAIN compare \ DOMAIN base,
   missing |-> DOMAIN base \ DOMAIN compare,
   changed |-> {change \in {[ip |-> ip, fields |-> Changes(base[ip], compare[ip])] :
                               ip \in DOMAIN base \cap DOMAIN compare} : "open" \in change.fields}]

DiffHosts(base, compare) ==
  [new     |-> DOMAIN compare \ DOMAIN base,
   missing |-> DOMAIN base \ DOMAIN compare,
   changed |-> {change \in {[ip |-> ip, fields |-> Changes(base[ip], compare[ip])] :
                               ip \in DOMAIN base \cap DOMAIN compare} : change.fields # {}}]

\* The history page's three columns: which devices joined, which left, and the
\* chips of what changed on the others.
DiffColumns(diff) ==
  [joined  |-> diff.new, left |-> diff.missing,
   changed |-> UNION {{<<change.ip, field>> : field \in change.fields} : change \in diff.changed}]

SaveScanRun(id, cidr, hosts, end) ==
  /\ runs' = Put(runs, id, [cidr |-> cidr, ended |-> end])
  /\ rows' = Put(rows, id, hosts)

TouchScanRun(id, end) ==
  /\ runs' = IF id \in DOMAIN runs THEN [runs EXCEPT ![id].ended = end] ELSE runs
  /\ UNCHANGED rows

\* Mutant of Stale: ORDER BY started_at without DESC.
StaleNewest == {id \in DOMAIN runs : Cardinality({k \in DOMAIN runs : k < id}) >= Keep}

\* The ids outside SELECT id ... ORDER BY started_at DESC LIMIT keep.
Stale == {id \in DOMAIN runs : Cardinality({k \in DOMAIN runs : k > id}) >= Keep}

\* Mutant of PruneScanRuns: the observations are left to a foreign-key cascade.
PruneRunsOnly ==
  /\ runs' = Without(runs, Stale)
  /\ UNCHANGED rows

PruneScanRuns ==
  /\ runs' = Without(runs, Stale)
  /\ rows' = Without(rows, Stale \cup (DOMAIN rows \ DOMAIN runs))

DeleteScanRun(id) ==
  /\ runs' = Without(runs, {id})
  /\ rows' = Without(rows, {id})

-----------------------------------------------------------------------------

StoreInit ==
  /\ runs = <<>>
  /\ rows = <<>>
  /\ started = 0
  /\ ended = 0
  /\ scan = [s \in Scans |-> NoScan]
  /\ use \in Uses
  /\ deletes = use.deletes

At(label) == {s \in Scans : scan[s].pc = label}
Saving    == {s \in Scans : scan[s].pc \in {"list", "compare", "touch", "save", "prune"}}

Goto(s, label) == scan' = [scan EXCEPT ![s].pc = label]

\* A finished save forgets its scan.
Leave(s, label) == scan' = [scan EXCEPT ![s] = [NoScan EXCEPT !.pc = label]]

\* The desktop app runs one scan at a time; the CLI is another process.
BeginScan(client, cidr) ==
  /\ started < use.scans
  /\ \A s \in At("running") : scan[s].client # client
  /\ started' = started + 1
  /\ scan' = [scan EXCEPT ![started + 1] =
                [NoScan EXCEPT !.client = client, !.cidr = cidr, !.pc = "running"]]
  /\ UNCHANGED <<runs, rows, ended, deletes, use>>

\* The event channel is closed: the desktop app clears its scanning flag and
\* goes on to save; the next scan may start before it has.
EndScan(s) ==
  /\ scan[s].pc = "running"
  /\ Cardinality(Saving) < use.saving
  /\ \E h \in HostsOf(scan[s].cidr) :
       scan' = [scan EXCEPT
                  ![s].pc = IF scan[s].client = "desktop" THEN "list" ELSE "save",
                  ![s].hosts = h, ![s].ended = ended + 1]
  /\ ended' = ended + 1
  /\ UNCHANGED <<runs, rows, started, deletes, use>>

\* SaveScanRunCoalesced.
ListLatest(s) ==
  /\ scan[s].pc = "list"
  /\ scan' = [scan EXCEPT
                ![s].latest = Latest,
                ![s].pc = IF Latest # NoRun /\ runs[Latest].cidr = scan[s].cidr
                          THEN "compare" ELSE "save"]
  /\ UNCHANGED <<runs, rows, started, ended, deletes, use>>

Compare(s) ==
  /\ scan[s].pc = "compare"
  /\ Goto(s, IF hostsEquivalent(HostsForRun(scan[s].latest), scan[s].hosts)
             THEN "touch" ELSE "save")
  /\ UNCHANGED <<runs, rows, started, ended, deletes, use>>

Touch(s) ==
  /\ scan[s].pc = "touch"
  /\ TouchScanRun(scan[s].latest, scan[s].ended)
  /\ Goto(s, "prune")
  /\ UNCHANGED <<started, ended, deletes, use>>

Save(s) ==
  /\ scan[s].pc = "save"
  /\ SaveScanRun(s, scan[s].cidr, scan[s].hosts, scan[s].ended)
  /\ IF scan[s].client = "desktop" THEN Goto(s, "prune") ELSE Leave(s, "done")
  /\ UNCHANGED <<started, ended, deletes, use>>

Prune(s) ==
  /\ scan[s].pc = "prune"
  /\ PruneScanRuns
  /\ Leave(s, "done")
  /\ UNCHANGED <<started, ended, deletes, use>>

\* A statement of the save fails: another connection holds the database
\* ("database is locked"), or the disk is full.  The error is shown and the rest
\* is skipped; what was done before stays done.
StoreFails(s) ==
  /\ s \in Saving
  /\ Leave(s, "failed")
  /\ UNCHANGED <<runs, rows, started, ended, deletes, use>>

\* The user deletes a run picked from the list.
DeleteRun(id) ==
  /\ deletes > 0
  /\ use.undisturbed => Saving = {}
  /\ DeleteScanRun(id)
  /\ deletes' = deletes - 1
  /\ UNCHANGED <<started, ended, scan, use>>

Step(s) ==
  EndScan(s) \/ ListLatest(s) \/ Compare(s) \/ Touch(s) \/ Save(s) \/ Prune(s) \/ StoreFails(s)

StoreNext ==
  \/ \E client \in use.clients, cidr \in use.cidrs : BeginScan(client, cidr)
  \/ \E s \in Scans : Step(s)
  \/ \E id \in DOMAIN runs : DeleteRun(id)

StoreSpec == StoreInit /\ [][StoreNext]_storeVars

-----------------------------------------------------------------------------
\* Properties.

StoreTypeOK ==
  /\ DOMAIN runs \subseteq Scans
  /\ \A id \in DOMAIN runs : runs[id] \in [cidr : CIDRs, ended : Scans]
  /\ DOMAIN rows = DOMAIN runs
  /\ \A id \in DOMAIN rows : [cidr |-> runs[id].cidr, hosts |-> rows[id]] \in Findings
  /\ started \in 0 .. MaxScans
  /\ ended \in 0 .. started
  /\ use \in Uses /\ deletes \in 0 .. use.deletes

\* The desktop app's saves follow one another: nobody else writes meanwhile.
Alone == use.clients = {"desktop"} /\ use.saving = 1 /\ use.undisturbed

\* The stored runs, oldest first, are a ChangeLog of what the scans found:
\* the run of a scan is appended exactly when it differs from the newest one,
\* only the oldest is ever pruned, once there are more than Keep, and any other
\* goes only when the user deletes it.
Ascending(D) ==
  CHOOSE f \in [1 .. Cardinality(D) -> D] : \A i, j \in DOMAIN f : i < j => f[i] < f[j]
InOrder   == Ascending(DOMAIN runs)
Entry(id) == [cidr |-> runs[id].cidr, hosts |-> rows[id]]
Log == INSTANCE ChangeLog WITH
         Observations <- Findings,
         log          <- IF Alone THEN [i \in DOMAIN InOrder |-> Entry(InOrder[i])] ELSE <<>>,
         strikes      <- IF Alone THEN deletes ELSE 0
StoresChanges == Log!Spec

Stored(s, id) ==
  /\ runs'[id].cidr = scan[s].cidr
  /\ rows'[id] = scan[s].hosts
  /\ runs'[id].ended >= scan[s].ended

Succeeds(s) == scan[s].pc \in {"save", "touch"} /\ scan'[s].pc \in {"prune", "done"}

\* A save that reports success leaves a stored run of that range which shows
\* what the scan found and was still current when the scan ended: "preserving
\* every run where something actually changed" (sqlite.go:163-168).  That is so
\* however saves, prunes and deletions overlap, but for a save which extends a
\* run that was pruned or deleted after the save compared its scan with it.
SuccessMeansStored ==
  [][\A s \in Scans :
       Succeeds(s) =>
         \/ \E id \in DOMAIN runs' : Stored(s, id)
         \/ scan[s].pc = "touch" /\ scan[s].latest \notin DOMAIN runs]_storeVars

\* The same with no exception, which is what the comment of
\* SaveScanRunCoalesced says of it (sqlite.go:163-168).
EverySuccessIsStored ==
  [][\A s \in Scans : Succeeds(s) => \E id \in DOMAIN runs' : Stored(s, id)]_storeVars

\* A run stored beside a newest one of the same range is worth storing: the
\* history page, which compares the two by default, has something to list.  It
\* has nothing when the runs differ only in that a host was alive, which it does
\* not compare; a cut-short scan left such a host.
ChangeIsVisible ==
  [][\A id \in DOMAIN runs' \ DOMAIN runs :
       (Alone /\ Latest # NoRun /\ runs[Latest].cidr = runs'[id].cidr) =>
         \/ DiffColumns(DiffHosts(rows[Latest], rows'[id]))
              # [joined |-> {}, left |-> {}, changed |-> {}]
         \/ \E ip \in DOMAIN rows[Latest] \cap DOMAIN rows'[id] :
              /\ rows[Latest][ip] # rows'[id][ip]
              /\ Bare(rows[Latest][ip]) \/ Bare(rows'[id][ip])]_storeVars

\* "Pick any two runs to see which devices are new, missing, or changed"
\* (README.md:94-95): a device that was alive in one stored scan and is gone
\* in a later one of the same range is reported missing.
DepartureReported ==
  \A a, b \in DOMAIN runs :
    a < b /\ runs[a].cidr = runs[b].cidr =>
      \A ip \in DOMAIN rows[a] :
        (rows[a][ip].alive /\ ~(ip \in DOMAIN rows[b] /\ rows[b][ip].alive))
          => ip \in DiffHosts(rows[a], rows[b]).missing

=============================================================================
