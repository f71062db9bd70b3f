------------------------------- MODULE Scanner -------------------------------
(***************************************************************************)
(* The scan engine of internal/scanner/scanner.go: one dispatcher          *)
(* goroutine (run), a pool of workers (scanHost) fed through an unbuffered *)
(* jobs channel, one bounded event channel they all send on, a caller that *)
(* may cancel the context at any moment, and the consumer that drains the  *)
(* event channel into a map of the last snapshot of each host.             *)
(***************************************************************************)
EXTENDS ScanEvents, Integers, Sequences, FiniteSets

CONSTANTS
  Concurrency,  \* ScanConfig.Concurrency; anything below 1 means the default
  Capacity      \* buffer of the event channel (256 in Scan)

ASSUME ConcurrencyAssumption == Concurrency \in Int
ASSUME CapacityAssumption == Capacity \in Nat \ {0}

DefaultConcurrency == 64

WorkerCount ==
  LET wanted == IF Concurrency <= 0 THEN DefaultConcurrency ELSE Concurrency
  IN  IF wanted > NumHosts THEN NumHosts ELSE wanted

Workers == 1 .. WorkerCount

VARIABLES
  cancelled,  \* ctx is done
  out,        \* the buffered event channel
  outClosed,  \* close(out) has run
  dpc,        \* where the dispatcher (run) is
  nextHost,   \* the dispatcher's loop index over hosts
  pc,         \* where each worker is in scanHost
  job,        \* the address each worker is scanning
  port,       \* each worker's loop index over ports
  obs,        \* each worker's local observation
  checked,    \* the atomic counter shared by the workers
  doneCount,  \* each worker's local copy of the counter
  phase,      \* consumer: what it has seen of the scan as a whole
  view,       \* consumer: the last event received about each host
  progress    \* consumer: the last checked_hosts it was told

engineVars   == <<out, outClosed, dpc, nextHost, pc, job, port, obs, checked, doneCount>>
consumerVars == <<phase, view, progress>>
vars == <<cancelled, engineVars, consumerVars>>

\* A worker stands at one of these when it is about to emit that event.
Emitting == Stages

WorkerPCs == {"absent", "idle", "probe", "dial", "arp", "count", "exited"} \cup Emitting

Event(type, h, o, n) == [type |-> type, host |-> h, obs |-> o, checked |-> n]
ScanEvent(type, n)   == Event(type, 0, Blank, n)

Events ==
  [type : Stages \cup {"started", "finished"}, host : Hosts \cup {0},
   obs : Snapshot, checked : 0 .. NumHosts]

-----------------------------------------------------------------------------

Init ==
  /\ cancelled = FALSE
  /\ out = <<>>
  /\ outClosed = FALSE
  /\ dpc = "start"
  /\ nextHost = 1
  /\ pc = [w \in Workers |-> "absent"]
  /\ job = [w \in Workers |-> 0]
  /\ port = [w \in Workers |-> 1]
  /\ obs = [w \in Workers |-> Blank]
  /\ checked = 0
  /\ doneCount = [w \in Workers |-> 0]
  /\ phase = "idle"
  /\ view = [h \in Hosts |-> Unseen]
  /\ progress = 0

Cancel ==
  /\ ~cancelled
  /\ cancelled' = TRUE
  /\ UNCHANGED <<engineVars, consumerVars>>

-----------------------------------------------------------------------------
\* The dispatcher: Scanner.run.

\* emit(ctx, out, started); the workers are spawned only once it was sent.
EmitStarted ==
  /\ dpc = "start"
  /\ Len(out) < Capacity
  /\ out' = Append(out, ScanEvent("started", 0))
  /\ dpc' = "dispatch"
  /\ pc' = [w \in Workers |-> "idle"]
  /\ UNCHANGED <<cancelled, outClosed, nextHost, job, port, obs, checked, doneCount>>
  /\ UNCHANGED consumerVars

AbandonStart ==
  /\ dpc = "start"
  /\ cancelled
  /\ dpc' = "return"
  /\ UNCHANGED <<cancelled, out, outClosed, nextHost, pc, job, port, obs, checked, doneCount>>
  /\ UNCHANGED consumerVars

\* jobs <- host: the unbuffered send meets a worker that is ready to receive,
\* which starts scanHost on a fresh observation.
Dispatch(w) ==
  /\ dpc = "dispatch"
  /\ nextHost <= NumHosts
  /\ pc[w] = "idle"
  /\ nextHost' = nextHost + 1
  /\ pc' = [pc EXCEPT ![w] = "seen"]
  /\ job' = [job EXCEPT ![w] = nextHost]
  /\ port' = [port EXCEPT ![w] = 1]
  /\ obs' = [obs EXCEPT ![w] = Blank]
  /\ UNCHANGED <<cancelled, out, outClosed, dpc, checked, doneCount, consumerVars>>

\* close(jobs): after the loop, or because the select saw ctx.Done().
CloseJobs ==
  /\ dpc = "dispatch"
  /\ cancelled \/ nextHost > NumHosts
  /\ dpc' = "drain"
  /\ UNCHANGED <<cancelled, out, outClosed, nextHost, pc, job, port, obs, checked, doneCount>>
  /\ UNCHANGED consumerVars

\* Mutant of EmitFinished: no wg.Wait.
EmitFinishedEarly ==
  /\ dpc = "drain"
  /\ Len(out) < Capacity
  /\ out' = Append(out, ScanEvent("finished", checked))
  /\ dpc' = "return"
  /\ UNCHANGED <<cancelled, outClosed, nextHost, pc, job, port, obs, checked, doneCount>>
  /\ UNCHANGED consumerVars

\* Mutant of EmitFinished: the event carries no count.
EmitFinishedBare ==
  /\ dpc = "drain"
  /\ \A w \in Workers : pc[w] = "exited"
  /\ Len(out) < Capacity
  /\ out' = Append(out, ScanEvent("finished", 0))
  /\ dpc' = "return"
  /\ UNCHANGED <<cancelled, outClosed, nextHost, pc, job, port, obs, checked, doneCount>>
  /\ UNCHANGED consumerVars

\* wg.Wait(), then scan_finished on a context nobody cancels.
EmitFinished ==
  /\ dpc = "drain"
  /\ \A w \in Workers : pc[w] = "exited"
  /\ Len(out) < Capacity
  /\ out' = Append(out, ScanEvent("finished", checked))
  /\ dpc' = "return"
  /\ UNCHANGED <<cancelled, outClosed, nextHost, pc, job, port, obs, checked, doneCount>>
  /\ UNCHANGED consumerVars

\* Mutant of CloseOut: a close at the end of run, not deferred.
CloseOutAtEnd ==
  /\ dpc = "return"
  /\ \A w \in Workers : pc[w] = "exited"
  /\ outClosed' = TRUE
  /\ dpc' = "gone"
  /\ UNCHANGED <<cancelled, out, nextHost, pc, job, port, obs, checked, doneCount>>
  /\ UNCHANGED consumerVars

\* The deferred close(out).
CloseOut ==
  /\ dpc = "return"
  /\ outClosed' = TRUE
  /\ dpc' = "gone"
  /\ UNCHANGED <<cancelled, out, nextHost, pc, job, port, obs, checked, doneCount>>
  /\ UNCHANGED consumerVars

Dispatcher ==
  \/ EmitStarted
  \/ AbandonStart
  \/ \E w \in Workers : Dispatch(w)
  \/ CloseJobs
  \/ EmitFinished
  \/ CloseOut

-----------------------------------------------------------------------------
\* A worker: scanHost, and the range over jobs around it.

\* The snapshot the worker is about to publish; a port event is the first to
\* carry its port.
Published(w) ==
  IF pc[w] = "port" THEN [obs[w] EXCEPT !.open = @ \cup {port[w]}] ELSE obs[w]

\* Where scanHost goes on after a successful emit.  The reverse lookup may or
\* may not answer.  host_alive comes either from a port, which is announced
\* next, or from ARP.
AfterEmit(w) ==
  CASE pc[w] = "seen"       -> {"named", "probe"}
    [] pc[w] = "named"      -> {"probe"}
    [] pc[w] = "alive"      -> IF obs[w].mac THEN {"enriched"} ELSE {"port"}
    [] pc[w] = "port"       -> {"probe"}
    [] pc[w] = "enriched"   -> {"classified"}
    [] pc[w] = "classified" -> {"count"}
    [] pc[w] = "done"       -> {"idle"}

Emit(w) ==
  /\ pc[w] \in Emitting
  /\ Len(out) < Capacity
  /\ out' = Append(out, Event(pc[w], job[w], Published(w),
                              IF pc[w] = "done" THEN doneCount[w] ELSE 0))
  /\ obs' = [obs EXCEPT ![w] = Published(w)]
  /\ port' = [port EXCEPT ![w] = IF pc[w] = "port" THEN @ + 1 ELSE @]
  /\ \E next \in AfterEmit(w) : pc' = [pc EXCEPT ![w] = next]
  /\ UNCHANGED <<cancelled, outClosed, dpc, nextHost, job, checked, doneCount, consumerVars>>

\* Mutant of EmitCancelled: a plain send, without the select.
EmitBlocks(w) == FALSE

\* The other branch of emit's select: ctx is done, scanHost returns.
EmitCancelled(w) ==
  /\ pc[w] \in Emitting
  /\ cancelled
  /\ pc' = [pc EXCEPT ![w] = "idle"]
  /\ UNCHANGED <<cancelled, out, outClosed, dpc, nextHost, job, port, obs, checked, doneCount>>
  /\ UNCHANGED consumerVars

\* Mutant of NextPort: the loop runs one port too far.
NextPortPastEnd(w) ==
  /\ pc[w] = "probe"
  /\ pc' = [pc EXCEPT ![w] = IF port[w] > NumPorts + 1 THEN "arp"
                             ELSE IF cancelled THEN "idle" ELSE "dial"]
  /\ UNCHANGED <<cancelled, out, outClosed, dpc, nextHost, job, port, obs, checked, doneCount>>
  /\ UNCHANGED consumerVars

\* The head of the port loop, with its ctx.Err() check.
NextPort(w) ==
  /\ pc[w] = "probe"
  /\ pc' = [pc EXCEPT ![w] = IF port[w] > NumPorts THEN "arp"
                             ELSE IF cancelled THEN "idle" ELSE "dial"]
  /\ UNCHANGED <<cancelled, out, outClosed, dpc, nextHost, job, port, obs, checked, doneCount>>
  /\ UNCHANGED consumerVars

\* Mutant of DialOpen: the first open port is announced without host_alive.
DialOpenUnannounced(w) ==
  /\ pc[w] = "dial"
  /\ ~cancelled
  /\ obs' = [obs EXCEPT ![w].alive = TRUE]
  /\ pc' = [pc EXCEPT ![w] = "port"]
  /\ UNCHANGED <<cancelled, out, outClosed, dpc, nextHost, job, port, checked, doneCount>>
  /\ UNCHANGED consumerVars

\* isPortOpen: a dial under a cancelled context always fails.
DialOpen(w) ==
  /\ pc[w] = "dial"
  /\ ~cancelled
  /\ obs' = [obs EXCEPT ![w].alive = TRUE]
  /\ pc' = [pc EXCEPT ![w] = IF obs[w].alive THEN "port" ELSE "alive"]
  /\ UNCHANGED <<cancelled, out, outClosed, dpc, nextHost, job, port, checked, doneCount>>
  /\ UNCHANGED consumerVars

DialClosed(w) ==
  /\ pc[w] = "dial"
  /\ port' = [port EXCEPT ![w] = @ + 1]
  /\ pc' = [pc EXCEPT ![w] = "probe"]
  /\ UNCHANGED <<cancelled, out, outClosed, dpc, nextHost, job, obs, checked, doneCount>>
  /\ UNCHANGED consumerVars

ArpMiss(w) ==
  /\ pc[w] = "arp"
  /\ pc' = [pc EXCEPT ![w] = "classified"]
  /\ UNCHANGED <<cancelled, out, outClosed, dpc, nextHost, job, port, obs, checked, doneCount>>
  /\ UNCHANGED consumerVars

ArpHit(w) ==
  /\ pc[w] = "arp"
  /\ obs' = [obs EXCEPT ![w].mac = TRUE, ![w].alive = TRUE]
  /\ pc' = [pc EXCEPT ![w] = IF obs[w].alive THEN "enriched" ELSE "alive"]
  /\ UNCHANGED <<cancelled, out, outClosed, dpc, nextHost, job, port, checked, doneCount>>
  /\ UNCHANGED consumerVars

\* checked.Add(1), before host_done is emitted.
Count(w) ==
  /\ pc[w] = "count"
  /\ checked' = checked + 1
  /\ doneCount' = [doneCount EXCEPT ![w] = checked + 1]
  /\ pc' = [pc EXCEPT ![w] = "done"]
  /\ UNCHANGED <<cancelled, out, outClosed, dpc, nextHost, job, port, obs, consumerVars>>

\* range jobs ends once jobs is closed.
Exit(w) ==
  /\ pc[w] = "idle"
  /\ dpc = "drain"
  /\ pc' = [pc EXCEPT ![w] = "exited"]
  /\ UNCHANGED <<cancelled, out, outClosed, dpc, nextHost, job, port, obs, checked, doneCount>>
  /\ UNCHANGED consumerVars

Worker(w) ==
  \/ Emit(w)
  \/ EmitCancelled(w)
  \/ NextPort(w)
  \/ DialOpen(w)
  \/ DialClosed(w)
  \/ ArpMiss(w)
  \/ ArpHit(w)
  \/ Count(w)
  \/ Exit(w)

-----------------------------------------------------------------------------
\* The consumer: a range over the event channel that keeps the last snapshot
\* of each host and the last progress figure (zero is omitted on the wire).

Receive ==
  /\ out # <<>>
  /\ LET e == Head(out) IN
       /\ phase' = CASE e.type \in Stages   -> phase
                     [] e.type = "started"  -> "started"
                     [] e.type = "finished" -> "finished"
       /\ view' = IF e.type \in Stages
                  THEN [view EXCEPT ![e.host] = [stage |-> e.type, obs |-> e.obs]]
                  ELSE view
       /\ progress' = IF e.checked # 0 THEN e.checked ELSE progress
  /\ out' = Tail(out)
  /\ UNCHANGED <<cancelled, outClosed, dpc, nextHost, pc, job, port, obs, checked, doneCount>>

SeeClosed ==
  /\ out = <<>>
  /\ outClosed
  /\ phase # "closed"
  /\ phase' = "closed"
  /\ UNCHANGED <<cancelled, engineVars, view, progress>>

Consumer == Receive \/ SeeClosed

-----------------------------------------------------------------------------

Next ==
  \/ Cancel
  \/ Dispatcher
  \/ \E w \in Workers : Worker(w)
  \/ Consumer

\* The Go runtime runs every goroutine that can run.  Cancelling is the user's
\* choice and carries no fairness; nor does the consumer, which may stop reading
\* at any moment (the CLI prints each event, and whoever reads its output may
\* not).
EngineFairness == WF_vars(Dispatcher) /\ \A w \in Workers : WF_vars(Worker(w))

Spec == Init /\ [][Next]_vars /\ EngineFairness

-----------------------------------------------------------------------------
\* Properties.

TypeOK ==
  /\ cancelled \in BOOLEAN
  /\ out \in Seq(Events)
  /\ Len(out) <= Capacity
  /\ outClosed \in BOOLEAN
  /\ dpc \in {"start", "dispatch", "drain", "return", "gone"}
  /\ nextHost \in 1 .. NumHosts + 1
  /\ pc \in [Workers -> WorkerPCs]
  /\ job \in [Workers -> Hosts \cup {0}]
  /\ port \in [Workers -> 1 .. NumPorts + 1]
  /\ obs \in [Workers -> Snapshot]
  /\ checked \in 0 .. NumHosts
  /\ doneCount \in [Workers -> 0 .. NumHosts]
  /\ phase \in {"idle", "started", "finished", "closed"}
  /\ view \in [Hosts -> HostView]
  /\ progress \in 0 .. NumHosts

\* A send on a closed channel panics the whole program: once the event channel
\* is closed, no worker is left that could still emit (the deferred close in
\* run relies on wg.Wait having returned on every path).
NoSendOnClosed ==
  outClosed => \A w \in Workers : pc[w] \in {"absent", "exited"}

\* scan_finished is the last event on the channel and there is at most one of
\* it: nothing is queued behind it, and no worker is still running once it is
\* queued (consumers stop their bookkeeping on scan_finished).
FinishedIsLast ==
  \A i \in 1 .. Len(out) :
    out[i].type = "finished" =>
      /\ i = Len(out)
      /\ \A w \in Workers : pc[w] = "exited"

\* The progress figures of concurrent workers may arrive out of order, but the
\* one scan_finished leaves behind never understates the hosts that reported
\* host_done, and is the whole range when nobody cancelled.
FinalProgress ==
  phase = "finished" =>
    /\ progress >= Cardinality({h \in Hosts : view[h].stage = "done"})
    /\ ~cancelled => progress = NumHosts

\* What the consumer sees is the event protocol of ScanStream.
Stream == INSTANCE ScanStream
StreamContract == Stream!Spec

\* A scan always ends, cancelled or not, as long as its events are read.
ConsumerReads == WF_vars(Consumer)
ScanCloses    == ConsumerReads => <>(phase = "closed")

\* After a cancel the workers wind down even if nobody reads the channel any
\* more and its buffer is full: emit gives up when ctx is done.
CancelFreesWorkers ==
  cancelled ~> \A w \in Workers : pc[w] \in {"absent", "exited"}

=============================================================================
