--------------------------- MODULE Scanner_proofs ---------------------------
(***************************************************************************)
(* What is proved of the scan engine, for any number of hosts, ports and   *)
(* workers, any channel capacity and any consumer.                         *)
(*                                                                         *)
(* First type correctness, NoSendOnClosed and FinishedIsLast, from IInv:   *)
(* it adds to them what they rest on, namely which states of the           *)
(* dispatcher and of the workers go together (Stage), that a port index is *)
(* in range wherever a port is used (PortInRange), and that no host is     *)
(* counted before it was handed out, nor twice (Counted).                  *)
(*                                                                         *)
(* Then FinalProgress and that the engine implements ScanStream, from      *)
(* SInv: the events still queued lead the consumer, each of them legal     *)
(* where it comes, from what it has read to a state that agrees with what  *)
(* the dispatcher and the workers have done.                               *)
(***************************************************************************)
EXTENDS Scanner, FiniteSetTheorems, TLAPS

\* Workers that hold a host they have not counted yet.
Uncounted ==
  {w \in Workers : pc[w] \in {"probe", "dial", "arp", "count"} \cup (Stages \ {"done"})}

PortInRange ==
  \A w \in Workers :
    (pc[w] \in {"dial", "port"} \/ (pc[w] = "alive" /\ ~obs[w].mac)) => port[w] <= NumPorts

Stage ==
  /\ outClosed <=> dpc = "gone"
  /\ \A w \in Workers :
       /\ dpc = "start" => pc[w] = "absent"
       /\ dpc = "dispatch" => pc[w] \notin {"absent", "exited"}
       /\ dpc = "drain" => pc[w] # "absent"
       /\ dpc \in {"return", "gone"} => pc[w] \in {"absent", "exited"}
  /\ dpc \in {"start", "dispatch", "drain"} =>
       \A i \in 1 .. Len(out) : out[i].type # "finished"

Counted == checked + Cardinality(Uncounted) <= nextHost - 1

IInv == TypeOK /\ PortInRange /\ Stage /\ Counted /\ FinishedIsLast

-----------------------------------------------------------------------------

LEMMA WorkersFinite == IsFiniteSet(Workers) /\ IsFiniteSet(Uncounted)
<1>1. WorkerCount \in Nat
  BY NumHostsAssumption, ConcurrencyAssumption, SMT DEF WorkerCount, DefaultConcurrency
<1>2. IsFiniteSet(Workers)
  BY <1>1, FS_Interval DEF Workers
<1>3. Uncounted \subseteq Workers
  BY DEF Uncounted
<1> QED
  BY <1>2, <1>3, FS_Subset

\* What receiving an event leaves in the channel.
LEMMA TailFacts ==
  ASSUME NEW S, NEW s \in Seq(S), s # <<>>
  PROVE  /\ Head(s) \in S
         /\ Tail(s) \in Seq(S)
         /\ Len(Tail(s)) = Len(s) - 1
         /\ \A i \in 1 .. Len(Tail(s)) : i + 1 \in 1 .. Len(s) /\ Tail(s)[i] = s[i + 1]
OBVIOUS

\* What emitting an event makes of it.
LEMMA AppendFacts ==
  ASSUME NEW S, NEW s \in Seq(S), NEW e
  PROVE  /\ Len(Append(s, e)) = Len(s) + 1
         /\ Append(s, e)[Len(s) + 1] = e
         /\ \A i \in 1 .. Len(s) : Append(s, e)[i] = s[i]
OBVIOUS

LEMMA BlankIsSnapshot == Blank \in Snapshot
BY DEF Blank, Snapshot

\* What a worker learns keeps its observation a snapshot.
LEMMA SnapshotGrows ==
  ASSUME NEW o \in Snapshot
  PROVE  /\ \A p \in Ports : [o EXCEPT !.open = @ \cup {p}] \in Snapshot
         /\ [o EXCEPT !.alive = TRUE] \in Snapshot
         /\ [o EXCEPT !.mac = TRUE, !.alive = TRUE] \in Snapshot
BY DEF Snapshot

\* The initial states satisfy the invariant.
LEMMA InitIInv == Init => IInv
<1> SUFFICES ASSUME Init PROVE IInv
  OBVIOUS
<1>1. TypeOK
  <2>1. Unseen \in HostView
    BY BlankIsSnapshot DEF Unseen, HostView
  <2>2. out \in Seq(Events) /\ Len(out) <= Capacity
    BY CapacityAssumption DEF Init
  <2>3. nextHost \in 1 .. NumHosts + 1 /\ 0 \in 0 .. NumHosts /\ 1 \in 1 .. NumPorts + 1
    BY NumHostsAssumption, NumPortsAssumption DEF Init
  <2>4. "absent" \in WorkerPCs
    BY DEF WorkerPCs
  <2> QED
    BY <2>1, <2>2, <2>3, <2>4, BlankIsSnapshot DEF Init, TypeOK
<1>2. PortInRange /\ Stage /\ FinishedIsLast
  BY DEF Init, PortInRange, Stage, FinishedIsLast
<1>3. Counted
  <2>1. Uncounted = {}
    BY DEF Init, Uncounted, Stages
  <2> QED
    BY <2>1, FS_EmptySet DEF Init, Counted
<1> QED
  BY <1>1, <1>2, <1>3 DEF IInv

-----------------------------------------------------------------------------
\* Every step preserves the dispatcher's and the workers' agreement.

LEMMA StageStep == IInv /\ [Next]_vars => Stage'
<1> SUFFICES ASSUME IInv, [Next]_vars PROVE Stage'
  OBVIOUS
<1> USE DEF IInv, TypeOK, Stage, consumerVars, engineVars
<1>1. CASE Cancel \/ AbandonStart \/ CloseJobs \/ CloseOut
  BY <1>1 DEF Cancel, AbandonStart, CloseJobs, CloseOut
<1>2. CASE EmitStarted \/ EmitFinished
  <2>1. PICK e : out' = Append(out, e) /\ (EmitStarted => e.type = "started")
    BY <1>2 DEF EmitStarted, EmitFinished, Event, ScanEvent
  <2>2. /\ Len(out') = Len(out) + 1
        /\ out'[Len(out) + 1] = e
        /\ \A i \in 1 .. Len(out) : out'[i] = out[i]
    BY <2>1, AppendFacts
  <2> QED
    BY <1>2, <2>1, <2>2 DEF EmitStarted, EmitFinished
<1>3. ASSUME NEW w \in Workers, Dispatch(w) PROVE Stage'
  BY <1>3 DEF Dispatch
<1>4. ASSUME NEW w \in Workers, Emit(w) PROVE Stage'
  BY <1>4 DEF Emit, Emitting, Stages, AfterEmit, Event
<1>5. ASSUME NEW w \in Workers,
             \/ EmitCancelled(w) \/ NextPort(w) \/ DialOpen(w) \/ DialClosed(w)
             \/ ArpMiss(w) \/ ArpHit(w) \/ Count(w) \/ Exit(w)
      PROVE  Stage'
  BY <1>5 DEF EmitCancelled, NextPort, DialOpen, DialClosed, ArpMiss, ArpHit, Count, Exit,
              Emitting, Stages
<1>6. CASE Receive
  <2>1. /\ out' = Tail(out) /\ UNCHANGED <<outClosed, dpc, pc>>
        /\ \A i \in 1 .. Len(Tail(out)) : i + 1 \in 1 .. Len(out) /\ Tail(out)[i] = out[i + 1]
    BY <1>6, TailFacts DEF Receive
  <2> QED
    BY <2>1
<1>7. CASE SeeClosed \/ UNCHANGED vars
  BY <1>7 DEF SeeClosed, vars
<1> QED
  BY <1>1, <1>2, <1>3, <1>4, <1>5, <1>6, <1>7 DEF Next, Dispatcher, Worker, Consumer

\* Only scan_finished itself can put scan_finished on the channel, and a worker
\* that could still emit behind it has exited by then.
LEMMA FinishedIsLastStep == IInv /\ [Next]_vars => FinishedIsLast'
<1> SUFFICES ASSUME IInv, [Next]_vars PROVE FinishedIsLast'
  OBVIOUS
<1> USE DEF IInv, TypeOK, Stage, FinishedIsLast, consumerVars, engineVars
<1>1. CASE Cancel \/ AbandonStart \/ CloseJobs \/ CloseOut
  BY <1>1 DEF Cancel, AbandonStart, CloseJobs, CloseOut
<1>2. CASE EmitStarted \/ EmitFinished
  <2>1. PICK e : out' = Append(out, e) /\ (EmitStarted => e.type = "started")
    BY <1>2 DEF EmitStarted, EmitFinished, Event, ScanEvent
  <2>2. /\ Len(out') = Len(out) + 1
        /\ out'[Len(out) + 1] = e
        /\ \A i \in 1 .. Len(out) : out'[i] = out[i]
    BY <2>1, AppendFacts
  <2> QED
    BY <1>2, <2>1, <2>2 DEF EmitStarted, EmitFinished
<1>3. ASSUME NEW w \in Workers, Dispatch(w) PROVE FinishedIsLast'
  BY <1>3 DEF Dispatch
<1>4. ASSUME NEW w \in Workers, Emit(w) PROVE FinishedIsLast'
  BY <1>4 DEF Emit, Emitting, Stages, Event
<1>5. ASSUME NEW w \in Workers,
             \/ EmitCancelled(w) \/ NextPort(w) \/ DialOpen(w) \/ DialClosed(w)
             \/ ArpMiss(w) \/ ArpHit(w) \/ Count(w) \/ Exit(w)
      PROVE  FinishedIsLast'
  BY <1>5 DEF EmitCancelled, NextPort, DialOpen, DialClosed, ArpMiss, ArpHit, Count, Exit,
              Emitting, Stages
<1>6. CASE Receive
  <2>1. /\ Len(Tail(out)) = Len(out) - 1
        /\ \A i \in 1 .. Len(Tail(out)) : i + 1 \in 1 .. Len(out) /\ Tail(out)[i] = out[i + 1]
    BY <1>6, TailFacts DEF Receive
  <2>2. out' = Tail(out) /\ pc' = pc
    BY <1>6 DEF Receive
  <2> QED
    BY <2>1, <2>2
<1>7. CASE SeeClosed \/ UNCHANGED vars
  BY <1>7 DEF SeeClosed, vars
<1> QED
  BY <1>1, <1>2, <1>3, <1>4, <1>5, <1>6, <1>7 DEF Next, Dispatcher, Worker, Consumer

\* A port index only leaves its range between the last probe and the ARP step.
LEMMA PortInRangeStep == IInv /\ [Next]_vars => PortInRange'
<1> SUFFICES ASSUME IInv, [Next]_vars PROVE PortInRange'
  OBVIOUS
<1> USE NumPortsAssumption DEF IInv, TypeOK, PortInRange, Snapshot, consumerVars, engineVars
<1>1. CASE Cancel \/ AbandonStart \/ CloseJobs \/ EmitFinished \/ CloseOut
  BY <1>1 DEF Cancel, AbandonStart, CloseJobs, EmitFinished, CloseOut
<1>2. CASE EmitStarted
  BY <1>2 DEF EmitStarted
<1>3. ASSUME NEW w \in Workers, Dispatch(w) PROVE PortInRange'
  BY <1>3 DEF Dispatch
<1>4. ASSUME NEW w \in Workers, Emit(w) PROVE PortInRange'
  BY <1>4 DEF Emit, Emitting, Stages, AfterEmit, Published
<1>5. ASSUME NEW w \in Workers, NextPort(w) PROVE PortInRange'
  BY <1>5 DEF NextPort
<1>6. ASSUME NEW w \in Workers, DialOpen(w) \/ DialClosed(w) PROVE PortInRange'
  BY <1>6 DEF DialOpen, DialClosed
<1>7. ASSUME NEW w \in Workers, ArpMiss(w) \/ ArpHit(w) PROVE PortInRange'
  BY <1>7 DEF ArpMiss, ArpHit
<1>8. ASSUME NEW w \in Workers, EmitCancelled(w) \/ Count(w) \/ Exit(w) PROVE PortInRange'
  BY <1>8 DEF EmitCancelled, Count, Exit
<1>9. CASE Receive \/ SeeClosed \/ UNCHANGED vars
  BY <1>9 DEF Receive, SeeClosed, vars
<1> QED
  BY <1>1, <1>2, <1>3, <1>4, <1>5, <1>6, <1>7, <1>8, <1>9 DEF Next, Dispatcher, Worker, Consumer

\* A host is in hand or counted only after it was dispatched: Dispatch adds one
\* to both sides, Count moves one from the first term to the second, and no
\* other step adds a worker that has still to count.
LEMMA CountedStep == IInv /\ [Next]_vars => Counted'
<1> SUFFICES ASSUME IInv, [Next]_vars PROVE Counted'
  OBVIOUS
<1> USE WorkersFinite DEF IInv, TypeOK, Counted, consumerVars, engineVars
<1>1. Cardinality(Uncounted) \in Nat
  BY FS_CardinalityType
<1>2. ASSUME Uncounted' \subseteq Uncounted, UNCHANGED <<checked, nextHost>>
      PROVE  Counted'
  <2>1. Cardinality(Uncounted') \in Nat /\ Cardinality(Uncounted') <= Cardinality(Uncounted)
    BY <1>2, FS_Subset, FS_CardinalityType
  <2> QED
    BY <1>1, <1>2, <2>1
<1>3. CASE Cancel \/ AbandonStart \/ CloseJobs \/ EmitFinished \/ CloseOut
           \/ Receive \/ SeeClosed \/ UNCHANGED vars
  BY <1>2, <1>3 DEF Cancel, AbandonStart, CloseJobs, EmitFinished, CloseOut,
                    Receive, SeeClosed, vars, Uncounted
<1>4. CASE EmitStarted
  BY <1>2, <1>4 DEF EmitStarted, Uncounted, Stages
<1>5. ASSUME NEW w \in Workers, Dispatch(w) PROVE Counted'
  <2>1. Uncounted' = Uncounted \cup {w} /\ w \notin Uncounted
    BY <1>5 DEF Dispatch, Uncounted, Stages
  <2>2. Cardinality(Uncounted') = Cardinality(Uncounted) + 1
    BY <2>1, FS_AddElement
  <2> QED
    BY <1>1, <1>5, <2>2 DEF Dispatch
<1>6. ASSUME NEW w \in Workers, Count(w) PROVE Counted'
  <2>1. Uncounted' = Uncounted \ {w} /\ w \in Uncounted
    BY <1>6 DEF Count, Uncounted, Stages
  <2>2. Cardinality(Uncounted') = Cardinality(Uncounted) - 1
    BY <2>1, FS_RemoveElement
  <2> QED
    BY <1>1, <1>6, <2>2 DEF Count
<1>7. ASSUME NEW w \in Workers, Emit(w) PROVE Counted'
  <2>1. Uncounted' \subseteq Uncounted
    BY <1>7 DEF Emit, Emitting, AfterEmit, Uncounted, Stages
  <2> QED
    BY <1>2, <1>7, <2>1 DEF Emit
<1>8. ASSUME NEW w \in Workers,
             \/ EmitCancelled(w) \/ NextPort(w) \/ DialOpen(w) \/ DialClosed(w)
             \/ ArpMiss(w) \/ ArpHit(w) \/ Exit(w)
      PROVE  Counted'
  <2>1. Uncounted' \subseteq Uncounted
    BY <1>8 DEF EmitCancelled, NextPort, DialOpen, DialClosed, ArpMiss, ArpHit, Exit,
                Emitting, Uncounted, Stages
  <2> QED
    BY <1>2, <1>8, <2>1 DEF EmitCancelled, NextPort, DialOpen, DialClosed, ArpMiss, ArpHit, Exit
<1> QED
  BY <1>3, <1>4, <1>5, <1>6, <1>7, <1>8 DEF Next, Dispatcher, Worker, Consumer

\* The counter never passes the number of hosts.
LEMMA CheckedBound ==
  ASSUME IInv, NEW w \in Workers, Count(w)
  PROVE  checked + 1 \in 0 .. NumHosts
<1>1. w \in Uncounted
  BY DEF Count, Uncounted
<1>2. Cardinality(Uncounted) \in Nat /\ Cardinality(Uncounted) # 0
  BY <1>1, WorkersFinite, FS_CardinalityType, FS_EmptySet
<1> QED
  BY <1>2, NumHostsAssumption DEF IInv, TypeOK, Counted

LEMMA TypeOKStep == IInv /\ [Next]_vars => TypeOK'
<1> SUFFICES ASSUME IInv, [Next]_vars PROVE TypeOK'
  OBVIOUS
<1> USE NumHostsAssumption, NumPortsAssumption, CapacityAssumption
    DEF IInv, TypeOK, consumerVars, engineVars
<1>1. CASE Cancel \/ AbandonStart \/ CloseJobs \/ CloseOut \/ SeeClosed \/ UNCHANGED vars
  BY <1>1 DEF Cancel, AbandonStart, CloseJobs, CloseOut, SeeClosed, vars
<1>2. CASE EmitStarted
  <2>1. ScanEvent("started", 0) \in Events
    BY BlankIsSnapshot DEF ScanEvent, Event, Events
  <2> QED
    BY <1>2, <2>1 DEF EmitStarted, WorkerPCs
<1>3. CASE EmitFinished
  <2>1. ScanEvent("finished", checked) \in Events
    BY BlankIsSnapshot DEF ScanEvent, Event, Events
  <2> QED
    BY <1>3, <2>1 DEF EmitFinished
<1>4. ASSUME NEW w \in Workers, Dispatch(w) PROVE TypeOK'
  BY <1>4, BlankIsSnapshot DEF Dispatch, WorkerPCs, Emitting, Stages, Hosts
<1>5. ASSUME NEW w \in Workers, Emit(w) PROVE TypeOK'
  <2>1. Published(w) \in Snapshot
    <3>1. obs[w] \in Snapshot /\ (pc[w] = "port" => port[w] \in Ports)
      BY <1>5 DEF PortInRange, Ports
    <3> QED
      BY <3>1, SnapshotGrows DEF Published
  <2>2. Event(pc[w], job[w], Published(w), IF pc[w] = "done" THEN doneCount[w] ELSE 0) \in Events
    BY <1>5, <2>1 DEF Emit, Emitting, Event, Events
  <2>3. out' \in Seq(Events) /\ Len(out') <= Capacity
    BY <1>5, <2>2 DEF Emit
  <2>4. port' \in [Workers -> 1 .. NumPorts + 1]
    BY <1>5 DEF Emit, PortInRange
  <2>5. pc' \in [Workers -> WorkerPCs]
    BY <1>5 DEF Emit, AfterEmit, Emitting, Stages, WorkerPCs
  <2>6. obs' \in [Workers -> Snapshot]
    BY <1>5, <2>1 DEF Emit
  <2> QED
    BY <1>5, <2>3, <2>4, <2>5, <2>6 DEF Emit
<1>6. ASSUME NEW w \in Workers, EmitCancelled(w) \/ NextPort(w) \/ ArpMiss(w) \/ Exit(w)
      PROVE  TypeOK'
  BY <1>6 DEF EmitCancelled, NextPort, ArpMiss, Exit, WorkerPCs, Emitting, Stages
<1>7. ASSUME NEW w \in Workers, DialOpen(w) \/ ArpHit(w) PROVE TypeOK'
  <2>1. obs' \in [Workers -> Snapshot]
    <3>1. CASE DialOpen(w)
      <4>1. obs' = [obs EXCEPT ![w] = [obs[w] EXCEPT !.alive = TRUE]]
        BY <3>1 DEF DialOpen
      <4> QED
        BY <4>1, SnapshotGrows
    <3>2. CASE ArpHit(w)
      <4>1. obs' = [obs EXCEPT ![w] = [obs[w] EXCEPT !.mac = TRUE, !.alive = TRUE]]
        BY <3>2 DEF ArpHit
      <4> QED
        BY <4>1, SnapshotGrows
    <3> QED
      BY <1>7, <3>1, <3>2
  <2> QED
    BY <1>7, <2>1 DEF DialOpen, ArpHit, WorkerPCs, Emitting, Stages
<1>8. ASSUME NEW w \in Workers, DialClosed(w) PROVE TypeOK'
  BY <1>8 DEF DialClosed, PortInRange, WorkerPCs
<1>9. ASSUME NEW w \in Workers, Count(w) PROVE TypeOK'
  BY <1>9, CheckedBound DEF Count, WorkerPCs, Emitting, Stages
<1>10. CASE Receive
  <2>1. Head(out) \in Events /\ Tail(out) \in Seq(Events) /\ Len(Tail(out)) = Len(out) - 1
    BY <1>10, TailFacts DEF Receive
  <2>2. out' \in Seq(Events) /\ Len(out') <= Capacity
    BY <1>10, <2>1 DEF Receive
  <2>3. phase' \in {"idle", "started", "finished", "closed"}
    BY <1>10, <2>1 DEF Receive, Events
  <2>4. view' \in [Hosts -> HostView]
    BY <1>10, <2>1 DEF Receive, Events, HostView
  <2>5. progress' \in 0 .. NumHosts
    BY <1>10, <2>1 DEF Receive, Events
  <2> QED
    BY <1>10, <2>2, <2>3, <2>4, <2>5 DEF Receive
<1> QED
  BY <1>1, <1>2, <1>3, <1>4, <1>5, <1>6, <1>7, <1>8, <1>9, <1>10
     DEF Next, Dispatcher, Worker, Consumer

-----------------------------------------------------------------------------

\* The invariant holds in every reachable state, with or without fairness.
THEOREM Invariance == Init /\ [][Next]_vars => []IInv
<1>1. IInv /\ [Next]_vars => IInv'
  BY TypeOKStep, PortInRangeStep, StageStep, CountedStep, FinishedIsLastStep DEF IInv
<1> QED
  BY InitIInv, <1>1, PTL

\* Type correctness: in particular the shared counter never passes the number
\* of hosts, and the event channel never holds more than its capacity.
THEOREM TypeCorrect == Spec => []TypeOK
BY Invariance, PTL DEF Spec, IInv

\* No goroutine is left to send when the event channel is closed, under any
\* consumer (the deferred close in Scanner.run).
THEOREM SafeClose == Spec => []NoSendOnClosed
<1>1. IInv => NoSendOnClosed
  BY DEF IInv, Stage, NoSendOnClosed
<1> QED
  BY Invariance, <1>1, PTL DEF Spec

\* scan_finished is the last event queued, and is queued once.
THEOREM FinishedLast == Spec => []FinishedIsLast
BY Invariance, PTL DEF Spec, IInv

-----------------------------------------------------------------------------
\* The consumer after one more event e, and after the whole of a queue: `now'
\* and `c' are what it has made of the scan, `cut' is whether ctx is done.

ConsumerStates ==
  [phase : {"idle", "started", "finished", "closed"},
   view : [Hosts -> HostView], progress : 0 .. NumHosts]

Now == [phase |-> phase, view |-> view, progress |-> progress]

DoneIn(c) == {h \in Hosts : c.view[h].stage = "done"}

\* What Receive makes of an event.
After(c, e) ==
  [phase |-> CASE e.type \in Stages   -> c.phase
               [] e.type = "started"  -> "started"
               [] e.type = "finished" -> "finished",
   view |-> IF e.type \in Stages
            THEN [c.view EXCEPT ![e.host] = [stage |-> e.type, obs |-> e.obs]]
            ELSE c.view,
   progress |-> IF e.checked # 0 THEN e.checked ELSE c.progress]

\* When the contract lets an event come.
Legal(c, e, cut) ==
  \/ e.type = "started" /\ c.phase = "idle"
  \/ /\ e.type = "finished"
     /\ c.phase = "started"
     /\ cut \/ DoneIn(c) = Hosts
     /\ Cardinality(DoneIn(c)) <= e.checked
  \/ /\ e.type \in Stages
     /\ c.phase = "started"
     /\ e.host \in Hosts
     /\ e.type \in Following(c.view[e.host].stage)
     /\ Extends(e.obs, c.view[e.host].obs)

\* Reading the queue takes a consumer from now to c, each event in its place.
Leads(queue, now, cut, c) ==
  \E t \in [0 .. Len(queue) -> ConsumerStates] :
    /\ t[0] = now
    /\ t[Len(queue)] = c
    /\ \A i \in 1 .. Len(queue) :
         Legal(t[i - 1], queue[i], cut) /\ t[i] = After(t[i - 1], queue[i])

-----------------------------------------------------------------------------
\* What the engine owes to a consumer that has read everything it was sent.

Active == {w \in Workers : pc[w] \notin {"absent", "idle", "exited"}}

PhaseAgrees(c) ==
  /\ dpc = "start" => c.phase = "idle"
  /\ dpc \in {"dispatch", "drain"} => c.phase = "started"
  /\ dpc \in {"return", "gone"} =>
       \/ c.phase = "finished"
       \/ c.phase = "idle" /\ cancelled
       \/ c.phase = "closed" /\ dpc = "gone"

\* Nothing was said of a host nobody has been given.
Untouched(c) == \A h \in Hosts : h >= nextHost => c.view[h] = Unseen

\* The last event about a worker's host is one its next event may follow.
Fits(w, last) ==
  /\ Extends(obs[w], last.obs)
  /\ CASE pc[w] = "seen"  -> last.stage = "none" /\ obs[w] = Blank
       [] pc[w] = "named" -> last.stage = "seen" /\ obs[w] = Blank
       [] pc[w] \in {"probe", "dial", "arp"} ->
            /\ ~obs[w].mac
            /\ IF obs[w].alive THEN last.stage = "port" ELSE last.stage \in {"seen", "named"}
       [] pc[w] = "alive"      -> last.stage \in {"seen", "named"} /\ obs[w].alive
       [] pc[w] = "port"       -> last.stage \in {"alive", "port"} /\ obs[w].alive /\ ~obs[w].mac
       [] pc[w] = "enriched"   -> last.stage \in {"alive", "port"}
       [] pc[w] = "classified" -> last.stage \in {"seen", "named", "port", "enriched"}
       [] pc[w] \in {"count", "done"} -> last.stage = "classified"
       [] OTHER -> TRUE

\* No two workers hold the same host.
InHand(c) ==
  \A w \in Active :
    /\ job[w] \in Hosts
    /\ job[w] < nextHost
    /\ \A v \in Active : job[v] = job[w] => v = w
    /\ Fits(w, c.view[job[w]])

\* Unless the scan is cancelled, every host given out is done or in hand.
NoneDropped(c) ==
  ~cancelled =>
    /\ dpc \in {"drain", "return", "gone"} => nextHost > NumHosts
    /\ \A h \in Hosts : h < nextHost => h \in DoneIn(c) \/ \E w \in Active : job[w] = h

\* Every host that reported host_done, or is about to, has been counted.
Reporting(c) ==
  {h \in Hosts : c.view[h].stage = "done" \/ \E w \in Workers : pc[w] = "done" /\ job[w] = h}
AllCounted(c) == Cardinality(Reporting(c)) <= checked

Agrees(c) ==
  PhaseAgrees(c) /\ Untouched(c) /\ InHand(c) /\ NoneDropped(c) /\ AllCounted(c)

\* The events still queued complete what the consumer has to what the engine
\* has done.
Owed == \E c \in ConsumerStates : Leads(out, Now, cancelled, c) /\ Agrees(c)

\* What scan_finished promised when it was read.
Ended ==
  phase = "finished" =>
    /\ cancelled \/ DoneIn(Now) = Hosts
    /\ Cardinality(DoneIn(Now)) <= progress

SInv == IInv /\ Owed /\ Ended

-----------------------------------------------------------------------------
\* Snapshots only add knowledge.

LEMMA ExtendsIsReflexive == \A o \in Snapshot : Extends(o, o)
BY DEF Extends

LEMMA ExtendsIsTransitive ==
  \A o, p, q \in Snapshot : Extends(o, p) /\ Extends(p, q) => Extends(o, q)
BY DEF Extends, Snapshot

LEMMA PublishedExtends ==
  ASSUME IInv, NEW w \in Workers
  PROVE  Published(w) \in Snapshot /\ Extends(Published(w), obs[w])
<1>1. obs[w] \in Snapshot /\ (pc[w] = "port" => port[w] \in Ports)
  BY DEF IInv, TypeOK, PortInRange, Ports
<1>2. CASE pc[w] = "port"
  <2>1. Published(w) = [obs[w] EXCEPT !.open = @ \cup {port[w]}]
    BY <1>2 DEF Published
  <2>2. Published(w) \in Snapshot
    BY <1>1, <1>2, <2>1, SnapshotGrows
  <2> QED
    BY <1>1, <2>1, <2>2 DEF Extends, Snapshot
<1>3. CASE pc[w] # "port"
  BY <1>1, <1>3, ExtendsIsReflexive DEF Published
<1> QED
  BY <1>2, <1>3

-----------------------------------------------------------------------------
\* What a queue leads to, when it is empty, grows, shrinks, or the caller
\* cancels.

LEMMA LeadsNowhere ==
  ASSUME NEW now \in ConsumerStates, NEW cut, NEW c
  PROVE  Leads(<<>>, now, cut, c) <=> c = now
<1>1. Len(<<>>) = 0 /\ 1 .. Len(<<>>) = {} /\ 0 .. Len(<<>>) = {0}
  OBVIOUS
<1>2. Leads(<<>>, now, cut, c) => c = now
  BY <1>1 DEF Leads
<1>3. Leads(<<>>, now, cut, now)
  <2> DEFINE t == [i \in 0 .. Len(<<>>) |-> now]
  <2>1. t \in [0 .. Len(<<>>) -> ConsumerStates] /\ t[0] = now /\ t[Len(<<>>)] = now
    BY <1>1
  <2> QED
    BY <1>1, <2>1 DEF Leads
<1> QED
  BY <1>2, <1>3

LEMMA LeadsOn ==
  ASSUME NEW S, NEW queue \in Seq(S), NEW now, NEW cut, NEW c, NEW e \in S,
         Leads(queue, now, cut, c), Legal(c, e, cut), After(c, e) \in ConsumerStates
  PROVE  Leads(Append(queue, e), now, cut, After(c, e))
<1> DEFINE n == Len(queue)
           q == Append(queue, e)
<1>1. PICK t \in [0 .. n -> ConsumerStates] :
        /\ t[0] = now /\ t[n] = c
        /\ \A i \in 1 .. n : Legal(t[i - 1], queue[i], cut) /\ t[i] = After(t[i - 1], queue[i])
  BY DEF Leads
<1>2. n \in Nat /\ Len(q) = n + 1 /\ q[n + 1] = e /\ \A i \in 1 .. n : q[i] = queue[i]
  BY AppendFacts
<1> DEFINE u == [i \in 0 .. n + 1 |-> IF i = n + 1 THEN After(c, e) ELSE t[i]]
<1> HIDE DEF n, q
<1>3. /\ u \in [0 .. n + 1 -> ConsumerStates]
      /\ u[n + 1] = After(c, e)
      /\ \A i \in 0 .. n : u[i] = t[i]
  BY <1>2
<1>4. ASSUME NEW i \in 1 .. n + 1
      PROVE  Legal(u[i - 1], q[i], cut) /\ u[i] = After(u[i - 1], q[i])
  <2>1. CASE i = n + 1
    BY <1>1, <1>2, <1>3, <2>1
  <2>2. CASE i # n + 1
    <3>1. i \in 1 .. n /\ i - 1 \in 0 .. n /\ i \in 0 .. n
      BY <1>2, <2>2
    <3> QED
      BY <1>1, <1>2, <1>3, <3>1
  <2> QED
    BY <2>1, <2>2
<1>5. u[0] = now /\ u[Len(q)] = After(c, e)
  BY <1>1, <1>2, <1>3
<1>6. Leads(q, now, cut, After(c, e))
  <2> HIDE DEF u
  <2> QED
    BY <1>2, <1>3, <1>4, <1>5 DEF Leads
<1> QED
  BY <1>6 DEF q

LEMMA LeadsFromHead ==
  ASSUME NEW S, NEW queue \in Seq(S), queue # <<>>, NEW now, NEW cut, NEW c,
         Leads(queue, now, cut, c)
  PROVE  /\ Legal(now, Head(queue), cut)
         /\ After(now, Head(queue)) \in ConsumerStates
         /\ Leads(Tail(queue), After(now, Head(queue)), cut, c)
<1> DEFINE n == Len(queue)
           q == Tail(queue)
<1>1. PICK t \in [0 .. n -> ConsumerStates] :
        /\ t[0] = now /\ t[n] = c
        /\ \A i \in 1 .. n : Legal(t[i - 1], queue[i], cut) /\ t[i] = After(t[i - 1], queue[i])
  BY DEF Leads
<1>2. /\ n \in Nat \ {0} /\ Len(q) = n - 1 /\ queue[1] = Head(queue)
      /\ \A i \in 1 .. n - 1 : q[i] = queue[i + 1]
  <2>1. Len(q) = n - 1 /\ \A i \in 1 .. Len(q) : q[i] = queue[i + 1]
    BY TailFacts
  <2>2. n \in Nat \ {0} /\ queue[1] = Head(queue)
    OBVIOUS
  <2> QED
    BY <2>1, <2>2
<1> DEFINE u == [i \in 0 .. n - 1 |-> t[i + 1]]
<1> HIDE DEF n, q
<1>3. Legal(now, Head(queue), cut) /\ t[1] = After(now, Head(queue)) /\ t[1] \in ConsumerStates
  <2>1. 1 \in 1 .. n /\ 1 - 1 = 0 /\ 1 \in 0 .. n
    BY <1>2
  <2> QED
    BY <1>1, <1>2, <2>1
<1>4. /\ u \in [0 .. n - 1 -> ConsumerStates]
      /\ \A i \in 0 .. n - 1 : u[i] = t[i + 1]
  BY <1>2
<1>5. ASSUME NEW i \in 1 .. n - 1
      PROVE  Legal(u[i - 1], q[i], cut) /\ u[i] = After(u[i - 1], q[i])
  <2>1. i + 1 \in 1 .. n /\ (i + 1) - 1 = i /\ (i - 1) + 1 = i
        /\ i \in 0 .. n - 1 /\ i - 1 \in 0 .. n - 1
    BY <1>2
  <2> QED
    BY <1>1, <1>2, <1>4, <2>1
<1>6. u[0] = After(now, Head(queue)) /\ u[n - 1] = c
  <2>1. 0 \in 0 .. n - 1 /\ 0 + 1 = 1 /\ n - 1 \in 0 .. n - 1 /\ (n - 1) + 1 = n
    BY <1>2
  <2> QED
    BY <1>1, <1>3, <1>4, <2>1
<1>7. Leads(q, After(now, Head(queue)), cut, c)
  <2> HIDE DEF u
  <2> QED
    BY <1>2, <1>4, <1>5, <1>6 DEF Leads
<1> QED
  BY <1>3, <1>7 DEF q

LEMMA LeadsUnderCancel ==
  ASSUME NEW queue, NEW now, NEW cut \in BOOLEAN, NEW c, Leads(queue, now, cut, c)
  PROVE  Leads(queue, now, TRUE, c)
<1>1. \A d, e : Legal(d, e, cut) => Legal(d, e, TRUE)
  BY DEF Legal
<1> QED
  BY <1>1 DEF Leads

-----------------------------------------------------------------------------
\* Every step of the engine keeps what it owes.

\* A step that queues nothing leaves the queue leading to where it led.
LEMMA OwedQuietly ==
  ASSUME IInv, UNCHANGED <<out, phase, view, progress>>,
         cancelled' = cancelled \/ cancelled' = TRUE,
         \A c \in ConsumerStates : Agrees(c) => Agrees(c)'
  PROVE  Owed => Owed'
<1> SUFFICES ASSUME Owed PROVE Owed'
  OBVIOUS
<1>1. PICK c \in ConsumerStates : Leads(out, Now, cancelled, c) /\ Agrees(c)
  BY DEF Owed
<1>2. Leads(out', Now', cancelled', c)
  <2>1. out' = out /\ Now' = Now /\ cancelled \in BOOLEAN
    BY DEF Now, IInv, TypeOK
  <2> QED
    BY <1>1, <2>1, LeadsUnderCancel
<1>3. Agrees(c)'
  BY <1>1
<1> QED
  BY <1>2, <1>3 DEF Owed

\* A step that queues one event leads one event further.
LEMMA OwedByEvent ==
  ASSUME IInv, NEW e \in Events,
         out' = Append(out, e), UNCHANGED <<phase, view, progress, cancelled>>,
         \A c \in ConsumerStates :
           Agrees(c) => Legal(c, e, cancelled) /\ After(c, e) \in ConsumerStates /\ Agrees(After(c, e))'
  PROVE  Owed => Owed'
<1> SUFFICES ASSUME Owed PROVE Owed'
  OBVIOUS
<1>1. PICK c \in ConsumerStates : Leads(out, Now, cancelled, c) /\ Agrees(c)
  BY DEF Owed
<1>2. Legal(c, e, cancelled) /\ After(c, e) \in ConsumerStates /\ Agrees(After(c, e))'
  BY <1>1
<1>3. Leads(out', Now', cancelled', After(c, e))
  <2>1. out' = Append(out, e) /\ Now' = Now /\ out \in Seq(Events)
    BY DEF Now, IInv, TypeOK
  <2> QED
    BY <1>1, <1>2, <2>1, LeadsOn
<1> QED
  BY <1>2, <1>3 DEF Owed

\* What is known of a state of the consumer.
LEMMA ConsumerFacts ==
  ASSUME NEW c \in ConsumerStates
  PROVE  /\ c.view \in [Hosts -> HostView]
         /\ \A h \in Hosts : c.view[h].stage \in Stages \cup {"none"} /\ c.view[h].obs \in Snapshot
         /\ c.phase \in {"idle", "started", "finished", "closed"}
         /\ c.progress \in 0 .. NumHosts
         /\ IsFiniteSet(DoneIn(c)) /\ IsFiniteSet(Hosts) /\ Cardinality(Hosts) = NumHosts
         /\ DoneIn(c) \subseteq Hosts
         /\ IsFiniteSet(Reporting(c))
<1>1. c.view \in [Hosts -> HostView] /\ c.phase \in {"idle", "started", "finished", "closed"}
      /\ c.progress \in 0 .. NumHosts
  BY DEF ConsumerStates
<1>2. \A h \in Hosts : c.view[h].stage \in Stages \cup {"none"} /\ c.view[h].obs \in Snapshot
  BY <1>1 DEF HostView
<1>3. IsFiniteSet(Hosts) /\ Cardinality(Hosts) = NumHosts
  <2>1. 1 \in Int /\ NumHosts \in Int /\ NumHosts >= 1 /\ NumHosts - 1 + 1 = NumHosts
    BY NumHostsAssumption
  <2> QED
    BY <2>1, FS_Interval DEF Hosts
<1>4. DoneIn(c) \subseteq Hosts
  BY DEF DoneIn
<1>5. IsFiniteSet(DoneIn(c))
  BY <1>3, <1>4, FS_Subset
<1>6. IsFiniteSet(Reporting(c))
  BY <1>3, FS_Subset DEF Reporting
<1> QED
  BY <1>1, <1>2, <1>3, <1>4, <1>5, <1>6

\* Counting never has to be repeated while the hosts that report stay the same.
LEMMA CountedStays ==
  ASSUME NEW c \in ConsumerStates, NEW d \in ConsumerStates,
         AllCounted(c), Reporting(d)' \subseteq Reporting(c), checked' = checked,
         checked \in Nat
  PROVE  AllCounted(d)'
<1>1. IsFiniteSet(Reporting(c))
  BY ConsumerFacts
<1>2. IsFiniteSet(Reporting(d)') /\ Cardinality(Reporting(d)') <= Cardinality(Reporting(c))
  BY <1>1, FS_Subset
<1>3. Cardinality(Reporting(c)) \in Nat /\ Cardinality(Reporting(d)') \in Nat
  BY <1>1, <1>2, FS_CardinalityType
<1> QED
  BY <1>2, <1>3 DEF AllCounted

\* The caller cancels, or the dispatcher gives up, stops dispatching or closes
\* the channel.
LEMMA OwedByDispatcher ==
  SInv /\ (Cancel \/ AbandonStart \/ CloseJobs \/ CloseOut) => Owed'
<1> SUFFICES ASSUME SInv, Cancel \/ AbandonStart \/ CloseJobs \/ CloseOut PROVE Owed'
  OBVIOUS
<1> USE DEF consumerVars, engineVars
<1>1. ASSUME NEW c \in ConsumerStates, Agrees(c) PROVE Agrees(c)'
  <2>1. UNCHANGED <<nextHost, pc, job, obs, checked>>
    BY DEF Cancel, AbandonStart, CloseJobs, CloseOut
  <2>2. PhaseAgrees(c)'
    BY <1>1 DEF Agrees, PhaseAgrees, Cancel, AbandonStart, CloseJobs, CloseOut
  <2>3. Untouched(c)'
    BY <1>1, <2>1 DEF Agrees, Untouched
  <2>4. InHand(c)'
    BY <1>1, <2>1 DEF Agrees, InHand, Active, Fits
  <2>5. NoneDropped(c)'
    BY <1>1 DEF Agrees, NoneDropped, Active, Cancel, AbandonStart, CloseJobs, CloseOut
  <2>6. AllCounted(c)'
    BY <1>1, <2>1 DEF Agrees, AllCounted, Reporting
  <2> QED
    BY <2>2, <2>3, <2>4, <2>5, <2>6 DEF Agrees
<1>2. UNCHANGED <<out, phase, view, progress>> /\ (cancelled' = cancelled \/ cancelled' = TRUE)
  BY DEF Cancel, AbandonStart, CloseJobs, CloseOut
<1> QED
  BY <1>1, <1>2, OwedQuietly DEF SInv

\* scan_started is the first event: no consumer has seen any before it.
LEMMA OwedByStart == SInv /\ EmitStarted => Owed'
<1> SUFFICES ASSUME SInv, EmitStarted PROVE Owed'
  OBVIOUS
<1> USE DEF consumerVars, engineVars
<1> DEFINE e == ScanEvent("started", 0)
<1>1. e \in Events /\ e.type = "started" /\ e.checked = 0 /\ "started" \notin Stages
  BY BlankIsSnapshot, NumHostsAssumption DEF ScanEvent, Event, Events, Stages
<1> HIDE DEF e
<1>2. ASSUME NEW c \in ConsumerStates, Agrees(c)
      PROVE  Legal(c, e, cancelled) /\ After(c, e) \in ConsumerStates /\ Agrees(After(c, e))'
  <2>1. Legal(c, e, cancelled)
    BY <1>1, <1>2 DEF Legal, Agrees, PhaseAgrees, EmitStarted
  <2>2. After(c, e) = [phase |-> "started", view |-> c.view, progress |-> c.progress]
    BY <1>1 DEF After
  <2>3. After(c, e) \in ConsumerStates
    BY <2>2, ConsumerFacts DEF ConsumerStates
  <2> DEFINE d == After(c, e)
  <2> HIDE DEF d
  <2>4. d.phase = "started" /\ d.view = c.view
    BY <2>2 DEF d
  <2>5. Active' = {} /\ Active = {}
    BY DEF Active, EmitStarted, SInv, IInv, Stage
  <2>6. PhaseAgrees(d)'
    BY <2>4 DEF PhaseAgrees, EmitStarted
  <2>7. Untouched(d)'
    BY <1>2, <2>4 DEF Untouched, Agrees, EmitStarted
  <2>8. InHand(d)'
    BY <2>5 DEF InHand
  <2>9. NoneDropped(d)'
    BY <1>2, <2>4, <2>5 DEF NoneDropped, Agrees, DoneIn, EmitStarted
  <2>10. AllCounted(d)'
    <3>2. Reporting(d)' \subseteq Reporting(c)
      BY <2>4 DEF Reporting, EmitStarted
    <3>3. AllCounted(c) /\ checked \in Nat /\ checked' = checked
      BY <1>2 DEF Agrees, EmitStarted, SInv, IInv, TypeOK
    <3> QED
      BY <2>3, <3>2, <3>3, CountedStays DEF d
  <2> QED
    BY <2>1, <2>3, <2>6, <2>7, <2>8, <2>9, <2>10 DEF Agrees, d
<1> QED
  BY <1>1, <1>2, OwedByEvent DEF SInv, EmitStarted, e

\* scan_finished comes once the workers have exited: unless the scan was
\* cancelled every host is done, and all that are done are counted.
LEMMA OwedByFinish == SInv /\ EmitFinished => Owed'
<1> SUFFICES ASSUME SInv, EmitFinished PROVE Owed'
  OBVIOUS
<1> USE DEF consumerVars, engineVars
<1>1. PICK e \in Events : e = ScanEvent("finished", checked)
  BY BlankIsSnapshot DEF ScanEvent, Event, Events, SInv, IInv, TypeOK
<1>3. e.type = "finished" /\ e.checked = checked /\ "finished" \notin Stages
  BY <1>1 DEF ScanEvent, Event, Stages
<1>2. ASSUME NEW c \in ConsumerStates, Agrees(c)
      PROVE  Legal(c, e, cancelled) /\ After(c, e) \in ConsumerStates /\ Agrees(After(c, e))'
  <2>1. Active = {} /\ Active' = {}
    BY DEF Active, EmitFinished
  <2>2. cancelled \/ DoneIn(c) = Hosts
    <3>1. SUFFICES ASSUME ~cancelled PROVE DoneIn(c) = Hosts
      OBVIOUS
    <3>2. nextHost > NumHosts /\ \A h \in Hosts : h < nextHost => h \in DoneIn(c)
      BY <1>2, <2>1, <3>1 DEF Agrees, NoneDropped, EmitFinished
    <3>3. \A h \in Hosts : h < nextHost
      BY <3>2, NumHostsAssumption DEF Hosts, SInv, IInv, TypeOK
    <3> QED
      BY <3>2, <3>3, ConsumerFacts
  <2>3. Reporting(c) = DoneIn(c)
    BY DEF Reporting, DoneIn, EmitFinished
  <2>4. Cardinality(DoneIn(c)) <= checked
    BY <1>2, <2>3 DEF Agrees, AllCounted
  <2>5. Legal(c, e, cancelled)
    BY <1>3, <1>2, <2>2, <2>4 DEF Legal, Agrees, PhaseAgrees, EmitFinished
  <2>a. PICK d : d = After(c, e)
    OBVIOUS
  <2>6. /\ d = [phase |-> "finished", view |-> c.view,
                progress |-> IF checked # 0 THEN checked ELSE c.progress]
    BY <1>3, <2>a DEF After
  <2>7. d \in ConsumerStates
    BY <2>6, ConsumerFacts DEF ConsumerStates, SInv, IInv, TypeOK
  <2>8. d.phase = "finished" /\ d.view = c.view
    BY <2>6
  <2>9. PhaseAgrees(d)'
    BY <2>8 DEF PhaseAgrees, EmitFinished
  <2>10. Untouched(d)'
    BY <1>2, <2>8 DEF Untouched, Agrees, EmitFinished
  <2>11. InHand(d)'
    BY <2>1 DEF InHand
  <2>12. NoneDropped(d)'
    BY <1>2, <2>1, <2>8 DEF NoneDropped, Agrees, DoneIn, EmitFinished
  <2>13. AllCounted(d)'
    <3>1. Reporting(d)' = DoneIn(c)
      BY <2>8 DEF Reporting, DoneIn, EmitFinished
    <3> QED
      BY <2>4, <3>1 DEF AllCounted, EmitFinished
  <2> QED
    BY <2>a, <2>5, <2>7, <2>9, <2>10, <2>11, <2>12, <2>13 DEF Agrees
<1> QED
  BY <1>1, <1>2, OwedByEvent DEF SInv, EmitFinished

\* A worker takes the next host, of which nothing was said yet.
LEMMA OwedByDispatch == \A w \in Workers : SInv /\ Dispatch(w) => Owed'
<1> SUFFICES ASSUME NEW w \in Workers, SInv, Dispatch(w) PROVE Owed'
  OBVIOUS
<1> USE DEF consumerVars, engineVars
<1>1. ASSUME NEW c \in ConsumerStates, Agrees(c) PROVE Agrees(c)'
  <2>1. /\ nextHost \in Hosts /\ nextHost' = nextHost + 1
        /\ pc[w] = "idle" /\ pc' = [pc EXCEPT ![w] = "seen"]
        /\ job' = [job EXCEPT ![w] = nextHost] /\ obs' = [obs EXCEPT ![w] = Blank]
        /\ UNCHANGED <<dpc, cancelled, checked>>
        /\ pc \in [Workers -> WorkerPCs] /\ job \in [Workers -> Hosts \cup {0}]
        /\ obs \in [Workers -> Snapshot]
    BY DEF Dispatch, Hosts, SInv, IInv, TypeOK
  <2>2. /\ Active' = Active \cup {w} /\ w \notin Active
        /\ pc'[w] = "seen" /\ job'[w] = nextHost /\ obs'[w] = Blank
        /\ \A v \in Active : pc'[v] = pc[v] /\ job'[v] = job[v] /\ obs'[v] = obs[v]
    BY <2>1 DEF Active
  <2>3. PhaseAgrees(c)'
    BY <1>1, <2>1 DEF Agrees, PhaseAgrees
  <2>4. Untouched(c)' /\ c.view[nextHost] = Unseen
    BY <1>1, <2>1 DEF Agrees, Untouched, Hosts
  <2>5. InHand(c)'
    <3>1. Fits(w, c.view[job[w]])'
      BY <2>2, <2>4 DEF Fits, Unseen, Extends, Blank
    <3>2. \A v \in Active : job[v] \in Hosts /\ job[v] < nextHost /\ Fits(v, c.view[job[v]])'
      BY <1>1, <2>2 DEF Agrees, InHand, Fits
    <3>3. \A v \in Active : \A u \in Active : job[u] = job[v] => u = v
      BY <1>1 DEF Agrees, InHand
    <3> QED
      BY <2>1, <2>2, <3>1, <3>2, <3>3 DEF InHand, Hosts
  <2>6. NoneDropped(c)'
    <3>1. SUFFICES ASSUME ~cancelled PROVE NoneDropped(c)'
      BY <2>1 DEF NoneDropped
    <3>2. dpc' \notin {"drain", "return", "gone"}
      BY DEF Dispatch
    <3>3. ASSUME NEW h \in Hosts, h < nextHost'
          PROVE  h \in DoneIn(c) \/ \E v \in Active' : job'[v] = h
      <4>1. CASE h = nextHost
        BY <2>2, <4>1
      <4>2. CASE h < nextHost
        BY <1>1, <2>2, <3>1, <4>2 DEF Agrees, NoneDropped
      <4> QED
        BY <2>1, <3>3, <4>1, <4>2 DEF Hosts
    <3> QED
      BY <3>2, <3>3 DEF NoneDropped, DoneIn
  <2>7. AllCounted(c)'
    <3>1. Reporting(c)' = Reporting(c)
      BY <2>1 DEF Reporting
    <3> QED
      BY <1>1, <2>1, <3>1 DEF Agrees, AllCounted
  <2> QED
    BY <2>3, <2>4, <2>5, <2>6, <2>7 DEF Agrees
<1>2. UNCHANGED <<out, phase, view, progress, cancelled>>
  BY DEF Dispatch
<1> QED
  BY <1>1, <1>2, OwedQuietly DEF SInv

\* A worker's step that publishes nothing: what it finds out only adds to what
\* it published last, and it gives up a host before host_done only when the
\* scan is cancelled.
Quiet(w) ==
  \/ EmitCancelled(w) \/ NextPort(w) \/ DialOpen(w) \/ DialClosed(w)
  \/ ArpMiss(w) \/ ArpHit(w) \/ Count(w) \/ Exit(w)

LEMMA QuietFits ==
  ASSUME SInv, NEW w \in Workers, Quiet(w), w \in Active, w \in Active',
         NEW last \in HostView, Fits(w, last)
  PROVE  Fits(w, last)'
<1> USE DEF consumerVars, engineVars
<1>1. obs[w] \in Snapshot /\ last.obs \in Snapshot /\ pc \in [Workers -> WorkerPCs]
      /\ obs \in [Workers -> Snapshot]
  BY DEF SInv, IInv, TypeOK, HostView
<1>2. CASE NextPort(w) \/ DialClosed(w) \/ ArpMiss(w) \/ Count(w)
  <2>1. obs' = obs
    BY <1>2 DEF NextPort, DialClosed, ArpMiss, Count
  <2> QED
    BY <1>1, <1>2, <2>1 DEF NextPort, DialClosed, ArpMiss, Count, Fits, Active
<1>3. CASE EmitCancelled(w) \/ Exit(w)
  BY <1>1, <1>3 DEF EmitCancelled, Exit, Active
<1>4. CASE DialOpen(w)
  <2>1. obs' = [obs EXCEPT ![w] = [obs[w] EXCEPT !.alive = TRUE]]
    BY <1>4 DEF DialOpen
  <2>2. obs'[w].alive /\ obs'[w].mac = obs[w].mac /\ obs'[w].open = obs[w].open
    BY <1>1, <2>1 DEF Snapshot
  <2>3. Extends(obs'[w], last.obs)
    BY <1>1, <2>2 DEF Fits, Extends
  <2> QED
    BY <1>1, <1>4, <2>2, <2>3 DEF DialOpen, Fits
<1>5. CASE ArpHit(w)
  <2>1. obs' = [obs EXCEPT ![w] = [obs[w] EXCEPT !.mac = TRUE, !.alive = TRUE]]
    BY <1>5 DEF ArpHit
  <2>2. obs'[w].alive /\ obs'[w].mac /\ obs'[w].open = obs[w].open
    BY <1>1, <2>1 DEF Snapshot
  <2>3. Extends(obs'[w], last.obs)
    BY <1>1, <2>2 DEF Fits, Extends
  <2> QED
    BY <1>1, <1>5, <2>2, <2>3 DEF ArpHit, Fits
<1> QED
  BY <1>2, <1>3, <1>4, <1>5 DEF Quiet

LEMMA OwedByQuiet == \A w \in Workers : SInv /\ Quiet(w) => Owed'
<1> SUFFICES ASSUME NEW w \in Workers, SInv, Quiet(w) PROVE Owed'
  OBVIOUS
<1> USE DEF consumerVars, engineVars
<1>0. UNCHANGED <<out, phase, view, progress, cancelled, dpc, nextHost, job>>
  BY DEF Quiet, EmitCancelled, NextPort, DialOpen, DialClosed, ArpMiss, ArpHit, Count, Exit
<1>1. /\ pc \in [Workers -> WorkerPCs] /\ obs \in [Workers -> Snapshot] /\ checked \in Nat
  BY DEF SInv, IInv, TypeOK
<1>2. \A v \in Workers \ {w} : pc'[v] = pc[v] /\ obs'[v] = obs[v]
  BY <1>1 DEF Quiet, EmitCancelled, NextPort, DialOpen, DialClosed, ArpMiss, ArpHit, Count, Exit
<1>3. Active' \subseteq Active
  <2>1. w \in Active' => w \in Active
    BY <1>1 DEF Active, Quiet, EmitCancelled, NextPort, DialOpen, DialClosed, ArpMiss, ArpHit,
                Count, Exit, Emitting, Stages
  <2> QED
    BY <1>2, <2>1 DEF Active
<1>4. cancelled \/ Active' = Active
  <2>1. ~cancelled /\ w \in Active => w \in Active'
    BY <1>1 DEF Active, Quiet, EmitCancelled, NextPort, DialOpen, DialClosed, ArpMiss, ArpHit,
                Count, Exit
  <2> QED
    BY <1>2, <1>3, <2>1 DEF Active
<1>5. ASSUME NEW c \in ConsumerStates, Agrees(c) PROVE Agrees(c)'
  <2>1. PhaseAgrees(c)' /\ Untouched(c)'
    BY <1>0, <1>5 DEF Agrees, PhaseAgrees, Untouched
  <2>2. InHand(c)'
    <3>1. ASSUME NEW v \in Active' PROVE Fits(v, c.view[job[v]])'
      <4>1. v \in Active /\ v \in Workers /\ Fits(v, c.view[job[v]]) /\ job[v] \in Hosts
        BY <1>3, <1>5, <3>1 DEF Agrees, InHand, Active
      <4>2. CASE v # w
        BY <1>0, <1>2, <4>1, <4>2 DEF Fits
      <4>3. CASE v = w
        <5>1. PICK last \in HostView : last = c.view[job[v]]
          BY <4>1, ConsumerFacts
        <5>2. Fits(v, last)'
          BY <3>1, <4>1, <4>3, <5>1, QuietFits
        <5> QED
          BY <1>0, <5>1, <5>2
      <4> QED
        BY <4>2, <4>3
    <3> QED
      BY <1>0, <1>3, <1>5, <3>1 DEF Agrees, InHand
  <2>3. NoneDropped(c)'
    BY <1>0, <1>4, <1>5 DEF Agrees, NoneDropped, DoneIn
  <2>4. AllCounted(c)'
    <3>1. CASE Count(w)
      <4>1. w \in Active /\ job[w] \in Hosts
        BY <1>5, <3>1 DEF Count, Active, Agrees, InHand
      <4>2. Reporting(c)' = Reporting(c) \cup {job[w]}
        BY <1>1, <3>1, <4>1 DEF Reporting, Count
      <4>3. /\ IsFiniteSet(Reporting(c)) /\ Cardinality(Reporting(c)) \in Nat
            /\ Cardinality(Reporting(c)') <= Cardinality(Reporting(c)) + 1
        <5>1. IsFiniteSet(Reporting(c)) /\ Cardinality(Reporting(c)) \in Nat
          BY ConsumerFacts, FS_CardinalityType
        <5>2. CASE job[w] \in Reporting(c)
          <6>1. Reporting(c)' = Reporting(c)
            BY <4>2, <5>2
          <6> QED
            BY <5>1, <6>1
        <5>3. CASE job[w] \notin Reporting(c)
          <6>1. Cardinality(Reporting(c)') = Cardinality(Reporting(c)) + 1
            BY <4>2, <5>1, <5>3, FS_AddElement
          <6> QED
            BY <5>1, <6>1
        <5> QED
          BY <5>2, <5>3
      <4>4. Cardinality(Reporting(c)') \in Nat
        BY <4>2, <4>3, FS_AddElement, FS_CardinalityType
      <4> QED
        BY <1>1, <1>5, <3>1, <4>3, <4>4 DEF Agrees, AllCounted, Count
    <3>2. CASE ~Count(w)
      <4>1. checked' = checked /\ pc'[w] # "done"
        BY <1>1, <3>2 DEF Quiet, EmitCancelled, NextPort, DialOpen, DialClosed, ArpMiss, ArpHit, Exit
      <4>2. Reporting(c)' \subseteq Reporting(c)
        BY <1>0, <1>2, <4>1 DEF Reporting
      <4> QED
        BY <1>1, <1>5, <4>1, <4>2, CountedStays DEF Agrees
    <3> QED
      BY <3>1, <3>2
  <2> QED
    BY <2>1, <2>2, <2>3, <2>4 DEF Agrees
<1> QED
  BY <1>0, <1>5, OwedQuietly DEF SInv

\* What a worker publishes may follow the last event about its host, and its
\* next event may follow that.
LEMMA EmitFits ==
  ASSUME SInv, NEW w \in Workers, Emit(w), NEW last \in HostView, Fits(w, last),
         NEW new, new = [stage |-> pc[w], obs |-> Published(w)]
  PROVE  /\ new \in HostView
         /\ new.stage \in Following(last.stage)
         /\ Extends(new.obs, last.obs)
         /\ w \in Active' => Fits(w, new)'
<1>1. /\ obs[w] \in Snapshot /\ last.obs \in Snapshot /\ pc \in [Workers -> WorkerPCs]
      /\ obs \in [Workers -> Snapshot] /\ pc[w] \in Stages
  BY DEF SInv, IInv, TypeOK, HostView, Emit, Emitting
<1>2. Published(w) \in Snapshot /\ Extends(Published(w), obs[w])
  BY PublishedExtends DEF SInv
<1>3. pc[w] \in Following(last.stage)
  BY <1>1 DEF Fits, Following, Stages
<1>4. Extends(Published(w), last.obs)
  BY <1>1, <1>2, ExtendsIsTransitive DEF Fits
<1>5. ASSUME w \in Active' PROVE Fits(w, new)'
  <2>1. obs'[w] = Published(w) /\ pc'[w] \in AfterEmit(w)
    BY <1>1 DEF Emit
  <2>2. Extends(obs'[w], new.obs)
    BY <1>2, <2>1, ExtendsIsReflexive
  <2>3. Published(w).alive = obs[w].alive /\ Published(w).mac = obs[w].mac
        /\ (pc[w] # "port" => Published(w) = obs[w])
    BY <1>1 DEF Published, Snapshot
  <2> QED
    <3>1. CASE pc[w] \in {"seen", "named"}
      BY <1>1, <1>5, <2>1, <2>2, <2>3, <3>1 DEF Fits, AfterEmit, Blank
    <3>2. CASE pc[w] \in {"alive", "port"}
      BY <1>1, <1>5, <2>1, <2>2, <2>3, <3>2 DEF Fits, AfterEmit
    <3>3. CASE pc[w] \in {"enriched", "classified", "done"}
      BY <1>1, <1>5, <2>1, <2>2, <2>3, <3>3 DEF Fits, AfterEmit, Active
    <3> QED
      BY <1>1, <3>1, <3>2, <3>3 DEF Stages
<1> QED
  BY <1>1, <1>2, <1>3, <1>4, <1>5 DEF HostView

LEMMA OwedByEmit == \A w \in Workers : SInv /\ Emit(w) => Owed'
<1> SUFFICES ASSUME NEW w \in Workers, SInv, Emit(w) PROVE Owed'
  OBVIOUS
<1> USE DEF consumerVars, engineVars
<1>1. PICK new : new = [stage |-> pc[w], obs |-> Published(w)]
  OBVIOUS
<1>2. PICK n : n = IF pc[w] = "done" THEN doneCount[w] ELSE 0
  OBVIOUS
<1>3. PICK h : h = job[w]
  OBVIOUS
<1>4. PICK e : e = Event(new.stage, h, new.obs, n)
  OBVIOUS
<1>5. /\ new.stage \in Stages /\ new.obs \in Snapshot /\ n \in 0 .. NumHosts /\ h \in Hosts \cup {0}
      /\ new.stage = pc[w]
  BY <1>1, <1>2, <1>3, PublishedExtends, NumHostsAssumption
     DEF SInv, IInv, TypeOK, Emit, Emitting
<1>6. e \in Events /\ e.type = new.stage /\ e.host = h /\ e.obs = new.obs /\ e.checked = n
  BY <1>4, <1>5 DEF Event, Events
<1>7. out' = Append(out, e)
  BY <1>1, <1>2, <1>3, <1>4 DEF Emit
<1>8. /\ UNCHANGED <<phase, view, progress, cancelled, dpc, nextHost, job, checked>>
      /\ pc \in [Workers -> WorkerPCs] /\ obs \in [Workers -> Snapshot] /\ checked \in Nat
      /\ \A v \in Workers \ {w} : pc'[v] = pc[v] /\ obs'[v] = obs[v]
  BY DEF Emit, SInv, IInv, TypeOK
<1>9. w \in Active /\ pc'[w] \in AfterEmit(w)
  BY <1>8 DEF Active, Emit, Emitting, Stages
<1>10. /\ Active' = IF pc[w] = "done" THEN Active \ {w} ELSE Active
       /\ pc'[w] # "done"
  <2>1. (w \in Active' <=> pc[w] # "done") /\ pc'[w] # "done"
    BY <1>5, <1>8, <1>9 DEF Active, AfterEmit, Stages
  <2> QED
    BY <1>8, <1>9, <2>1 DEF Active
<1>11. ASSUME NEW c \in ConsumerStates, Agrees(c)
       PROVE  Legal(c, e, cancelled) /\ After(c, e) \in ConsumerStates /\ Agrees(After(c, e))'
  <2>1. PICK d : d = After(c, e)
    OBVIOUS
  <2>2. d = [phase |-> c.phase, view |-> [c.view EXCEPT ![h] = new],
             progress |-> IF n # 0 THEN n ELSE c.progress]
    <3>1. /\ e.type \in Stages /\ e.type # "started" /\ e.type # "finished"
          /\ [stage |-> e.type, obs |-> e.obs] = new
      BY <1>1, <1>5, <1>6 DEF Stages
    <3> QED
      BY <1>6, <2>1, <3>1 DEF After
  <2>3. /\ h \in Hosts /\ h < nextHost /\ c.view[h] \in HostView /\ Fits(w, c.view[h])
        /\ \A v \in Active : job[v] = h => v = w
    BY <1>3, <1>9, <1>11, ConsumerFacts DEF Agrees, InHand
  <2>4. /\ new \in HostView
        /\ new.stage \in Following(c.view[h].stage)
        /\ Extends(new.obs, c.view[h].obs)
        /\ w \in Active' => Fits(w, new)'
    BY <1>1, <2>3, EmitFits
  <2>5. c.phase = "started" /\ dpc \in {"dispatch", "drain"}
    BY <1>9, <1>11 DEF Agrees, PhaseAgrees, SInv, IInv, Stage, TypeOK, Active
  <2>6. Legal(c, e, cancelled)
    BY <1>5, <1>6, <2>3, <2>4, <2>5 DEF Legal
  <2>7. d \in ConsumerStates
    BY <1>5, <2>2, <2>4, ConsumerFacts DEF ConsumerStates
  <2>8. /\ d.phase = "started" /\ d.view[h] = new
        /\ \A g \in Hosts : g # h => d.view[g] = c.view[g]
    BY <2>2, <2>3, <2>5, ConsumerFacts
  <2>9. PhaseAgrees(d)'
    BY <1>8, <2>5, <2>8 DEF PhaseAgrees
  <2>10. Untouched(d)'
    <3>1. nextHost \in Nat /\ h \in Nat /\ ~(h >= nextHost)
      BY <2>3 DEF SInv, IInv, TypeOK, Hosts
    <3> QED
      BY <1>8, <1>11, <2>8, <3>1 DEF Agrees, Untouched
  <2>11. InHand(d)'
    <3>1. ASSUME NEW v \in Active' PROVE Fits(v, d.view[job[v]])'
      <4>1. v \in Active /\ v \in Workers /\ Fits(v, c.view[job[v]]) /\ job[v] \in Hosts
        BY <1>10, <1>11 DEF Agrees, InHand, Active
      <4>2. CASE v # w
        <5>1. d.view[job[v]] = c.view[job[v]]
          BY <2>3, <2>8, <4>1, <4>2
        <5> QED
          BY <1>8, <4>1, <4>2, <5>1 DEF Fits
      <4>3. CASE v = w
        BY <1>3, <1>8, <2>4, <2>8, <3>1, <4>3
      <4> QED
        BY <4>2, <4>3
    <3> QED
      BY <1>8, <1>10, <1>11, <3>1 DEF Agrees, InHand
  <2>12. NoneDropped(d)'
    <3>1. SUFFICES ASSUME ~cancelled, NEW g \in Hosts, g < nextHost
                   PROVE  g \in DoneIn(d) \/ \E v \in Active' : job[v] = g
      BY <1>8, <1>11 DEF Agrees, NoneDropped, DoneIn
    <3>2. g \in DoneIn(c) \/ \E v \in Active : job[v] = g
      BY <1>11, <3>1 DEF Agrees, NoneDropped
    <3>3. CASE g = h
      BY <1>3, <1>5, <1>9, <1>10, <2>3, <2>8, <3>3 DEF DoneIn
    <3>4. CASE g # h
      BY <1>3, <1>10, <2>8, <3>2, <3>4 DEF DoneIn
    <3> QED
      BY <3>3, <3>4
  <2>13. AllCounted(d)'
    <3>1. Reporting(d)' \subseteq Reporting(c)
      BY <1>3, <1>5, <1>8, <1>10, <2>8 DEF Reporting
    <3> QED
      BY <1>8, <1>11, <2>7, <3>1, CountedStays DEF Agrees
  <2> QED
    BY <2>1, <2>6, <2>7, <2>9, <2>10, <2>11, <2>12, <2>13 DEF Agrees
<1> QED
  BY <1>6, <1>7, <1>8, <1>11, OwedByEvent DEF SInv

\* The consumer reads what it is owed next.
LEMMA OwedByReceive ==
  SInv /\ Receive => /\ Legal(Now, Head(out), cancelled)
                     /\ Now' = After(Now, Head(out))
                     /\ Owed'
<1> SUFFICES ASSUME SInv, Receive
             PROVE  /\ Legal(Now, Head(out), cancelled)
                    /\ Now' = After(Now, Head(out))
                    /\ Owed'
  OBVIOUS
<1>1. PICK c \in ConsumerStates : Leads(out, Now, cancelled, c) /\ Agrees(c)
  BY DEF SInv, Owed
<1>2. Now' = After(Now, Head(out)) /\ out' = Tail(out)
  BY DEF Receive, Now, After
<1>3. /\ Legal(Now, Head(out), cancelled)
      /\ Leads(Tail(out), After(Now, Head(out)), cancelled, c)
  BY <1>1, LeadsFromHead DEF Receive, SInv, IInv, TypeOK
<1>4. Agrees(c)'
  BY <1>1 DEF Receive, Agrees, PhaseAgrees, Untouched, InHand, NoneDropped, AllCounted,
              Active, Fits, Reporting
<1> QED
  BY <1>1, <1>2, <1>3, <1>4 DEF Owed, Receive

LEMMA NowIsConsumerState == TypeOK => Now \in ConsumerStates
BY DEF TypeOK, Now, ConsumerStates

\* The channel is closed and empty: nothing is owed any more.
LEMMA OwedBySeeClosed ==
  SInv /\ SeeClosed => (phase = "finished" \/ (phase = "idle" /\ cancelled)) /\ Owed'
<1> SUFFICES ASSUME SInv, SeeClosed
             PROVE  (phase = "finished" \/ (phase = "idle" /\ cancelled)) /\ Owed'
  OBVIOUS
<1> USE DEF consumerVars, engineVars
<1>1. dpc = "gone" /\ out = <<>> /\ phase # "closed" /\ phase' = "closed"
      /\ UNCHANGED <<engineVars, view, progress, cancelled>>
  BY DEF SeeClosed, SInv, IInv, Stage
<1>2. Now \in ConsumerStates /\ Now' \in ConsumerStates
  BY <1>1, NowIsConsumerState DEF SInv, IInv, TypeOK, Now, ConsumerStates
<1>3. Agrees(Now)
  BY <1>1, <1>2, LeadsNowhere DEF SInv, Owed
<1>4. phase = "finished" \/ (phase = "idle" /\ cancelled)
  BY <1>1, <1>3 DEF Agrees, PhaseAgrees, Now
<1>5. PICK d \in ConsumerStates : d = Now'
  BY <1>2
<1>6. d.phase = "closed" /\ d.view = Now.view
  BY <1>1, <1>5 DEF Now
<1>7. Agrees(d)'
  BY <1>1, <1>3, <1>6 DEF Agrees, PhaseAgrees, Untouched, InHand, NoneDropped, AllCounted,
                          Active, Fits, Reporting, DoneIn
<1>8. Leads(out', Now', cancelled', d)
  BY <1>1, <1>5, LeadsNowhere
<1> QED
  BY <1>4, <1>7, <1>8 DEF Owed

LEMMA OwedStep == SInv /\ [Next]_vars => Owed'
<1> SUFFICES ASSUME SInv, [Next]_vars PROVE Owed'
  OBVIOUS
<1>1. CASE UNCHANGED vars
  <2>1. PICK c \in ConsumerStates : Leads(out, Now, cancelled, c) /\ Agrees(c)
    BY DEF SInv, Owed
  <2>2. UNCHANGED <<cancelled, out, dpc, nextHost, pc, job, obs, checked>> /\ Now' = Now
    BY <1>1 DEF vars, engineVars, consumerVars, Now
  <2>3. Agrees(c)'
    BY <2>1, <2>2 DEF Agrees, PhaseAgrees, Untouched, InHand, NoneDropped, AllCounted,
                      Active, Fits, Reporting
  <2> QED
    BY <2>1, <2>2, <2>3 DEF Owed
<1> QED
  BY <1>1, OwedByDispatcher, OwedByStart, OwedByFinish, OwedByDispatch, OwedByQuiet,
     OwedByEmit, OwedByReceive, OwedBySeeClosed
     DEF Next, Dispatcher, Worker, Quiet, Consumer

LEMMA EndedStep == SInv /\ [Next]_vars => Ended'
<1> SUFFICES ASSUME SInv, [Next]_vars, phase' = "finished"
             PROVE  /\ (cancelled \/ DoneIn(Now) = Hosts)'
                    /\ (Cardinality(DoneIn(Now)) <= progress)'
  BY DEF Ended
<1> USE DEF consumerVars, engineVars
<1>1. CASE Receive
  <2>1. PICK e \in Events : e = Head(out)
    BY <1>1, TailFacts DEF Receive, SInv, IInv, TypeOK
  <2>2. Legal(Now, e, cancelled) /\ Now' = After(Now, e)
    BY <1>1, <2>1, OwedByReceive
  <2>3. e.type = "finished"
    <3>1. Now'.phase = "finished" /\ Now.phase = phase
      BY DEF Now
    <3> QED
      BY <2>1, <2>2, <3>1 DEF Legal, After, Events, Stages
  <2>4. (cancelled \/ DoneIn(Now) = Hosts) /\ Cardinality(DoneIn(Now)) <= e.checked
    BY <2>2, <2>3 DEF Legal, Stages
  <2>5. DoneIn(Now)' = DoneIn(Now) /\ cancelled' = cancelled
        /\ progress' = IF e.checked # 0 THEN e.checked ELSE progress
    BY <1>1, <2>1, <2>3 DEF Receive, DoneIn, Now, Stages
  <2>6. Cardinality(DoneIn(Now)) \in Nat /\ e.checked \in Nat /\ progress \in Nat
    BY ConsumerFacts, NowIsConsumerState, FS_CardinalityType DEF Events, SInv, IInv, TypeOK
  <2> QED
    BY <2>4, <2>5, <2>6
<1>2. CASE ~Receive
  <2>0. ~SeeClosed
    BY DEF SeeClosed
  <2>1. UNCHANGED <<phase, view, progress>>
    BY <1>2, <2>0 DEF Next, vars, Cancel, Dispatcher, EmitStarted, AbandonStart, Dispatch, CloseJobs,
                EmitFinished, CloseOut, Worker, Emit, EmitCancelled, NextPort, DialOpen,
                DialClosed, ArpMiss, ArpHit, Count, Exit, Consumer
  <2>3. cancelled' = cancelled \/ cancelled' = TRUE
    BY <1>2, <2>0 DEF Next, vars, Cancel, Dispatcher, EmitStarted, AbandonStart, Dispatch, CloseJobs,
                EmitFinished, CloseOut, Worker, Emit, EmitCancelled, NextPort, DialOpen,
                DialClosed, ArpMiss, ArpHit, Count, Exit, Consumer
  <2>2. phase = "finished" /\ DoneIn(Now)' = DoneIn(Now)
    BY <2>1 DEF DoneIn, Now
  <2> QED
    BY <2>1, <2>2, <2>3 DEF SInv, Ended
<1> QED
  BY <1>1, <1>2

LEMMA InitOwed == Init => Owed /\ Ended
<1> SUFFICES ASSUME Init PROVE Owed /\ Ended
  OBVIOUS
<1>1. Now \in ConsumerStates
  BY InitIInv, NowIsConsumerState DEF IInv
<1>2. PICK c \in ConsumerStates : c = Now
  BY <1>1
<1>3. c.phase = "idle" /\ \A h \in Hosts : c.view[h] = Unseen
  BY <1>2 DEF Init, Now
<1>4. Active = {}
  BY DEF Init, Active
<1>5. Reporting(c) = {}
  BY <1>3 DEF Init, Reporting, Unseen
<1>6. Agrees(c)
  BY <1>3, <1>4, <1>5, FS_EmptySet
     DEF Init, Agrees, PhaseAgrees, Untouched, InHand, NoneDropped, AllCounted, Hosts
<1>7. Leads(out, Now, cancelled, c)
  BY <1>2, LeadsNowhere DEF Init
<1> QED
  BY <1>6, <1>7 DEF Owed, Ended, Init

-----------------------------------------------------------------------------

\* What is queued is always what the consumer is still owed, in every
\* reachable state, with or without fairness.
THEOREM OwedInvariance == Init /\ [][Next]_vars => []SInv
<1>1. Init => SInv
  BY InitIInv, InitOwed DEF SInv
<1>2. SInv /\ [Next]_vars => SInv'
  <2>1. IInv /\ [Next]_vars => IInv'
    BY TypeOKStep, PortInRangeStep, StageStep, CountedStep, FinishedIsLastStep DEF IInv
  <2> QED
    BY <2>1, OwedStep, EndedStep DEF SInv
<1> QED
  BY <1>1, <1>2, PTL

\* The count scan_finished leaves behind covers every host that reported
\* host_done, however the workers' own figures were reordered, and is the whole
\* range unless the scan was cancelled.
THEOREM FinalProgressHolds == Spec => []FinalProgress
<1>1. SInv => FinalProgress
  <2> SUFFICES ASSUME SInv, phase = "finished"
               PROVE  /\ progress >= Cardinality({h \in Hosts : view[h].stage = "done"})
                      /\ ~cancelled => progress = NumHosts
    BY DEF FinalProgress
  <2>1. DoneIn(Now) = {h \in Hosts : view[h].stage = "done"}
    BY DEF DoneIn, Now
  <2>2. (cancelled \/ DoneIn(Now) = Hosts) /\ Cardinality(DoneIn(Now)) <= progress
    BY DEF SInv, Ended
  <2>3. Cardinality(Hosts) = NumHosts /\ progress \in 0 .. NumHosts
        /\ Cardinality(DoneIn(Now)) \in Nat
    BY ConsumerFacts, NowIsConsumerState, FS_CardinalityType DEF SInv, IInv, TypeOK
  <2> QED
    BY <2>1, <2>2, <2>3, NumHostsAssumption
<1> QED
  BY OwedInvariance, <1>1, PTL DEF Spec

\* One step of the engine is one step of the contract, or none.
LEMMA StepSimulates == SInv /\ [Next]_vars => [Stream!Next]_(Stream!streamVars)
<1> SUFFICES ASSUME SInv, [Next]_vars PROVE [Stream!Next]_(Stream!streamVars)
  OBVIOUS
<1> USE DEF consumerVars, engineVars
<1>1. CASE Cancel
  BY <1>1 DEF Cancel, Stream!Next, Stream!Cancel
<1>2. CASE Receive
  <2>1. PICK e \in Events : e = Head(out)
    BY <1>2, TailFacts DEF Receive, SInv, IInv, TypeOK
  <2>2. Legal(Now, e, cancelled)
    BY <1>2, <2>1, OwedByReceive
  <2>3. Now.phase = phase /\ Now.view = view /\ cancelled' = cancelled
    BY <1>2 DEF Now, Receive
  <2>4. CASE e.type = "started"
    <3>1. phase = "idle" /\ phase' = "started" /\ view' = view
      BY <1>2, <2>1, <2>2, <2>3, <2>4 DEF Receive, Legal, Stages
    <3> QED
      BY <2>3, <3>1 DEF Stream!Next, Stream!Begin
  <2>5. CASE e.type = "finished"
    <3>1. /\ phase = "started" /\ phase' = "finished" /\ view' = view
          /\ cancelled \/ DoneIn(Now) = Hosts
      BY <1>2, <2>1, <2>2, <2>3, <2>5 DEF Receive, Legal, Stages
    <3>2. cancelled \/ Stream!AllDone
      BY <2>3, <3>1 DEF Stream!AllDone, Stream!Hosts, Hosts, DoneIn
    <3> QED
      BY <2>3, <3>1, <3>2 DEF Stream!Next, Stream!End
  <2>6. CASE e.type \in Stages
    <3>1. /\ phase = "started" /\ phase' = phase /\ e.host \in Hosts /\ e.obs \in Snapshot
          /\ view' = [view EXCEPT ![e.host] = [stage |-> e.type, obs |-> e.obs]]
          /\ e.type \in Following(view[e.host].stage)
          /\ Extends(e.obs, view[e.host].obs)
      BY <1>2, <2>1, <2>2, <2>3, <2>6 DEF Receive, Legal, Stages, Events
    <3>2. /\ e.host \in Stream!Hosts /\ e.obs \in Stream!Snapshot
          /\ e.type \in Stream!Following(view[e.host].stage)
          /\ Stream!Extends(e.obs, view[e.host].obs)
      BY <3>1 DEF Stream!Hosts, Hosts, Stream!Snapshot, Snapshot, Stream!Ports, Ports,
                  Stream!Following, Following, Stream!Extends, Extends
    <3>3. Stream!Report(e.host)
      BY <2>3, <3>1, <3>2 DEF Stream!Report
    <3> QED
      BY <3>2, <3>3 DEF Stream!Next
  <2> QED
    BY <2>4, <2>5, <2>6 DEF Events
<1>3. CASE SeeClosed
  BY <1>3, OwedBySeeClosed DEF SeeClosed, Stream!Next, Stream!Close
<1>4. CASE ~Cancel /\ ~Receive /\ ~SeeClosed
  BY <1>4 DEF Next, vars, Dispatcher, EmitStarted, AbandonStart, Dispatch, CloseJobs,
              EmitFinished, CloseOut, Worker, Emit, EmitCancelled, NextPort, DialOpen,
              DialClosed, ArpMiss, ArpHit, Count, Exit, Consumer, Stream!streamVars
<1> QED
  BY <1>1, <1>2, <1>3, <1>4

\* The scan engine, with its workers, its bounded channel and its cancellation,
\* implements the event contract its three consumers rely on.
THEOREM StreamImplemented == Spec => StreamContract
<1>1. Init => Stream!Init
  BY DEF Init, Stream!Init, Stream!Hosts, Hosts, Stream!Unseen, Unseen, Stream!Blank, Blank
<1> QED
  BY <1>1, OwedInvariance, StepSimulates, PTL DEF Spec, StreamContract, Stream!Spec

=============================================================================
