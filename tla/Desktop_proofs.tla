---------------------------- MODULE Desktop_proofs ----------------------------
(***************************************************************************)
(* What is proved of the desktop app, for any ranges and any number of     *)
(* scans, calls, opened files and switches, and whichever order the        *)
(* replies and the events arrive in.                                       *)
(*                                                                         *)
(* RunIsOwn and CancelReachesTheScan rest on the app's critical sections:  *)
(* at most one scan is between its start and the clearing of the flag      *)
(* (OneLive), so App.run, which only such a scan touches, is that scan's   *)
(* (RunOfLive), and what a scan that is over took away to save was copied  *)
(* in the section that cleared the flag (Taken).                           *)
(*                                                                         *)
(* UIAgrees and MonitorAlive rest on what is on its way to the UI: while   *)
(* nobody acts hastily there is one scan or one call at a time and the     *)
(* last message on its way shows what the backend does (Calm), and a timer *)
(* that is not set waits for a scan that is still to be shown (Rearms).    *)
(***************************************************************************)
EXTENDS Desktop, FiniteSetTheorems, TLAPS

Stages == {"unused", "announce", "opening", "draining", "ended", "save", "notify", "gone"}

Live == {k \in Scans : pc[k] \in {"announce", "opening", "draining", "ended"}}

Types ==
  /\ scanning \in BOOLEAN
  /\ run \in Run
  /\ pc \in [Scans -> Stages]
  /\ snap \in [Scans -> [run : Run, hosts : [IPs -> Origins \cup {NoRow}]]]
  /\ results \in [IPs -> Origins \cup {NoRow}]
  /\ calls \in Seq(Request)

OneLive == Live = (IF scanning THEN {cancel} ELSE {}) /\ (~scanning => cancel = 0)

RunOfLive ==
  \A k \in Scans :
    /\ pc[k] \in {"announce", "opening"} => run.id = 0
    /\ pc[k] \in {"draining", "ended"} => run.id = k
    /\ pc[k] = "ended" => run.ended

\* What is saved of scan k is its own run, ended; a run that was not even
\* opened has no id and is not saved.
Own(k, r) == r.id = 0 \/ (r.id = k /\ r.ended)

Taken == \A k \in Scans : pc[k] = "save" => Own(k, snap[k].run)

IInv == Types /\ OneLive /\ RunOfLive /\ Taken /\ RunIsOwn

-----------------------------------------------------------------------------

\* The number of the next scan is one of Scans while there is room for it.
LEMMA NextScan ==
  ASSUME Started < MaxScans
  PROVE  Started + 1 \in Scans
<1> DEFINE used == {k \in Scans : pc[k] # "unused"}
<1>1. MaxScans \in Nat
  BY DesktopAssumption
<1>2. IsFiniteSet(Scans)
  BY <1>1, FS_Interval DEF Scans
<1>3. IsFiniteSet(used)
  BY <1>2, FS_Subset
<1>4. Started \in Nat
  BY <1>3, FS_CardinalityType DEF Started
<1> QED
  BY <1>1, <1>4 DEF Scans

\* The two live scans of a state are one.
LEMMA LiveIsOne ==
  ASSUME OneLive, NEW j \in Scans, NEW k \in Scans, j \in Live, k \in Live
  PROVE  j = k /\ scanning /\ cancel = k
BY DEF OneLive

LEMMA InitIInv == Init => IInv
<1> SUFFICES ASSUME Init PROVE IInv
  OBVIOUS
<1>1. NoRun \in Run
  BY DEF NoRun, Run
<1>2. Empty \in [IPs -> Origins \cup {NoRow}]
  BY DEF Empty
<1>3. Types
  <2>1. snap \in [Scans -> [run : Run, hosts : [IPs -> Origins \cup {NoRow}]]]
    BY <1>1, <1>2 DEF Init
  <2>2. pc \in [Scans -> Stages] /\ calls \in Seq(Request)
    BY DEF Init, Stages
  <2> QED
    BY <1>1, <1>2, <2>1, <2>2 DEF Init, Types
<1>4. OneLive /\ RunOfLive /\ Taken /\ RunIsOwn
  BY DEF Init, OneLive, Live, RunOfLive, Taken, RunIsOwn
<1> QED
  BY <1>3, <1>4 DEF IInv

-----------------------------------------------------------------------------
(* The UI's actions leave what the invariant is about alone, but for the    *)
(* results and the calls.                                                  *)

LEMMA UIStep ==
  ASSUME IInv, User \/ MonitorTick \/ Receive
  PROVE  IInv'
<1>1. UNCHANGED <<scanning, cancel, run, pc, snap, stored>>
  BY DEF User, MonitorTick, Receive, ClickScan, ClickCancel, MonitorOn, MonitorOff, OpenScanFile,
         Call, backendVars
<1>2. results' \in [IPs -> Origins \cup {NoRow}]
  <2>1. CASE OpenScanFile
    BY <2>1 DEF OpenScanFile, Origins
  <2>2. CASE ~OpenScanFile
    BY <2>2 DEF User, MonitorTick, Receive, ClickScan, ClickCancel, MonitorOn, MonitorOff,
                Call, backendVars, IInv, Types
  <2> QED
    BY <2>1, <2>2
<1>3. calls' \in Seq(Request)
  <2>1. CASE calls' = calls
    BY <2>1 DEF IInv, Types
  <2>2. CASE calls' # calls
    <3>1. PICK p \in BOOLEAN, r \in Ranges : calls' = Append(calls, [preserve |-> p, range |-> r])
      BY <2>2 DEF User, MonitorTick, Receive, ClickScan, ClickCancel, MonitorOn, MonitorOff,
                  OpenScanFile, Call
    <3> QED
      BY <3>1 DEF IInv, Types, Request
  <2> QED
    BY <2>1, <2>2
<1> QED
  BY <1>1, <1>2, <1>3 DEF IInv, Types, OneLive, Live, RunOfLive, Taken, RunIsOwn, Own

-----------------------------------------------------------------------------
(* The backend's actions.                                                  *)

LEMMA StartStep ==
  ASSUME IInv, StartScan
  PROVE  IInv'
<1> USE DEF IInv
<1> DEFINE new == Started + 1
<1>1. calls' \in Seq(Request) /\ Head(calls) \in Request
  BY DEF StartScan, Types
<1>2. CASE scanning
  <2>1. UNCHANGED <<scanning, cancel, results, run, pc, snap, stored>>
    BY <1>2 DEF StartScan
  <2> QED
    BY <1>1, <2>1 DEF Types, OneLive, Live, RunOfLive, Taken, RunIsOwn, Own
<1>3. CASE ~scanning
  <2>1. /\ scanning' = TRUE /\ cancel' = new /\ new \in Scans
        /\ run' = [NoRun EXCEPT !.range = Head(calls).range]
        /\ pc' = [pc EXCEPT ![new] = "announce"]
        /\ UNCHANGED <<snap, stored>>
    BY <1>3, NextScan DEF StartScan
  <2>2. run' \in Run /\ run'.id = 0
    BY <1>1, <2>1 DEF NoRun, Run, Request
  <2>3. Live = {}
    BY <1>3 DEF OneLive
  <2>4. Types'
    <3>1. results' \in [IPs -> Origins \cup {NoRow}]
      BY <1>3 DEF StartScan, Types, Empty
    <3>2. pc' \in [Scans -> Stages]
      BY <2>1 DEF Types, Stages
    <3> QED
      BY <1>1, <2>1, <2>2, <3>1, <3>2 DEF Types
  <2>5. \A k \in Scans : pc'[k] = (IF k = new THEN "announce" ELSE pc[k])
    BY <2>1 DEF Types
  <2>6. OneLive'
    BY <2>1, <2>3, <2>5 DEF OneLive, Live
  <2>7. RunOfLive'
    BY <2>2, <2>3, <2>5 DEF RunOfLive, Live
  <2>8. Taken' /\ RunIsOwn'
    BY <2>1, <2>5 DEF Taken, RunIsOwn, Own
  <2> QED
    BY <2>4, <2>6, <2>7, <2>8
<1> QED
  BY <1>2, <1>3 DEF Types

\* A step of scan k's own goroutines, up to the clearing of the flag.
LEMMA LiveStep ==
  ASSUME IInv, NEW k \in Scans,
         \/ Announce(k) \/ Return(k) \/ SeeStarted(k) \/ SeeFinished(k)
         \/ \E ip \in IPs : SeeHost(k, ip)
  PROVE  IInv'
<1> USE DEF IInv
<1>1. UNCHANGED <<scanning, cancel, snap, stored, calls>>
  BY DEF Announce, Return, SeeStarted, SeeHost, SeeFinished
<1>2. results' \in [IPs -> Origins \cup {NoRow}]
  BY DEF Announce, Return, SeeStarted, SeeHost, SeeFinished, Types, Origins
<1>3. run' \in Run
  BY DEF Announce, Return, SeeStarted, SeeHost, SeeFinished, Types, Run
<1>4. pc' \in [Scans -> Stages] /\ (\A j \in Scans : j # k => pc'[j] = pc[j])
  BY DEF Announce, Return, SeeStarted, SeeHost, SeeFinished, Types, Stages
<1>5. Live' = Live
  BY <1>4 DEF Announce, Return, SeeStarted, SeeHost, SeeFinished, Types, Live
<1>6. OneLive'
  BY <1>1, <1>5 DEF OneLive
<1>7. RunOfLive'
  <2>1. CASE Announce(k) \/ Return(k) \/ \E ip \in IPs : SeeHost(k, ip)
    BY <2>1 DEF Announce, Return, SeeHost, RunOfLive, Types
  <2>2. CASE SeeStarted(k) \/ SeeFinished(k)
    <3>1. k \in Live /\ Live = {k}
      BY <2>2, LiveIsOne DEF SeeStarted, SeeFinished, Live, OneLive
    <3>2. \A j \in Scans : j # k => pc'[j] \notin {"announce", "opening", "draining", "ended"}
      BY <3>1, <1>4 DEF Live
    <3>3. CASE SeeStarted(k)
      <4>1. pc'[k] = "draining" /\ run'.id = k
        BY <3>3 DEF SeeStarted, Types, Run
      <4> QED
        BY <3>2, <4>1 DEF RunOfLive
    <3>4. CASE SeeFinished(k)
      <4>1. pc[k] = "draining" /\ pc'[k] = "ended" /\ run'.id = run.id /\ run'.ended
        BY <3>4 DEF SeeFinished, Types, Run
      <4> QED
        BY <3>2, <4>1 DEF RunOfLive
    <3> QED
      BY <2>2, <3>3, <3>4
  <2> QED
    BY <2>1, <2>2
<1>8. Taken' /\ RunIsOwn'
  BY <1>1, <1>4 DEF Announce, Return, SeeStarted, SeeHost, SeeFinished, Types, Taken, RunIsOwn, Own
<1>9. Types'
  BY <1>1, <1>2, <1>3, <1>4 DEF Types
<1> QED
  BY <1>6, <1>7, <1>8, <1>9

\* The critical section that clears the flag takes the run away.
LEMMA CloseStep ==
  ASSUME IInv, NEW k \in Scans, Close(k)
  PROVE  IInv'
<1> USE DEF IInv
<1>1. k \in Live /\ Live = {k}
  BY LiveIsOne DEF Close, Live, OneLive
<1>2. pc' \in [Scans -> Stages] /\ \A j \in Scans : pc'[j] = (IF j = k THEN "save" ELSE pc[j])
  BY DEF Close, Types, Stages
<1>3. snap' \in [Scans -> [run : Run, hosts : [IPs -> Origins \cup {NoRow}]]]
      /\ \A j \in Scans : snap'[j].run = (IF j = k THEN run ELSE snap[j].run)
  BY DEF Close, Types
<1>4. Types'
  BY <1>2, <1>3 DEF Close, Types
<1>5. OneLive'
  BY <1>1, <1>2 DEF Close, OneLive, Live
<1>6. RunOfLive'
  BY <1>2 DEF Close, RunOfLive
<1>7. Own(k, run)
  BY DEF Close, RunOfLive, Own
<1>8. Taken' /\ RunIsOwn'
  BY <1>2, <1>3, <1>7 DEF Close, Taken, RunIsOwn, Own
<1> QED
  BY <1>4, <1>5, <1>6, <1>8

LEMMA AfterwardsStep ==
  ASSUME IInv, NEW k \in Scans, Save(k) \/ Notify(k)
  PROVE  IInv'
<1> USE DEF IInv
<1>1. UNCHANGED <<scanning, cancel, results, run, snap, calls>>
  BY DEF Save, Notify
<1>2. pc' \in [Scans -> Stages] /\ pc[k] \notin {"announce", "opening", "draining", "ended"}
      /\ pc'[k] \in {"notify", "gone"} /\ \A j \in Scans : j # k => pc'[j] = pc[j]
  BY DEF Save, Notify, Types, Stages
<1>3. Types' /\ OneLive' /\ RunOfLive' /\ Taken'
  BY <1>1, <1>2 DEF Types, OneLive, Live, RunOfLive, Taken, Own
<1>4. RunIsOwn'
  BY DEF Save, Notify, RunIsOwn, Taken, Own
<1> QED
  BY <1>3, <1>4

LEMMA NextIInv == IInv /\ [Next]_vars => IInv'
<1> SUFFICES ASSUME IInv, [Next]_vars PROVE IInv'
  OBVIOUS
<1>1. CASE User \/ MonitorTick \/ Receive
  BY <1>1, UIStep
<1>2. CASE StartScan
  BY <1>2, StartStep
<1>3. CASE \E k \in Scans : Announce(k) \/ Return(k) \/ Consumer(k)
  BY <1>3, LiveStep, CloseStep, AfterwardsStep DEF Consumer
<1>4. CASE UNCHANGED vars
  BY <1>4 DEF vars, backendVars, IInv, Types, OneLive, Live, RunOfLive, Taken, RunIsOwn, Own
<1> QED
  BY <1>1, <1>2, <1>3, <1>4 DEF Next, Backend

\* The inductive invariant: one scan at a time holds the flag, the handle and
\* App.run, from startScan to the section in consumeEvents that clears them.
THEOREM Invariance == Spec => []IInv
BY InitIInv, NextIInv, PTL DEF Spec

\* However calls, cancels and slow saves interleave, a consumer saves under the
\* id of its own scan, ended (consumeEvents).
THEOREM SavedRunIsOwn == Spec => []RunIsOwn
<1>1. IInv => RunIsOwn
  BY DEF IInv
<1> QED
  BY <1>1, Invariance, PTL

\* The cancel handle is that of the one scan in progress, and nothing once it
\* is over (startScan, CancelScan, consumeEvents).
THEOREM CancelReaches == Spec => []CancelReachesTheScan
<1>1. IInv => CancelReachesTheScan
  BY DEF IInv, OneLive, Live, CancelReachesTheScan
<1> QED
  BY <1>1, Invariance, PTL

-----------------------------------------------------------------------------
\* What the UI knows, as long as everybody waited for everything to arrive.

UITypes ==
  /\ uiScanning \in BOOLEAN
  /\ monitoring \in BOOLEAN
  /\ armed \in BOOLEAN
  /\ orderly \in BOOLEAN
  /\ wire \in Seq(Message)
  /\ replying \subseteq Scans

\* The scans used so far are the first ones, and only they are cancelled.
Numbered ==
  /\ \E n \in 0 .. MaxScans : \A k \in Scans : pc[k] # "unused" <=> k <= n
  /\ \A k \in cancelled : k \in Scans /\ pc[k] # "unused"

\* The timer runs only while monitor mode shows no scan.
TimerFits == armed => monitoring /\ ~uiScanning

Busy == {k \in Scans : pc[k] \notin {"unused", "gone"}}

\* What the UI will show once it has received everything on its way.
Told == IF wire = <<>> THEN uiScanning ELSE Shows(wire[Len(wire)])

\* One scan or one call at a time; the UI has been told of the scan from its
\* announcement to its finished event, and of nothing once it is gone.
Calm ==
  /\ \A j, k \in Busy : j = k
  /\ calls # <<>> => Len(calls) = 1 /\ Busy = {} /\ wire = <<>> /\ replying = {}
  /\ \A k \in Scans : k \in replying \/ pc[k] = "announce" => k \notin cancelled
  /\ \A k \in replying : pc[k] = "opening"
  /\ \A k \in Busy : pc[k] \in {"opening", "draining"} => Told
  /\ Busy = {} => ~Told

\* A timer that is not set will be: the start of the scan it waits for is
\* still to be shown.
Rearms ==
  monitoring /\ ~uiScanning =>
    \/ armed
    \/ calls # <<>>
    \/ \E k \in Scans : pc[k] = "announce"
    \/ \E i \in 1 .. Len(wire) : Shows(wire[i])

UIInv == IInv /\ UITypes /\ Numbered /\ TimerFits /\ (orderly => Calm /\ Rearms)

-----------------------------------------------------------------------------
\* Messages on their way.

LEMMA ShowsIsBoolean == \A m \in Message : Shows(m) \in BOOLEAN
BY DEF Shows, Message

LEMMA Sent ==
  ASSUME UITypes, NEW m \in Message, wire' = Append(wire, m)
  PROVE  /\ wire' \in Seq(Message) /\ wire' # <<>>
         /\ Told' = Shows(m)
         /\ Shows(m) => \E i \in 1 .. Len(wire') : Shows(wire'[i])
         /\ (\E i \in 1 .. Len(wire) : Shows(wire[i])) => \E i \in 1 .. Len(wire') : Shows(wire'[i])
<1>1. wire \in Seq(Message)
  BY DEF UITypes
<1>2. /\ wire' \in Seq(Message) /\ wire' # <<>>
      /\ Len(wire') = Len(wire) + 1 /\ Len(wire) \in Nat /\ wire'[Len(wire')] = m
      /\ \A i \in 1 .. Len(wire) : wire'[i] = wire[i] /\ i \in 1 .. Len(wire')
  BY <1>1
<1>3. Told' = Shows(m)
  BY <1>2 DEF Told, Shows
<1>4. Len(wire') \in 1 .. Len(wire')
  BY <1>2
<1> QED
  BY <1>2, <1>3, <1>4

LEMMA Delivered ==
  ASSUME UITypes, Receive
  PROVE  /\ Head(wire) \in Message /\ wire' \in Seq(Message)
         /\ Told' = Told
         /\ (\E i \in 1 .. Len(wire) : Shows(wire[i])) =>
              Shows(Head(wire)) \/ \E i \in 1 .. Len(wire') : Shows(wire'[i])
<1>1. wire \in Seq(Message) /\ wire # <<>> /\ wire' = Tail(wire) /\ uiScanning' = Shows(Head(wire))
  BY DEF UITypes, Receive
<1>2. /\ Head(wire) \in Message /\ wire' \in Seq(Message) /\ Head(wire) = wire[1]
      /\ Len(wire) \in Nat \ {0} /\ Len(wire') = Len(wire) - 1
      /\ \A i \in 1 .. Len(wire) : i # 1 => i - 1 \in 1 .. Len(wire') /\ wire'[i - 1] = wire[i]
  BY <1>1
<1>3. Told' = Told
  <2>1. CASE Len(wire) = 1
    <3>1. wire' = <<>>
      BY <1>1, <1>2, <2>1
    <3> QED
      BY <1>1, <1>2, <2>1, <3>1 DEF Told
  <2>2. CASE Len(wire) # 1
    <3>1. wire' # <<>> /\ wire'[Len(wire')] = wire[Len(wire)]
      BY <1>2, <2>2
    <3> QED
      BY <1>1, <3>1 DEF Told
  <2> QED
    BY <2>1, <2>2
<1>4. (\E i \in 1 .. Len(wire) : Shows(wire[i])) =>
         Shows(Head(wire)) \/ \E i \in 1 .. Len(wire') : Shows(wire'[i])
  BY <1>2
<1> QED
  BY <1>2, <1>3, <1>4

\* With nothing on its way, the UI is where the backend is.
LEMMA Settled ==
  ASSUME UIInv, orderly, ~InFlight
  PROVE  /\ uiScanning = scanning
         /\ wire = <<>> /\ calls = <<>> /\ replying = {}
         /\ \A k \in Busy : pc[k] \in {"opening", "draining"}
         /\ uiScanning = Told
<1>1. wire = <<>> /\ calls = <<>> /\ replying = {} /\ uiScanning = Told
  BY DEF InFlight, Told
<1>2. \A k \in Busy : pc[k] \in {"opening", "draining"}
  BY DEF InFlight, Changing, Busy, UIInv, IInv, Types, Stages
<1>3. uiScanning = scanning
  <2>1. Calm /\ uiScanning \in BOOLEAN /\ scanning \in BOOLEAN
    BY DEF UIInv, IInv, Types, UITypes
  <2>2. CASE Busy = {}
    <3>1. Live = {}
      BY <2>2 DEF Live, Busy
    <3> QED
      BY <1>1, <2>1, <2>2, <3>1 DEF Calm, UIInv, IInv, OneLive
  <2>3. CASE Busy # {}
    <3>1. PICK k \in Busy : pc[k] \in {"opening", "draining"}
      BY <1>2, <2>3
    <3>2. k \in Live /\ Told
      BY <2>1, <3>1 DEF Calm, Live, Busy
    <3> QED
      BY <1>1, <2>1, <3>2 DEF UIInv, IInv, OneLive
  <2> QED
    BY <2>2, <2>3
<1> QED
  BY <1>1, <1>2, <1>3

-----------------------------------------------------------------------------

LEMMA InitUIInv == Init => UIInv
<1> SUFFICES ASSUME Init PROVE UIInv
  OBVIOUS
<1>1. UITypes /\ TimerFits
  <2>1. wire \in Seq(Message) /\ replying \subseteq Scans
    BY DEF Init
  <2>2. uiScanning = FALSE /\ monitoring = FALSE /\ armed = FALSE /\ orderly = TRUE
    BY DEF Init
  <2> QED
    BY <2>1, <2>2 DEF UITypes, TimerFits
<1>2. Numbered
  <2>1. 0 \in 0 .. MaxScans /\ \A k \in Scans : ~(k <= 0)
    BY DesktopAssumption DEF Scans
  <2> QED
    BY <2>1 DEF Init, Numbered
<1>3. Busy = {}
  BY DEF Init, Busy
<1>4. Calm /\ Rearms
  BY <1>3 DEF Init, Calm, Rearms, Told
<1> QED
  BY <1>1, <1>2, <1>4, InitIInv DEF UIInv

\* What the user and the timer do: if nothing was in flight, what they start is
\* the only thing in flight, and it is started only where no scan is shown.
LEMMA UserStep ==
  ASSUME UIInv, User \/ MonitorTick
  PROVE  UITypes' /\ Numbered' /\ TimerFits' /\ (orderly' => Calm' /\ Rearms')
<1>1. UNCHANGED <<pc, wire, replying, uiScanning>>
  BY DEF User, MonitorTick, ClickScan, ClickCancel, MonitorOn, MonitorOff, OpenScanFile,
         backendVars, uiVars
<1>2. orderly' = (orderly /\ ~InFlight)
  BY DEF User, MonitorTick, ClickScan, ClickCancel, MonitorOn, MonitorOff, OpenScanFile, Act
<1>3. UITypes'
  BY <1>1, <1>2 DEF UIInv, UITypes, User, MonitorTick, ClickScan, ClickCancel, MonitorOn, MonitorOff,
     OpenScanFile, Rearm, uiVars
<1>4. cancelled' \subseteq cancelled \cup Live
  BY DEF User, MonitorTick, ClickScan, ClickCancel, MonitorOn, MonitorOff, OpenScanFile,
         backendVars, UIInv, IInv, OneLive
<1>5. Numbered'
  BY <1>1, <1>4 DEF Numbered, UIInv, Live
<1>6. TimerFits'
  BY <1>1 DEF UIInv, UITypes, TimerFits, User, MonitorTick, ClickScan, ClickCancel, MonitorOn, MonitorOff,
     OpenScanFile, Rearm, uiVars
<1>7. ASSUME orderly' PROVE Calm' /\ Rearms'
  <2>1. orderly /\ ~InFlight /\ Calm /\ Rearms
    BY <1>2, <1>7 DEF UIInv
  <2>2. wire = <<>> /\ calls = <<>> /\ replying = {} /\ uiScanning = Told
        /\ \A k \in Busy : pc[k] \in {"opening", "draining"}
    BY <2>1, Settled
  <2>3. Busy' = Busy /\ Told' = Told
    BY <1>1 DEF Busy, Told, Shows
  <2>4. calls' = <<>> \/ (Len(calls') = 1 /\ ~uiScanning)
    <3>1. calls' = calls \/ (~uiScanning /\ \E q : calls' = Append(calls, q))
      BY DEF User, MonitorTick, ClickScan, ClickCancel, MonitorOn, MonitorOff, OpenScanFile, Call,
             UIInv, TimerFits
    <3> QED
      BY <2>2, <3>1
  <2>5. \A k \in Scans : pc[k] # "announce"
    BY <2>1 DEF InFlight, Changing
  <2>6. Calm'
    <3>1. calls' # <<>> => Busy = {}
      BY <2>1, <2>2, <2>4 DEF Calm
    <3> QED
      BY <1>1, <2>1, <2>2, <2>3, <2>4, <2>5, <3>1 DEF Calm
  <2>7. Rearms'
    <3>1. SUFFICES ASSUME monitoring', ~uiScanning PROVE armed' \/ calls' # <<>>
      BY <1>1 DEF Rearms
    <3>2. CASE ClickScan \/ MonitorTick
      BY <2>2, <3>2 DEF ClickScan, MonitorTick, Call
    <3>3. CASE MonitorOn
      <4>1. ~monitoring /\ monitoring' = TRUE /\ uiScanning' = uiScanning
        BY <3>3 DEF MonitorOn
      <4>2. armed' = (monitoring' /\ ~uiScanning')
        BY <3>3, <4>1 DEF MonitorOn, Rearm
      <4> QED
        BY <3>1, <4>1, <4>2
    <3>4. CASE ClickCancel \/ OpenScanFile
      <4>1. monitoring' = monitoring /\ armed' = armed /\ calls' = calls
        BY <3>4 DEF ClickCancel, OpenScanFile, uiVars
      <4>2. armed \/ calls # <<>>
        BY <2>1, <2>2, <2>5, <3>1, <4>1 DEF Rearms
      <4> QED
        BY <4>1, <4>2
    <3>5. CASE MonitorOff
      BY <3>1, <3>5 DEF MonitorOff
    <3> QED
      BY <3>2, <3>3, <3>4, <3>5 DEF User
  <2> QED
    BY <2>6, <2>7
<1> QED
  BY <1>3, <1>5, <1>6, <1>7

\* Receiving changes nothing of what the UI will have been told, and sets the
\* timer whenever monitor mode sees a scan end.
LEMMA ReceiveStep ==
  ASSUME UIInv, Receive
  PROVE  UITypes' /\ Numbered' /\ TimerFits' /\ (orderly' => Calm' /\ Rearms')
<1>1. UNCHANGED <<pc, replying, calls, cancelled, monitoring, orderly>>
      /\ uiScanning' = Shows(Head(wire)) /\ Rearm /\ wire # <<>>
  BY DEF Receive, backendVars
<1>2. /\ Head(wire) \in Message /\ wire' \in Seq(Message) /\ Told' = Told
      /\ (\E i \in 1 .. Len(wire) : Shows(wire[i])) =>
              Shows(Head(wire)) \/ \E i \in 1 .. Len(wire') : Shows(wire'[i])
  BY Delivered DEF UIInv
<1>3. uiScanning' \in BOOLEAN
  BY <1>1, <1>2, ShowsIsBoolean
<1>4. UITypes' /\ TimerFits'
  BY <1>1, <1>2, <1>3 DEF UIInv, UITypes, TimerFits, Rearm
<1>5. Numbered'
  BY <1>1 DEF UIInv, Numbered
<1>6. ASSUME orderly PROVE Calm' /\ Rearms'
  <2>1. Calm /\ Rearms
    BY <1>6 DEF UIInv
  <2>2. Calm'
    BY <1>1, <1>2, <2>1 DEF Calm, Busy
  <2>3. Rearms'
    BY <1>1, <1>2, <1>3, <2>1 DEF UIInv, UITypes, Rearms, Rearm
  <2> QED
    BY <2>2, <2>3
<1> QED
  BY <1>1, <1>4, <1>5, <1>6

LEMMA StartUIStep ==
  ASSUME UIInv, StartScan
  PROVE  UITypes' /\ Numbered' /\ TimerFits' /\ (orderly' => Calm' /\ Rearms')
<1>1. /\ UNCHANGED <<uiScanning, monitoring, armed, orderly, replying, cancelled>>
      /\ calls # <<>> /\ calls' = Tail(calls)
  BY DEF StartScan, uiVars
<1>2. CASE scanning
  <2>1. wire' = Append(wire, [type |-> "reply", ok |-> FALSE]) /\ pc' = pc
    BY <1>2 DEF StartScan
  <2>2. [type |-> "reply", ok |-> FALSE] \in Message
    BY DEF Message
  <2>3. wire' \in Seq(Message)
    BY <2>1, <2>2, Sent DEF UIInv
  <2>4. ~orderly
    <3>1. scanning => Live # {}
      BY DEF UIInv, IInv, OneLive
    <3>2. Live \subseteq Busy
      BY DEF Live, Busy
    <3> QED
      BY <1>1, <1>2, <3>1, <3>2 DEF UIInv, Calm
  <2> QED
    BY <1>1, <2>1, <2>3, <2>4 DEF UIInv, UITypes, Numbered, TimerFits
<1>3. CASE ~scanning
  <2>1. PICK new \in Scans : new = Started + 1
    BY <1>3, NextScan DEF StartScan
  <2>2. /\ pc' = [pc EXCEPT ![new] = "announce"] /\ wire' = wire /\ pc \in [Scans -> Stages]
    BY <1>3, <2>1 DEF StartScan, UIInv, IInv, Types
  <2>3. PICK n \in 0 .. MaxScans : \A k \in Scans : pc[k] # "unused" <=> k <= n
    BY DEF UIInv, Numbered
  <2>4. Started = n
    <3>1. {k \in Scans : pc[k] # "unused"} = 1 .. n
      BY <2>3, DesktopAssumption DEF Scans
    <3>2. Cardinality(1 .. n) = n
      BY <2>3, DesktopAssumption, FS_Interval
    <3> QED
      BY <3>1, <3>2 DEF Started
  <2>5. new = n + 1 /\ pc[new] = "unused" /\ new \notin cancelled
    BY <2>1, <2>3, <2>4, DesktopAssumption DEF UIInv, Numbered, Scans
  <2>6. Numbered'
    <3>1. n + 1 \in 0 .. MaxScans /\ \A k \in Scans : pc'[k] # "unused" <=> k <= n + 1
      BY <2>1, <2>2, <2>3, <2>5, DesktopAssumption DEF Scans
    <3>2. \A k \in cancelled' : k \in Scans /\ pc'[k] # "unused"
      BY <1>1, <2>2 DEF UIInv, Numbered
    <3> QED
      BY <3>1, <3>2 DEF Numbered
  <2>7. ASSUME orderly PROVE Calm' /\ Rearms'
    <3>1. Calm /\ Len(calls) = 1 /\ Busy = {} /\ wire = <<>> /\ replying = {}
      BY <1>1, <2>7 DEF UIInv, Calm
    <3>2. calls' = <<>>
      BY <1>1, <3>1 DEF UIInv, IInv, Types
    <3>3. Busy' = {new} /\ pc'[new] = "announce"
      BY <2>2, <3>1 DEF Busy
    <3>4. \A k \in Scans : pc'[k] = "announce" => k = new
      BY <2>2, <3>1 DEF Busy
    <3> QED
      BY <1>1, <2>5, <3>1, <3>2, <3>3, <3>4 DEF Calm, Rearms
  <2> QED
    BY <1>1, <2>2, <2>6, <2>7 DEF UIInv, UITypes, TimerFits
<1> QED
  BY <1>2, <1>3 DEF UIInv, IInv, Types

\* A step of scan k once it was started: while everybody waits, k is the only
\* scan there is and no call is on its way.
LEMMA ScanUIStep ==
  ASSUME UIInv, NEW k \in Scans, Announce(k) \/ Return(k) \/ Consumer(k)
  PROVE  UITypes' /\ Numbered' /\ TimerFits' /\ (orderly' => Calm' /\ Rearms')
<1> USE DEF Consumer
<1>1. /\ UNCHANGED <<uiScanning, monitoring, armed, calls, cancelled>>
      /\ pc \in [Scans -> Stages] /\ replying \subseteq Scans /\ UITypes
      /\ wire \in Seq(Message) /\ orderly \in BOOLEAN
  BY DEF Announce, Return, SeeStarted, SeeHost, SeeFinished, Close, Save, Notify, uiVars,
         UIInv, IInv, Types, UITypes
<1>2. /\ \A j \in Scans : j # k => pc'[j] = pc[j]
      /\ pc'[k] # pc[k] => pc[k] # "unused" /\ pc'[k] # "unused"
  BY <1>1 DEF Announce, Return, SeeStarted, SeeHost, SeeFinished, Close, Save, Notify
<1>3. replying' \subseteq Scans /\ (orderly' => orderly) /\ orderly' \in BOOLEAN
  <2>1. CASE SeeStarted(k)
    BY <1>1, <2>1 DEF SeeStarted
  <2>2. CASE ~SeeStarted(k)
    BY <1>1, <2>2 DEF Announce, Return, SeeHost, SeeFinished, Close, Save, Notify
  <2> QED
    BY <2>1, <2>2
<1>4. wire' \in Seq(Message)
  <2>1. wire' = wire \/ \E m \in Message : wire' = Append(wire, m)
    BY DEF Announce, Return, SeeStarted, SeeHost, SeeFinished, Close, Save, Notify, Message
  <2> QED
    BY <1>1, <2>1, Sent
<1>5. Numbered'
  BY <1>1, <1>2 DEF UIInv, Numbered
<1>6. ASSUME orderly' PROVE Calm' /\ Rearms'
  <2>1. orderly /\ Calm /\ Rearms
    BY <1>3, <1>6 DEF UIInv
  <2>2. k \in Busy /\ Busy = {k} /\ calls = <<>> /\ \A j \in replying : j = k /\ pc[k] = "opening"
    <3>1. k \in Busy
      BY <2>1 DEF Announce, Return, SeeStarted, SeeHost, SeeFinished, Close, Save, Notify, Busy, Calm
    <3>2. \A j \in replying : j \in Busy
      BY <1>1, <2>1 DEF Calm, Busy
    <3> QED
      BY <2>1, <3>1, <3>2 DEF Calm
  <2>3. Busy' = IF pc'[k] = "gone" THEN {} ELSE {k}
    BY <1>2, <2>2 DEF Busy
  <2>4. \A j \in Scans : j # k => pc[j] # "announce" /\ pc'[j] # "announce"
    BY <1>2, <2>2 DEF Busy
  <2>5. CASE Announce(k) \/ Return(k)
    <3>1. PICK m \in Message : wire' = Append(wire, m) /\ Shows(m)
      <4>1. [type |-> "state", on |-> TRUE] \in Message /\ [type |-> "reply", ok |-> TRUE] \in Message
        BY DEF Message
      <4> QED
        BY <2>5, <4>1 DEF Announce, Return, Shows
    <3>2. Told' /\ \E i \in 1 .. Len(wire') : Shows(wire'[i])
      BY <1>1, <3>1, Sent
    <3>3. pc'[k] = "opening" /\ replying' \subseteq {k} /\ k \notin cancelled
      BY <1>1, <2>1, <2>2, <2>5 DEF Announce, Return, Calm
    <3> QED
      BY <1>1, <2>2, <2>3, <2>4, <3>2, <3>3 DEF Calm, Rearms
  <2>6. CASE SeeStarted(k) \/ (\E ip \in IPs : SeeHost(k, ip)) \/ Close(k) \/ Save(k)
    <3>1. /\ wire' = wire /\ replying' = replying
          /\ pc'[k] \notin {"announce", "gone"} /\ pc[k] # "announce"
          /\ (pc'[k] \in {"opening", "draining"} => pc[k] \in {"opening", "draining"})
      BY <1>1, <2>6 DEF SeeStarted, SeeHost, Close, Save
    <3>3. Told' = Told
      BY <1>1, <3>1 DEF Told
    <3>2. replying = {}
      BY <1>6, <2>1, <2>2, <2>6 DEF SeeStarted, SeeHost, Close, Save, Calm
    <3> QED
      BY <1>1, <2>1, <2>2, <2>3, <2>4, <3>1, <3>2, <3>3 DEF Calm, Rearms
  <2>7. CASE SeeFinished(k) \/ Notify(k)
    <3>1. PICK m \in Message : wire' = Append(wire, m) /\ Shows(m) = FALSE
      <4>1. [type |-> "state", on |-> FALSE] \in Message /\ [type |-> "finished"] \in Message
        BY DEF Message
      <4> QED
        BY <2>7, <4>1 DEF SeeFinished, Notify, Shows
    <3>2. Told' = FALSE
          /\ ((\E i \in 1 .. Len(wire) : Shows(wire[i])) => \E i \in 1 .. Len(wire') : Shows(wire'[i]))
      BY <1>1, <3>1, Sent
    <3>3. replying' = replying /\ replying = {} /\ pc'[k] \in {"ended", "gone"} /\ pc[k] # "announce"
      BY <1>1, <2>2, <2>7 DEF SeeFinished, Notify
    <3> QED
      BY <1>1, <2>1, <2>2, <2>3, <2>4, <3>2, <3>3 DEF Calm, Rearms
  <2> QED
    BY <2>5, <2>6, <2>7
<1> QED
  BY <1>1, <1>3, <1>4, <1>5, <1>6 DEF UIInv, UITypes, TimerFits

LEMMA NextUIInv == UIInv /\ [Next]_vars => UIInv'
<1> SUFFICES ASSUME UIInv, [Next]_vars PROVE UIInv'
  OBVIOUS
<1>1. IInv'
  BY NextIInv DEF UIInv
<1>2. UITypes' /\ Numbered' /\ TimerFits' /\ (orderly' => Calm' /\ Rearms')
  <2>1. CASE UNCHANGED vars
    BY <2>1 DEF vars, backendVars, uiVars, UIInv, UITypes, Numbered, TimerFits, Calm, Rearms,
                Busy, Told, Shows
  <2> QED
    BY <2>1, UserStep, ReceiveStep, StartUIStep, ScanUIStep DEF Next, Backend
<1> QED
  BY <1>1, <1>2 DEF UIInv

\* While nobody acts hastily there is one scan or one call at a time, and the
\* messages on their way end with what the backend does.
THEOREM UIInvariance == Spec => []UIInv
BY InitUIInv, NextUIInv, PTL DEF Spec

\* With nothing in flight the UI shows a scan exactly while one runs (useScan.ts
\* mirrors the replies and the events of app.go).
THEOREM UIMirrors == Spec => []UIAgrees
<1>1. UIInv => UIAgrees
  BY Settled DEF UIAgrees
<1> QED
  BY <1>1, UIInvariance, PTL

\* Monitor mode never falls asleep: its timer is set whenever it is on, nothing
\* runs and nothing is in flight (the effect in useScan.ts that owns the timer).
THEOREM MonitorStaysAlive == Spec => []MonitorAlive
<1>1. UIInv => MonitorAlive
  <2> SUFFICES ASSUME UIInv, orderly, ~InFlight, monitoring, ~scanning PROVE armed
    BY DEF MonitorAlive
  <2>1. ~uiScanning /\ wire = <<>> /\ calls = <<>>
    BY Settled DEF UIInv, UITypes, IInv, Types
  <2>2. \A k \in Scans : pc[k] # "announce"
    BY DEF InFlight, Changing
  <2> QED
    BY <2>1, <2>2 DEF UIInv, Rearms
<1> QED
  BY <1>1, UIInvariance, PTL
=============================================================================
