------------------------- MODULE ScanSettings_proofs -------------------------
(***************************************************************************)
(* RangeIsTheUsers, for any networks, ports and texts and whenever the     *)
(* passive effects run; and ScansWhatWasChosen, where they run before the  *)
(* next event, which keeps the refs a call is made from in step with what  *)
(* is shown.                                                               *)
(*                                                                         *)
(* The first rests on both places the range is kept in: once the user has  *)
(* entered a range, the field and the storage hold it (Entered), so a      *)
(* detection that answers late finds a stored range and a restart takes it.*)
(***************************************************************************)
EXTENDS ScanSettings, FiniteSetTheorems, TLAPS

UI == [field : Texts, off : SUBSET Defaults, extra : Extras, every : Intervals,
       listed : BOOLEAN, rows : BOOLEAN, scanning : BOOLEAN, monitoring : BOOLEAN,
       error : {"none", "scan", "file"}]

Kept == [field : Texts, off : SUBSET Defaults, extra : Extras, every : Intervals]

Types == here \in Networks /\ ui \in UI /\ kept \in Kept

Entered == typed # Untyped => typed # "" /\ ui.field = typed /\ kept.field = typed

IInv == Types /\ Entered

-----------------------------------------------------------------------------

\* A hook starts from what is stored.
LEMMA HookTypes ==
  ASSUME kept \in Kept
  PROVE  useStoredState \in UI /\ useStoredState.field = kept.field
BY DEF useStoredState, UI, Kept

LEMMA StoredTypes == ASSUME NEW u \in UI PROVE Stored(u) \in Kept /\ Stored(u).field = u.field
BY DEF Stored, UI, Kept

LEMMA InitIInv == Init => IInv
<1> SUFFICES ASSUME Init PROVE IInv
  OBVIOUS
<1>1. kept \in Kept
  BY ScanSettingsAssumption DEF Init, Kept, Texts, Intervals
<1>2. ui \in UI
  BY <1>1, HookTypes DEF Init
<1> QED
  BY <1>1, <1>2 DEF Init, IInv, Types, Entered

\* What the user enters is shown and stored in one event.
LEMMA TypeStep ==
  ASSUME IInv, NEW text \in Texts, Type(text)
  PROVE  IInv'
<1>1. ui' \in UI /\ ui'.field = text
  BY DEF IInv, Types, Type, Set, UI
<1>2. kept' \in Kept /\ kept'.field = text
  BY <1>1, StoredTypes DEF Type, Set, Flushed
<1>3. here' \in Networks
  BY DEF IInv, Types, Type, Set
<1>4. typed' # Untyped => typed' = text /\ text # ""
  BY DEF Type
<1> QED
  BY <1>1, <1>2, <1>3, <1>4 DEF IInv, Types, Entered

\* Every other step that leaves the range alone, in the field and in storage.
LEMMA RangeKept ==
  ASSUME IInv, ui' \in UI, ui'.field = ui.field, UNCHANGED <<here, typed>>,
         UNCHANGED kept \/ Flushed
  PROVE  IInv'
<1>1. kept' \in Kept /\ (kept'.field = kept.field \/ kept'.field = ui.field)
  BY StoredTypes DEF IInv, Types, Flushed
<1> QED
  BY <1>1 DEF IInv, Types, Entered

LEMMA ChoiceStep ==
  ASSUME IInv,
         \/ \E port \in Defaults : ToggleDefault(port)
         \/ \E text \in Extras : EnterExtras(text)
         \/ \E every \in Intervals : SetInterval(every)
         \/ \E action \in FileActions : file(action)
         \/ ResetPorts \/ ClearError
  PROVE  IInv'
<1>1. UNCHANGED <<here, typed>> /\ Flushed
  BY DEF ToggleDefault, EnterExtras, SetInterval, file, ResetPorts, ClearError, Set
<1>2. ui' \in UI /\ ui'.field = ui.field
  <2>1. CASE \E port \in Defaults : ToggleDefault(port)
    BY <2>1 DEF IInv, Types, UI, ToggleDefault, Set
  <2>2. CASE \E text \in Extras : EnterExtras(text)
    BY <2>2 DEF IInv, Types, UI, EnterExtras, Set
  <2>3. CASE \E every \in Intervals : SetInterval(every)
    BY <2>3 DEF IInv, Types, UI, SetInterval, Set
  <2>4. CASE ResetPorts
    BY <2>4, ScanSettingsAssumption DEF IInv, Types, UI, ResetPorts, Set
  <2>5. CASE ClearError \/ \E action \in FileActions : file(action)
    BY <2>5 DEF IInv, Types, UI, ClearError, file, Set
  <2> QED
    BY <2>1, <2>2, <2>3, <2>4, <2>5
<1> QED
  BY <1>1, <1>2, RangeKept

\* A start call leaves the range alone, refused or not.
LEMMA StartKeeps ==
  ASSUME NEW u \in UI, NEW preserve \in BOOLEAN, NEW byMonitor \in BOOLEAN,
         startScan(u, preserve, byMonitor)
  PROVE  ui' \in UI /\ ui'.field = u.field
<1>1. CASE blocked(u)
  BY <1>1 DEF startScan, UI
<1>2. CASE ~blocked(u)
  BY <1>2 DEF startScan, UI
<1> QED
  BY <1>1, <1>2

LEMMA ScanStep ==
  ASSUME IInv, ClickScan \/ toggleMonitor \/ Tick \/ Answered \/ Finished
  PROVE  IInv'
<1>1. UNCHANGED <<here, typed>> /\ (UNCHANGED kept \/ Flushed)
  BY DEF ClickScan, toggleMonitor, Tick, Answered, Finished
<1>2. ui' \in UI /\ ui'.field = ui.field
  <2>1. CASE ClickScan \/ Tick
    BY <2>1, StartKeeps DEF ClickScan, Tick, IInv, Types
  <2>2. CASE toggleMonitor
    <3> DEFINE u == [ui EXCEPT !.monitoring = ~@]
    <3>1. u \in UI /\ u.field = ui.field /\ u.rows \in BOOLEAN
      BY DEF IInv, Types, UI
    <3>2. ui' = u \/ startScan(u, u.rows, TRUE)
      BY <2>2 DEF toggleMonitor
    <3> HIDE DEF u
    <3> QED
      BY <3>1, <3>2, StartKeeps
  <2>3. CASE Answered
    BY <2>3 DEF Answered, IInv, Types, UI
  <2>4. CASE Finished
    BY <2>4 DEF Finished, IInv, Types, UI
  <2> QED
    BY <2>1, <2>2, <2>3, <2>4
<1> QED
  BY <1>1, <1>2, RangeKept

\* Answers that come in while the user types or later.
LEMMA AnswerStep ==
  ASSUME IInv, PortsAnswered \/ NetworksAnswered \/ \E action \in FileActions : fileAction(action)
  PROVE  IInv'
<1>1. UNCHANGED <<here, kept, typed>>
  BY DEF PortsAnswered, NetworksAnswered, fileAction
<1>2. ui' \in UI
  <2>1. CASE PortsAnswered
    BY <2>1 DEF PortsAnswered, IInv, Types, UI
  <2>2. CASE NetworksAnswered
    BY <2>2, ScanSettingsAssumption DEF NetworksAnswered, IInv, Types, UI, Texts
  <2>3. CASE \E action \in FileActions : fileAction(action)
    BY <2>3 DEF fileAction, IInv, Types, UI
  <2> QED
    BY <2>1, <2>2, <2>3
<1>3. kept.field # "" => ui'.field = ui.field
  BY DEF PortsAnswered, NetworksAnswered, fileAction, IInv, Types, UI
<1> QED
  BY <1>1, <1>2, <1>3 DEF IInv, Types, Entered

LEMMA AppStep ==
  ASSUME IInv, Start \/ Close \/ Move \/ Effects
  PROVE  IInv'
<1>1. CASE Start
  BY <1>1, HookTypes DEF Start, IInv, Types, Entered
<1>2. CASE Close \/ Move
  BY <1>2 DEF Close, Move, IInv, Types, Entered
<1>3. CASE Effects
  BY <1>3, RangeKept DEF Effects, IInv, Types
<1> QED
  BY <1>1, <1>2, <1>3

LEMMA NextIInv == IInv /\ [Next]_vars => IInv'
<1> SUFFICES ASSUME IInv, [Next]_vars PROVE IInv'
  OBVIOUS
<1>1. CASE User
  BY <1>1, TypeStep, ChoiceStep, ScanStep DEF User
<1>2. CASE Next /\ ~User
  BY <1>2, ScanStep, AnswerStep, AppStep DEF Next
<1>3. CASE UNCHANGED vars
  BY <1>3 DEF vars, IInv, Types, Entered
<1> QED
  BY <1>1, <1>2, <1>3

\* The inductive invariant.
THEOREM Invariance == Spec => []IInv
BY InitIInv, NextIInv, PTL DEF Spec

\* A range the user entered stays the range (useScan.ts:89, settings.ts).
THEOREM RangeStays == Spec => []RangeIsTheUsers
<1>1. IInv => RangeIsTheUsers
  BY DEF IInv, Entered, RangeIsTheUsers
<1> QED
  BY <1>1, Invariance, PTL
-----------------------------------------------------------------------------
(* What a scan is asked for, where effects run before the next event.      *)

\* Of a state that is not blocked: what the scanner probes when it is sent
\* the ports that are worked out.
LEMMA PortFacts ==
  ASSUME NEW u \in UI, ~blocked(u)
  PROVE  LET probed == NormalizePorts(scanPorts(u))
             chosen == (Defaults \ u.off) \cup parsePortList(u.extra)
         IN  /\ probed \subseteq chosen
             /\ u.listed => probed = chosen
             /\ Cardinality(probed) = portSummary(u)
             /\ Cardinality(scanPorts(u)) <= MaxPorts
<1>0. MaxPorts \in Nat
  BY ScanSettingsAssumption, Zenon
<1>1. CASE portsCustomized(u)
  <2>1. Cardinality(scanPorts(u)) \in 1 .. MaxPorts
    BY <1>1 DEF blocked, portsValid
  <2>2. scanPorts(u) # {}
    BY <1>0, <2>1, FS_EmptySet
  <2>3. NormalizePorts(scanPorts(u)) = scanPorts(u)
    BY <2>2 DEF NormalizePorts
  <2>4. Cardinality(scanPorts(u)) <= MaxPorts
    BY <1>0, <2>1
  <2>5. scanPorts(u) = ((IF u.listed THEN Defaults ELSE {}) \ u.off) \cup parsePortList(u.extra)
    BY <1>1 DEF scanPorts
  <2> QED
    BY <1>1, <2>3, <2>4, <2>5 DEF portSummary
<1>2. CASE ~portsCustomized(u)
  <2>1. scanPorts(u) = {} /\ u.off = {} /\ parsePortList(u.extra) = {}
    BY <1>2 DEF scanPorts, portsCustomized
  <2>2. NormalizePorts(scanPorts(u)) = Defaults
    BY <2>1 DEF NormalizePorts
  <2>3. Cardinality(scanPorts(u)) <= MaxPorts
    BY <1>0, <2>1, FS_EmptySet
  <2> QED
    BY <1>2, <2>1, <2>2, <2>3 DEF portSummary
<1> QED
  BY <1>1, <1>2

\* A call is made by a step of the user or the timer that found the refs in
\* step with what is shown, and the choice not blocked.
LEMMA CallFacts ==
  ASSUME Types, Prompt, Next, call = NoCall, call' # NoCall
  PROVE  ~blocked(ui) /\ call'.ports = scanPorts(ui)
<1>1. ClickScan \/ toggleMonitor \/ Tick
  BY DEF Next, User, Start, Close, Move, Effects, PortsAnswered, NetworksAnswered, Answered,
         Finished, Type, ToggleDefault, EnterExtras, SetInterval, ResetPorts, ClearError,
         Set, file, fileAction
<1>2. refs.ports = scanPorts(ui)
  <2>1. Ready
    BY <1>1 DEF ClickScan, toggleMonitor, Tick
  <2>2. refs = Ref(ui)
    BY <2>1, Zenon DEF Ready, Synced
  <2> QED
    BY <2>2 DEF Ref
<1>3. CASE ClickScan \/ Tick
  <2>1. \E preserve, byMonitor \in BOOLEAN : startScan(ui, preserve, byMonitor)
    BY <1>3 DEF ClickScan, Tick
  <2> QED
    BY <1>2, <2>1 DEF startScan
<1>4. CASE toggleMonitor
  <2> DEFINE u == [ui EXCEPT !.monitoring = ~@]
  <2>1. startScan(u, u.rows, TRUE)
    BY <1>4 DEF toggleMonitor
  <2>2. u.field = ui.field /\ u.off = ui.off /\ u.extra = ui.extra /\ u.listed = ui.listed
    BY DEF Types, UI
  <2>3. blocked(u) <=> blocked(ui)
    BY <2>2 DEF blocked, portsValid, portsCustomized, scanPorts
  <2> QED
    BY <1>2, <2>1, <2>3 DEF startScan
<1> QED
  BY <1>1, <1>3, <1>4

\* No port is probed that was not chosen, all that were are once the default
\* ports are listed, and as many as the settings page says
\* (useScan.ts:130-140, SettingsWorkspace.tsx:40-46).
THEOREM ChosenIsScanned == ASSUME Prompt PROVE Spec => ScansWhatWasChosen
<1>1. IInv /\ [Next]_vars => [call = NoCall /\ call' # NoCall =>
       LET probed == NormalizePorts(call'.ports)
           chosen == (Defaults \ ui.off) \cup parsePortList(ui.extra)
       IN  /\ probed \subseteq chosen
           /\ ui.listed => probed = chosen
           /\ Cardinality(probed) = portSummary(ui)
           /\ Cardinality(call'.ports) <= MaxPorts]_vars
  BY CallFacts, PortFacts DEF IInv, Types
<1> QED
  BY <1>1, Invariance, PTL DEF Spec, ScansWhatWasChosen
=============================================================================
