--------------------------- MODULE WebPage_proofs ---------------------------
(***************************************************************************)
(* OneRun, for any inventories, requests and bounds: the server reads the  *)
(* newest run and then the devices of the run it read (state.go), so that  *)
(* what a reply carries belongs together however many pushes and prunes    *)
(* came in between, and stays so in the page while more arrive.            *)
(***************************************************************************)
EXTENDS WebPage, TLAPS

\* The devices are those of that run, or none after it was pruned.
Owns(run, devices) ==
  \/ run = 0 /\ devices = <<>>
  \/ run \in 1 .. Len(pushed) /\ devices = pushed[run]
  \/ run \in 1 .. Len(pushed) - Keep /\ devices = <<>>

\* What a request has read.
Flight == [at : {"free", "sent", "begun", "read", "answered", "failed"}, run : Nat, probe : Nat,
           devices : Inventories \cup {<<>>}]

\* The runs there are, and the records the page and its requests are.
Shaped ==
  /\ pushed \in Seq(Inventories) /\ beats \in Nat /\ probe \in Nat
  /\ flight \in [Requests -> Flight]
  /\ page = [demo |-> page.demo, state |-> page.state, load |-> page.load,
             refreshing |-> page.refreshing, error |-> page.error, label |-> page.label]

\* What a request has read so far.
ReadsOneRun ==
  \A r \in Requests :
    /\ flight[r].at = "read" => flight[r].run \in 0 .. Len(pushed)
    /\ flight[r].at = "answered" => Owns(flight[r].run, flight[r].devices)

PageHasOneRun == page.state.from = "server" => Owns(page.state.run, page.state.devices)

IInv == Shaped /\ ReadsOneRun /\ PageHasOneRun

LEMMA KeepsSome == Keep \in Nat \ {0}
BY WebPageAssumption, Zenon

LEMMA InitIInv == Init => IInv
<1> SUFFICES ASSUME Init PROVE IInv
  OBVIOUS
<1>1. /\ pushed = <<>> /\ beats = 0 /\ probe = 0
      /\ flight = [r \in Requests |-> Free] /\ page \in {Fresh(demo) : demo \in BOOLEAN}
  BY DEF Init
<1>2. Shaped
  BY <1>1 DEF Shaped, Flight, Free, Fresh
<1> QED
  BY <1>1, <1>2 DEF IInv, ReadsOneRun, PageHasOneRun, Free, Fresh, NoState

-----------------------------------------------------------------------------

\* Runs that were stored stay what they were.
LEMMA PushKeeps == ASSUME IInv, NEW devices \in Inventories, Push(devices) PROVE IInv'
<1>1. /\ pushed \in Seq(Inventories) /\ pushed' = Append(pushed, devices)
      /\ UNCHANGED <<beats, probe, flight, page>>
  BY DEF Push, IInv, Shaped
<1>2. /\ pushed' \in Seq(Inventories) /\ Len(pushed') = Len(pushed) + 1 /\ Len(pushed) \in Nat
      /\ \A run \in 1 .. Len(pushed) : pushed'[run] = pushed[run]
  BY <1>1
<1>3. ASSUME NEW run, NEW ds, Owns(run, ds) PROVE Owns(run, ds)'
  BY <1>2, <1>3, KeepsSome DEF Owns
<1>4. Shaped'
  BY <1>1, <1>2 DEF IInv, Shaped
<1>5. ReadsOneRun'
  BY <1>1, <1>2, <1>3 DEF IInv, ReadsOneRun
<1>6. PageHasOneRun'
  BY <1>1, <1>3 DEF IInv, PageHasOneRun
<1> QED
  BY <1>4, <1>5, <1>6 DEF IInv

\* A page that renders keeps its state.
LEMMA RenderedKeeps ==
  ASSUME Shaped
  PROVE  LET p == Rendered(page) IN
         /\ p.state = page.state
         /\ p = [demo |-> p.demo, state |-> p.state, load |-> p.load,
                 refreshing |-> p.refreshing, error |-> p.error, label |-> p.label]
BY DEF Shaped, Rendered

\* A page is asked for: nothing is known of the new request.
LEMMA SendKeeps ==
  ASSUME IInv, Send, UNCHANGED <<pushed, beats, probe>>, page'.state = page.state,
         page' = [demo |-> page'.demo, state |-> page'.state, load |-> page'.load,
                  refreshing |-> page'.refreshing, error |-> page'.error, label |-> page'.label]
  PROVE  IInv'
<1>1. PICK r \in Requests : flight[r] = Free /\ flight' = [flight EXCEPT ![r].at = "sent"]
  BY DEF Send
<1>2. Shaped'
  BY <1>1 DEF IInv, Shaped, Flight
<1>3. ReadsOneRun'
  BY <1>1 DEF IInv, Shaped, ReadsOneRun, Owns
<1>4. PageHasOneRun'
  BY DEF IInv, PageHasOneRun, Owns
<1> QED
  BY <1>2, <1>3, <1>4 DEF IInv

LEMMA RefreshKeeps == ASSUME IInv, refresh, UNCHANGED <<pushed, beats, probe>> PROVE IInv'
<1>1. CASE page.demo
  <2>1. page' = Rendered([page EXCEPT !.state = demoState, !.load = "ready"]) /\ flight' = flight
    BY <1>1 DEF refresh
  <2>2. Shaped' /\ page'.state = demoState
    BY <2>1 DEF IInv, Shaped, Rendered
  <2> QED
    BY <2>1, <2>2 DEF IInv, ReadsOneRun, PageHasOneRun, Owns, demoState
<1>2. CASE ~page.demo
  <2>1. page' = Rendered([page EXCEPT !.refreshing = TRUE]) /\ Send
    BY <1>2 DEF refresh
  <2>2. /\ page'.state = page.state
        /\ page' = [demo |-> page'.demo, state |-> page'.state, load |-> page'.load,
                    refreshing |-> page'.refreshing, error |-> page'.error, label |-> page'.label]
    BY <2>1 DEF IInv, Shaped, Rendered
  <2> QED
    BY <2>1, <2>2, SendKeeps
<1> QED
  BY <1>1, <1>2

-----------------------------------------------------------------------------

\* The server reads the heartbeat, a run, then that run's devices.
LEMMA ReadKeeps ==
  ASSUME IInv, NEW r \in Requests, ReadHeartbeat(r) \/ ReadRun(r) \/ ReadDevices(r)
  PROVE  IInv'
<1>1. /\ UNCHANGED <<pushed, beats, probe>> /\ page' = page
      /\ pushed \in Seq(Inventories) /\ Len(pushed) \in Nat
  BY DEF ReadHeartbeat, ReadRun, ReadDevices, server, IInv, Shaped
<1>2. \A run, ds : Owns(run, ds) => Owns(run, ds)'
  BY <1>1 DEF Owns
<1>3. CASE ReadRun(r)
  <2>1. flight' = [flight EXCEPT ![r].at = "read", ![r].run = Len(pushed)]
    BY <1>3 DEF ReadRun
  <2>2. Shaped'
    BY <1>1, <2>1 DEF IInv, Shaped, Flight
  <2>3. /\ flight'[r].at = "read" /\ flight'[r].run = Len(pushed)
        /\ \A q \in Requests \ {r} : flight'[q] = flight[q]
    BY <2>1 DEF IInv, Shaped, Flight
  <2>4. ReadsOneRun'
    BY <1>1, <1>2, <2>3 DEF IInv, ReadsOneRun
  <2> QED
    BY <1>1, <2>2, <2>4 DEF IInv, PageHasOneRun, Owns
<1>4. CASE ReadDevices(r)
  <2>1. /\ flight[r].at = "read"
        /\ flight' = [flight EXCEPT ![r].at = "answered",
                                    ![r].devices = HostsForRun(flight[r].run)]
    BY <1>4 DEF ReadDevices
  <2>2. flight[r].run \in 0 .. Len(pushed)
    BY <2>1 DEF IInv, ReadsOneRun
  <2>3. Owns(flight[r].run, HostsForRun(flight[r].run))
    BY <1>1, <2>2, KeepsSome DEF Owns, HostsForRun
  <2>4. HostsForRun(flight[r].run) \in Inventories \cup {<<>>}
    BY <1>1, <2>2 DEF HostsForRun
  <2>5. Shaped'
    BY <1>1, <2>1, <2>4 DEF IInv, Shaped, Flight
  <2>6. /\ flight'[r].at = "answered" /\ Owns(flight'[r].run, flight'[r].devices)
        /\ \A q \in Requests \ {r} : flight'[q] = flight[q]
    BY <2>1, <2>3 DEF IInv, Shaped, Flight
  <2>7. ReadsOneRun'
    BY <1>1, <1>2, <2>6 DEF IInv, ReadsOneRun
  <2> QED
    BY <1>1, <2>5, <2>7 DEF IInv, PageHasOneRun, Owns
<1>5. CASE ReadHeartbeat(r)
  <2>1. flight' = [flight EXCEPT ![r].at = "begun", ![r].probe = probe]
    BY <1>5 DEF ReadHeartbeat
  <2>2. Shaped'
    BY <1>1, <2>1 DEF IInv, Shaped, Flight
  <2>3. flight'[r].at = "begun" /\ \A q \in Requests \ {r} : flight'[q] = flight[q]
    BY <2>1 DEF IInv, Shaped, Flight
  <2>4. ReadsOneRun'
    BY <1>1, <1>2, <2>3 DEF IInv, ReadsOneRun
  <2> QED
    BY <1>1, <2>2, <2>4 DEF IInv, PageHasOneRun, Owns
<1> QED
  BY <1>3, <1>4, <1>5

LEMMA FailKeeps ==
  ASSUME IInv, NEW r \in Requests, Refuse(r) \/ Break(r)
  PROVE  IInv'
<1>1. /\ UNCHANGED <<pushed, beats, probe>> /\ page' = page
      /\ flight' = [flight EXCEPT ![r] = [Free EXCEPT !.at = "failed"]]
  BY DEF Refuse, Break, server
<1>2. Shaped' /\ ReadsOneRun'
  BY <1>1 DEF IInv, Shaped, Flight, ReadsOneRun, Owns, Free
<1> QED
  BY <1>1, <1>2 DEF IInv, PageHasOneRun, Owns

\* A reply gives the page what the request read, a failure leaves what it has.
LEMMA AnswerKeeps == ASSUME IInv, NEW r \in Requests, Answer(r) PROVE IInv'
<1>1. UNCHANGED <<pushed, beats, probe>> /\ flight' = [flight EXCEPT ![r] = Free]
  BY DEF Answer, server
<1>2. ReadsOneRun'
  BY <1>1 DEF IInv, Shaped, Flight, ReadsOneRun, Owns, Free
<1>3. CASE flight[r].at = "failed"
  <2>1. page' = Rendered([page EXCEPT !.error = TRUE, !.refreshing = FALSE, !.load = "ready"])
    BY <1>3 DEF Answer
  <2>2. Shaped' /\ page'.state = page.state
    BY <1>1, <2>1 DEF IInv, Shaped, Flight, Rendered, Free
  <2> QED
    BY <1>1, <1>2, <2>2 DEF IInv, PageHasOneRun, Owns
<1>4. CASE flight[r].at # "failed"
  <2> DEFINE s == [from |-> "server", run |-> flight[r].run,
                   probe |-> flight[r].probe, devices |-> flight[r].devices]
  <2>1. page' = Rendered([page EXCEPT !.error = FALSE, !.refreshing = FALSE, !.load = "ready",
                                      !.state = s])
    BY <1>4 DEF Answer
  <2>2. Shaped' /\ page'.state = s
    BY <1>1, <2>1 DEF IInv, Shaped, Flight, Rendered, Free
  <2>3. Owns(flight[r].run, flight[r].devices)
    BY <1>4 DEF Answer, IInv, ReadsOneRun
  <2>4. PageHasOneRun'
    BY <1>1, <2>2, <2>3 DEF PageHasOneRun, Owns
  <2> QED
    BY <1>2, <2>2, <2>4 DEF IInv
<1> QED
  BY <1>3, <1>4

-----------------------------------------------------------------------------

\* Heartbeats, sessions and outages leave the runs, the requests and the page.
LEMMA ServerKeeps ==
  ASSUME IInv, Heartbeat \/ FiveMinutes \/ GoDown \/ ComeUp \/ SessionEnds
  PROVE  IInv'
<1>1. UNCHANGED <<pushed, flight, page>>
  BY DEF Heartbeat, FiveMinutes, GoDown, ComeUp, SessionEnds
<1>2. \/ beats' = beats + 1 /\ probe' = beats'
      \/ beats' = beats /\ (probe' = probe \/ probe' = 0)
  BY DEF Heartbeat, FiveMinutes, GoDown, ComeUp, SessionEnds
<1> QED
  BY <1>1, <1>2 DEF IInv, Shaped, ReadsOneRun, PageHasOneRun, Owns

LEMMA TurnKeeps == ASSUME IInv, NEW u, Turn(u) PROVE IInv'
<1>1. UNCHANGED <<pushed, beats, probe>> /\ flight' = flight /\ page' = Rendered(page)
  BY DEF Turn, server
<1>2. Shaped' /\ page'.state = page.state
  BY <1>1, RenderedKeeps DEF IInv, Shaped
<1> QED
  BY <1>1, <1>2 DEF IInv, ReadsOneRun, PageHasOneRun, Owns

LEMMA UserKeeps ==
  ASSUME IInv,
         \/ \E ip \in Octets : Select(ip)
         \/ CloseDetail \/ ClearFilters
         \/ \E view \in {"devices", "map"} : SwitchView(view)
         \/ \E needle \in Needles \cup {""} : Search(needle)
         \/ \E status \in {"all", "up", "down"} : Status(status)
         \/ \E w \in {"network", "probes"} : Navigate(w)
  PROVE  IInv'
<1>1. \E u : Turn(u)
  BY DEF Select, CloseDetail, ClearFilters, SwitchView, Search, Status, Navigate, Show, Undo
<1> QED
  BY <1>1, TurnKeeps

LEMMA ReloadKeeps == ASSUME IInv, NEW demo \in BOOLEAN, Reload(demo) PROVE IInv'
<1>1. UNCHANGED <<pushed, beats, probe>> /\ flight' = [r \in Requests |-> Free]
      /\ page' = Fresh(demo)
  BY DEF Reload
<1>2. Shaped'
  BY <1>1 DEF IInv, Shaped, Flight, Free, Fresh
<1> QED
  BY <1>1, <1>2 DEF IInv, ReadsOneRun, PageHasOneRun, Free, Fresh, NoState

\* The inductive invariant.
THEOREM Invariance == Spec => []IInv
<1>1. IInv /\ [Next]_vars => IInv'
  <2> SUFFICES ASSUME IInv, [Next]_vars PROVE IInv'
    OBVIOUS
  <2>1. CASE Tick \/ RefreshClicked
    BY <2>1, RefreshKeeps DEF Tick, RefreshClicked, server
  <2>2. CASE \E r \in Requests : \/ ReadHeartbeat(r) \/ ReadRun(r) \/ ReadDevices(r)
                                \/ Refuse(r) \/ Break(r) \/ Answer(r)
    BY <2>2, ReadKeeps, FailKeeps, AnswerKeeps
  <2>3. CASE \E devices \in Inventories : Push(devices)
    BY <2>3, PushKeeps
  <2>4. CASE Heartbeat \/ FiveMinutes \/ GoDown \/ ComeUp \/ SessionEnds
    BY <2>4, ServerKeeps
  <2>5. CASE \E demo \in BOOLEAN : Reload(demo)
    BY <2>5, ReloadKeeps
  <2>6. CASE UNCHANGED vars
    BY <2>6 DEF vars, server, IInv, Shaped, ReadsOneRun, PageHasOneRun, Owns
  <2> QED
    BY <2>1, <2>2, <2>3, <2>4, <2>5, <2>6, UserKeeps DEF Next
<1> QED
  BY <1>1, InitIInv, PTL DEF Spec

\* What the page shows as one run is one run's devices (state.go).
THEOREM PageShowsOneRun == Spec => []OneRun
<1>1. IInv => OneRun
  <2> SUFFICES ASSUME IInv, page.state.from = "server" PROVE OneRun
    BY DEF OneRun
  <2>1. Owns(page.state.run, page.state.devices) /\ Len(pushed) \in Nat
    BY DEF IInv, PageHasOneRun, Shaped
  <2> QED
    BY <2>1, KeepsSome DEF Owns, OneRun
<1> QED
  BY <1>1, Invariance, PTL
=============================================================================
