-------------------------------- MODULE WebPage --------------------------------
(***************************************************************************)
(* The server's web page (web/src/main.tsx) and the read side of the       *)
(* server behind it (internal/server/state.go, server.go, auth.go).  The   *)
(* page asks for the state every ten seconds and when its user says so;    *)
(* requests are not numbered, and their replies come in any order.  A      *)
(* request reads the heartbeat, the newest run and that run's devices one  *)
(* after the other, while probes push, heartbeats arrive, old runs are     *)
(* pruned, the server goes down and sign-in sessions end.                  *)
(*                                                                         *)
(* A run is the number of the push that stored it, a heartbeat its number; *)
(* what arrives with a push is module Probe's.                             *)
(***************************************************************************)
EXTENDS DeviceViews

CONSTANTS
  Inventories,   \* the device lists a probe may push
  Keep,          \* runs the store keeps (maxRunsKept, 500)
  Requests,      \* the requests that may be in flight at once
  Needles,       \* what the user may search for
  Auth,          \* whether sign-in is configured
  MaxPushes,     \* bound: runs pushed
  MaxBeats,      \* bound: heartbeats
  MaxTrouble,    \* bound: requests that fail, outages and sessions that end
  MaxInputs      \* bound: what the user does

ASSUME WebPageAssumption ==
  /\ \A devices \in Inventories :
       DOMAIN devices \subseteq Octets /\ Range(devices) \subseteq Sights
  /\ Keep \in Nat \ {0} /\ {MaxPushes, MaxBeats, MaxTrouble, MaxInputs} \subseteq Nat
  /\ "" \notin Needles /\ Auth \in BOOLEAN

VARIABLES
  pushed,    \* history: what each push held; the store has the newest Keep
  beats,     \* heartbeats received so far
  probe,     \* Server.probe: the last heartbeat, 0 for none since the start
  quiet,     \* the heartbeats up to this one are more than five minutes old
  up,        \* the server runs
  session,   \* the browser's cookie is accepted
  flight,    \* each request: how far it is and what it read
  page,      \* useServerState and App, and the label of the last render
  ui,        \* App and NetworkPage: what the user chose to see
  trouble, inputs

server == <<pushed, beats, probe, quiet, up, session>>
vars == <<server, flight, page, ui, trouble, inputs>>

NoState == [run |-> 0, probe |-> 0, devices |-> <<>>, from |-> "nobody"]
Free    == [at |-> "free", run |-> 0, probe |-> 0, devices |-> <<>>]

TypeOK ==
  /\ pushed \in Seq(Inventories) /\ Len(pushed) <= MaxPushes
  /\ beats \in 0..MaxBeats /\ probe \in 0..beats /\ quiet \in 0..beats
  /\ {up, session} \subseteq BOOLEAN
  /\ \A r \in Requests : flight[r].at \in {"free", "sent", "begun", "read", "answered", "failed"}
  /\ page.demo \in BOOLEAN /\ page.error \in BOOLEAN /\ page.refreshing \in BOOLEAN
  /\ page.load \in {"loading", "ready"}
  /\ page.state.from = "sample" => page.demo
  /\ ui.workspace = "probes" => ui.selected = None
  /\ trouble \in 0..MaxTrouble /\ inputs \in 0..MaxInputs

-----------------------------------------------------------------------------
(* What the page makes of a state.                                         *)

\* probeFreshness: of what the page knows, by the clock of the render.
probeFreshness(state) ==
  IF state.from = "sample" THEN "reporting"
  ELSE IF state.probe = 0 THEN "waiting" ELSE IF state.probe <= quiet THEN "quiet" ELSE "reporting"

\* Every change of the hook's or of the page's state renders the page.
Rendered(p) == [p EXCEPT !.label = probeFreshness(p.state)]

\* The sample devices of demo.ts, heard of just now.
demoState == [run |-> 0, probe |-> 0, from |-> "sample",
              devices |-> CHOOSE devices \in Inventories : TRUE]

\* The devices the filters leave.
filtered ==
  LET devices == page.state.devices IN
  {ip \in DOMAIN devices : /\ ui.status = "all" \/ (ui.status = "up" <=> devices[ip].alive)
                           /\ hostMatchesFilter(devices[ip], "stable", ui.search)}
filtersOn == ui.search # "" \/ ui.status # "all"

\* What NetworkPage shows below its header.
Shows ==
  IF page.load = "loading" THEN "nothing"
  ELSE IF page.state.devices = <<>>
       THEN IF page.state.from = "nobody" THEN "no server" ELSE "no devices"
  ELSE IF filtersOn /\ filtered = {} THEN "no match" ELSE ui.view

\* An error is shown with a warning when what is shown beside it is older.
Notice(older) == IF ~page.error THEN "none" ELSE IF older THEN "out of date" ELSE "failed"

\* The header of NetworkPage: the notice, and the label once there is a reply.
Header == [notice |-> Notice(page.state.from # "nobody"),
           status |-> IF page.load = "ready" THEN page.label ELSE "none"]

\* What ProbesPage tells: the notice and the heartbeat, 0 when it tells how to
\* connect a first probe instead.
ProbesPage == [notice |-> Notice(page.state.probe # 0), heartbeat |-> page.state.probe]

\* The devices that can be clicked; the map shows those that do not match, too.
Clickable == IF Shows = "devices" THEN filtered
             ELSE IF Shows = "map" THEN DOMAIN page.state.devices ELSE {}

-----------------------------------------------------------------------------
(* refresh.                                                                *)

Trouble == trouble < MaxTrouble /\ trouble' = trouble + 1
Input   == inputs < MaxInputs /\ inputs' = inputs + 1

Fresh(demo) ==
  [demo |-> demo, state |-> NoState, load |-> "loading", refreshing |-> FALSE,
   error |-> FALSE, label |-> "waiting"]

Send == \E r \in Requests : flight[r] = Free /\ flight' = [flight EXCEPT ![r].at = "sent"]

\* The demo never asks the server.
refresh ==
  IF page.demo
  THEN page' = Rendered([page EXCEPT !.state = demoState, !.load = "ready"]) /\ UNCHANGED flight
  ELSE page' = Rendered([page EXCEPT !.refreshing = TRUE]) /\ Send

FreshUI == [workspace |-> "network", view |-> "devices", search |-> "", status |-> "all",
            selected |-> None]

Init ==
  /\ pushed = <<>> /\ beats = 0 /\ probe = 0 /\ quiet = 0 /\ up = TRUE
  /\ session = TRUE
  /\ flight = [r \in Requests |-> Free]
  /\ page \in {Fresh(demo) : demo \in BOOLEAN} /\ ui = FreshUI
  /\ trouble = 0 /\ inputs = 0

\* The effect's first call, then its timer.
Tick == refresh /\ UNCHANGED <<server, ui, trouble, inputs>>

RefreshClicked == Input /\ ~page.refreshing /\ refresh /\ UNCHANGED <<server, ui, trouble>>

-----------------------------------------------------------------------------
(* The server's side.                                                      *)

\* withAuth
Admitted == up /\ (Auth => session)

\* state: the heartbeat,
ReadHeartbeat(r) ==
  /\ flight[r].at = "sent" /\ Admitted
  /\ flight' = [flight EXCEPT ![r].at = "begun", ![r].probe = probe]
  /\ UNCHANGED <<server, page, ui, trouble, inputs>>

\* the newest run,
ReadRun(r) ==
  /\ flight[r].at = "begun" /\ up
  /\ flight' = [flight EXCEPT ![r].at = "read", ![r].run = Len(pushed)]
  /\ UNCHANGED <<server, page, ui, trouble, inputs>>

\* Nothing of a run that was pruned in the meantime.
HostsForRun(run) == IF run > 0 /\ run > Len(pushed) - Keep THEN pushed[run] ELSE <<>>

\* Mutant of ReadDevices: the devices of whatever run is newest.
ReadDevicesNewest(r) ==
  /\ flight[r].at = "read" /\ up
  /\ flight' = [flight EXCEPT ![r].at = "answered", ![r].devices = HostsForRun(Len(pushed))]
  /\ UNCHANGED <<server, page, ui, trouble, inputs>>

\* then the devices of that run.
ReadDevices(r) ==
  /\ flight[r].at = "read" /\ up
  /\ flight' = [flight EXCEPT ![r].at = "answered", ![r].devices = HostsForRun(flight[r].run)]
  /\ UNCHANGED <<server, page, ui, trouble, inputs>>

\* A server that is down or refuses; a database or a network that fails.
Refuse(r) ==
  /\ \/ flight[r].at = "sent" /\ ~Admitted
     \/ flight[r].at \in {"begun", "read"} /\ ~up
  /\ flight' = [flight EXCEPT ![r] = [Free EXCEPT !.at = "failed"]]
  /\ UNCHANGED <<server, page, ui, trouble, inputs>>

Break(r) ==
  /\ flight[r].at \in {"sent", "begun", "read", "answered"} /\ Trouble
  /\ flight' = [flight EXCEPT ![r] = [Free EXCEPT !.at = "failed"]]
  /\ UNCHANGED <<server, page, ui, inputs>>

\* Mutant of Answer: a failure is not told.
AnswerQuietly(r) ==
  /\ flight[r].at \in {"answered", "failed"}
  /\ page' = Rendered(IF flight[r].at = "failed"
       THEN [page EXCEPT !.refreshing = FALSE, !.load = "ready"]
       ELSE [page EXCEPT !.error = FALSE, !.refreshing = FALSE, !.load = "ready",
                         !.state = [from |-> "server", run |-> flight[r].run,
                                    probe |-> flight[r].probe, devices |-> flight[r].devices]])
  /\ flight' = [flight EXCEPT ![r] = Free]
  /\ UNCHANGED <<server, ui, trouble, inputs>>

\* The reply: data is taken, an error leaves the data there is.
Answer(r) ==
  /\ flight[r].at \in {"answered", "failed"}
  /\ page' = Rendered(IF flight[r].at = "failed"
       THEN [page EXCEPT !.error = TRUE, !.refreshing = FALSE, !.load = "ready"]
       ELSE [page EXCEPT !.error = FALSE, !.refreshing = FALSE, !.load = "ready",
                         !.state = [from |-> "server", run |-> flight[r].run,
                                    probe |-> flight[r].probe, devices |-> flight[r].devices]])
  /\ flight' = [flight EXCEPT ![r] = Free]
  /\ UNCHANGED <<server, ui, trouble, inputs>>

\* probeDevices: a run is stored, the oldest are pruned.
Push(devices) ==
  /\ up /\ Len(pushed) < MaxPushes /\ pushed' = Append(pushed, devices)
  /\ UNCHANGED <<beats, probe, quiet, up, session, flight, page, ui, trouble, inputs>>

\* probeHeartbeat
Heartbeat ==
  /\ up /\ beats < MaxBeats /\ beats' = beats + 1 /\ probe' = beats'
  /\ UNCHANGED <<pushed, quiet, up, session, flight, page, ui, trouble, inputs>>

FiveMinutes ==
  /\ quiet < beats /\ quiet' = beats
  /\ UNCHANGED <<pushed, beats, probe, up, session, flight, page, ui, trouble, inputs>>

GoDown ==
  /\ up /\ Trouble /\ up' = FALSE
  /\ UNCHANGED <<pushed, beats, probe, quiet, session, flight, page, ui, inputs>>

\* The heartbeat was in memory; without a configured secret sessions end.
ComeUp ==
  /\ ~up /\ up' = TRUE /\ probe' = 0 /\ session' \in {session, FALSE}
  /\ UNCHANGED <<pushed, beats, quiet, flight, page, ui, trouble, inputs>>

\* sessionTTL, and nothing renews a session.
SessionEnds ==
  /\ Auth /\ session /\ Trouble /\ session' = FALSE
  /\ UNCHANGED <<pushed, beats, probe, quiet, up, flight, page, ui, inputs>>

-----------------------------------------------------------------------------
(* The user.                                                               *)

Turn(u) ==
  /\ u # ui /\ ui' = u /\ page' = Rendered(page)
  /\ UNCHANGED <<server, flight, trouble>>

\* What only undoes an earlier input does not count as one.
Show(u) == Input /\ Turn(u)
Undo(u) == Turn(u) /\ UNCHANGED inputs

\* A device is listed as long as the data has it: a selection that left only
\* hides the details.
Select(ip)       == ip \in Clickable /\ Show([ui EXCEPT !.selected = IF @ = ip THEN None ELSE ip])
CloseDetail      == ui.selected \in DOMAIN page.state.devices /\ Undo([ui EXCEPT !.selected = None])
Listed           == ui.workspace = "network" /\ page.load = "ready" /\ page.state.devices # <<>>
SwitchView(view) == Listed /\ Show([ui EXCEPT !.view = view])
Search(needle)   == Listed /\ Show([ui EXCEPT !.search = needle])
Status(status)   == Listed /\ Show([ui EXCEPT !.status = status])
ClearFilters     == Shows = "no match" /\ Undo([ui EXCEPT !.search = "", !.status = "all"])
Navigate(w)      == Show([ui EXCEPT !.workspace = w, !.selected = None])

\* A reload, a sign-in, or a sign-out that leads to one: the page starts again
\* with a session, its requests are dropped.
Reload(demo) ==
  /\ Input /\ up /\ session' = TRUE
  /\ flight' = [r \in Requests |-> Free] /\ page' = Fresh(demo) /\ ui' = FreshUI
  /\ UNCHANGED <<pushed, beats, probe, quiet, up, trouble>>

Next ==
  \/ Tick \/ RefreshClicked
  \/ \E r \in Requests : \/ ReadHeartbeat(r) \/ ReadRun(r) \/ ReadDevices(r)
                         \/ Refuse(r) \/ Break(r) \/ Answer(r)
  \/ \E devices \in Inventories : Push(devices)
  \/ Heartbeat \/ FiveMinutes \/ GoDown \/ ComeUp \/ SessionEnds
  \/ \E ip \in Octets : ui.workspace = "network" /\ Select(ip)
  \/ CloseDetail \/ ClearFilters
  \/ \E view \in {"devices", "map"} : SwitchView(view)
  \/ \E needle \in Needles \cup {""} : Search(needle)
  \/ \E status \in {"all", "up", "down"} : Status(status)
  \/ \E w \in {"network", "probes"} : Navigate(w)
  \/ \E demo \in BOOLEAN : Reload(demo)

\* The timer fires; a request that was sent is answered or fails, and its
\* reply is delivered.
Fairness ==
  /\ WF_vars(Tick)
  /\ \A r \in Requests :
       WF_vars(ReadHeartbeat(r) \/ ReadRun(r) \/ ReadDevices(r) \/ Refuse(r) \/ Answer(r))

Spec == Init /\ [][Next]_vars /\ Fairness
-----------------------------------------------------------------------------
(* The state endpoint reads a run and its devices in two steps, and pushes  *)
(* arrive in between: what the page shows as one run is one run's devices,  *)
(* or none when the run was pruned before they were read.                  *)
OneRun ==
  page.state.from = "server" =>
    \/ page.state.run = 0 /\ page.state.devices = <<>>
    \/ page.state.run > 0 /\ page.state.devices = pushed[page.state.run]
    \/ page.state.run <= Len(pushed) - Keep /\ page.state.devices = <<>>

(* "Refreshes every 10 seconds" (main.tsx:155): in whatever order requests  *)
(* and replies pass each other, and whatever failed on the way, the page    *)
(* ends up with what the server holds, or with an error while it cannot be  *)
(* reached; and the probe's label follows the clock in both cases.         *)
Settled ==
  /\ page.label = probeFreshness(page.state)
  /\ IF page.demo THEN page.state = demoState
     ELSE IF ~Admitted THEN "none" \notin {Header.notice, ProbesPage.notice}
     ELSE /\ ProbesPage = [notice |-> "none", heartbeat |-> probe]
          /\ Header = [notice |-> "none", status |-> page.label]
          /\ page.state = [from |-> "server", run |-> Len(pushed), probe |-> probe,
                           devices |-> HostsForRun(Len(pushed))]
PageConverges == <>[]Settled
=============================================================================
