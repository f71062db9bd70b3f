---------------------------- MODULE Pages_proofs ----------------------------
(***************************************************************************)
(* The network page and the history page, for any devices, files, runs and *)
(* bounds.                                                                 *)
(*                                                                         *)
(* DetailIsAboutItsDevice: every handler of the page selects through the   *)
(* same effect (DeviceDetail.tsx), and the effect leaves no answer in      *)
(* flight wanted but that of the selected device.                          *)
(*                                                                         *)
(* SelectionSurvives: case by case, from what each handler renders.        *)
(*                                                                         *)
(* OnlyRealLosses and MapFollows, together (Sound): every effect of the    *)
(* camera, and the mounting and unmounting of the scene, keeps both.       *)
(*                                                                         *)
(* SceneRests: of a scene that rests the last frame drew every device at   *)
(* its place, and no render since changed what the effect depends on.      *)
(*                                                                         *)
(* ArrowsWalk: the layout lists every device once (ListingExists,          *)
(* InOrderIs), and its clusters share out those that are not the gateway   *)
(* (ClustersAre), for any map whose devices are at addresses.              *)
(*                                                                         *)
(* SelectorsAreListed (HistoryPage): the runs a reload answers with are    *)
(* the newest of a store, so what the effect falls back to is listed.      *)
(***************************************************************************)
EXTENDS NetworkPage, HistoryPage, TLAPS, FiniteSetTheorems, FunctionTheorems, SequenceTheorems,
        WellFoundedInduction

\* The records the page keeps of a history and of a call for one.
Shaped ==
  /\ detail = [of |-> detail.of, status |-> detail.status, entries |-> detail.entries]
  /\ \A l \in loads : l = [of |-> l.of, wanted |-> l.wanted]

\* Only the answer of the selected device is still wanted.
WantedIsSelected == \A l \in loads : l.wanted = TRUE => l.of = selected

IInv == Shaped /\ WantedIsSelected /\ DetailIsAboutItsDevice

\* What a selection does to the details, whoever makes it.
Selects(ip) ==
  /\ selected' = ip
  /\ IF ip = selected THEN UNCHANGED <<detail, loads>> ELSE Load(ip)

LEMMA SelectsKeeps == ASSUME IInv, NEW ip, Selects(ip) PROVE IInv'
<1>1. CASE ip = selected
  BY <1>1 DEF Selects, IInv, Shaped, WantedIsSelected, DetailIsAboutItsDevice
<1>2. CASE ip # selected
  <2> DEFINE unwanted == {[l EXCEPT !.wanted = FALSE] : l \in loads}
  <2>1. \A m \in unwanted : m.wanted = FALSE /\ m = [of |-> m.of, wanted |-> m.wanted]
    BY DEF IInv, Shaped
  <2>2. /\ detail' = IF ip = None THEN NoDetail
                     ELSE [of |-> ip, status |-> "loading", entries |-> None]
        /\ loads' = unwanted \cup (IF ip = None THEN {} ELSE {[of |-> ip, wanted |-> TRUE]})
        /\ selected' = ip
    BY <1>2 DEF Selects, Load
  <2> HIDE DEF unwanted
  <2>3. \A m \in loads' : m \in unwanted \/ m = [of |-> ip, wanted |-> TRUE]
    BY <2>2
  <2>4. Shaped' /\ WantedIsSelected'
    BY <2>1, <2>2, <2>3 DEF Shaped, WantedIsSelected, NoDetail
  <2>5. detail'.status # "ready"
    BY <2>2 DEF NoDetail
  <2> QED
    BY <2>4, <2>5 DEF IInv, DetailIsAboutItsDevice
<1> QED
  BY <1>1, <1>2

LEMMA RenderKeeps ==
  ASSUME IInv, NEW h, NEW s, NEW u, NEW ip, Render(h, s, u, ip)
  PROVE  IInv'
<1>1. Selects(Pick(h, u, ip))
  BY DEF Render, Selects
<1> QED
  BY <1>1, SelectsKeeps

LEMMA UnchangedKeeps == ASSUME IInv, UNCHANGED device PROVE IInv'
BY DEF device, IInv, Shaped, WantedIsSelected, DetailIsAboutItsDevice

\* An answer that is wanted is about the selected device, and the last wanted.
LEMMA AnswerKeeps ==
  ASSUME IInv, NEW l \in loads, HistoryAnswered(l)
  PROVE  IInv'
<1>1. loads' \subseteq loads /\ selected' = selected
  BY DEF HistoryAnswered
<1>2. Shaped' /\ WantedIsSelected'
  <2>1. CASE l.wanted
    BY <1>1, <2>1 DEF HistoryAnswered, IInv, Shaped, WantedIsSelected
  <2>2. CASE ~l.wanted
    BY <1>1, <2>2 DEF HistoryAnswered, IInv, Shaped, WantedIsSelected
  <2> QED
    BY <2>1, <2>2
<1>3. DetailIsAboutItsDevice'
  <2>1. CASE l.wanted
    <3>1. l.of = selected
      BY <2>1 DEF IInv, WantedIsSelected
    <3>2. detail' = [detail EXCEPT !.status = "ready", !.entries = l.of]
          \/ detail' = [detail EXCEPT !.status = "error"]
      BY <2>1 DEF HistoryAnswered
    <3> QED
      BY <1>1, <3>1, <3>2 DEF IInv, Shaped, DetailIsAboutItsDevice
  <2>2. CASE ~l.wanted
    BY <1>1, <2>2 DEF HistoryAnswered, IInv, DetailIsAboutItsDevice
  <2> QED
    BY <2>1, <2>2
<1> QED
  BY <1>2, <1>3 DEF IInv

-----------------------------------------------------------------------------

\* What the backend reports replaces the results, and renders.
LEMMA ScanKeeps ==
  ASSUME IInv,
         \/ \E ip \in Targets, preserve \in BOOLEAN : StartScan(ip, preserve)
         \/ \E h \in Sights : DeviceClassified(h) \/ \E marks \in BOOLEAN : HostLearned(h, marks)
         \/ HostSeen \/ HostDone \/ ScanCancelled
         \/ FileReplied \/ \E opened \in Files : FileLoaded(opened)
  PROVE  IInv'
<1>1. CASE \E ip \in Targets, preserve \in BOOLEAN : StartScan(ip, preserve)
  BY <1>1, RenderKeeps DEF StartScan
<1>2. CASE \E h \in Sights : DeviceClassified(h) \/ \E marks \in BOOLEAN : HostLearned(h, marks)
  BY <1>2, RenderKeeps DEF DeviceClassified, HostLearned, applyHostEvent
<1>3. CASE HostSeen \/ HostDone \/ ScanCancelled
  BY <1>3, RenderKeeps DEF HostSeen, HostDone, ScanCancelled, applyHostEvent
<1>4. CASE FileReplied \/ \E opened \in Files : FileLoaded(opened)
  BY <1>4, RenderKeeps DEF FileReplied, FileLoaded, loadHosts
<1> QED
  BY <1>1, <1>2, <1>3, <1>4

\* The user's clicks and keys on the devices.
LEMMA DeviceKeeps ==
  ASSUME IInv,
         \/ CloseDetail \/ onRowKey \/ Escape
         \/ \E ip \in Octets : Click(ip) \/ Fly(ip)
         \/ \E key \in {"ip", "device"} : toggleSort(key)
  PROVE  IInv'
<1>1. ASSUME NEW ip, NEW m, Open(ip, m) PROVE IInv'
  <2>1. Selects(Pick(hosts, ui, ip))
    BY <1>1 DEF Open, Selects
  <2> QED
    BY <2>1, SelectsKeeps
<1>2. ASSUME NEW t, InTable(t) PROVE IInv'
  BY <1>2, UnchangedKeeps DEF InTable
<1>3. CASE CloseDetail \/ \E ip \in Octets : Click(ip)
  BY <1>3, RenderKeeps DEF CloseDetail, Click, Toggle, Select
<1>4. CASE Escape \/ \E ip \in Octets : Fly(ip)
  BY <1>1, <1>4 DEF Escape, Fly
<1>5. CASE onRowKey
  BY <1>2, <1>5, RenderKeeps DEF onRowKey, Toggle, Select
<1>6. CASE \E key \in {"ip", "device"} : toggleSort(key)
  BY <1>2, <1>6 DEF toggleSort
<1> QED
  BY <1>3, <1>4, <1>5, <1>6

\* The map's own input, and what is shown around the devices.
LEMMA ShowKeeps ==
  ASSUME IInv,
         \/ MapInput \/ ResetClicked \/ Canvas \/ Draw
         \/ ShowSilent \/ Navigate \/ ComeBack \/ Crash
         \/ \E v \in Views : SwitchView(v)
         \/ \E needle \in Needles \cup {""} : Search(needle)
  PROVE  IInv'
<1>1. CASE MapInput \/ ResetClicked \/ Canvas \/ Draw
  BY <1>1, UnchangedKeeps DEF MapInput, ResetClicked, Canvas, Draw
<1>2. CASE ShowSilent \/ Navigate \/ ComeBack \/ Crash
  BY <1>2, RenderKeeps DEF ShowSilent, Navigate, ComeBack, Crash, TurnTo, Show
<1>3. CASE \E v \in Views : SwitchView(v)
  BY <1>3, RenderKeeps DEF SwitchView, Show
<1>4. CASE \E needle \in Needles \cup {""} : Search(needle)
  BY <1>4, RenderKeeps DEF Search, Show
<1> QED
  BY <1>1, <1>2, <1>3, <1>4

\* The inductive invariant.
THEOREM Invariance == Spec => []IInv
<1>1. Init => IInv
  <2>1. Init => detail = NoDetail /\ loads = {}
    BY DEF Init
  <2> QED
    BY <2>1 DEF IInv, Shaped, WantedIsSelected, DetailIsAboutItsDevice, NoDetail
<1>2. IInv /\ [Next]_vars => IInv'
  <2> SUFFICES ASSUME IInv, [Next]_vars PROVE IInv'
    OBVIOUS
  <2>1. CASE Next
    <3>1. CASE \E l \in loads : HistoryAnswered(l)
      BY <3>1, AnswerKeeps
    <3>2. CASE ~\E l \in loads : HistoryAnswered(l)
      BY <2>1, <3>2, ScanKeeps, DeviceKeeps, ShowKeeps DEF Next
    <3> QED
      BY <3>1, <3>2
  <2>2. CASE UNCHANGED vars
    BY <2>2, UnchangedKeeps DEF vars
  <2> QED
    BY <2>1, <2>2
<1> QED
  BY <1>1, <1>2, PTL DEF Spec

\* The history beside a device is that device's (DeviceDetail.tsx), however
\* many were looked at and in whatever order their answers come in.
THEOREM HistoryIsTheDevices == Spec => []DetailIsAboutItsDevice
<1>1. IInv => DetailIsAboutItsDevice
  BY DEF IInv
<1> QED
  BY <1>1, Invariance, PTL
-----------------------------------------------------------------------------
(* The selection.                                                          *)

\* A render with the selection there was drops it only with its device or page.
LEMMA RenderSelects ==
  ASSUME NEW h, NEW s, NEW u, Render(h, s, u, selected)
  PROVE  selected' # selected => selected \notin DOMAIN hosts' \/ ui'.page # "network"
BY DEF Render, Pick

\* What the user does counts as an input, nothing else does.
LEMMA InputCounts == Next => UNCHANGED inputs \/ Input
<1> SUFFICES ASSUME Next PROVE UNCHANGED inputs \/ Input
  OBVIOUS
<1>1. CASE \/ \E ip \in Targets, preserve \in BOOLEAN : StartScan(ip, preserve)
           \/ \E h \in Sights : DeviceClassified(h) \/ \E marks \in BOOLEAN : HostLearned(h, marks)
           \/ HostSeen \/ HostDone \/ ScanCancelled
           \/ FileReplied \/ \E opened \in Files : FileLoaded(opened)
           \/ \E l \in loads : HistoryAnswered(l)
  BY <1>1 DEF StartScan, DeviceClassified, HostLearned, Scanned, HostSeen, HostDone, ScanCancelled,
              FileReplied, FileLoaded, HistoryAnswered, Report
<1>2. CASE \/ CloseDetail \/ onRowKey \/ MapInput \/ ResetClicked \/ Escape
           \/ Canvas \/ Draw \/ ShowSilent \/ Navigate \/ ComeBack \/ Crash
           \/ \E ip \in Octets : Click(ip) \/ Fly(ip)
           \/ \E key \in {"ip", "device"} : toggleSort(key)
           \/ \E v \in Views : SwitchView(v)
           \/ \E needle \in Needles \cup {""} : Search(needle)
  BY <1>2 DEF CloseDetail, onRowKey, MapInput, ResetClicked, Escape, Canvas, Draw, ShowSilent,
              Navigate, ComeBack, Crash, TurnTo, Click, Fly, toggleSort, SwitchView, Search,
              OnMap, Listed, Free
<1> QED
  BY <1>1, <1>2 DEF Next

LEMMA InputsAreNumbers == Spec => [](inputs \in Nat)
<1>1. Init => inputs \in Nat
  <2>1. Init => inputs = (IF paced THEN MaxInputs - 1 ELSE 0)
    BY DEF Init
  <2>2. MaxInputs \in Nat \ {0}
    BY NetworkPageAssumption, Zenon
  <2>3. MaxInputs - 1 \in Nat
    BY <2>2
  <2> QED
    BY <2>1, <2>3
<1>2. inputs \in Nat /\ [Next]_vars => (inputs \in Nat)'
  <2>1. [Next]_vars => UNCHANGED inputs \/ Input
    BY InputCounts DEF vars
  <2> QED
    BY <2>1 DEF Input
<1> QED
  BY <1>1, <1>2, PTL DEF Spec

\* What the scan, a file, another view, search or page does to a selection.
LEMMA OthersKeepIt ==
  ASSUME \/ \E ip \in Targets, preserve \in BOOLEAN : StartScan(ip, preserve)
         \/ \E h \in Sights : DeviceClassified(h) \/ \E marks \in BOOLEAN : HostLearned(h, marks)
         \/ HostSeen \/ HostDone \/ ScanCancelled
         \/ FileReplied \/ \E opened \in Files : FileLoaded(opened)
         \/ \E l \in loads : HistoryAnswered(l)
         \/ MapInput \/ ResetClicked \/ Canvas \/ Draw
         \/ ShowSilent \/ Navigate \/ ComeBack \/ Crash
         \/ \E key \in {"ip", "device"} : toggleSort(key)
         \/ \E v \in Views : SwitchView(v)
         \/ \E needle \in Needles \cup {""} : Search(needle)
  PROVE  selected' # selected => selected \notin DOMAIN hosts' \/ ui'.page # "network"
<1>1. CASE \/ \E ip \in Targets, preserve \in BOOLEAN : StartScan(ip, preserve)
           \/ \E h \in Sights : DeviceClassified(h) \/ \E marks \in BOOLEAN : HostLearned(h, marks)
  BY <1>1, RenderSelects DEF StartScan, DeviceClassified, HostLearned, applyHostEvent
<1>2. CASE HostSeen \/ HostDone \/ ScanCancelled
  BY <1>2, RenderSelects DEF HostSeen, HostDone, ScanCancelled, applyHostEvent
<1>3. CASE FileReplied \/ \E opened \in Files : FileLoaded(opened)
  BY <1>3, RenderSelects DEF FileReplied, FileLoaded, loadHosts
<1>4. CASE \/ MapInput \/ ResetClicked \/ Canvas \/ Draw
           \/ \E l \in loads : HistoryAnswered(l)
           \/ \E key \in {"ip", "device"} : toggleSort(key)
  BY <1>4 DEF MapInput, ResetClicked, Canvas, Draw, device, HistoryAnswered, toggleSort, InTable
<1>5. CASE \/ ShowSilent \/ Navigate \/ ComeBack \/ Crash
           \/ \E v \in Views : SwitchView(v)
           \/ \E needle \in Needles \cup {""} : Search(needle)
  BY <1>5, RenderSelects DEF ShowSilent, Navigate, ComeBack, Crash, TurnTo, SwitchView, Search, Show
<1> QED
  BY <1>1, <1>2, <1>3, <1>4, <1>5

\* The user's own clicks and keys are inputs and leave what is on screen.
LEMMA UserEndsIt ==
  ASSUME CloseDetail \/ onRowKey \/ Escape \/ \E ip \in Octets : Click(ip) \/ Fly(ip)
  PROVE  Input /\ ui' = ui
<1>1. CASE CloseDetail \/ onRowKey \/ \E ip \in Octets : Click(ip)
  BY <1>1 DEF CloseDetail, onRowKey, Click, Listed, Free, InTable, Toggle, Select, Render
<1>2. CASE Escape \/ \E ip \in Octets : Fly(ip)
  BY <1>2 DEF Escape, Fly, OnMap, Listed, Free, Open
<1> QED
  BY <1>1, <1>2

\* A selection ends with its device, with the page, or by the user's own click
\* or key (NetworkWorkspace.tsx:77-83), whatever else goes on.
THEOREM SelectionLasts == Spec => SelectionSurvives
<1>1. inputs \in Nat /\ [Next]_vars =>
        [selected # None /\ selected' # selected
         => \/ selected \notin DOMAIN hosts' \/ ui'.page # "network"
            \/ inputs' # inputs /\ ui' = ui]_vars
  <2> SUFFICES ASSUME inputs \in Nat, Next, selected' # selected
               PROVE  \/ selected \notin DOMAIN hosts' \/ ui'.page # "network"
                      \/ inputs' # inputs /\ ui' = ui
    OBVIOUS
  <2>1. CASE CloseDetail \/ onRowKey \/ Escape \/ \E ip \in Octets : Click(ip) \/ Fly(ip)
    BY <2>1, UserEndsIt DEF Input
  <2>2. CASE ~(CloseDetail \/ onRowKey \/ Escape \/ \E ip \in Octets : Click(ip) \/ Fly(ip))
    BY <2>2, OthersKeepIt DEF Next
  <2> QED
    BY <2>1, <2>2
<1> QED
  BY <1>1, InputsAreNumbers, PTL DEF Spec, SelectionSurvives
-----------------------------------------------------------------------------
(* The camera, and the contexts that are lost.                             *)

\* The record of a mounted map.
Whole(m) ==
  /\ m.mounted = TRUE
  /\ {"mounted", "preference", "contextLost", "broken", "dying", "cursor", "focus",
      "hover", "userMoved", "reset", "aim"} \subseteq DOMAIN m

RealLoss(m) == m.contextLost = TRUE => m.broken = TRUE

\* A camera that nobody took is home.
AtHome(m, rows) ==
  Renderer(m) = "3d" /\ m.userMoved # TRUE => m.aim = Home(rows)

Sound(m, rows) == Whole(m) /\ RealLoss(m) /\ m.userMoved \in BOOLEAN /\ AtHome(m, rows)

MapInv == map = NoMap \/ Sound(map, visibleRows)

\* The effects of the camera leave the renderer as it is, and mounting the
\* scene aims the camera that nobody took.
LEMMA SceneMountsSound ==
  ASSUME NEW m, NEW rows, Whole(m), RealLoss(m)
  PROVE  Sound(SceneMounts(m, rows), rows)
<1> DEFINE a == [m EXCEPT !.userMoved = FALSE]
           b == [a EXCEPT !.aim = Home(rows)]
           c == Reset(b, rows)
<1>1. Whole(a) /\ RealLoss(a) /\ a.userMoved = FALSE
  BY DEF Whole, RealLoss
<1> HIDE DEF a
<1>2. Follow(a, rows) = b
  BY <1>1 DEF Follow
<1>3. Whole(b) /\ RealLoss(b) /\ b.userMoved = FALSE /\ b.aim = Home(rows)
  BY <1>1 DEF Whole, RealLoss
<1> HIDE DEF b
<1>4. Whole(c) /\ RealLoss(c) /\ c.userMoved = FALSE /\ c.aim = Home(rows)
  BY <1>3 DEF Reset, Whole, RealLoss
<1> HIDE DEF c
<1>5. Sound(Focus(c, rows), rows)
  <2>1. CASE c.focus \in DOMAIN rows
    BY <1>4, <2>1 DEF Focus, Sound, Whole, RealLoss, AtHome
  <2>2. CASE c.focus \notin DOMAIN rows
    BY <1>4, <2>2 DEF Focus, Sound, AtHome
  <2> QED
    BY <2>1, <2>2
<1> QED
  BY <1>2, <1>5 DEF SceneMounts, a, b, c

LEMMA MapMountsSound == ASSUME NEW rows, NEW ip PROVE Sound(MapMounts(rows, ip), rows)
<1> DEFINE fresh == [mounted |-> TRUE, preference |-> readPreference, contextLost |-> FALSE,
                     broken |-> FALSE, dying |-> FALSE, cursor |-> ip, focus |-> None,
                     hover |-> None, userMoved |-> FALSE, reset |-> FALSE, aim |-> Home(rows)]
<1>1. Whole(fresh) /\ RealLoss(fresh) /\ fresh.userMoved = FALSE /\ fresh.aim = Home(rows)
  BY DEF Whole, RealLoss
<1>2. MapMounts(rows, ip) = IF Renderer(fresh) = "3d" THEN SceneMounts(fresh, rows) ELSE fresh
  BY DEF MapMounts
<1> HIDE DEF fresh
<1>3. Sound(fresh, rows)
  BY <1>1 DEF Sound, AtHome
<1> QED
  BY <1>1, <1>2, <1>3, SceneMountsSound

LEMMA MapRendersSound ==
  ASSUME NEW m, NEW before, NEW rows, NEW ip, Sound(m, before)
  PROVE  Sound(MapRenders(m, before, rows, ip), rows)
<1> DEFINE seen == [m EXCEPT !.cursor = IF ip # None THEN ip ELSE @]
           b == Follow(seen, rows)
<1>1. /\ Whole(seen) /\ RealLoss(seen) /\ seen.userMoved = m.userMoved /\ seen.aim = m.aim
      /\ Renderer(seen) = Renderer(m) /\ seen.userMoved \in BOOLEAN
  BY DEF Sound, Whole, RealLoss, Renderer
<1>2. MapRenders(m, before, rows, ip) =
        IF Renderer(m) = "3d" /\ Home(before) # Home(rows) THEN Reset(b, rows) ELSE seen
  BY DEF MapRenders
<1> HIDE DEF seen
<1>3. CASE Renderer(m) = "3d" /\ Home(before) # Home(rows)
  <2>1. /\ Whole(b) /\ RealLoss(b) /\ b.userMoved \in BOOLEAN
        /\ b.userMoved # TRUE => b.aim = Home(rows)
    BY <1>1 DEF Follow, Whole, RealLoss
  <2> HIDE DEF b
  <2>2. Sound(Reset(b, rows), rows)
    <3>1. CASE b.reset
      BY <2>1, <3>1 DEF Reset, Sound, Whole, RealLoss, AtHome
    <3>2. CASE ~b.reset
      BY <2>1, <3>2 DEF Reset, Sound, AtHome
    <3> QED
      BY <3>1, <3>2
  <2> QED
    BY <1>2, <1>3, <2>2
<1>4. CASE ~(Renderer(m) = "3d" /\ Home(before) # Home(rows))
  BY <1>1, <1>2, <1>4 DEF Sound, AtHome
<1> QED
  BY <1>3, <1>4

\* The scene mounts, goes or stays when the renderer changes; its camera does
\* not move by itself.
LEMMA RedrawnSound ==
  ASSUME NEW m, NEW rows, Sound(map, rows), Whole(m), RealLoss(m),
         m.userMoved = map.userMoved, m.aim = map.aim
  PROVE  Sound(Redrawn(m, rows), rows)
<1>1. CASE Renderer(map) = "flat" /\ Renderer(m) = "3d"
  BY <1>1, SceneMountsSound DEF Redrawn
<1>2. CASE Renderer(map) = "3d" /\ Renderer(m) = "flat"
  <2> DEFINE d == [m EXCEPT !.dying = TRUE]
  <2>1. Whole(d) /\ RealLoss(d) /\ d.userMoved = m.userMoved /\ Renderer(d) = Renderer(m)
    BY DEF Whole, RealLoss, Renderer
  <2>2. Redrawn(m, rows) = d
    BY <1>2 DEF Redrawn
  <2> HIDE DEF d
  <2> QED
    BY <1>2, <2>1, <2>2 DEF Sound, AtHome
<1>3. CASE Renderer(m) = Renderer(map)
  BY <1>3 DEF Redrawn, Sound, AtHome
<1> QED
  BY <1>1, <1>2, <1>3 DEF Renderer

\* Every step renders the page, moves the map under the same devices, draws a
\* frame, or leaves what is on screen.
MapMoves ==
  Escape \/ MapInput \/ ResetClicked \/ Canvas \/ \E ip \in Octets : Fly(ip)

Rests == UNCHANGED <<hosts, states, scan, ui, selected, mapVars>>

LEMMA KindsOfSteps ==
  ASSUME Next
  PROVE  \/ \E h, s, u, ip : Render(h, s, u, ip)
         \/ MapMoves \/ Draw \/ Rests
<1>1. CASE \/ \E ip \in Targets, preserve \in BOOLEAN : StartScan(ip, preserve)
           \/ \E h \in Sights : DeviceClassified(h) \/ \E marks \in BOOLEAN : HostLearned(h, marks)
  <2>1. ASSUME NEW ip, NEW preserve, StartScan(ip, preserve)
        PROVE  \E h, s, u, i : Render(h, s, u, i)
    <3>1. Render(hosts, states, ui, selected) \/ Render(<<>>, <<>>, ui, selected)
      BY <2>1 DEF StartScan
    <3> HIDE DEF Render
    <3> QED
      BY <3>1
  <2>2. ASSUME NEW h, NEW marks, applyHostEvent(h, marks) PROVE \E g, s, u, i : Render(g, s, u, i)
    BY <2>2 DEF applyHostEvent
  <2> QED
    BY <1>1, <2>1, <2>2 DEF DeviceClassified, HostLearned
<1>2. CASE HostSeen \/ HostDone \/ ScanCancelled
  BY <1>2 DEF HostSeen, HostDone, ScanCancelled, applyHostEvent
<1>3. CASE FileReplied \/ \E opened \in Files : FileLoaded(opened)
  BY <1>3 DEF FileReplied, FileLoaded, loadHosts
<1>4. CASE CloseDetail \/ onRowKey \/ \E ip \in Octets : Click(ip)
  BY <1>4 DEF CloseDetail, onRowKey, Click, Toggle, Select, InTable, Rests, Listed, Free, device
<1>5. CASE \/ \E l \in loads : HistoryAnswered(l)
           \/ \E key \in {"ip", "device"} : toggleSort(key)
  BY <1>5 DEF HistoryAnswered, toggleSort, InTable, Rests, Listed, Free, device
<1>6. CASE \/ ShowSilent \/ Navigate \/ ComeBack \/ Crash
           \/ \E v \in Views : SwitchView(v)
           \/ \E needle \in Needles \cup {""} : Search(needle)
  BY <1>6 DEF ShowSilent, Navigate, ComeBack, Crash, TurnTo, SwitchView, Search, Show
<1> QED
  BY <1>1, <1>2, <1>3, <1>4, <1>5, <1>6 DEF Next, MapMoves

\* The rows and the renderer of the next state.
LEMMA SoundNext ==
  ASSUME NEW rows, Sound(map', rows), visibleRows' = rows, webgl' = webgl
  PROVE  MapInv'
<1>1. Renderer(map)' = Renderer(map')
  BY DEF Renderer
<1> QED
  BY <1>1 DEF MapInv, Sound, Whole, RealLoss, AtHome

LEMMA RenderMaps ==
  ASSUME MapInv, NEW h, NEW s, NEW u, NEW ip, Render(h, s, u, ip)
  PROVE  MapInv'
<1> DEFINE rows == VisibleRows(h, s, u)
           now  == Pick(h, u, ip)
           picked == IF now = selected THEN None ELSE now
<1>1. visibleRows' = rows /\ webgl' = webgl
  BY DEF Render, Draws, visibleRows
<1>2. \/ map' = NoMap
      \/ map.mounted /\ map' = MapRenders(map, visibleRows, rows, picked)
      \/ map' = MapMounts(rows, now)
  BY DEF Render
<1> HIDE DEF rows, now, picked
<1>3. CASE map' = NoMap
  BY <1>3 DEF MapInv
<1>4. CASE map.mounted /\ map' = MapRenders(map, visibleRows, rows, picked)
  <2>1. Sound(map, visibleRows)
    BY <1>4 DEF MapInv, NoMap
  <2> QED
    BY <1>1, <1>4, <2>1, MapRendersSound, SoundNext
<1>5. CASE map' = MapMounts(rows, now)
  BY <1>1, <1>5, MapMountsSound, SoundNext
<1> QED
  BY <1>2, <1>3, <1>4, <1>5

LEMMA FlownSound ==
  ASSUME NEW ip, NEW rows, Sound(map, rows) PROVE Sound(Flown(map, ip, rows), rows)
<1> DEFINE f == [map EXCEPT !.cursor = ip, !.focus = ip]
<1>1. /\ Whole(f) /\ RealLoss(f) /\ f.userMoved = map.userMoved /\ f.aim = map.aim
      /\ Renderer(f) = Renderer(map)
  BY DEF Sound, Whole, RealLoss, Renderer
<1>2. Flown(map, ip, rows) = IF Renderer(map) = "3d" THEN Focus(f, rows) ELSE f
  BY DEF Flown
<1> HIDE DEF f
<1>3. Sound(f, rows)
  BY <1>1 DEF Sound, AtHome
<1>4. Sound(Focus(f, rows), rows)
  BY <1>1, <1>3 DEF Focus, Sound, Whole, RealLoss, AtHome
<1> QED
  BY <1>2, <1>3, <1>4

LEMMA LossSound ==
  ASSUME NEW rows, Sound(map, rows), SceneFails(rows) \/ CanvasDies(rows)
  PROVE  Sound(map', rows)
<1>1. CASE SceneFails(rows)
  <2> DEFINE m == [map EXCEPT !.broken = TRUE]
             d == [m EXCEPT !.contextLost = TRUE]
  <2>1. Whole(d) /\ RealLoss(d) /\ d.userMoved = map.userMoved /\ d.aim = map.aim
    BY DEF Sound, Whole, RealLoss
  <2>2. map' = Redrawn(d, rows)
    BY <1>1 DEF SceneFails, LostContext
  <2> HIDE DEF d
  <2> QED
    BY <2>1, <2>2, RedrawnSound
<1>2. CASE CanvasDies(rows)
  <2>1. map' = [map EXCEPT !.dying = FALSE]
    BY <1>2 DEF CanvasDies, LostContext
  <2>2. Renderer(map') = Renderer(map)
    BY <2>1 DEF Sound, Whole, Renderer
  <2> QED
    BY <2>1, <2>2 DEF Sound, Whole, RealLoss, AtHome
<1> QED
  BY <1>1, <1>2

LEMMA InputSound ==
  ASSUME NEW rows, Sound(map, rows),
         \/ \E key : MoveCursor(key, rows)
         \/ TakeCamera \/ \E view : ChooseRenderer(view, rows)
         \/ \E ip : Hover(ip)
  PROVE  Sound(map', rows)
<1>1. CASE \/ \E key : MoveCursor(key, rows)
           \/ \E ip : Hover(ip)
  <2>1. PICK c, v : map' = [map EXCEPT !.cursor = c, !.hover = v]
                    \/ map' = [map EXCEPT !.hover = v]
    BY <1>1 DEF MoveCursor, Hover
  <2>2. Renderer(map') = Renderer(map)
    BY <2>1 DEF Sound, Whole, Renderer
  <2> QED
    BY <2>1, <2>2 DEF Sound, Whole, RealLoss, AtHome
<1>2. CASE TakeCamera
  <2>1. map' = [map EXCEPT !.userMoved = TRUE, !.aim = UserAim]
    BY <1>2 DEF TakeCamera
  <2> QED
    BY <2>1 DEF Sound, Whole, RealLoss, AtHome
<1>3. ASSUME NEW view, ChooseRenderer(view, rows) PROVE Sound(map', rows)
  <2> DEFINE m == [map EXCEPT !.preference = view]
  <2>1. Whole(m) /\ RealLoss(m) /\ m.userMoved = map.userMoved /\ m.aim = map.aim
    BY DEF Sound, Whole, RealLoss
  <2>2. map' = Redrawn(m, rows)
    BY <1>3 DEF ChooseRenderer
  <2> HIDE DEF m
  <2> QED
    BY <2>1, <2>2, RedrawnSound
<1> QED
  BY <1>1, <1>2, <1>3

LEMMA ResetSound ==
  ASSUME NEW rows, Sound(map, rows), ResetView(rows) PROVE Sound(map', rows)
<1> DEFINE m == [map EXCEPT !.reset = TRUE]
<1>1. Whole(m) /\ RealLoss(m) /\ m.reset = TRUE
  BY DEF Sound, Whole, RealLoss
<1>2. map' = Reset(m, rows)
  BY DEF ResetView
<1> HIDE DEF m
<1>3. map' = [m EXCEPT !.userMoved = FALSE, !.aim = Home(rows)]
  BY <1>1, <1>2 DEF Reset
<1> QED
  BY <1>1, <1>3 DEF Sound, Whole, RealLoss, AtHome

LEMMA MovesMap == ASSUME MapInv, MapMoves PROVE MapInv'
<1>1. map.mounted /\ UNCHANGED <<hosts, states, ui, webgl>>
  BY DEF MapMoves, Escape, Fly, MapInput, ResetClicked, Canvas, OnMap, Open, Draws,
         SceneFails, CanvasDies
<1>2. Sound(map, visibleRows) /\ visibleRows' = visibleRows
  BY <1>1 DEF MapInv, NoMap, visibleRows
<1>3. CASE \E ip \in Octets : Fly(ip)
  BY <1>1, <1>2, <1>3, FlownSound, SoundNext DEF Fly, Open
<1>4. CASE Escape
  <2>1. map' = [map EXCEPT !.hover = None]
    BY <1>4 DEF Escape, Open
  <2>2. Renderer(map') = Renderer(map)
    BY <1>2, <2>1 DEF Sound, Whole, Renderer
  <2>3. Sound(map', visibleRows)
    BY <1>2, <2>1, <2>2 DEF Sound, Whole, RealLoss, AtHome
  <2> QED
    BY <1>1, <1>2, <2>3, SoundNext
<1>5. CASE MapInput
  BY <1>1, <1>2, <1>5, InputSound, SoundNext DEF MapInput
<1>6. CASE ResetClicked
  BY <1>1, <1>2, <1>6, ResetSound, SoundNext DEF ResetClicked
<1>7. CASE Canvas
  BY <1>1, <1>2, <1>7, LossSound, SoundNext DEF Canvas
<1> QED
  BY <1>3, <1>4, <1>5, <1>6, <1>7 DEF MapMoves

THEOREM MapInvariance == Spec => []MapInv
<1>1. Init => MapInv
  <2> SUFFICES ASSUME Init PROVE MapInv
    OBVIOUS
  <2>1. map = (IF paced THEN MapMounts(visibleRows, None) ELSE NoMap)
    BY Zenon DEF Init
  <2> QED
    BY <2>1, MapMountsSound DEF MapInv
<1>2. MapInv /\ [Next]_vars => MapInv'
  <2> SUFFICES ASSUME MapInv, [Next]_vars PROVE MapInv'
    OBVIOUS
  <2>1. CASE UNCHANGED <<hosts, states, ui, map, webgl>>
    BY <2>1 DEF MapInv, visibleRows, Sound, Whole, RealLoss, AtHome, Renderer
  <2>2. CASE Rests \/ Draw \/ UNCHANGED vars
    BY <2>1, <2>2 DEF Rests, Draw, vars, mapVars
  <2> QED
    BY <2>2, KindsOfSteps, RenderMaps, MovesMap
<1> QED
  BY <1>1, <1>2, PTL DEF Spec

\* A canvas that is unmounted is made to lose its context, and that is never
\* taken for a failure (TopologyScene.tsx:68): only a scene that really failed
\* gives way to the flat map for good.
THEOREM LossesAreReal == Spec => []OnlyRealLosses
<1>1. MapInv => OnlyRealLosses
  BY DEF MapInv, NoMap, Sound, RealLoss, OnlyRealLosses
<1> QED
  BY <1>1, MapInvariance, PTL

\* A camera nobody took frames the network as it is now (TopologyScene.tsx:484),
\* whatever devices come and go and however often the scene is mounted anew.
THEOREM MapFollowsDevices == Spec => []MapFollows
<1>1. MapInv => MapFollows
  <2> SUFFICES ASSUME MapInv, map.mounted, Renderer(map) = "3d", ~map.userMoved
               PROVE  map.aim = Home(visibleRows)
    BY DEF MapFollows, CameraFollows
  <2>1. Sound(map, visibleRows)
    BY DEF MapInv, NoMap
  <2>2. AtHome(map, visibleRows) /\ map.userMoved # TRUE
    BY <2>1 DEF Sound
  <2> QED
    BY <2>2 DEF AtHome
<1> QED
  BY <1>1, MapInvariance, PTL
-----------------------------------------------------------------------------
(* The frames of the scene.                                                *)

\* The record of a mounted scene.
Drawn(s) ==
  /\ s.mounted = TRUE
  /\ {"mounted", "due", "asked", "at", "drawn", "born", "floor", "swept"} \subseteq DOMAIN s

SceneInv == scene = NoScene \/ (Drawn(scene) /\ RestsOnTheMap(scene, props))

\* A scene that waits for its effect, or for a frame, promises nothing yet.
LEMMA RendersRest ==
  ASSUME NEW s, NEW p, NEW q, Drawn(s), RestsOnTheMap(s, p)
  PROVE  Drawn(Rerender(s, p, q)) /\ RestsOnTheMap(Rerender(s, p, q), q)
<1> DEFINE t == Rerender(s, p, q)
<1>1. /\ Drawn(t) /\ t.asked = s.asked /\ t.at = s.at /\ t.floor = s.floor /\ t.swept = s.swept
      /\ t.due = (s.due \/ Depends(p) # Depends(q) \/ SweepBegins(p, q))
      /\ t.drawn = IF Capacity(p.hosts) = Capacity(q.hosts) THEN s.drawn ELSE <<>>
  BY DEF Rerender, Drawn
<1> HIDE DEF t
<1> SUFFICES ASSUME ~t.due, ~t.asked PROVE RestsOnTheMap(t, q)
  BY <1>1 DEF RestsOnTheMap, t
<1>2. ~s.due /\ ~s.asked /\ Depends(p) = Depends(q) /\ ~SweepBegins(p, q)
  BY <1>1
<1>3. /\ p.hosts = q.hosts /\ p.matches = q.matches /\ p.states = q.states
      /\ p.selected = q.selected /\ p.hover = q.hover
  BY <1>2 DEF Depends
<1>4. t.drawn = s.drawn /\ ~q.scanning
  BY <1>1, <1>2, <1>3 DEF SweepBegins, RestsOnTheMap, Drawn
<1>5. \A ip \in DOMAIN p.hosts : FlatLook(q, ip) = FlatLook(p, ip)
  BY <1>3 DEF FlatLook
<1>6. Labels(q) = Labels(p)
  BY <1>3 DEF Labels
<1> QED
  BY <1>1, <1>2, <1>3, <1>4, <1>5, <1>6 DEF RestsOnTheMap, Drawn

LEMMA EffectsRest ==
  ASSUME NEW s, NEW p, Drawn(s)
  PROVE  Drawn(Effects(s, p)) /\ RestsOnTheMap(Effects(s, p), p)
<1>1. Drawn(Effects(s, p)) /\ Effects(s, p).asked = TRUE
  BY DEF Effects, Drawn
<1> QED
  BY <1>1 DEF RestsOnTheMap

\* What a frame draws of a device is what the flat map shows of it.
LEMMA LooksAlike ==
  ASSUME NEW p, NEW ip \in DOMAIN p.hosts
  PROVE  /\ \A part \in DOMAIN FlatLook(p, ip) : Look(p, ip)[part] = FlatLook(p, ip)[part]
         /\ Look(p, ip).size # "plain" <=> ip \in Labels(p).tag \cup Labels(p).card
<1>1. DOMAIN FlatLook(p, ip) = {"colour", "dimmed", "halo", "ring"}
  BY DEF FlatLook
<1>2. /\ Look(p, ip).colour = FlatLook(p, ip).colour
      /\ Look(p, ip).dimmed = FlatLook(p, ip).dimmed
      /\ Look(p, ip).halo = FlatLook(p, ip).halo
      /\ Look(p, ip).ring = FlatLook(p, ip).ring
  BY DEF Look, FlatLook
<1>3. Look(p, ip).size # "plain" <=> ip = p.selected \/ ip = p.hover
  BY DEF Look
<1>4. ip \in Labels(p).tag \cup Labels(p).card <=> ip = p.selected \/ ip = p.hover
  BY DEF Labels
<1> QED
  BY <1>1, <1>2, <1>3, <1>4

LEMMA FramesRest ==
  ASSUME NEW s, NEW p, NEW arrive \in BOOLEAN, Drawn(s)
  PROVE  Drawn(Frame(s, p, arrive)) /\ RestsOnTheMap(Frame(s, p, arrive), p)
<1> DEFINE ips   == DOMAIN p.hosts
           place == [ip \in ips |-> Place(p.hosts, ip)]
           there == {ip \in ips : arrive \/ (ip \in DOMAIN s.at /\ s.at[ip] = place[ip])}
           moved == [ip \in ips \cup DOMAIN s.at |->
                       IF ip \notin ips THEN s.at[ip]
                       ELSE IF ip \in there THEN place[ip] ELSE <<"on its way">>]
           t == Frame(s, p, arrive)
<1>1. /\ Drawn(t) /\ t.asked = (there # ips \/ p.scanning) /\ t.at = moved
      /\ t.drawn = [ip \in ips |-> Look(p, ip)] /\ t.floor = Floor(p.hosts)
      /\ t.swept = p.scanning
  BY DEF Frame, Drawn
<1> HIDE DEF t
<1> SUFFICES ASSUME ~t.asked PROVE RestsOnTheMap(t, p)
  BY <1>1 DEF RestsOnTheMap, t
<1>2. there = ips /\ ~p.scanning
  BY <1>1
<1>3. ASSUME NEW ip \in ips PROVE t.at[ip] = Place(p.hosts, ip)
  BY <1>1, <1>2
<1>4. \A ip \in ips : t.drawn[ip] = Look(p, ip)
  BY <1>1
<1> HIDE DEF there, moved, place
<1> QED
  BY <1>1, <1>2, <1>3, <1>4, LooksAlike DEF RestsOnTheMap

LEMMA DrawsRest == ASSUME SceneInv, Draws PROVE SceneInv'
<1>1. CASE scene' = NoScene
  BY <1>1 DEF SceneInv
<1>2. CASE scene' = FreshScene
  BY <1>2 DEF SceneInv, FreshScene, Drawn, RestsOnTheMap
<1>3. CASE scene.mounted /\ scene' = Rerender(scene, props, props')
  <2>1. Drawn(scene) /\ RestsOnTheMap(scene, props)
    BY <1>3 DEF SceneInv, NoScene
  <2> QED
    BY <1>3, <2>1, RendersRest DEF SceneInv
<1> QED
  BY <1>1, <1>2, <1>3 DEF Draws, props

THEOREM SceneInvariance == Spec => []SceneInv
<1>1. Init => SceneInv
  <2> SUFFICES ASSUME Init PROVE SceneInv
    OBVIOUS
  <2>1. scene = (IF paced THEN FreshScene ELSE NoScene)
    BY Zenon DEF Init
  <2> QED
    BY <2>1 DEF SceneInv, FreshScene, Drawn, RestsOnTheMap
<1>2. SceneInv /\ [Next]_vars => SceneInv'
  <2> SUFFICES ASSUME SceneInv, [Next]_vars PROVE SceneInv'
    OBVIOUS
  <2>1. CASE \E h, s, u, ip : Render(h, s, u, ip)
    BY <2>1, DrawsRest DEF Render
  <2>2. CASE MapMoves
    BY <2>2, DrawsRest DEF MapMoves, Escape, Fly, Open, MapInput, ResetClicked, Canvas
  <2>3. CASE Draw
    <3>1. Drawn(scene)
      BY <2>3 DEF Draw, SceneInv, NoScene
    <3>2. props' = props
      BY <2>3 DEF Draw, props, Props, device, VisibleRows, Shown
    <3> QED
      BY <2>3, <3>1, <3>2, EffectsRest, FramesRest DEF Draw, SceneInv
  <2>4. CASE Rests \/ UNCHANGED vars
    <3>1. scene' = scene /\ props' = props
      BY <2>4 DEF Rests, vars, mapVars, device, props, Props
    <3> QED
      BY <3>1 DEF SceneInv
  <2> QED
    BY <2>1, <2>2, <2>3, <2>4, KindsOfSteps
<1> QED
  BY <1>1, <1>2, PTL DEF Spec

\* The scene "renders only when something changes" (TopologyScene.tsx:12-14),
\* and no change that matters is missed: at rest it shows what the flat map
\* would, in whatever order renders, effects and frames come.
THEOREM SceneRestsOnTheMap == Spec => []SceneRests
<1>1. SceneInv => SceneRests
  BY DEF SceneInv, NoScene, SceneRests, RestsOnTheMap
<1> QED
  BY <1>1, SceneInvariance, PTL

-----------------------------------------------------------------------------
(* The least of a set of numbers: induction, stated of a set.              *)

LEMMA LeastOf == ASSUME NEW S, S \subseteq Nat, S # {} PROVE \E n \in S : \A m \in S : n <= m
<1>1. PICK n \in S : \A m \in S : <<m, n>> \notin OpToRel(<, Nat)
  BY NatLessThanWellFounded, WFMin
<1>2. \A m \in S : ~(m < n)
  BY <1>1 DEF OpToRel
<1> QED
  BY <1>2

-----------------------------------------------------------------------------
(* The arrow keys.                                                         *)

\* f lists the set in the order of its places.
InPlaces(f, S, place) ==
  /\ f \in [1 .. Cardinality(S) -> S]
  /\ \A i, j \in DOMAIN f : i < j => place[f[i]] < place[f[j]]

\* A finite set whose places differ can be listed: what comes first, and then
\* the others.
LEMMA ListingExists ==
  ASSUME NEW S, IsFiniteSet(S), NEW place, \A x \in S : place[x] \in Nat,
         \A x, y \in S : place[x] = place[y] => x = y
  PROVE  \E f : InPlaces(f, S, place)
<1> DEFINE Lists(T) == \E f : InPlaces(f, T, place)
           Bad == {n \in Nat : \E T \in SUBSET S : Cardinality(T) = n /\ ~Lists(T)}
<1>1. \A T \in SUBSET S : IsFiniteSet(T) /\ Cardinality(T) \in Nat
  BY FS_Subset, FS_CardinalityType
<1>2. SUFFICES ASSUME Bad # {} PROVE FALSE
  <2>1. S \in SUBSET S
    OBVIOUS
  <2> QED
    BY <1>1, <2>1
<1>3. PICK n \in Bad : \A m \in Bad : n <= m
  <2>1. Bad \subseteq Nat
    OBVIOUS
  <2> HIDE DEF Bad
  <2> QED
    BY <1>2, <2>1, LeastOf
<1>4. PICK T \in SUBSET S : Cardinality(T) = n /\ ~Lists(T)
  BY <1>3
<1>5. n \in Nat
  BY <1>3
<1> HIDE DEF Lists
<1>6. T # {}
  <2> SUFFICES ASSUME T = {} PROVE FALSE
    OBVIOUS
  <2>1. Cardinality(T) = 0
    BY FS_EmptySet
  <2>2. InPlaces([i \in 1 .. 0 |-> i], T, place)
    BY <2>1 DEF InPlaces
  <2> QED
    BY <1>4, <2>2 DEF Lists
<1>7. PICK x \in T : \A y \in T : place[x] <= place[y]
  <2> DEFINE P == {place[y] : y \in T}
  <2>1. P \subseteq Nat /\ P # {}
    BY <1>4, <1>6
  <2>2. PICK p \in P : \A q \in P : p <= q
    <3> HIDE DEF P
    <3> QED
      BY <2>1, LeastOf
  <2> QED
    BY <2>2
<1> DEFINE U == T \ {x}
<1>8. U \in SUBSET S /\ Cardinality(U) = n - 1 /\ n - 1 \in Nat
  <2>1. Cardinality(U) = n - 1 /\ Cardinality(U) \in Nat
    BY <1>1, <1>4, <1>7, FS_RemoveElement
  <2> QED
    BY <2>1, <1>4
<1>9. PICK g : InPlaces(g, U, place)
  <2>1. n - 1 \notin Bad
    BY <1>3, <1>5, <1>8
  <2> HIDE DEF U
  <2>2. Lists(U)
    BY <1>8, <2>1
  <2> QED
    BY <2>2 DEF Lists
<1> DEFINE f == [i \in 1 .. n |-> IF i = 1 THEN x ELSE g[i - 1]]
<1>10. g \in [1 .. (n - 1) -> U] /\ \A i, j \in 1 .. (n - 1) : i < j => place[g[i]] < place[g[j]]
  BY <1>8, <1>9 DEF InPlaces
<1>11. \A i \in 1 .. n : i # 1 => i - 1 \in 1 .. (n - 1)
  BY <1>5
<1>12. f \in [1 .. n -> T]
  BY <1>10, <1>11, <1>7
<1>13. ASSUME NEW i \in 1 .. n, NEW j \in 1 .. n, i < j PROVE place[f[i]] < place[f[j]]
  <2>1. j # 1 /\ f[j] = g[j - 1] /\ g[j - 1] \in U
    BY <1>5, <1>10, <1>11, <1>13
  <2>2. CASE i = 1
    <3>1. f[i] = x
      BY <2>2
    <3>2. place[x] \in Nat /\ place[g[j - 1]] \in Nat
      BY <1>4, <1>7, <2>1
    <3>3. place[x] # place[g[j - 1]]
      BY <1>4, <1>7, <2>1
    <3>4. place[x] <= place[g[j - 1]]
      BY <1>7, <2>1
    <3> HIDE DEF f, U
    <3> QED
      BY <2>1, <3>1, <3>2, <3>3, <3>4
  <2>3. CASE i # 1
    <3>1. f[i] = g[i - 1] /\ i - 1 < j - 1
      BY <1>5, <1>13, <2>3
    <3> QED
      BY <1>10, <1>11, <2>1, <2>3, <3>1
  <2> QED
    BY <2>2, <2>3
<1>14. InPlaces(f, T, place)
  <2>1. DOMAIN f = 1 .. n
    OBVIOUS
  <2> HIDE DEF f
  <2> QED
    BY <1>4, <1>12, <1>13, <2>1 DEF InPlaces
<1> QED
  BY <1>4, <1>14 DEF Lists

\* The listing is a sequence with every member once.
LEMMA InOrderIs ==
  ASSUME NEW S, IsFiniteSet(S), NEW place, \A x \in S : place[x] \in Nat,
         \A x, y \in S : place[x] = place[y] => x = y
  PROVE  LET f == InOrder(S, place)  n == Cardinality(S) IN
         /\ n \in Nat /\ (n = 0 <=> S = {})
         /\ f \in Seq(S) /\ Len(f) = n /\ DOMAIN f = 1 .. n
         /\ \A i \in 1 .. n : f[i] \in S
         /\ \A i, j \in 1 .. n : f[i] = f[j] => i = j
         /\ \A x \in S : \E i \in 1 .. n : f[i] = x
<1> DEFINE n == Cardinality(S)
           f == InOrder(S, place)
<1>1. n \in Nat /\ (n = 0 <=> S = {})
  BY FS_CardinalityType, FS_EmptySet
<1>2. InPlaces(f, S, place)
  <2>1. PICK g : InPlaces(g, S, place)
    BY ListingExists
  <2>2. /\ g \in [1 .. Cardinality(S) -> S]
        /\ \A i, j \in DOMAIN g : i < j => place[g[i]] < place[g[j]]
    BY <2>1 DEF InPlaces
  <2>3. /\ f \in [1 .. Cardinality(S) -> S]
        /\ \A i, j \in DOMAIN f : i < j => place[f[i]] < place[f[j]]
    BY <2>2 DEF InOrder
  <2> QED
    BY <2>3 DEF InPlaces
<1> HIDE DEF f, n
<1>3. f \in [1 .. n -> S] /\ DOMAIN f = 1 .. n /\ \A i, j \in 1 .. n : i < j => place[f[i]] < place[f[j]]
  BY <1>2 DEF InPlaces, n
<1>4. ASSUME NEW i \in 1 .. n, NEW j \in 1 .. n, f[i] = f[j] PROVE i = j
  <2>1. f[i] \in S /\ place[f[i]] \in Nat
    BY <1>3
  <2>2. (i < j => place[f[i]] < place[f[j]]) /\ (j < i => place[f[j]] < place[f[i]])
    BY <1>3
  <2> QED
    BY <1>1, <1>4, <2>1, <2>2
<1>5. f \in Surjection(1 .. n, S)
  <2>1. f \in Injection(1 .. n, S)
    BY <1>3, <1>4, Fun_IsInj
  <2>2. Cardinality(1 .. n) = n /\ IsFiniteSet(1 .. n)
    BY <1>1, FS_Interval
  <2> QED
    BY <2>1, <2>2, FS_Injection DEF n
<1>6. \A x \in S : \E i \in 1 .. n : f[i] = x
  BY <1>5 DEF Surjection
<1>7. f \in Seq(S) /\ Len(f) = n
  BY <1>1, <1>3
<1> QED
  BY <1>1, <1>3, <1>4, <1>6, <1>7 DEF f, n
\* Where a member of a sequence without repetition is.
LEMMA AtIs ==
  ASSUME NEW f, NEW n \in Nat, DOMAIN f = 1 .. n,
         \A i, j \in 1 .. n : f[i] = f[j] => i = j, NEW k \in 1 .. n
  PROVE  At(f, f[k]) = k
BY DEF At

LEMMA Modulo ==
  ASSUME NEW n \in Nat \ {0}, NEW k \in Nat, k < 2 * n
  PROVE  k % n = IF k < n THEN k ELSE k - n
<1>1. k < n => k % n = k
  OBVIOUS
<1>2. n <= k => k % n = k - n
  OBVIOUS
<1> QED
  BY <1>1, <1>2

\* A step of the walk, forwards and backwards.
LEMMA StepAround ==
  ASSUME NEW f, NEW n \in Nat \ {0}, Len(f) = n, NEW i \in 1 .. n
  PROVE  /\ Around(f, i, 1) = f[IF i = n THEN 1 ELSE i + 1]
         /\ Around(f, i, n - 1) = f[IF i = 1 THEN n ELSE i - 1]
<1>1. (i - 1 + 1) % n = IF i = n THEN 0 ELSE i
  <2>1. i - 1 + 1 = i /\ i \in Nat /\ i < 2 * n
    OBVIOUS
  <2>2. i % n = IF i < n THEN i ELSE i - n
    BY <2>1, Modulo
  <2> QED
    BY <2>1, <2>2
<1>2. (i - 1 + (n - 1)) % n = IF i = 1 THEN n - 1 ELSE i - 2
  <2> DEFINE k == i - 1 + (n - 1)
  <2>1. k \in Nat /\ k < 2 * n /\ (k < n <=> i = 1) /\ k - n = i - 2
    OBVIOUS
  <2> HIDE DEF k
  <2>2. k % n = IF k < n THEN k ELSE k - n
    BY <2>1, Modulo
  <2>3. i = 1 => k = n - 1
    BY DEF k
  <2>4. k % n = IF i = 1 THEN n - 1 ELSE i - 2
    BY <2>1, <2>2, <2>3
  <2> QED
    BY <2>4 DEF k
<1>3. /\ (IF i = n THEN 0 ELSE i) + 1 = IF i = n THEN 1 ELSE i + 1
      /\ (IF i = 1 THEN n - 1 ELSE i - 2) + 1 = IF i = 1 THEN n ELSE i - 1
  OBVIOUS
<1> QED
  BY <1>1, <1>2, <1>3 DEF Around

\* Every category has its place in the order.
LEMMA CategoryRank ==
  ASSUME NEW h
  PROVE  /\ At(CategoryOrder, categoryFor(h)) \in 1 .. 8
         /\ CategoryOrder[At(CategoryOrder, categoryFor(h))] = categoryFor(h)
<1>1. ASSUME NEW t \in DOMAIN Collected
      PROVE  Collected[t] \in {"windows/smb", "linux/iot", "apple", "printer", "camera/media", "web appliance"}
  <2>1. DOMAIN Collected = {"windows_or_smb", "windows_rdp", "ssh_device", "linux_or_iot",
          "iot_device", "apple_device", "printer", "camera_or_rtsp", "plex", "web_device"}
    BY DEF Collected
  <2>2. /\ Collected["windows_or_smb"] = "windows/smb" /\ Collected["windows_rdp"] = "windows/smb"
        /\ Collected["ssh_device"] = "linux/iot" /\ Collected["linux_or_iot"] = "linux/iot"
        /\ Collected["iot_device"] = "linux/iot" /\ Collected["apple_device"] = "apple"
        /\ Collected["printer"] = "printer" /\ Collected["camera_or_rtsp"] = "camera/media"
        /\ Collected["plex"] = "camera/media" /\ Collected["web_device"] = "web appliance"
    BY DEF Collected
  <2> QED
    BY <2>1, <2>2
<1>2. categoryFor(h) \in {"firewall/network", "windows/smb", "linux/iot", "apple",
                          "printer", "camera/media", "web appliance", "unknown"}
  BY <1>1 DEF categoryFor
<1>3. DOMAIN CategoryOrder = 1 .. 8
  BY DEF CategoryOrder
<1>4. \E i \in DOMAIN CategoryOrder : CategoryOrder[i] = categoryFor(h)
  <2>1. /\ CategoryOrder[1] = "firewall/network" /\ CategoryOrder[2] = "windows/smb"
        /\ CategoryOrder[3] = "linux/iot" /\ CategoryOrder[4] = "apple"
        /\ CategoryOrder[5] = "printer" /\ CategoryOrder[6] = "camera/media"
        /\ CategoryOrder[7] = "web appliance" /\ CategoryOrder[8] = "unknown"
    BY DEF CategoryOrder
  <2>2. 1 \in 1 .. 8 /\ 2 \in 1 .. 8 /\ 3 \in 1 .. 8 /\ 4 \in 1 .. 8
        /\ 5 \in 1 .. 8 /\ 6 \in 1 .. 8 /\ 7 \in 1 .. 8 /\ 8 \in 1 .. 8
    OBVIOUS
  <2> DEFINE category == categoryFor(h)
  <2> HIDE DEF category
  <2>3. category \in {"firewall/network", "windows/smb", "linux/iot", "apple",
                      "printer", "camera/media", "web appliance", "unknown"}
    BY <1>2 DEF category
  <2>4. \E i \in DOMAIN CategoryOrder : CategoryOrder[i] = category
    BY <1>3, <2>1, <2>2, <2>3, Zenon
  <2> QED
    BY <2>4 DEF category
<1> QED
  BY <1>3, <1>4 DEF At

LEMMA Addresses == Octets \subseteq Nat /\ \A a \in Octets : a <= 255
<1>1. Octets \subseteq 0 .. 255
  BY OctetsAssumption
<1> QED
  BY <1>1

LEMMA GatewayListed ==
  ASSUME NEW rows, DOMAIN rows \subseteq Octets
  PROVE  pickGateway(rows) \in DOMAIN rows \cup {None}
<1> DEFINE gear == {a \in DOMAIN rows : categoryFor(rows[a]) = "firewall/network"}
<1>1. gear # {} => Min(gear) \in gear
  <2>1. gear \subseteq Nat
    BY Addresses
  <2> HIDE DEF gear
  <2> SUFFICES ASSUME gear # {} PROVE Min(gear) \in gear
    OBVIOUS
  <2>2. \E n \in gear : \A m \in gear : n <= m
    BY <2>1, LeastOf
  <2> QED
    BY <2>2 DEF Min
<1> QED
  BY <1>1 DEF pickGateway

\* The nodes of the layout list every device once.
LEMMA NodesIs ==
  ASSUME NEW rows, DOMAIN rows \subseteq Octets
  PROVE  LET f == computeLayout(rows).nodes  n == Cardinality(DOMAIN rows) IN
         /\ n \in Nat /\ (n = 0 <=> DOMAIN rows = {})
         /\ Len(f) = n /\ DOMAIN f = 1 .. n
         /\ \A i \in 1 .. n : f[i] \in DOMAIN rows
         /\ \A i, j \in 1 .. n : f[i] = f[j] => i = j
         /\ \A x \in DOMAIN rows : \E i \in 1 .. n : f[i] = x
<1> DEFINE ips == DOMAIN rows
           gateway == pickGateway(rows)
           rank == [a \in ips |-> At(CategoryOrder, categoryFor(rows[a]))]
           place == [a \in ips |-> IF a = gateway THEN 0 ELSE 256 * rank[a] + a]
<1>1. IsFiniteSet(ips) /\ \A a \in ips : a \in Nat /\ a <= 255
  <2>1. ips \subseteq Nat /\ \A a \in ips : a \in Nat /\ a <= 255
    BY Addresses
  <2> HIDE DEF ips
  <2>2. PICK n \in Nat : n = 255
    OBVIOUS
  <2>3. IsFiniteSet(ips)
    BY <2>1, <2>2, FS_BoundedSetOfNaturals
  <2> QED
    BY <2>1, <2>3
<1>2. \A a \in ips : rank[a] \in 1 .. 8
  BY CategoryRank
<1> HIDE DEF rank
<1>3. \A a \in ips : place[a] \in Nat
  BY <1>1, <1>2
<1>4. \A a, b \in ips : place[a] = place[b] => a = b
  BY <1>1, <1>2
<1>5. computeLayout(rows).nodes = InOrder(ips, place)
  BY DEF computeLayout, rank
<1> HIDE DEF place, ips, gateway
<1>6. LET f == InOrder(ips, place)  n == Cardinality(ips) IN
      /\ n \in Nat /\ (n = 0 <=> ips = {})
      /\ Len(f) = n /\ DOMAIN f = 1 .. n
      /\ \A i \in 1 .. n : f[i] \in ips
      /\ \A i, j \in 1 .. n : f[i] = f[j] => i = j
      /\ \A x \in ips : \E i \in 1 .. n : f[i] = x
  BY <1>1, <1>3, <1>4, InOrderIs
<1> QED
  BY <1>5, <1>6 DEF ips
\* The clusters share out the other devices by their category, none is empty.
LEMMA ClustersAre ==
  ASSUME NEW rows, DOMAIN rows \subseteq Octets
  PROVE  LET clusters == computeLayout(rows).clusters
             n        == Len(clusters)
             others   == DOMAIN rows \ {pickGateway(rows)}
         IN /\ n \in Nat /\ DOMAIN clusters = 1 .. n
            /\ \A a \in others : \E i \in 1 .. n : a \in Range(clusters[i].members)
            /\ \A i, j \in 1 .. n, a \in others :
                 a \in Range(clusters[i].members) /\ a \in Range(clusters[j].members) => i = j
            /\ \A i \in 1 .. n : /\ Head(clusters[i].members) \in Range(clusters[i].members)
                                 /\ Range(clusters[i].members) \subseteq others
            /\ \A i \in 1 .. n, a, b \in others :
                 a \in Range(clusters[i].members) /\ b \in Range(clusters[i].members)
                   => categoryFor(rows[a]) = categoryFor(rows[b])
<1> DEFINE ips == DOMAIN rows
           gateway == pickGateway(rows)
           rank == [a \in ips |-> At(CategoryOrder, categoryFor(rows[a]))]
           others == ips \ {gateway}
           ranks == {rank[a] : a \in others}
           present == Ascending(ranks)
           group(k) == {a \in others : rank[a] = k}
           cluster(k) == [category |-> CategoryOrder[k], members |-> Ascending(group(k))]
           clusters == computeLayout(rows).clusters
           n == Cardinality(ranks)
<1>1. IsFiniteSet(ips) /\ \A a \in ips : a \in Nat
  <2>1. ips \subseteq Nat /\ \A a \in ips : a \in Nat /\ a <= 255
    BY Addresses
  <2> HIDE DEF ips
  <2>2. PICK m \in Nat : m = 255
    OBVIOUS
  <2> QED
    BY <2>1, <2>2, FS_BoundedSetOfNaturals
<1>2. \A a \in ips : rank[a] \in 1 .. 8 /\ CategoryOrder[rank[a]] = categoryFor(rows[a])
  BY CategoryRank
<1>3. ASSUME NEW S, S \subseteq Nat, IsFiniteSet(S)
      PROVE  LET f == Ascending(S)  m == Cardinality(S) IN
             /\ m \in Nat /\ (m = 0 <=> S = {})
             /\ f \in Seq(S) /\ Len(f) = m /\ DOMAIN f = 1 .. m
             /\ \A i \in 1 .. m : f[i] \in S
             /\ \A i, j \in 1 .. m : f[i] = f[j] => i = j
             /\ \A x \in S : \E i \in 1 .. m : f[i] = x
  <2> DEFINE place == [x \in S |-> x]
  <2>1. /\ \A x \in S : place[x] \in Nat
        /\ \A x, y \in S : place[x] = place[y] => x = y
    BY <1>3
  <2>2. Ascending(S) = InOrder(S, place)
    BY DEF Ascending
  <2> HIDE DEF place
  <2>3. LET f == InOrder(S, place)  m == Cardinality(S) IN
        /\ m \in Nat /\ (m = 0 <=> S = {})
        /\ f \in Seq(S) /\ Len(f) = m /\ DOMAIN f = 1 .. m
        /\ \A i \in 1 .. m : f[i] \in S
        /\ \A i, j \in 1 .. m : f[i] = f[j] => i = j
        /\ \A x \in S : \E i \in 1 .. m : f[i] = x
    BY <1>3, <2>1, InOrderIs
  <2> QED
    BY <2>2, <2>3
<1>4. clusters = [i \in DOMAIN present |-> cluster(present[i])]
  BY DEF computeLayout
<1> HIDE DEF clusters, rank
<1>5. ranks \subseteq Nat /\ IsFiniteSet(ranks)
  <2>1. ranks \subseteq Nat /\ \A k \in ranks : k <= 8
    BY <1>2
  <2> HIDE DEF ranks
  <2> QED
    BY <2>1, FS_BoundedSetOfNaturals
<1>6. /\ n \in Nat /\ DOMAIN present = 1 .. n
      /\ \A i \in 1 .. n : present[i] \in ranks
      /\ \A i, j \in 1 .. n : present[i] = present[j] => i = j
      /\ \A k \in ranks : \E i \in 1 .. n : present[i] = k
  <2> HIDE DEF ranks
  <2> QED
    BY <1>3, <1>5
<1>7. ASSUME NEW k \in ranks
      PROVE  /\ Range(cluster(k).members) = group(k)
             /\ Head(cluster(k).members) \in group(k)
  <2> DEFINE f == Ascending(group(k))
             m == Cardinality(group(k))
  <2>1. group(k) \subseteq Nat /\ IsFiniteSet(group(k)) /\ group(k) # {}
    <3>1. group(k) \subseteq ips /\ group(k) \subseteq Nat /\ group(k) # {}
      BY <1>1
    <3> QED
      BY <1>1, <3>1, FS_Subset
  <2>2. cluster(k).members = f
    OBVIOUS
  <2> HIDE DEF group
  <2>3. /\ m \in Nat /\ m # 0 /\ f \in Seq(group(k)) /\ Len(f) = m /\ DOMAIN f = 1 .. m
        /\ \A i \in 1 .. m : f[i] \in group(k)
        /\ \A x \in group(k) : \E i \in 1 .. m : f[i] = x
    BY <1>3, <2>1
  <2> HIDE DEF f, m, cluster
  <2>4. Range(f) = group(k)
    BY <2>3 DEF Range
  <2>5. Head(f) = f[1] /\ 1 \in 1 .. m
    BY <2>3
  <2> QED
    BY <2>2, <2>3, <2>4, <2>5
<1> HIDE DEF present, cluster, n, ranks
<1>8. DOMAIN clusters = 1 .. n /\ Len(clusters) = n
  <2>1. clusters \in [1 .. n -> {cluster(k) : k \in ranks}]
    BY <1>4, <1>6
  <2> QED
    BY <1>6, <2>1
<1>9. \A i \in 1 .. n : /\ Range(clusters[i].members) = group(present[i])
                        /\ Head(clusters[i].members) \in group(present[i])
  BY <1>4, <1>6, <1>7
<1>10. ASSUME NEW a \in others PROVE \E i \in 1 .. n : a \in Range(clusters[i].members)
  <2>1. rank[a] \in ranks
    BY DEF ranks
  <2>2. PICK i \in 1 .. n : present[i] = rank[a]
    BY <1>6, <2>1
  <2> QED
    BY <1>9, <2>2
<1>11. \A i, j \in 1 .. n, a \in others :
         a \in Range(clusters[i].members) /\ a \in Range(clusters[j].members) => i = j
  BY <1>6, <1>9
<1>12. \A i \in 1 .. n : /\ Head(clusters[i].members) \in Range(clusters[i].members)
                         /\ Range(clusters[i].members) \subseteq others
  BY <1>9
<1>13. \A i \in 1 .. n, a, b \in others :
         a \in Range(clusters[i].members) /\ b \in Range(clusters[i].members)
           => categoryFor(rows[a]) = categoryFor(rows[b])
  <2> SUFFICES ASSUME NEW i \in 1 .. n, NEW a \in others, NEW b \in others,
                      a \in Range(clusters[i].members), b \in Range(clusters[i].members)
               PROVE  categoryFor(rows[a]) = categoryFor(rows[b])
    OBVIOUS
  <2>1. rank[a] = rank[b]
    BY <1>9
  <2> QED
    BY <1>2, <2>1
<1> QED
  BY <1>6, <1>8, <1>10, <1>11, <1>12, <1>13 DEF clusters
\* Left and right, from the device in a place.
LEMMA NodeStep ==
  ASSUME NEW rows, DOMAIN rows \subseteq Octets,
         NEW i \in 1 .. Cardinality(DOMAIN rows)
  PROVE  LET layout == computeLayout(rows)
             f == layout.nodes
             n == Cardinality(DOMAIN rows)
         IN /\ neighborIndex(layout, f[i], "next") = f[IF i = n THEN 1 ELSE i + 1]
            /\ neighborIndex(layout, f[i], "previous") = f[IF i = 1 THEN n ELSE i - 1]
<1> DEFINE layout == computeLayout(rows)
           f == layout.nodes
           n == Cardinality(DOMAIN rows)
<1>1. /\ n \in Nat /\ Len(f) = n /\ DOMAIN f = 1 .. n
      /\ \A j, k \in 1 .. n : f[j] = f[k] => j = k
  BY NodesIs
<1> HIDE DEF layout, n
<1>2. i \in 1 .. n /\ n \in Nat \ {0}
  BY <1>1 DEF n
<1>3. f # <<>> /\ f[i] \in Range(f) /\ At(f, f[i]) = i
  <2>1. At(f, f[i]) = i
    BY <1>1, <1>2, AtIs
  <2>2. f # <<>> /\ f[i] \in Range(f)
    BY <1>1, <1>2 DEF Range
  <2> QED
    BY <2>1, <2>2
<1>4. /\ neighborIndex(layout, f[i], "next") = Around(f, i, 1)
      /\ neighborIndex(layout, f[i], "previous") = Around(f, i, n - 1)
  <2>1. neighborIndex(layout, f[i], "next") = Around(f, At(f, f[i]), 1)
    BY <1>3 DEF neighborIndex
  <2>2. neighborIndex(layout, f[i], "previous") = Around(f, At(f, f[i]), Len(f) - 1)
    BY <1>3 DEF neighborIndex
  <2> QED
    BY <1>1, <1>3, <2>1, <2>2
<1> QED
  BY <1>1, <1>2, <1>4, StepAround DEF layout, n

\* Up and down, from a device of a cluster.
LEMMA ClusterStep ==
  ASSUME NEW rows, DOMAIN rows \subseteq Octets,
         NEW ip \in DOMAIN rows \ {pickGateway(rows)},
         NEW i \in 1 .. Len(computeLayout(rows).clusters),
         ip \in Range(computeLayout(rows).clusters[i].members)
  PROVE  LET layout == computeLayout(rows)
             c == layout.clusters
             n == Len(c)
         IN /\ neighborIndex(layout, ip, "nextCluster") = Head(c[IF i = n THEN 1 ELSE i + 1].members)
            /\ neighborIndex(layout, ip, "previousCluster") = Head(c[IF i = 1 THEN n ELSE i - 1].members)
<1> DEFINE layout == computeLayout(rows)
           c == layout.clusters
           n == Len(c)
           f == layout.nodes
           from == CHOOSE j \in 1 .. n : ip \in Range(c[j].members)
<1>1. layout.gateway = pickGateway(rows)
  BY DEF computeLayout
<1>2. /\ n \in Nat /\ DOMAIN c = 1 .. n
      /\ \A j, k \in 1 .. n, a \in DOMAIN rows \ {pickGateway(rows)} :
           a \in Range(c[j].members) /\ a \in Range(c[k].members) => j = k
  BY ClustersAre
<1>3. f # <<>> /\ ip \in Range(f)
  <2>1. /\ DOMAIN f = 1 .. Cardinality(DOMAIN rows)
        /\ \A x \in DOMAIN rows : \E k \in 1 .. Cardinality(DOMAIN rows) : f[k] = x
    BY NodesIs
  <2> HIDE DEF f
  <2>2. PICK k \in DOMAIN f : f[k] = ip
    BY <2>1
  <2> QED
    BY <2>2 DEF Range
<1> HIDE DEF layout
<1>4. from = i /\ n \in Nat \ {0} /\ i \in 1 .. n /\ c # <<>>
  BY <1>2 DEF layout
<1>5. i % n = IF i = n THEN 0 ELSE i
  <2>1. i \in Nat /\ i < 2 * n /\ (i < n <=> i # n) /\ n - n = 0
    BY <1>4
  <2>2. i % n = IF i < n THEN i ELSE i - n
    BY <1>4, <2>1, Modulo
  <2> QED
    BY <2>1, <2>2
<1>6. (i + n - 2) % n = IF i = 1 THEN n - 1 ELSE i - 2
  <2> DEFINE k == i + n - 2
  <2>1. k \in Nat /\ k < 2 * n /\ (k < n <=> i = 1) /\ k - n = i - 2 /\ (i = 1 => k = n - 1)
    BY <1>4
  <2> HIDE DEF k
  <2>2. k % n = IF k < n THEN k ELSE k - n
    BY <1>4, <2>1, Modulo
  <2>3. k % n = IF i = 1 THEN n - 1 ELSE i - 2
    BY <2>1, <2>2
  <2> QED
    BY <2>3 DEF k
<1>7. ip # layout.gateway /\ i # 0
  BY <1>1, <1>4
<1>8. /\ neighborIndex(layout, ip, "nextCluster") = Head(c[(i % n) + 1].members)
      /\ neighborIndex(layout, ip, "previousCluster") = Head(c[((i + n - 2) % n) + 1].members)
  <2>1. neighborIndex(layout, ip, "nextCluster") = Head(c[(from % n) + 1].members)
    BY <1>3, <1>4, <1>7 DEF neighborIndex
  <2>2. neighborIndex(layout, ip, "previousCluster") = Head(c[((from + n - 2) % n) + 1].members)
    BY <1>3, <1>4, <1>7 DEF neighborIndex
  <2> QED
    BY <1>4, <2>1, <2>2
<1>9. (i % n) + 1 = IF i = n THEN 1 ELSE i + 1
  <2>1. i \in Int /\ n \in Int
    BY <1>4
  <2> HIDE DEF n
  <2>2. (IF i = n THEN 0 ELSE i) + 1 = IF i = n THEN 1 ELSE i + 1
    BY <2>1
  <2> QED
    BY <1>5, <2>2
<1>10. ((i + n - 2) % n) + 1 = IF i = 1 THEN n ELSE i - 1
  <2>1. i \in Int /\ n \in Int
    BY <1>4
  <2> HIDE DEF n
  <2>2. (IF i = 1 THEN n - 1 ELSE i - 2) + 1 = IF i = 1 THEN n ELSE i - 1
    BY <2>1
  <2> QED
    BY <1>6, <2>2
<1> QED
  BY <1>8, <1>9, <1>10 DEF layout

\* A set with a place in it, and the next place of each it has, has the rest.
LEMMA Onwards ==
  ASSUME NEW n \in Nat, NEW P, NEW a \in 1 .. n, a \in P,
         \A i \in 1 .. n : i \in P /\ i < n => i + 1 \in P
  PROVE  \A i \in a .. n : i \in P
<1> DEFINE Bad == {i \in Nat : i \in a .. n /\ i \notin P}
<1>1. SUFFICES ASSUME Bad # {} PROVE FALSE
  OBVIOUS
<1>2. PICK k \in Bad : \A j \in Bad : k <= j
  <2>1. Bad \subseteq Nat
    OBVIOUS
  <2> HIDE DEF Bad
  <2> QED
    BY <1>1, <2>1, LeastOf
<1>3. k # a /\ k \in a .. n /\ k \notin P
  BY <1>2
<1>4. k - 1 \in a .. n /\ k - 1 \in Nat /\ k - 1 \in 1 .. n /\ k - 1 < n /\ ~(k <= k - 1)
  BY <1>3
<1>5. k - 1 \in P
  BY <1>2, <1>4
<1>6. (k - 1) + 1 = k
  BY <1>3
<1> QED
  BY <1>3, <1>4, <1>5, <1>6

\* The arrow keys walk any map.
LEMMA WalkOfTheMap ==
  ASSUME NEW rows, DOMAIN rows \subseteq Octets
  PROVE  ArrowsWalkTheMap(rows)
<1> DEFINE layout == computeLayout(rows)
           ips == DOMAIN rows
           others == ips \ {layout.gateway}
           step(k) == [ip \in ips |-> neighborIndex(layout, ip, k)]
           next == step("next")
           prev == step("previous")
           down == step("nextCluster")
           up == step("previousCluster")
           type == [ip \in ips |-> categoryFor(rows[ip])]
           f == layout.nodes
           n == Cardinality(ips)
           c == layout.clusters
           m == Len(c)
<1>1. /\ n \in Nat /\ (n = 0 <=> ips = {})
      /\ \A i \in 1 .. n : f[i] \in ips
      /\ \A x \in ips : \E i \in 1 .. n : f[i] = x
  BY NodesIs
<1>2. ASSUME NEW i \in 1 .. n
      PROVE  next[f[i]] = f[IF i = n THEN 1 ELSE i + 1] /\ prev[f[i]] = f[IF i = 1 THEN n ELSE i - 1]
  BY <1>1, NodeStep
<1>3. layout.gateway = pickGateway(rows)
  BY DEF computeLayout
<1>4. /\ m \in Nat
      /\ \A a \in others : \E i \in 1 .. m : a \in Range(c[i].members)
      /\ \A i \in 1 .. m : /\ Head(c[i].members) \in Range(c[i].members)
                           /\ Range(c[i].members) \subseteq others
      /\ \A i \in 1 .. m, a, b \in others :
           a \in Range(c[i].members) /\ b \in Range(c[i].members)
             => categoryFor(rows[a]) = categoryFor(rows[b])
  BY <1>3, ClustersAre
<1>5. ASSUME NEW i \in 1 .. m, NEW a \in others, a \in Range(c[i].members)
      PROVE  /\ down[a] = Head(c[IF i = m THEN 1 ELSE i + 1].members)
             /\ up[a] = Head(c[IF i = 1 THEN m ELSE i - 1].members)
  BY <1>3, <1>5, ClusterStep
<1>6. DOMAIN next = ips /\ DOMAIN prev = ips /\ next = [ip \in ips |-> next[ip]] /\ prev = [ip \in ips |-> prev[ip]]
  OBVIOUS
<1>7. \A ip \in ips : type[ip] = categoryFor(rows[ip])
  OBVIOUS
<1>8. ArrowsWalkTheMap(rows) <=>
        /\ {next, prev} \subseteq [ips -> ips]
        /\ \A S \in SUBSET ips : S # {} /\ (\A ip \in S : next[ip] \in S) => S = ips
        /\ \A ip \in ips : prev[next[ip]] = ip
        /\ \A ip \in others : type[up[down[ip]]] = type[ip]
  BY DEF ArrowsWalkTheMap
<1> HIDE DEF layout, ips, others, next, prev, down, up, type, n, f, c, m
<1>9. \A ip \in ips : next[ip] \in ips /\ prev[ip] \in ips /\ prev[next[ip]] = ip
  <2> SUFFICES ASSUME NEW ip \in ips
               PROVE  next[ip] \in ips /\ prev[ip] \in ips /\ prev[next[ip]] = ip
    OBVIOUS
  <2>1. PICK i \in 1 .. n : f[i] = ip
    BY <1>1
  <2> DEFINE j == IF i = n THEN 1 ELSE i + 1
             k == IF i = 1 THEN n ELSE i - 1
  <2>2. j \in 1 .. n /\ k \in 1 .. n /\ i = IF j = 1 THEN n ELSE j - 1
    BY <1>1
  <2>3. next[ip] = f[j] /\ prev[ip] = f[k]
    BY <1>2, <2>1
  <2> HIDE DEF j, k
  <2>4. prev[f[j]] = f[i]
    BY <1>2, <2>2
  <2> QED
    BY <1>1, <2>1, <2>2, <2>3, <2>4
<1>10. {next, prev} \subseteq [ips -> ips]
  BY <1>6, <1>9
<1>11. ASSUME NEW S \in SUBSET ips, S # {}, \A ip \in S : next[ip] \in S
       PROVE  S = ips
  <2> DEFINE P == {i \in 1 .. n : f[i] \in S}
  <2>1. \A i \in 1 .. n : i \in P /\ i < n => i + 1 \in P
    <3> SUFFICES ASSUME NEW i \in 1 .. n, f[i] \in S, i < n PROVE f[i + 1] \in S /\ i + 1 \in 1 .. n
      OBVIOUS
    <3>1. next[f[i]] = f[i + 1]
      BY <1>1, <1>2
    <3> QED
      BY <1>1, <1>11, <3>1
  <2>2. n \in P => 1 \in P
    <3> SUFFICES ASSUME n \in P PROVE 1 \in P
      OBVIOUS
    <3>1. n \in 1 .. n /\ f[n] \in S /\ 1 \in 1 .. n
      BY <1>1
    <3>2. next[f[n]] = f[1]
      BY <1>2, <3>1
    <3> QED
      BY <1>11, <3>1, <3>2
  <2>3. PICK a \in 1 .. n : f[a] \in S
    BY <1>1, <1>11
  <2> HIDE DEF P
  <2>4. a \in P
    BY <2>3 DEF P
  <2>5. n \in P
    <3>1. \A i \in a .. n : i \in P
      BY <1>1, <2>1, <2>4, Onwards
    <3> QED
      BY <1>1, <3>1
  <2>6. 1 \in P /\ 1 \in 1 .. n
    BY <2>2, <2>5 DEF P
  <2>7. \A i \in 1 .. n : i \in P
    BY <1>1, <2>1, <2>6, Onwards
  <2> QED
    BY <1>1, <2>7 DEF P
<1>12. ASSUME NEW a \in others PROVE type[up[down[a]]] = type[a]
  <2>1. PICK i \in 1 .. m : a \in Range(c[i].members)
    BY <1>4
  <2> DEFINE j == IF i = m THEN 1 ELSE i + 1
  <2>2. j \in 1 .. m /\ i = IF j = 1 THEN m ELSE j - 1
    BY <1>4
  <2>3. down[a] = Head(c[j].members)
    BY <1>5, <2>1
  <2> HIDE DEF j
  <2>4. down[a] \in Range(c[j].members) /\ down[a] \in others
    BY <1>4, <2>2, <2>3
  <2>5. up[down[a]] = Head(c[i].members)
    BY <1>5, <2>2, <2>4
  <2>6. up[down[a]] \in Range(c[i].members) /\ up[down[a]] \in others
    BY <1>4, <2>5
  <2>7. categoryFor(rows[up[down[a]]]) = categoryFor(rows[a])
    BY <1>4, <2>1, <2>6
  <2>8. others \subseteq ips
    BY DEF others
  <2> QED
    BY <1>7, <2>6, <2>7, <2>8
<1> QED
  BY <1>8, <1>9, <1>10, <1>11, <1>12
\* The devices on the page are at addresses of the network, wherever they come
\* from: a scan, or a file.
RowsListed ==
  /\ DOMAIN hosts \subseteq Octets
  /\ "of" \in DOMAIN scan /\ (scan # NoScan => scan.of \in Octets)
  /\ opening \in Files \cup {None}

LEMMA RenderedRows ==
  ASSUME NEW h, NEW s, NEW u, NEW ip, Render(h, s, u, ip)
  PROVE  hosts' = h
BY DEF Render

\* An event of a host that is scanned.
LEMMA HostEventListed ==
  ASSUME RowsListed, scan # NoScan, NEW h, NEW marks, applyHostEvent(h, marks)
  PROVE  DOMAIN hosts' \subseteq Octets
<1>1. hosts' = Put(hosts, scan.of, h)
  BY RenderedRows DEF applyHostEvent
<1>2. DOMAIN Put(hosts, scan.of, h) = DOMAIN hosts \cup {scan.of}
  BY DEF Put
<1> QED
  BY <1>1, <1>2 DEF RowsListed

LEMMA ScanListed ==
  ASSUME RowsListed,
         \/ \E ip \in Targets, preserve \in BOOLEAN : StartScan(ip, preserve)
         \/ \E h \in Sights : DeviceClassified(h) \/ \E marks \in BOOLEAN : HostLearned(h, marks)
         \/ HostSeen \/ HostDone \/ ScanCancelled
  PROVE  RowsListed'
<1>1. ASSUME NEW ip \in Targets, NEW preserve \in BOOLEAN, StartScan(ip, preserve) PROVE RowsListed'
  <2>1. hosts' = hosts \/ hosts' = <<>>
    BY <1>1, RenderedRows DEF StartScan
  <2>2. DOMAIN hosts' \subseteq Octets
    BY <2>1 DEF RowsListed
  <2>3. Targets \subseteq Octets
    BY NetworkPageAssumption
  <2>4. opening' = opening /\ "of" \in DOMAIN scan' /\ scan'.of = ip
    BY <1>1 DEF StartScan
  <2> QED
    BY <2>2, <2>3, <2>4 DEF RowsListed
<1>2. ASSUME scan # NoScan, scan' = NoScan \/ (DOMAIN scan' = DOMAIN scan /\ scan'.of = scan.of),
             opening' = opening, DOMAIN hosts' \subseteq Octets
      PROVE  RowsListed'
  BY <1>2 DEF RowsListed, NoScan
<1>3. ASSUME NEW h, DeviceClassified(h) PROVE RowsListed'
  <2>1. scan # NoScan /\ DOMAIN hosts' \subseteq Octets /\ opening' = opening
    BY <1>3, HostEventListed DEF DeviceClassified, Scanned
  <2>2. DOMAIN scan' = DOMAIN scan /\ scan'.of = scan.of
    BY <1>3 DEF DeviceClassified, Scanned, RowsListed
  <2> QED
    BY <1>2, <2>1, <2>2
<1>4. ASSUME NEW h, NEW marks, HostLearned(h, marks) PROVE RowsListed'
  <2>1. scan # NoScan /\ DOMAIN hosts' \subseteq Octets /\ opening' = opening
    BY <1>4, HostEventListed DEF HostLearned, Scanned
  <2>2. DOMAIN scan' = DOMAIN scan /\ scan'.of = scan.of
    BY <1>4 DEF HostLearned, Scanned, RowsListed
  <2> QED
    BY <1>2, <2>1, <2>2
<1>5. ASSUME HostSeen PROVE RowsListed'
  <2>1. scan # NoScan /\ opening' = opening
    BY <1>5 DEF HostSeen
  <2>2. DOMAIN hosts' \subseteq Octets
    <3>1. Render(hosts, states, ui, selected) \/ applyHostEvent(Blank, FALSE)
      BY <1>5 DEF HostSeen
    <3>2. ASSUME Render(hosts, states, ui, selected) PROVE DOMAIN hosts' \subseteq Octets
      BY <3>2, RenderedRows DEF RowsListed
    <3> QED
      BY <2>1, <3>1, <3>2, HostEventListed
  <2>3. DOMAIN scan' = DOMAIN scan /\ scan'.of = scan.of
    <3>1. \E w, b : scan' = [scan EXCEPT !.at = "seen", !.watched = w, !.before = b]
      BY <1>5 DEF HostSeen
    <3> QED
      BY <3>1 DEF RowsListed
  <2> QED
    BY <1>2, <2>1, <2>2, <2>3
<1>6. ASSUME HostDone PROVE RowsListed'
  <2>1. scan # NoScan /\ DOMAIN hosts' \subseteq Octets /\ opening' = opening /\ scan' = NoScan
    BY <1>6, HostEventListed DEF HostDone
  <2> QED
    BY <1>2, <2>1
<1>7. ASSUME ScanCancelled PROVE RowsListed'
  <2>1. scan # NoScan /\ hosts' = hosts /\ opening' = opening /\ scan' = NoScan
    BY <1>7, RenderedRows DEF ScanCancelled
  <2> QED
    BY <1>2, <2>1 DEF RowsListed
<1> QED
  BY <1>1, <1>3, <1>4, <1>5, <1>6, <1>7

LEMMA FileListed ==
  ASSUME RowsListed, FileReplied \/ \E opened \in Files : FileLoaded(opened)
  PROVE  RowsListed'
<1>1. PICK opened \in Files : loadHosts(opened)
  BY DEF FileReplied, FileLoaded, RowsListed
<1>2. hosts' = opened
  BY <1>1, RenderedRows DEF loadHosts
<1>3. DOMAIN opened \subseteq Octets
  BY NetworkPageAssumption
<1>4. opening' \in Files \cup {None}
  BY DEF FileReplied, FileLoaded
<1>5. scan' = NoScan \/ (scan # NoScan /\ DOMAIN scan' = DOMAIN scan /\ scan'.of = scan.of)
  BY <1>1 DEF loadHosts, RowsListed
<1> QED
  BY <1>2, <1>3, <1>4, <1>5 DEF RowsListed, NoScan

\* The user and the answers of the backend bring no device.
LEMMA OthersListed ==
  ASSUME \/ \E l \in loads : HistoryAnswered(l)
         \/ CloseDetail \/ onRowKey \/ MapInput \/ ResetClicked \/ Escape
         \/ Canvas \/ Draw \/ ShowSilent \/ Navigate \/ ComeBack \/ Crash
         \/ \E ip \in Octets : Click(ip) \/ Fly(ip)
         \/ \E key \in {"ip", "device"} : toggleSort(key)
         \/ \E v \in Views : SwitchView(v)
         \/ \E needle \in Needles \cup {""} : Search(needle)
  PROVE  UNCHANGED <<hosts, scan, opening>>
<1>1. CASE \/ \E l \in loads : HistoryAnswered(l)
           \/ Canvas \/ Draw
  BY <1>1 DEF HistoryAnswered, Canvas, Draw
<1>2. CASE MapInput \/ ResetClicked \/ Escape \/ (\E ip \in Octets : Fly(ip))
           \/ \E key \in {"ip", "device"} : toggleSort(key)
  BY <1>2 DEF MapInput, ResetClicked, Escape, Fly, OnMap, Listed, Free, Open, toggleSort, InTable
<1>3. CASE onRowKey
  <2>1. UNCHANGED <<scan, opening>>
    BY <1>3 DEF onRowKey, Listed, Free
  <2>2. (\E t : InTable(t)) \/ \E ip : Render(hosts, states, ui, ip)
    BY <1>3 DEF onRowKey, Toggle, Select
  <2> QED
    BY <2>1, <2>2, RenderedRows DEF InTable
<1>4. CASE CloseDetail \/ (\E ip \in Octets : Click(ip))
  <2>1. UNCHANGED <<scan, opening>> /\ \E ip : Render(hosts, states, ui, ip)
    BY <1>4 DEF CloseDetail, Click, Listed, Free, Toggle, Select
  <2> QED
    BY <2>1, RenderedRows
<1>5. CASE ShowSilent \/ Navigate \/ ComeBack \/ Crash \/ (\E v \in Views : SwitchView(v))
           \/ \E needle \in Needles \cup {""} : Search(needle)
  <2>1. UNCHANGED <<scan, opening>> /\ \E u : Render(hosts, states, u, selected)
    BY <1>5 DEF ShowSilent, Navigate, ComeBack, Crash, SwitchView, Search, TurnTo, Listed, Free, Show
  <2> QED
    BY <2>1, RenderedRows
<1> QED
  BY <1>1, <1>2, <1>3, <1>4, <1>5

THEOREM RowsInvariance == Spec => []RowsListed
<1>1. Init => RowsListed
  <2> SUFFICES ASSUME Init PROVE RowsListed
    OBVIOUS
  <2>1. hosts \in Files \/ hosts = <<>>
    BY DEF Init
  <2>2. DOMAIN hosts \subseteq Octets
    <3>1. \A f \in Files : DOMAIN f \subseteq Octets
      BY NetworkPageAssumption
    <3> QED
      BY <2>1, <3>1
  <2> QED
    BY <2>2 DEF Init, RowsListed, NoScan
<1>2. RowsListed /\ [Next]_vars => RowsListed'
  <2> SUFFICES ASSUME RowsListed, [Next]_vars PROVE RowsListed'
    OBVIOUS
  <2>1. ASSUME UNCHANGED <<hosts, scan, opening>> PROVE RowsListed'
    BY <2>1 DEF RowsListed
  <2>2. CASE UNCHANGED vars
    BY <2>1, <2>2 DEF vars
  <2> QED
    BY <2>1, <2>2, ScanListed, FileListed, OthersListed DEF Next
<1> QED
  BY <1>1, <1>2, PTL DEF Spec

\* ArrowsWalk, for any devices and however the page came by them: right leads
\* through every device of the map and back, left undoes right, and up undoes
\* down (layout.ts: neighborIndex).
THEOREM ArrowsWalkEveryMap == Spec => []ArrowsWalk
<1>1. RowsListed => ArrowsWalk
  <2> SUFFICES ASSUME RowsListed PROVE ArrowsWalkTheMap(visibleRows)
    BY DEF ArrowsWalk
  <2>1. DOMAIN visibleRows \subseteq DOMAIN hosts
    BY DEF visibleRows, VisibleRows
  <2> QED
    BY <2>1, WalkOfTheMap DEF RowsListed
<1> QED
  BY <1>1, RowsInvariance, PTL

-----------------------------------------------------------------------------
(* The history page.                                                       *)

LEMMA ExtremesOf ==
  ASSUME NEW S, S \subseteq Runs, S # {}
  PROVE  /\ Min(S) \in S
         /\ Max(S) \in S /\ \A x \in S : x <= Max(S)
<1> DEFINE R == {m \in Nat : \E x \in S : m = MaxRuns - x}
<1>1. S \subseteq Nat /\ MaxRuns \in Nat /\ \A x \in S : MaxRuns - x \in Nat
  BY HistoryPageAssumption DEF Runs
<1>2. Min(S) \in S
  <2>1. \E n \in S : \A m \in S : n <= m
    BY <1>1, LeastOf
  <2> QED
    BY <2>1 DEF Min
<1>3. R \subseteq Nat /\ R # {}
  BY <1>1
<1>4. PICK m \in R : \A k \in R : m <= k
  <2> HIDE DEF R
  <2> QED
    BY <1>3, LeastOf
<1>5. PICK x \in S : m = MaxRuns - x
  BY <1>4
<1>6. \A y \in S : x >= y
  BY <1>1, <1>4, <1>5
<1>7. Max(S) \in S /\ \A y \in S : Max(S) >= y
  BY <1>5, <1>6 DEF Max
<1> QED
  BY <1>1, <1>2, <1>7

\* The two newest runs of a list are of it, and the newest is one of them.
LEMMA TheNewest ==
  ASSUME NEW S, S \subseteq Runs, S # {}, NEW n \in Nat \ {0}
  PROVE  Newest(S, n) \subseteq S /\ Max(S) \in Newest(S, n)
<1>1. Max(S) \in S /\ {q \in S : q > Max(S)} = {}
  <2>1. S \subseteq Nat
    BY DEF Runs
  <2>2. Max(S) \in S /\ \A x \in S : x <= Max(S)
    BY ExtremesOf
  <2> DEFINE hi == Max(S)
  <2>3. hi \in S /\ \A x \in S : x <= hi
    BY <2>2
  <2> HIDE DEF hi
  <2>4. \A q \in S : ~(q > hi)
    BY <2>1, <2>3
  <2> QED
    BY <2>3, <2>4 DEF hi
<1>2. Cardinality({q \in S : q > Max(S)}) = 0
  BY <1>1, FS_EmptySet
<1> QED
  BY <1>1, <1>2 DEF Newest

PageStates == [shown : BOOLEAN, base : 0..MaxRuns, compare : 0..MaxRuns,
               custom : SUBSET Runs, dialog : 0..MaxRuns]

Reloads == [list : (SUBSET Runs) \cup {NotRead}, pair : (SUBSET Runs) \cup {NotRead},
            diff : Diffs \cup {NotRead}, over : BOOLEAN]
Actions == [kind : {"none", "compare", "delete"}, of : SUBSET Runs,
            reply : {"none", "ok", "failed"}, orphan : BOOLEAN]

PageTypes ==
  /\ store \subseteq Runs /\ saved \in Nat /\ saved <= use.runs /\ use \in Uses
  /\ reloads \in Seq(Reloads)
  /\ runs \subseteq Runs
  /\ page \in PageStates /\ action \in Actions

\* The selectors fall back to runs of the list.
LEMMA DefaultsListed ==
  ASSUME NEW p \in PageStates, NEW list, list \subseteq Runs
  PROVE  /\ Defaults(p, list) \in PageStates
         /\ p.shown /\ Cardinality(list) >= 2 =>
              {Defaults(p, list).base, Defaults(p, list).compare} \subseteq list
         /\ Defaults(p, list).shown = p.shown
<1>1. CASE ~(p.shown /\ Cardinality(list) >= 2)
  BY <1>1 DEF Defaults
<1>2. CASE p.shown /\ Cardinality(list) >= 2
  <2>1. list # {}
    BY <1>2, FS_EmptySet
  <2> DEFINE lo == Min(Newest(list, 2))
             hi == Max(list)
  <2>2. lo \in list /\ hi \in list
    <3>1. Newest(list, 2) \subseteq list /\ Newest(list, 2) # {} /\ hi \in list
      BY <2>1, TheNewest, ExtremesOf
    <3>2. lo \in Newest(list, 2)
      BY <3>1, ExtremesOf
    <3> QED
      BY <3>1, <3>2
  <2>3. lo \in 0..MaxRuns /\ hi \in 0..MaxRuns
    <3>1. Runs \subseteq 0..MaxRuns
      BY HistoryPageAssumption DEF Runs
    <3> HIDE DEF lo, hi
    <3> QED
      BY <2>2, <3>1
  <2> HIDE DEF lo, hi
  <2>4. Defaults(p, list) =
          [p EXCEPT !.base    = IF p.base \in list THEN p.base ELSE lo,
                    !.compare = IF p.compare \in list THEN p.compare ELSE hi]
    BY <1>2 DEF Defaults, lo, hi
  <2> QED
    BY <2>2, <2>3, <2>4 DEF PageStates
<1> QED
  BY <1>1, <1>2


LEMMA AskedTyped == ASSUME PageTypes PROVE Asked(reloads) \in Seq(Reloads)
<1>1. [list |-> NotRead, pair |-> NotRead, diff |-> NotRead, over |-> FALSE] \in Reloads
  BY DEF Reloads
<1> QED
  BY <1>1 DEF Asked, PageTypes

LEMMA WithoutTyped ==
  ASSUME PageTypes, NEW i \in DOMAIN reloads
  PROVE  Without(reloads, i) \in Seq(Reloads)
<1> DEFINE a == [k \in 1 .. i - 1 |-> [reloads[k] EXCEPT !.over = TRUE]]
           b == SubSeq(reloads, i + 1, Len(reloads))
<1>1. /\ reloads \in Seq(Reloads) /\ Len(reloads) \in Nat
      /\ i \in Nat /\ i >= 1 /\ i <= Len(reloads) /\ i - 1 \in Nat
  BY DEF PageTypes
<1>2. a \in Seq(Reloads)
  <2>1. \A k \in 1 .. i - 1 : reloads[k] \in Reloads
    BY <1>1
  <2>2. \A k \in 1 .. i - 1 : a[k] \in Reloads
    BY <2>1 DEF Reloads
  <2> QED
    BY <1>1, <2>2
<1>3. b \in Seq(Reloads)
  BY <1>1, SubSeqProperties
<1> HIDE DEF a, b
<1>4. a \o b \in Seq(Reloads)
  BY <1>2, <1>3, ConcatProperties
<1> QED
  BY <1>4 DEF Without, a, b

LEMMA NewestRuns == ASSUME NEW S, S \subseteq Runs, NEW n PROVE Newest(S, n) \subseteq Runs
BY DEF Newest

\* A reload that reads one of its parts.
LEMMA ReadTyped ==
  ASSUME PageTypes, NEW i \in DOMAIN reloads, ReadList(i) \/ PickLatest(i) \/ ReadLatest(i)
  PROVE  PageTypes' /\ UNCHANGED <<runs, page>>
<1>1. UNCHANGED <<store, saved, runs, page, action, use>>
  BY DEF ReadList, PickLatest, ReadLatest, hook, bounds
<1>2. reloads \in Seq(Reloads) /\ reloads[i] \in Reloads
  BY DEF PageTypes
<1>3. CASE ReadList(i)
  <2>1. Newest(store, ListLimit) \in SUBSET Runs
    BY NewestRuns DEF PageTypes
  <2> HIDE DEF Newest
  <2>2. [reloads[i] EXCEPT !.list = Newest(store, ListLimit)] \in Reloads
    BY <1>2, <2>1 DEF Reloads
  <2>3. reloads' \in Seq(Reloads)
    BY <1>2, <1>3, <2>2 DEF ReadList
  <2> QED
    BY <1>1, <2>3 DEF PageTypes
<1>4. CASE PickLatest(i)
  <2>1. Newest(store, 2) \in SUBSET Runs
    BY NewestRuns DEF PageTypes
  <2>2. [reloads[i] EXCEPT !.pair = Newest(store, 2)] \in Reloads
    BY <1>2, <2>1 DEF Reloads
  <2>3. reloads' \in Seq(Reloads)
    BY <1>2, <1>4, <2>2 DEF PickLatest
  <2> QED
    BY <1>1, <2>3 DEF PageTypes
<1>5. CASE ReadLatest(i)
  <2> DEFINE pair == reloads[i].pair
             diff == IF Cardinality(pair) < 2 THEN emptyDiff ELSE DiffRuns(Min(pair), Max(pair))
  <2>1. pair \subseteq Runs
    BY <1>2, <1>5 DEF ReadLatest, Reloads
  <2>2. diff \in Diffs
    <3>1. CASE Cardinality(pair) < 2
      BY <3>1, HistoryPageAssumption DEF emptyDiff, Diffs
    <3>2. CASE ~(Cardinality(pair) < 2)
      <4>1. pair # {}
        BY <3>2, FS_EmptySet
      <4>2. Min(pair) \in Runs /\ Max(pair) \in Runs
        BY <2>1, <4>1, ExtremesOf
      <4>3. Runs \subseteq 0..MaxRuns
        BY HistoryPageAssumption DEF Runs
      <4>4. diff = DiffRuns(Min(pair), Max(pair))
        BY <3>2
      <4> HIDE DEF pair, diff
      <4> QED
        BY <4>2, <4>3, <4>4 DEF DiffRuns, Diffs
    <3> QED
      BY <3>1, <3>2
  <2> HIDE DEF diff
  <2>3. [reloads[i] EXCEPT !.diff = diff] \in Reloads
    BY <1>2, <2>2 DEF Reloads
  <2>4. reloads' = [reloads EXCEPT ![i].diff = diff]
    BY <1>5 DEF ReadLatest, diff
  <2>5. reloads' \in Seq(Reloads)
    BY <1>2, <2>3, <2>4
  <2> QED
    BY <1>1, <2>5 DEF PageTypes
<1> QED
  BY <1>3, <1>4, <1>5

ListInv == PageTypes /\ SelectorsAreListed

\* A reload that is answered or fails.
LEMMA AnsweredListed ==
  ASSUME ListInv, NEW i \in DOMAIN reloads, Answered(i) \/ ReloadFails(i)
  PROVE  ListInv'
<1>1. reloads' \in Seq(Reloads) /\ UNCHANGED <<store, saved, action, use>>
  BY WithoutTyped DEF ListInv, Answered, ReloadFails, Fails, bounds
<1>2. CASE Answered(i)
  <2>1. runs' \subseteq Runs /\ page' = Defaults(page, runs') /\ page \in PageStates
    <3>1. reloads[i] \in Reloads
      BY DEF ListInv, PageTypes
    <3> QED
      BY <1>2, <3>1 DEF Answered, ListInv, PageTypes, Reloads
  <2>2. /\ page' \in PageStates /\ page'.shown = page.shown
        /\ page'.shown /\ Cardinality(runs') >= 2 => {page'.base, page'.compare} \subseteq runs'
    BY <2>1, DefaultsListed
  <2> QED
    BY <1>1, <2>1, <2>2 DEF ListInv, PageTypes, SelectorsAreListed
<1>3. CASE ReloadFails(i)
  BY <1>1, <1>3 DEF ReloadFails, ListInv, PageTypes, SelectorsAreListed
<1> QED
  BY <1>2, <1>3

\* The store and the events of it: the page hears of them later.
LEMMA StoreListed ==
  ASSUME ListInv, ScanSaved \/ HistoryEvent \/ AnswerCompare \/ AnswerDelete
  PROVE  ListInv'
<1>1. CASE ScanSaved
  <2>1. UNCHANGED <<reloads, runs, page, action, use>>
    BY <1>1 DEF ScanSaved, Fails, Works, hook, bounds
  <2>2. use.runs <= MaxRuns /\ use.runs \in Nat
    BY HistoryPageAssumption DEF ListInv, PageTypes
  <2>3. store' \subseteq Runs /\ saved' \in Nat /\ saved' <= use.runs
    <3>1. ASSUME NEW run, Stores(run) \/ Touches(run),
                 store' = Newest(store \cup run, Keep) \/ store' = store \cup run
          PROVE  store' \subseteq Runs /\ saved' \in Nat /\ saved' <= use.runs
      <4>1. CASE Stores(run)
        <5>1. saved \in Nat /\ MaxRuns \in Nat /\ saved' \in Nat /\ saved' <= use.runs
              /\ saved' >= 1 /\ run = {saved'}
          BY <2>2, <4>1, HistoryPageAssumption DEF Stores, ListInv, PageTypes
        <5>2. store \cup run \subseteq Runs
          BY <2>2, <5>1 DEF ListInv, PageTypes, Runs
        <5> QED
          BY <3>1, <5>1, <5>2 DEF Newest
      <4>2. CASE Touches(run)
        BY <3>1, <4>2 DEF Touches, Newest, ListInv, PageTypes
      <4> QED
        BY <3>1, <4>1, <4>2
    <3>2. CASE UNCHANGED <<store, saved>>
      BY <3>2 DEF ListInv, PageTypes
    <3> QED
      BY <1>1, <3>1, <3>2 DEF ScanSaved
  <2> QED
    BY <2>1, <2>3 DEF ListInv, PageTypes, SelectorsAreListed
<1>2. CASE HistoryEvent
  BY <1>2, AskedTyped DEF HistoryEvent, bounds, ListInv, PageTypes, SelectorsAreListed
<1>3. CASE AnswerCompare
  <2>1. action' \in Actions /\ UNCHANGED <<store, saved, reloads, runs, page, use>>
    BY <1>3 DEF AnswerCompare, Reply, Fails, Works, hook, bounds, ListInv, PageTypes, Actions
  <2> QED
    BY <2>1 DEF ListInv, PageTypes, SelectorsAreListed
<1>4. CASE AnswerDelete
  <2>1. action' \in Actions /\ store' \subseteq store /\ UNCHANGED <<saved, reloads, runs, page, use>>
    BY <1>4 DEF AnswerDelete, Reply, Fails, Works, hook, bounds, ListInv, PageTypes, Actions
  <2> QED
    BY <2>1 DEF ListInv, PageTypes, SelectorsAreListed
<1> QED
  BY <1>1, <1>2, <1>3, <1>4


\* What the user does, and what the page makes of a call's answer.
LEMMA UserListed ==
  ASSUME ListInv, User \/ Compared \/ NotDeleted \/ Deleted
  PROVE  ListInv'
<1>1. Idle \in Actions /\ BlankPage \in PageStates /\ ~BlankPage.shown
  BY HistoryPageAssumption DEF Idle, Actions, BlankPage, PageStates
<1>2. /\ store \subseteq Runs /\ saved \in Nat /\ saved <= use.runs /\ use \in Uses
      /\ reloads \in Seq(Reloads) /\ runs \subseteq Runs /\ page \in PageStates /\ action \in Actions
  BY DEF ListInv, PageTypes
<1>3. Runs \subseteq 0..MaxRuns
  BY HistoryPageAssumption DEF Runs
<1>4. ASSUME UNCHANGED <<store, saved, runs, use>>, reloads' \in Seq(Reloads), action' \in Actions,
             page' \in PageStates,
             page'.shown /\ Cardinality(runs) >= 2 => {page'.base, page'.compare} \subseteq runs
      PROVE  ListInv'
  BY <1>2, <1>4 DEF ListInv, PageTypes, SelectorsAreListed
<1>5. CASE Enter
  <2> DEFINE fresh == [BlankPage EXCEPT !.shown = TRUE]
  <2>1. fresh \in PageStates /\ fresh.shown
    BY <1>1 DEF PageStates
  <2>2. page' = Defaults(fresh, runs) /\ UNCHANGED <<store, saved, reloads, runs, action, use>>
    BY <1>5 DEF Enter, hook, bounds
  <2> HIDE DEF fresh
  <2> QED
    BY <1>2, <1>4, <2>1, <2>2, DefaultsListed
<1>6. CASE Leave
  <2>1. action' \in Actions /\ page' = BlankPage /\ UNCHANGED <<store, saved, reloads, runs, use>>
    BY <1>2, <1>6 DEF Leave, hook, bounds, Actions
  <2> QED
    BY <1>1, <1>2, <1>4, <2>1
<1>7. CASE Refresh
  BY <1>2, <1>4, <1>7, AskedTyped DEF Refresh, hook, bounds, ListInv, SelectorsAreListed
<1>8. ASSUME NEW which \in {"base", "compare"}, NEW run \in Runs, Choose(which, run) PROVE ListInv'
  <2>1. /\ run \in runs /\ run \in 0..MaxRuns /\ page' = [page EXCEPT ![which] = run] /\ page.shown
        /\ Cardinality(runs) >= 2 /\ UNCHANGED <<store, saved, reloads, runs, action, use>>
    BY <1>3, <1>8 DEF Choose, Usable, hook, bounds
  <2>2. {page.base, page.compare} \subseteq runs
    BY <2>1 DEF ListInv, SelectorsAreListed
  <2>3. page' \in PageStates /\ {page'.base, page'.compare} \subseteq {page.base, page.compare, run}
    <3>1. CASE which = "base"
      BY <1>2, <2>1, <3>1 DEF PageStates
    <3>2. CASE which = "compare"
      BY <1>2, <2>1, <3>2 DEF PageStates
    <3> QED
      BY <3>1, <3>2
  <2> QED
    BY <1>2, <1>4, <2>1, <2>2, <2>3
<1>9. CASE Compare
  <2>1. UNCHANGED <<store, saved, reloads, runs, page, use>> /\ page.base # 0 /\ page.compare # 0
    BY <1>9 DEF Compare, hook, bounds
  <2>2. {page.base, page.compare} \in SUBSET Runs
    BY <1>2, <2>1, HistoryPageAssumption DEF PageStates, Runs
  <2>3. action' \in Actions
    BY <1>1, <1>9, <2>2 DEF Compare, Call, Actions
  <2> QED
    BY <1>2, <1>4, <2>1, <2>3 DEF ListInv, SelectorsAreListed
<1>10. ASSUME NEW custom \in SUBSET Runs, NEW dialog \in 0..MaxRuns,
              page' = [page EXCEPT !.custom = custom, !.dialog = dialog]
       PROVE  /\ page' \in PageStates
              /\ page'.shown /\ Cardinality(runs) >= 2 => {page'.base, page'.compare} \subseteq runs
  BY <1>2, <1>10 DEF PageStates, ListInv, SelectorsAreListed
<1>11. page.custom \in SUBSET Runs /\ page.dialog \in 0..MaxRuns /\ {} \in SUBSET Runs
       /\ 0 \in 0..MaxRuns
  BY <1>2, HistoryPageAssumption DEF PageStates
<1>12. CASE BackToLatest
  <2>1. page' = [page EXCEPT !.custom = {}, !.dialog = page.dialog]
        /\ UNCHANGED <<store, saved, reloads, runs, action, use>>
    BY <1>2, <1>12 DEF BackToLatest, hook, bounds, PageStates
  <2> QED
    BY <1>2, <1>4, <1>10, <1>11, <2>1
<1>13. ASSUME NEW run \in Runs, AskToDelete(run) PROVE ListInv'
  <2>1. page' = [page EXCEPT !.custom = page.custom, !.dialog = run] /\ run \in 0..MaxRuns
        /\ UNCHANGED <<store, saved, reloads, runs, action, use>>
    BY <1>2, <1>3, <1>13 DEF AskToDelete, hook, bounds, PageStates
  <2> QED
    BY <1>2, <1>4, <1>10, <1>11, <2>1
<1>14. ASSUME NEW confirmed \in BOOLEAN, CloseDialog(confirmed) PROVE ListInv'
  <2>1. page' = [page EXCEPT !.custom = page.custom, !.dialog = 0] /\ page.dialog # 0
        /\ UNCHANGED <<store, saved, reloads, runs, use>>
    BY <1>2, <1>14 DEF CloseDialog, hook, bounds, PageStates
  <2>2. {page.dialog} \in SUBSET Runs
    BY <1>11, <2>1, HistoryPageAssumption DEF Runs
  <2>3. action' \in Actions
    BY <1>1, <1>2, <1>14, <2>2 DEF CloseDialog, Call, Actions
  <2> QED
    BY <1>2, <1>4, <1>10, <1>11, <2>1, <2>3
<1>15. CASE Compared
  <2>1. \E custom \in SUBSET Runs : page' = [page EXCEPT !.custom = custom, !.dialog = page.dialog]
    <3>1. page' = page \/ page' = [page EXCEPT !.custom = action.of]
      BY <1>15 DEF Compared, ForPage
    <3> QED
      BY <1>2, <1>11, <3>1 DEF Actions, PageStates
  <2>2. action' = Idle /\ UNCHANGED <<store, saved, reloads, runs, use>>
    BY <1>15 DEF Compared, hook, bounds
  <2> QED
    BY <1>1, <1>2, <1>4, <1>10, <1>11, <2>1, <2>2
<1>16. CASE NotDeleted
  BY <1>1, <1>2, <1>4, <1>16 DEF NotDeleted, hook, bounds, ListInv, SelectorsAreListed
<1>17. CASE Deleted
  <2>1. \E custom \in SUBSET Runs : page' = [page EXCEPT !.custom = custom, !.dialog = page.dialog]
    <3>1. \/ page' = page
          \/ page' = [page EXCEPT !.custom = IF action.of \subseteq page.custom THEN {} ELSE page.custom]
      BY <1>17 DEF Deleted, ForPage
    <3> QED
      BY <1>2, <1>11, <3>1 DEF PageStates
  <2>2. action' = Idle /\ reloads' = Asked(reloads) /\ UNCHANGED <<store, saved, runs, use>>
    BY <1>17 DEF Deleted, hook, bounds
  <2> QED
    BY <1>1, <1>4, <1>10, <1>11, <2>1, <2>2, AskedTyped DEF ListInv
<1> QED
  BY <1>5, <1>6, <1>7, <1>8, <1>9, <1>12, <1>13, <1>14, <1>15, <1>16, <1>17 DEF User

THEOREM ListInvariance == ListSpec => []ListInv
<1>1. ListInit => ListInv
  <2> SUFFICES ASSUME ListInit PROVE ListInv
    OBVIOUS
  <2>1. PageTypes
    <3>1. BlankPage \in PageStates /\ Idle \in Actions
      BY HistoryPageAssumption DEF BlankPage, PageStates, Idle, Actions
    <3>2. reloads \in Seq(Reloads)
      <4>1. [list |-> NotRead, pair |-> NotRead, diff |-> NotRead, over |-> FALSE] \in Reloads
        BY DEF Reloads
      <4> QED
        BY <4>1 DEF ListInit, Asked
    <3>3. 0 <= use.runs /\ use \in Uses
      BY HistoryPageAssumption DEF ListInit
    <3> QED
      BY <3>1, <3>2, <3>3 DEF ListInit, PageTypes
  <2>2. ~page.shown
    BY DEF ListInit, BlankPage
  <2> QED
    BY <2>1, <2>2 DEF ListInv, SelectorsAreListed
<1>2. ListInv /\ [ListNext]_listVars => ListInv'
  <2> SUFFICES ASSUME ListInv, [ListNext]_listVars PROVE ListInv'
    OBVIOUS
  <2>1. CASE ScanSaved \/ HistoryEvent
    BY <2>1, StoreListed
  <2>2. ASSUME NEW i \in DOMAIN reloads, ReadList(i) \/ PickLatest(i) \/ ReadLatest(i) PROVE ListInv'
    <3>1. PageTypes' /\ UNCHANGED <<runs, page>>
      BY <2>2, ReadTyped DEF ListInv
    <3> QED
      BY <3>1 DEF ListInv, SelectorsAreListed
  <2>3. ASSUME NEW i \in DOMAIN reloads, Answered(i) \/ ReloadFails(i) PROVE ListInv'
    BY <2>3, AnsweredListed
  <2>4. CASE User \/ Acting
    BY <2>4, StoreListed, UserListed DEF Acting
  <2>5. CASE UNCHANGED listVars
    BY <2>5 DEF listVars, hook, bounds, ListInv, PageTypes, SelectorsAreListed
  <2> QED
    BY <2>1, <2>2, <2>3, <2>4, <2>5 DEF ListNext, Reloading
<1> QED
  BY <1>1, <1>2, PTL DEF ListSpec

\* SelectorsAreListed, for any number of runs and of reloads that overlap and
\* are answered in any order (HistoryWorkspace.tsx's effect on [runs]).
THEOREM SelectorsStayListed == ListSpec => []SelectorsAreListed
BY ListInvariance, PTL DEF ListInv

====
