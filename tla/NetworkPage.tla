----------------------------- MODULE NetworkPage -----------------------------
(***************************************************************************)
(* The network page of the desktop app (NetworkWorkspace.tsx): one         *)
(* selected device across a table, groups and a map, with its details and  *)
(* its history beside them, while a scan reports devices, a new scan or an *)
(* opened file replaces them, and the user filters, switches views, leaves *)
(* the page, or sees it stop working and tries again (App.tsx,             *)
(* WorkspaceBoundary.tsx).                                                 *)
(*                                                                         *)
(* The scan itself is module Scanner's and Desktop's; here it is the host  *)
(* events that useScan applies, one address to a scan, in the order of     *)
(* scanHost: the address, what is learned of it, what it was taken for,    *)
(* and the same snapshot again as done.                                    *)
(***************************************************************************)
EXTENDS Topology

CONSTANTS
  Targets,     \* bound: the addresses that are scanned
  Files,       \* the device lists that may be opened
  Needles,     \* what the user may search for
  MaxReports,  \* bound: scans and opened files
  MaxInputs    \* bound: what the user does

\* The snapshot a scan starts an address with.
Blank == [alive |-> FALSE, ports |-> {}, type |-> "unknown", mac |-> FALSE, name |-> 0]

ASSUME NetworkPageAssumption ==
  /\ Targets \subseteq Octets /\ {MaxReports, MaxInputs} \subseteq Nat \ {0}
  /\ "" \notin Needles /\ Blank \in Sights
  /\ \A f \in Files : DOMAIN f \subseteq Octets /\ \A ip \in DOMAIN f : f[ip] \in Sights

VARIABLES
  hosts,     \* useScan: the results
  states,    \* useScan: the transition each was marked with
  scan,      \* the scan that is running, and how far it is
  ui,        \* App and useScan: what is on screen, and what it is filtered by
  selected,  \* NetworkWorkspace: the selected device
  table,     \* DeviceTable: its sorting and the row with the keyboard focus
  detail,    \* DeviceDetail: the device it is about and its history
  loads,     \* history calls in flight, and whether their answer is wanted
  opening,   \* the file whose rows were announced and not yet replied
  reports, inputs

device == <<selected, detail, loads>>
vars == <<hosts, states, scan, ui, device, table, opening, reports, inputs, mapVars>>

DeviceStates == {"new", "online", "offline", "changed", "stable"}
Views    == {"devices", "groups", "topology"}
Pages    == {"network", "another", "broken"}
NoTable  == [mounted |-> FALSE]
NewTable == [mounted |-> TRUE, key |-> "ip", asc |-> TRUE, focus |-> None]
NoScan   == [of |-> None]
NoDetail == [of |-> None, status |-> "none", entries |-> None]

TypeOK ==
  /\ DOMAIN hosts \subseteq Octets /\ \A ip \in DOMAIN hosts : hosts[ip] \in Sights
  /\ states \in [DOMAIN hosts -> DeviceStates]
  /\ scan = NoScan \/
       (scan.of \in Octets /\ scan.last \in Sights /\ scan.before \in Sights \cup {None})
  /\ ui \in [page : Pages, view : Views, search : Needles \cup {""}, all : BOOLEAN]
  /\ selected \in DOMAIN hosts \cup {None} /\ detail.of = selected
  /\ table = NoTable \/ (table.key \in {"ip", "device"} /\ table.focus \in Octets \cup {None})
  /\ detail.status \in {"none", "loading", "ready", "error"}
  /\ loads \subseteq [of : Octets, wanted : BOOLEAN] /\ opening \in Files \cup {None}
  /\ webgl \in BOOLEAN /\ stored \in Scenes /\ MapOK(Octets)
  /\ paced \in BOOLEAN /\ SceneOK(scene)
  /\ reports \in 0..MaxReports /\ inputs \in 0..MaxInputs

-----------------------------------------------------------------------------
(* What is shown.                                                          *)

VisibleRows(h, s, u) == [ip \in {i \in DOMAIN h : shouldShowHost(h[i], s[i], u.all)} |-> h[ip]]
Shown(h, s, u) == {ip \in DOMAIN VisibleRows(h, s, u) : hostMatchesFilter(h[ip], s[ip], u.search)}

visibleRows == VisibleRows(hosts, states, ui)
shown       == Shown(hosts, states, ui)

\* What the scene is given; without a search it dims none.
Props(h, s, u, ip, m, at) ==
  [hosts |-> VisibleRows(h, s, u), states |-> s, selected |-> ip, hover |-> m.hover,
   scanning |-> at # NoScan,
   matches |-> IF u.search = "" THEN DOMAIN h ELSE Shown(h, s, u)]
props == Props(hosts, states, ui, selected, map, scan)

-----------------------------------------------------------------------------
(* The effects of a render.                                                *)

\* Mutant of Load: the history in flight is still wanted.
LoadAll(ip) ==
  /\ detail' = IF ip = None THEN NoDetail ELSE [of |-> ip, status |-> "loading", entries |-> None]
  /\ loads' = loads \cup (IF ip = None THEN {} ELSE {[of |-> ip, wanted |-> TRUE]})

\* DeviceDetail's effect on [host.ip]: the history in flight is not wanted any
\* more, and another one is asked for.
Load(ip) ==
  LET unwanted == {[l EXCEPT !.wanted = FALSE] : l \in loads} IN
  /\ detail' = IF ip = None THEN NoDetail ELSE [of |-> ip, status |-> "loading", entries |-> None]
  /\ loads' = unwanted \cup (IF ip = None THEN {} ELSE {[of |-> ip, wanted |-> TRUE]})

\* A selection that left the results, or the page, is dropped.
Pick(h, u, ip) == IF u.page = "network" /\ ip \in DOMAIN h THEN ip ELSE None

\* The scene is mounted, rendered again or unmounted with what is around it.
Draws ==
  /\ UNCHANGED <<webgl, paced>>
  /\ scene' = IF ~paced \/ ~map'.mounted \/ Renderer(map') # "3d" THEN NoScene
              ELSE IF ~scene.mounted THEN FreshScene
              ELSE Rerender(scene, props, Props(hosts', states', ui', selected', map', scan'))

\* The page with these results, this selection and this on screen.  A view has
\* state only while it is mounted, which takes results.
Render(h, s, u, ip) ==
  LET now  == Pick(h, u, ip)
      picked == IF now = selected THEN None ELSE now
      rows == VisibleRows(h, s, u)
      mounted(v) == u.page = "network" /\ u.view = v /\ h # <<>>
  IN  /\ hosts' = h /\ states' = s /\ ui' = u /\ selected' = now
      /\ IF now = selected THEN UNCHANGED <<detail, loads>> ELSE Load(now)
      /\ table' = IF ~mounted("devices") THEN NoTable
                  ELSE IF ~table.mounted THEN NewTable
                  ELSE [table EXCEPT !.focus = IF @ \in Shown(h, s, u) THEN @ ELSE None]
      /\ map' = IF ~mounted("topology") THEN NoMap
                ELSE IF map.mounted THEN MapRenders(map, visibleRows, rows, picked)
                ELSE MapMounts(rows, now)
      /\ Draws /\ UNCHANGED stored

\* The page starts empty; frames are followed from the map of an opened file
\* on, for one more report and one more input.
Init ==
  /\ scan = NoScan /\ selected = None /\ table = NoTable /\ detail = NoDetail /\ loads = {}
  /\ opening = None
  /\ webgl \in webglAvailable /\ stored = "3d" /\ paced \in {FALSE, webgl}
  /\ hosts \in IF paced THEN Files ELSE {<<>>}
  /\ states = [ip \in DOMAIN hosts |-> "stable"]
  /\ ui = [page |-> "network", view |-> IF paced THEN "topology" ELSE "devices",
           search |-> "", all |-> FALSE]
  /\ reports = (IF paced THEN 1 ELSE 0) /\ inputs = (IF paced THEN MaxInputs - 1 ELSE 0)
  /\ map = (IF paced THEN MapMounts(visibleRows, None) ELSE NoMap)
  /\ scene = (IF paced THEN FreshScene ELSE NoScene)

-----------------------------------------------------------------------------
(* The scan's side, and the backend's answers.                             *)

Report == reports < MaxReports /\ reports' = reports + 1 /\ UNCHANGED inputs
Input  == inputs < MaxInputs /\ inputs' = inputs + 1 /\ UNCHANGED reports

Known(ip) == IF ip \in DOMAIN hosts THEN hosts[ip] ELSE None

\* startScan: a scan that does not watch the network begins with no results.
\* One that the backend then refuses is one cancelled at once.
StartScan(ip, preserve) ==
  /\ scan = NoScan /\ Report /\ UNCHANGED opening
  /\ scan' = [of |-> ip, at |-> "started", last |-> Blank,
              watched |-> FALSE,    \* history: it is scanned as a monitor pass,
              before |-> None]      \* and this was known of the host before
  /\ IF preserve THEN Render(hosts, states, ui, selected) ELSE Render(<<>>, <<>>, ui, selected)

\* f with this value at ip.
Put(f, ip, value) == [k \in DOMAIN f \cup {ip} |-> IF k = ip THEN value ELSE f[k]]

\* applyHostEvent: the host takes the place of the one known; some events
\* also mark the transition between the two.
applyHostEvent(h, marks) ==
  LET ip   == scan.of
      mark == IF marks THEN classifyTransition(Known(ip), h)
              ELSE IF ip \in DOMAIN hosts THEN states[ip] ELSE "stable"
  IN  Render(Put(hosts, ip, h), Put(states, ip, mark), ui, selected)

Scanned(at, h) ==
  scan' = [scan EXCEPT !.at = at, !.last = h] /\ UNCHANGED <<opening, reports, inputs>>

\* host_seen, ignored for a known device while monitoring is on.
HostSeen ==
  /\ scan # NoScan /\ scan.at = "started"
  /\ \E ignored \in IF Known(scan.of) = None THEN {FALSE} ELSE BOOLEAN :
       /\ LET watched == ignored \/ Known(scan.of) = None
          IN  scan' = [scan EXCEPT !.at = "seen", !.watched = watched,
                                   !.before = IF watched THEN Known(scan.of) ELSE None]
       /\ IF ignored THEN Render(hosts, states, ui, selected) ELSE applyHostEvent(Blank, FALSE)
  /\ UNCHANGED <<opening, reports, inputs>>

\* A scan only adds to what it knows of an address.
Extends(h) ==
  LET l == scan.last IN
  (l.alive => h.alive) /\ l.ports \subseteq h.ports /\ (l.mac => h.mac) /\ l.name \in {0, h.name}

\* hostname_resolved and host_alive; port_open and host_enriched mark.
HostLearned(h, marks) ==
  /\ scan # NoScan /\ scan.at = "seen" /\ Extends(h) /\ h # scan.last /\ h.type = "unknown"
  /\ IF marks THEN h.ports # {} \/ h.mac ELSE h.ports = {}
  /\ Scanned("seen", h) /\ applyHostEvent(h, marks)

\* device_classified: only the type is new.
DeviceClassified(h) ==
  /\ scan # NoScan /\ scan.at = "seen" /\ [h EXCEPT !.type = "unknown"] = scan.last
  /\ Scanned("classified", h) /\ applyHostEvent(h, TRUE)

\* host_done
HostDone ==
  /\ scan # NoScan /\ scan.at = "classified" /\ scan' = NoScan
  /\ applyHostEvent(scan.last, TRUE) /\ UNCHANGED <<opening, reports, inputs>>

\* A scan that is cancelled sends nothing more of the address.
ScanCancelled ==
  /\ scan # NoScan /\ scan' = NoScan /\ Render(hosts, states, ui, selected)
  /\ UNCHANGED <<opening, reports, inputs>>

\* loadHosts: the devices of a file take the place of these.
loadHosts(opened) ==
  /\ scan' = IF scan = NoScan THEN NoScan ELSE [scan EXCEPT !.watched = FALSE, !.before = None]
  /\ Render(opened, [ip \in DOMAIN opened |-> "stable"], ui, selected)

\* A file is opened: the backend sends its devices as an event, and then again
\* as the reply, with the events of a scan that runs in between.
FileLoaded(opened) ==
  /\ Report /\ opening = None /\ loadHosts(opened)
  /\ opening' = IF scan = NoScan THEN None ELSE opened
FileReplied ==
  /\ opening # None /\ opening' = None /\ loadHosts(opening) /\ UNCHANGED <<reports, inputs>>

HistoryAnswered(l) ==
  /\ loads' = loads \ {l}
  /\ IF l.wanted
     THEN detail' \in {[detail EXCEPT !.status = "ready", !.entries = l.of],
                       [detail EXCEPT !.status = "error"]}
     ELSE UNCHANGED detail
  /\ UNCHANGED <<hosts, states, scan, ui, selected, table, opening, reports, inputs, mapVars>>

-----------------------------------------------------------------------------
(* The user.  The window is never so narrow (desktop/main.go: MinWidth)    *)
(* that the details become a modal drawer.                                 *)

Free   == ui.page = "network" /\ Input /\ UNCHANGED <<scan, opening>>
Listed == Free /\ hosts # <<>>
Select(ip) == Render(hosts, states, ui, ip)
Toggle(ip) == Select(IF ip = selected THEN None ELSE ip)
\* Mutant of Show: what is on screen changes, the selection ends.
ShowAnew(u) == Render(hosts, states, u, None)
Show(u)    == Render(hosts, states, u, selected)

\* The close button, a click beside the devices.
CloseDetail == Free /\ selected # None /\ Select(None)

\* A row, a tile of the groups, or a device of either map.
Click(ip) ==
  /\ Listed /\ ip \in (IF ui.view = "topology" THEN DOMAIN visibleRows ELSE shown)
  /\ Toggle(ip)

InTable(t) == table' = t /\ UNCHANGED <<hosts, states, ui, device, mapVars>>

toggleSort(key) ==
  /\ Listed /\ table.mounted
  /\ InTable([table EXCEPT !.key = key, !.asc = key # table.key \/ ~@])

\* Arrows move the focus to the row above or below, Enter toggles its device.
onRowKey ==
  /\ Listed /\ table.mounted
  /\ LET rows == Rows(hosts, shown, table.key, table.asc) IN
     \/ \E i, j \in DOMAIN rows :
          /\ rows[i] = table.focus /\ j \in {i - 1, i + 1}
          /\ InTable([table EXCEPT !.focus = rows[j]])
     \/ table.focus = None /\ rows # <<>> /\ InTable([table EXCEPT !.focus = rows[1]])
     \/ table.focus # None /\ Toggle(table.focus)

OnMap == Listed /\ map.mounted

Open(ip, m) ==
  /\ selected' = Pick(hosts, ui, ip)
  /\ IF selected' = selected THEN UNCHANGED <<detail, loads>> ELSE Load(selected')
  /\ map' = m
  /\ UNCHANGED <<hosts, states, ui, table, stored>> /\ Draws

\* Enter opens the device under the cursor, whatever became of it; a double
\* click in the scene opens the one it hits.
Fly(ip) ==
  /\ OnMap
  /\ ip = map.cursor \/ (Renderer(map) = "3d" /\ ip \in DOMAIN visibleRows)
  /\ Open(ip, Flown(map, ip, visibleRows))

Escape == OnMap /\ Open(None, [map EXCEPT !.hover = None])

MapInput ==
  /\ OnMap
  /\ \/ \E key \in {"next", "previous", "nextCluster", "previousCluster"} :
          MoveCursor(key, visibleRows)
     \/ TakeCamera \/ \E view \in Scenes : ChooseRenderer(view, visibleRows)
     \/ \E ip \in DOMAIN visibleRows \cup {None} : Hover(ip)
  /\ UNCHANGED <<hosts, states, ui, device, table>> /\ Draws

ResetClicked ==
  /\ OnMap /\ ResetView(visibleRows)
  /\ UNCHANGED <<hosts, states, ui, device, table>> /\ Draws

Canvas ==
  /\ SceneFails(visibleRows) \/ CanvasDies(visibleRows)
  /\ UNCHANGED <<hosts, states, scan, ui, device, table, opening, reports, inputs>> /\ Draws

\* The scene's effects, and its frames.
Draw ==
  /\ scene.mounted
  /\ \/ scene.due /\ scene' = Effects(scene, props)
     \/ \E arrive \in BOOLEAN : scene' = Frame(scene, props, arrive)
  /\ UNCHANGED <<hosts, states, scan, ui, device, table, opening, reports, inputs>>
  /\ UNCHANGED <<webgl, stored, map, paced>>

SwitchView(v)  == Listed /\ Show([ui EXCEPT !.view = v])
Search(needle) == Listed /\ Show([ui EXCEPT !.search = needle])
ShowSilent     == Free /\ Show([ui EXCEPT !.all = ~@])

\* Another page is chosen, or this one again, also when it had broken;
\* "Try again" shows it anew.
TurnTo(page)   == Input /\ UNCHANGED <<scan, opening>> /\ Show([ui EXCEPT !.page = page])
Navigate       == ui.page # "another" /\ TurnTo("another")
ComeBack       == ui.page # "network" /\ TurnTo("network")

\* WorkspaceBoundary: an error in drawing the page takes the page away, with
\* the state it kept, and nothing else.
Crash          == ui.page = "network" /\ TurnTo("broken")

Next ==
  \/ \E ip \in Targets, preserve \in BOOLEAN : StartScan(ip, preserve)
  \/ \E h \in Sights : DeviceClassified(h) \/ \E marks \in BOOLEAN : HostLearned(h, marks)
  \/ HostSeen \/ HostDone \/ ScanCancelled
  \/ FileReplied \/ \E opened \in Files : FileLoaded(opened)
  \/ \E l \in loads : HistoryAnswered(l)
  \/ CloseDetail \/ onRowKey \/ MapInput \/ ResetClicked \/ Escape
  \/ Canvas \/ Draw \/ ShowSilent \/ Navigate \/ ComeBack \/ Crash
  \/ \E ip \in Octets : Click(ip) \/ Fly(ip)
  \/ \E key \in {"ip", "device"} : toggleSort(key)
  \/ \E v \in Views : SwitchView(v)
  \/ \E needle \in Needles \cup {""} : Search(needle)

Spec == Init /\ [][Next]_vars
-----------------------------------------------------------------------------
(* The history beside a device is that device's, in whatever order the      *)
(* answers of the devices looked at before come in (DeviceDetail.tsx).      *)
DetailIsAboutItsDevice == detail.status = "ready" => detail.entries = selected

(* "Selection survives filtering and view switches, and clears only when    *)
(* the device leaves the results entirely" (NetworkWorkspace.tsx:77-78):    *)
(* else it ends with the page, or by the user's own click or key.          *)
SelectionSurvives ==
  [][selected # None /\ selected' # selected
     => \/ selected \notin DOMAIN hosts' \/ ui'.page # "network"
        \/ inputs' # inputs /\ ui' = ui]_vars

(* The promises of modules Topology and Scene, about what the page shows.   *)
MapFollows == CameraFollows(visibleRows)
ArrowsWalk == map.mounted => ArrowsWalkTheMap(visibleRows)
SceneRests == RestsOnTheMap(scene, props)

(* "until the user takes the camera; Reset view hands it back"              *)
(* (TopologyScene.tsx:484-485): on a scene that stays on screen only a      *)
(* reset ends the user's hold on the camera.                                *)
CameraIsTheUsers ==
  [][map.mounted /\ map'.mounted /\ Renderer(map) = "3d" /\ Renderer(map') = "3d" /\ map.userMoved
     => ResetClicked \/ map'.userMoved]_vars

(* "Monitor mode. Re-scans on an interval and marks every device new,       *)
(* online, offline, changed, or stable" (README.md:90): when a pass is      *)
(* done with a device, its mark is the transition it went through in that   *)
(* pass (net.ts:37), from what was known of it before.                      *)
PassIsMarked ==
  [][HostDone /\ scan.watched
     => states'[scan.of] = classifyTransition(scan.before, hosts'[scan.of])]_vars
=============================================================================
