------------------------------- MODULE Topology -------------------------------
(***************************************************************************)
(* The map of the network (topology/Topology.tsx): which renderer draws    *)
(* it, the keyboard cursor, and the camera of the three-dimensional scene  *)
(* (TopologyScene.tsx), while devices come and go.                         *)
(*                                                                         *)
(* The component's state is one record, made when it mounts.  The camera   *)
(* is where it heads.  The frames of the scene are module Scene's; they,   *)
(* and the hovered device, which only they read, are followed where        *)
(* "paced" says so.                                                        *)
(***************************************************************************)
EXTENDS Scene

VARIABLES
  webgl,   \* webglAvailable, probed once per page load
  stored,  \* the preference in localStorage
  map,     \* the component's state while it is mounted
  paced,   \* whether the frames of the scene are followed
  scene    \* the scene while it is mounted

mapVars == <<webgl, stored, map, paced, scene>>

NoMap  == [mounted |-> FALSE]
Scenes == {"3d", "flat"}

\* Probed once per page load: a second context might not be had.
webglAvailable == BOOLEAN

\* The three-dimensional view, unless the flat one was chosen.
readPreference == IF stored = "flat" THEN "flat" ELSE "3d"

Renderer(m) == IF webgl /\ ~m.contextLost /\ m.preference = "3d" THEN "3d" ELSE "flat"

\* What the camera aims at: the whole network, of some extent, a device, or
\* whatever the user turned it to.
Home(hosts)  == [at |-> "home", extent |-> Extent(computeLayout(hosts))]
Device(ip)   == [at |-> "device", ip |-> ip]
UserAim      == [at |-> "user"]

MapOK(ips) ==
  map.mounted =>
    /\ map.preference \in Scenes
    /\ {map.cursor, map.focus, map.hover} \subseteq ips \cup {None}
    /\ {map.contextLost, map.broken, map.dying, map.userMoved, map.reset} \subseteq BOOLEAN

-----------------------------------------------------------------------------
(* CameraRig: the effects of a render, in their order.  home changes with   *)
(* the extent of the layout; mounting counts as a change of everything.    *)

\* Follow the network's size until the user takes the camera.
Follow(m, hosts) == IF m.userMoved THEN m ELSE [m EXCEPT !.aim = Home(hosts)]

\* The effect on [resetSeq, home], idle until the first reset.
Reset(m, hosts) ==
  IF m.reset THEN [m EXCEPT !.userMoved = FALSE, !.aim = Home(hosts)] ELSE m

\* The effect on [focus.seq]: fly to a device that is on the map.
Focus(m, hosts) ==
  IF m.focus \in DOMAIN hosts THEN [m EXCEPT !.userMoved = TRUE, !.aim = Device(m.focus)] ELSE m

SceneMounts(m, hosts) ==
  Focus(Reset(Follow([m EXCEPT !.userMoved = FALSE], hosts), hosts), hosts)

-----------------------------------------------------------------------------
MapMounts(hosts, selected) ==
  LET fresh == [mounted |-> TRUE, preference |-> readPreference, contextLost |-> FALSE,
                broken |-> FALSE,   \* history: this scene really failed
                dying |-> FALSE,    \* an unmounted canvas will still report its loss
                cursor |-> selected, focus |-> None, hover |-> None,
                userMoved |-> FALSE, reset |-> FALSE, aim |-> Home(hosts)]
  IN  IF Renderer(fresh) = "3d" THEN SceneMounts(fresh, hosts) ELSE fresh

\* Mutant of MapRenders: the camera is aimed once.
MapRendersStill(m, before, hosts, picked) ==
  [m EXCEPT !.cursor = IF picked # None THEN picked ELSE @]

\* The props changed: other devices, or another device that was picked.  The
\* cursor goes to a device as it is picked, and may leave it again.
MapRenders(m, before, hosts, picked) ==
  LET seen == [m EXCEPT !.cursor = IF picked # None THEN picked ELSE @] IN
  IF Renderer(m) = "3d" /\ Home(before) # Home(hosts)
  THEN Reset(Follow(seen, hosts), hosts) ELSE seen

\* The next state m, the scene mounted or unmounted as the renderer changes:
\* an unmounted canvas is made to lose its context a moment later.
Redrawn(m, hosts) ==
  IF Renderer(map) = "flat" /\ Renderer(m) = "3d" THEN SceneMounts(m, hosts)
  ELSE IF Renderer(map) = "3d" /\ Renderer(m) = "flat" THEN [m EXCEPT !.dying = TRUE]
  ELSE m

\* choose: remembering the view is best-effort.
ChooseRenderer(view, hosts) ==
  /\ map.mounted /\ webgl /\ ~map.contextLost
  /\ map' = Redrawn([map EXCEPT !.preference = view], hosts)
  /\ stored' \in {stored, view}
  /\ UNCHANGED webgl

\* Mutant of LostContext: every loss is reported.
LostAny(alive, m, hosts) == map' = Redrawn([m EXCEPT !.contextLost = TRUE], hosts)

\* webglcontextlost: reported while the scene that owns the canvas is mounted.
LostContext(alive, m, hosts) ==
  map' = IF alive THEN Redrawn([m EXCEPT !.contextLost = TRUE], hosts) ELSE m

SceneFails(hosts) ==
  /\ map.mounted /\ Renderer(map) = "3d"
  /\ LostContext(TRUE, [map EXCEPT !.broken = TRUE], hosts)
  /\ UNCHANGED <<webgl, stored>>

CanvasDies(hosts) ==
  /\ map.mounted /\ map.dying
  /\ LostContext(FALSE, [map EXCEPT !.dying = FALSE], hosts)
  /\ UNCHANGED <<webgl, stored>>

\* The arrow keys.
MoveCursor(key, hosts) ==
  /\ map.mounted
  /\ LET ip == neighborIndex(computeLayout(hosts), map.cursor, key) IN
     ip # None /\ map' = [map EXCEPT !.cursor = ip, !.hover = IF paced THEN ip ELSE @]
  /\ UNCHANGED <<webgl, stored>>

\* A double click on a device, or Enter: select it and fly there.
Flown(m, ip, hosts) ==
  LET f == [m EXCEPT !.cursor = ip, !.focus = ip]
  IN  IF Renderer(m) = "3d" THEN Focus(f, hosts) ELSE f

\* The pointer enters or leaves a device of the scene.
Hover(ip) ==
  /\ map.mounted /\ paced /\ Renderer(map) = "3d"
  /\ map' = [map EXCEPT !.hover = ip]
  /\ UNCHANGED <<webgl, stored>>

TakeCamera ==
  /\ map.mounted /\ Renderer(map) = "3d"
  /\ map' = [map EXCEPT !.userMoved = TRUE, !.aim = UserAim]
  /\ UNCHANGED <<webgl, stored>>

ResetView(hosts) ==
  /\ map.mounted /\ Renderer(map) = "3d"
  /\ map' = Reset([map EXCEPT !.reset = TRUE], hosts)
  /\ UNCHANGED <<webgl, stored>>

-----------------------------------------------------------------------------
(* A canvas that is unmounted is made to lose its context: "That is not a   *)
(* failure" (TopologyScene.tsx:68).  Only a scene that broke while it was   *)
(* on screen gives way to the flat map for good.                           *)
OnlyRealLosses == map.mounted /\ map.contextLost => map.broken

(* "Follow the network's size while it grows during a scan, until the user  *)
(* takes the camera" (TopologyScene.tsx:484): a camera nobody took frames   *)
(* the network as it is now.                                               *)
CameraFollows(hosts) ==
  map.mounted /\ Renderer(map) = "3d" /\ ~map.userMoved => map.aim = Home(hosts)

(* The arrow keys "move between devices (up/down jump between device        *)
(* types)": right leads through every device and back, left undoes right,   *)
(* and up undoes down among the devices that have a cluster.                *)
ArrowsWalkTheMap(hosts) ==
  LET layout  == computeLayout(hosts)
      ips     == DOMAIN hosts
      step(k) == [ip \in ips |-> neighborIndex(layout, ip, k)]
      next == step("next")  prev == step("previous")
      down == step("nextCluster")  up == step("previousCluster")
      type == [ip \in ips |-> categoryFor(hosts[ip])]
  IN  /\ {next, prev} \subseteq [ips -> ips]
      /\ \A S \in SUBSET ips : S # {} /\ (\A ip \in S : next[ip] \in S) => S = ips
      /\ \A ip \in ips : prev[next[ip]] = ip
      /\ \A ip \in ips \ {layout.gateway} : type[up[down[ip]]] = type[ip]
=============================================================================
