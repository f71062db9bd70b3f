--------------------------------- MODULE Scene ---------------------------------
(***************************************************************************)
(* The drawing of the three-dimensional map (topology/TopologyScene.tsx),  *)
(* which "renders only when something changes": a render of the component  *)
(* draws nothing by itself.  Its effect, a moment later, asks for a frame; *)
(* the frame draws the devices as they are then, moves them a little       *)
(* towards their places, and asks for another one while any is on its way. *)
(*                                                                         *)
(* The scene is a record, p are its props: the devices, their marks, the   *)
(* selected and the hovered device, those a search matches, and whether a  *)
(* scan runs, when a sweep turns that asks for every next frame.  Shades   *)
(* and sizes are left out, and reduced motion, where devices do not travel.*)
(***************************************************************************)
EXTENDS DeviceViews

CONSTANT LeastCapacity   \* of the instanced meshes, 64

ASSUME SceneAssumption == LeastCapacity \in Nat \ {0}

NoScene    == [mounted |-> FALSE]
FreshScene == [mounted |-> TRUE, due |-> TRUE, asked |-> FALSE, at |-> <<>>, drawn |-> <<>>,
               born |-> {}, floor |-> <<>>, swept |-> FALSE]

SceneOK(s) == s.mounted => /\ {s.due, s.asked, s.swept} \subseteq BOOLEAN
                           /\ DOMAIN s.at \cup DOMAIN s.drawn \cup s.born \subseteq Octets

\* Powers of two, so that a scan seldom rebuilds the meshes.
Capacity(hosts) ==
  LET count == Cardinality(DOMAIN hosts)
  IN  Max({LeastCapacity, Min({2 ^ k : k \in 0..8} \ 0..count)})

\* Taller devices have more open ports.
nodeHeight(h) == IF h.ports # {} THEN 2 + Min({Cardinality(h.ports), 8})
                 ELSE IF h.alive THEN 1 ELSE 0

\* The sizes of the clusters fix where they are.
Sizes(layout) == [i \in DOMAIN layout.clusters |-> Len(layout.clusters[i].members)]

\* Where a device belongs.
Place(hosts, ip) ==
  LET layout == computeLayout(hosts)
      others == SelectSeq(layout.nodes, LAMBDA a : a # layout.gateway)
  IN  IF ip = layout.gateway THEN <<"middle">>
      ELSE <<Sizes(layout), At(others, ip), nodeHeight(hosts[ip])>>

\* A disc under each cluster, as wide as it has members; a mark in the middle
\* of a network without a gateway.
Floor(hosts) ==
  LET layout == computeLayout(hosts)
  IN  [colours |-> [i \in DOMAIN layout.clusters |-> layout.clusters[i].category],
       discs   |-> Sizes(layout), hub |-> layout.gateway = None]

active(h) == h.alive \/ h.ports # {}

\* What a frame draws of a device, what the flat map shows of it.
Look(p, ip) ==
  [colour |-> IF active(p.hosts[ip]) THEN categoryFor(p.hosts[ip]) ELSE "unknown",
   dimmed |-> ip \notin p.matches,
   halo   |-> p.states[ip],
   size   |-> IF ip = p.selected THEN "selected" ELSE IF ip = p.hover THEN "hovered" ELSE "plain",
   ring   |-> ip = p.selected,
   pillar |-> p.hosts[ip].ports # {}]

FlatLook(p, ip) ==
  [colour |-> IF active(p.hosts[ip]) THEN categoryFor(p.hosts[ip]) ELSE "unknown",
   dimmed |-> ip \notin p.matches, halo |-> p.states[ip], ring |-> ip = p.selected]

\* The name beside the selected device, the card beside the hovered one.
Labels(p) == [tag  |-> IF p.selected = p.hover THEN {} ELSE {p.selected} \cap DOMAIN p.hosts,
              card |-> {p.hover} \cap DOMAIN p.hosts]
-----------------------------------------------------------------------------
\* Mutant of Depends: the effect does not depend on the selection.
DependsLess(p) == <<p.hosts, p.matches, p.states, p.hover>>

\* What the effect that asks for a frame depends on.
Depends(p) == <<p.hosts, p.matches, p.states, p.selected, p.hover>>

\* The effect of the sweep asks for a frame when a scan begins.
SweepBegins(p, q) == ~p.scanning /\ q.scanning

\* A render; larger meshes are new and empty, the floor is the renderer's.
Rerender(s, p, q) ==
  [s EXCEPT !.due = @ \/ Depends(p) # Depends(q) \/ SweepBegins(p, q),
            !.drawn = IF Capacity(p.hosts) = Capacity(q.hosts) THEN @ ELSE <<>>]

\* A new device grows from here on, even if it has been drawn full-grown.
Effects(s, p) ==
  LET new == DOMAIN p.hosts \ s.born
  IN  [s EXCEPT !.due = FALSE, !.asked = TRUE, !.born = @ \cup new,
                !.at = [ip \in DOMAIN @ |-> IF ip \in new THEN <<"on its way">> ELSE @[ip]]]

\* A frame, asked for here or by the camera: every device that is not in its
\* place, or not full-grown, gets there, or is on its way.
Frame(s, p, arrive) ==
  LET place == [ip \in DOMAIN p.hosts |-> Place(p.hosts, ip)]
      there == {ip \in DOMAIN p.hosts : arrive \/ (ip \in DOMAIN s.at /\ s.at[ip] = place[ip])}
  IN  [s EXCEPT !.asked = there # DOMAIN p.hosts \/ p.scanning,
                !.at = [ip \in DOMAIN p.hosts \cup DOMAIN @ |->
                          IF ip \notin DOMAIN p.hosts THEN @[ip]
                          ELSE IF ip \in there THEN place[ip] ELSE <<"on its way">>],
                !.drawn = [ip \in DOMAIN p.hosts |-> Look(p, ip)],
                !.floor = Floor(p.hosts), !.swept = p.scanning]
-----------------------------------------------------------------------------
(* A scene that rests, no frame asked for, shows what the flat map would    *)
(* show of the same props, every device in its place on the floor of its    *)
(* cluster, one label beside the selected and the hovered device, and no    *)
(* sweep: a change that asks for no frame would stay unseen until something *)
(* else moves (TopologyScene.tsx:12-14).                                   *)
RestsOnTheMap(s, p) ==
  s.mounted /\ ~s.due /\ ~s.asked =>
    /\ ~p.scanning /\ ~s.swept /\ s.floor = Floor(p.hosts)
    /\ DOMAIN s.drawn = DOMAIN p.hosts
    /\ \A ip \in DOMAIN p.hosts :
         /\ \A part \in DOMAIN FlatLook(p, ip) : s.drawn[ip][part] = FlatLook(p, ip)[part]
         /\ s.at[ip] = Place(p.hosts, ip)
         /\ s.drawn[ip].size # "plain" <=> ip \in Labels(p).tag \cup Labels(p).card
=============================================================================
