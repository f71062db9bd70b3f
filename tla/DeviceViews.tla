----------------------------- MODULE DeviceViews -----------------------------
(***************************************************************************)
(* What both user interfaces make of a list of devices, as pure operators: *)
(* the shared rules of ui/src/net.ts, the order of the device table's rows *)
(* (DeviceTable.tsx), and the layout of the map with the order in which    *)
(* the arrow keys walk it (topology/layout.ts).                            *)
(*                                                                         *)
(* A device list is a function from addresses to hosts.  An address is its *)
(* last octet, a name its rank in the alphabet, 0 standing for none.  Of   *)
(* the geometry only the order of the devices and the size of the whole    *)
(* matter here.                                                            *)
(***************************************************************************)
EXTENDS Naturals, Sequences, FiniteSets, FiniteSetsExt, SequencesExt

CONSTANTS
  Octets,   \* the addresses of the network
  Sights,   \* the hosts that may be seen there
  None      \* no device

ASSUME OctetsAssumption == Octets \subseteq 0..255 /\ None \notin Octets
ASSUME SightsAssumption ==
  \A h \in Sights : /\ h.alive \in BOOLEAN /\ h.mac \in BOOLEAN
                     /\ h.ports \subseteq 1..65535 /\ h.name \in Nat

CategoryOrder == <<"firewall/network", "windows/smb", "linux/iot", "apple",
                   "printer", "camera/media", "web appliance", "unknown">>

\* The category of a device type; the other types have none of their own.
Collected == [windows_or_smb |-> "windows/smb", windows_rdp |-> "windows/smb",
  ssh_device |-> "linux/iot", linux_or_iot |-> "linux/iot", iot_device |-> "linux/iot",
  apple_device |-> "apple", printer |-> "printer", camera_or_rtsp |-> "camera/media",
  plex |-> "camera/media", web_device |-> "web appliance"]

categoryFor(h) ==
  IF ~h.alive /\ h.ports = {} THEN "unknown"
  ELSE IF 53 \in h.ports \/ h.type = "network_device" THEN "firewall/network"
  ELSE IF h.type \in DOMAIN Collected THEN Collected[h.type] ELSE "unknown"

hasResponseSignal(h) == h.alive \/ h.ports # {} \/ h.mac
isVisuallyActive(h)  == hasResponseSignal(h) \/ h.name # 0
hostChanged(p, n)    == <<p.name, p.mac, p.type, p.ports>> # <<n.name, n.mac, n.type, n.ports>>

\* known: the host seen before, or None.
classifyTransition(known, n) ==
  LET before == known # None /\ hasResponseSignal(known)
      now    == hasResponseSignal(n)
  IN  IF known = None /\ now THEN "new"
      ELSE IF before /\ ~now THEN "offline"
      ELSE IF ~before /\ now THEN "online"
      ELSE IF now /\ hostChanged(known, n) THEN "changed" ELSE "stable"

shouldShowHost(h, state, showUnresponsive) ==
  showUnresponsive \/ state # "stable" \/ isVisuallyActive(h)

\* The words a search finds a device by: its category, its state, up or down.
hostMatchesFilter(h, state, needle) ==
  needle = "" \/ needle \in {categoryFor(h), state, IF h.alive THEN "up" ELSE "down"}

-----------------------------------------------------------------------------
(* The rows of the table.                                                  *)

\* textCompare on names and compareIP: a blank name comes after every other.
textBefore(a, b) == a # 0 /\ (b = 0 \/ a < b)

RowBefore(hosts, key, a, b) ==
  LET m == hosts[a].name  n == hosts[b].name IN
  IF key = "device" /\ m # n THEN textBefore(m, n) ELSE a < b

Rows(hosts, ips, key, asc) ==
  SetToSortSeq(ips, LAMBDA a, b : IF asc THEN RowBefore(hosts, key, a, b)
                                  ELSE RowBefore(hosts, key, b, a))
-----------------------------------------------------------------------------
(* The map.                                                                *)

\* Where x is in seq.
At(seq, x) == CHOOSE i \in DOMAIN seq : seq[i] = x

\* Network gear on .1, else on .254, else the lowest address with network gear.
pickGateway(hosts) ==
  LET gear == {a \in DOMAIN hosts : categoryFor(hosts[a]) = "firewall/network"} IN
  IF gear = {} THEN None ELSE IF 1 \in gear THEN 1
  ELSE IF 254 \in gear THEN 254 ELSE Min(gear)

\* The members of S in the order of their places.
InOrder(S, place) ==
  CHOOSE f \in [1 .. Cardinality(S) -> S] :
    \A i, j \in DOMAIN f : i < j => place[f[i]] < place[f[j]]

Ascending(S) == InOrder(S, [x \in S |-> x])

\* The clusters in the order of their categories, each with its devices by
\* address, and the nodes: the gateway, then cluster by cluster.
computeLayout(hosts) ==
  LET ips        == DOMAIN hosts
      gateway    == pickGateway(hosts)
      rank       == [a \in ips |-> At(CategoryOrder, categoryFor(hosts[a]))]
      others     == ips \ {gateway}
      present    == Ascending({rank[a] : a \in others})
      cluster(k) == [category |-> CategoryOrder[k],
                     members  |-> Ascending({a \in others : rank[a] = k})]
  IN  [gateway  |-> gateway,
       clusters |-> [i \in DOMAIN present |-> cluster(present[i])],
       nodes    |-> InOrder(ips, [a \in ips |-> IF a = gateway THEN 0 ELSE 256 * rank[a] + a])]

\* How far out the network reaches.  A few small clusters fit on the ring of
\* least radius, and the largest one decides.
Extent(layout) == Max({0} \cup {Len(cluster.members) : cluster \in Range(layout.clusters)})

\* Mutant of Around: the walk stops at the last device.
AroundStops(seq, i, step) == seq[Min({i + step, Len(seq)})]

Around(seq, i, step) == seq[((i - 1 + step) % Len(seq)) + 1]

\* The device an arrow key leads to; None when it leads nowhere.  From the
\* gateway, which has no cluster, up and down count from position -1.
neighborIndex(layout, current, key) ==
  LET nodes    == layout.nodes
      clusters == layout.clusters
      n        == Len(clusters)
      from     == IF current = layout.gateway THEN 0
                  ELSE CHOOSE i \in 1..n : current \in Range(clusters[i].members)
      to       == IF key = "nextCluster" THEN from % n
                  ELSE IF from = 0 /\ n = 1 THEN 0 ELSE (from + n - 2) % n
  IN  IF nodes = <<>> THEN None
      ELSE IF current \notin Range(nodes) THEN nodes[1]
      ELSE IF key = "next" THEN Around(nodes, At(nodes, current), 1)
      ELSE IF key = "previous" THEN Around(nodes, At(nodes, current), Len(nodes) - 1)
      ELSE IF clusters = <<>> THEN None ELSE Head(clusters[to + 1].members)
=============================================================================
