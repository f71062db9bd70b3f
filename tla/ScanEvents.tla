----------------------------- MODULE ScanEvents -----------------------------
(***************************************************************************)
(* The data a scan streams to its caller: what internal/scanner/events.go  *)
(* and internal/model give the event types and the host snapshots, reduced *)
(* to what the properties tell apart.                                      *)
(***************************************************************************)
EXTENDS Naturals

CONSTANTS
  NumHosts,   \* addresses the CIDR expands to
  NumPorts    \* ports probed on each address

ASSUME NumHostsAssumption == NumHosts \in Nat \ {0}
ASSUME NumPortsAssumption == NumPorts \in Nat

Hosts == 1 .. NumHosts
Ports == 1 .. NumPorts

\* A snapshot (model.HostObservation): the open ports found so far, whether
\* the host counts as alive, whether ARP supplied a hardware address.
Snapshot == [open : SUBSET Ports, alive : BOOLEAN, mac : BOOLEAN]
Blank    == [open |-> {}, alive |-> FALSE, mac |-> FALSE]

\* Later snapshots of a host only add knowledge.
Extends(new, old) ==
  /\ old.open \subseteq new.open
  /\ old.alive => new.alive
  /\ old.mac => new.mac

\* The events about one host, in the only orders in which they may come.
Stages == {"seen", "named", "alive", "port", "enriched", "classified", "done"}

Following(stage) ==
  CASE stage = "none"       -> {"seen"}
    [] stage = "seen"       -> {"named", "alive", "classified"}
    [] stage = "named"      -> {"alive", "classified"}
    [] stage = "alive"      -> {"port", "enriched"}
    [] stage = "port"       -> {"port", "enriched", "classified"}
    [] stage = "enriched"   -> {"classified"}
    [] stage = "classified" -> {"done"}
    [] stage = "done"       -> {}

\* What a consumer keeps of a host: the last event about it.
HostView  == [stage : Stages \cup {"none"}, obs : Snapshot]
Unseen    == [stage |-> "none", obs |-> Blank]

=============================================================================
