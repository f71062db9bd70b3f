------------------------------- MODULE MCWebPage -------------------------------
(* Model values for TLC: a router that answers and one that does not.      *)
EXTENDS WebPage

Host(alive, ports) ==
  [alive |-> alive, ports |-> ports, type |-> "unknown", mac |-> TRUE, name |-> 0]
MCSights      == {Host(TRUE, {53}), Host(FALSE, {})}
MCInventories == [Octets -> MCSights]
=============================================================================
