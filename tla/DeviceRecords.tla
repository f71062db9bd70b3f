---------------------------- MODULE DeviceRecords ----------------------------
(***************************************************************************)
(* What a probe scan observes and what it reports: host observations       *)
(* (internal/model), the device records made of them                       *)
(* (internal/anchordesk/record.go), and the two loop bodies of the probe's *)
(* inventoryState.records (cmd/netviz-probe/inventory.go).                 *)
(*                                                                         *)
(* An observation is reduced to its sighting: a MAC (the host answered and *)
(* ARP knew it), Answers (it answered, MAC unknown), Named (only its name  *)
(* resolved) or Silent.                                                    *)
(***************************************************************************)
EXTENDS Naturals

CONSTANTS
  NumIPs,   \* addresses in the scanned networks, in the order scan sorts them
  Macs,     \* hardware addresses
  Answers, Named, Silent,
  NoID,     \* no entry of idByIP
  NoRecord  \* no entry of byID

ASSUME NumIPsAssumption == NumIPs \in Nat
ASSUME SightingsAssumption ==
  /\ Answers \notin Macs /\ Named \notin Macs /\ Silent \notin Macs
  /\ Answers # Named /\ Answers # Silent /\ Named # Silent
ASSUME MacsAssumption == Macs \cap (1 .. NumIPs) = {}

IPs       == 1 .. NumIPs
IDs       == Macs \cup IPs
Sightings == Macs \cup {Answers, Named, Silent}

DeviceRecord == [id : IDs, ip : IPs, status : {"up", "down"}]

ASSUME SentinelsAssumption == NoID \notin IDs /\ NoRecord \notin DeviceRecord

\* Mutant of Discovered: a host of which only the name is known is not one.
DiscoveredAlive(s) == s \notin {Named, Silent}

Discovered(s) == s # Silent

\* The id of a record: the MAC when there is one, else the address.
RecordID(ip, s) == IF s \in Macs THEN s ELSE ip

ToDeviceRecord(ip, s) ==
  [id |-> RecordID(ip, s), ip |-> ip, status |-> IF s = Named THEN "down" ELSE "up"]

(***************************************************************************)
(* The inventory a probe keeps between scans (byID, idByIP) together with  *)
(* what one call of records accumulates (active, reported).                *)
(***************************************************************************)
Inventory ==
  [byID     : [IDs -> DeviceRecord \cup {NoRecord}],
   idByIP   : [IPs -> IDs \cup {NoID}],
   active   : SUBSET IDs,
   reported : SUBSET IDs]

EmptyInventory ==
  [byID     |-> [i \in IDs |-> NoRecord],
   idByIP   |-> [ip \in IPs |-> NoID],
   active   |-> {},
   reported |-> {}]

\* Mutant of NewBatch: what was active is remembered from scan to scan.
NewBatchKeepsActive(inv) == [inv EXCEPT !.reported = {}]

NewBatch(inv) == [inv EXCEPT !.active = {}, !.reported = {}]

\* Mutant of Sight: the address a device left keeps pointing at it.
SightKeepsOld(inv, ip, s) ==
  LET record == ToDeviceRecord(ip, s) IN
  [byID     |-> [inv.byID EXCEPT ![record.id] = record],
   idByIP   |-> [inv.idByIP EXCEPT ![ip] = record.id],
   active   |-> inv.active \cup {record.id},
   reported |-> inv.reported \cup {record.id}]

\* The active loop, for a discovered host at ip.
Sight(inv, ip, s) ==
  LET record   == ToDeviceRecord(ip, s)
      id       == record.id
      previous == inv.byID[id]
      vacated  == IF previous # NoRecord /\ previous.ip # ip THEN {previous.ip} ELSE {}
  IN  [byID     |-> [inv.byID EXCEPT ![id] = record],
       idByIP   |-> [a \in IPs |-> IF a = ip THEN id
                                   ELSE IF a \in vacated THEN NoID ELSE inv.idByIP[a]],
       active   |-> inv.active \cup {id},
       reported |-> inv.reported \cup {id}]

\* The silent loop, for a silent host at ip.
Miss(inv, ip) ==
  LET id == inv.idByIP[ip] IN
  IF id = NoID \/ id \in inv.active
  THEN inv
  ELSE [inv EXCEPT !.byID[id].status = "down", !.reported = @ \cup {id}]

=============================================================================
