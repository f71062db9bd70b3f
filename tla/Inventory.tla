------------------------------ MODULE Inventory ------------------------------
(***************************************************************************)
(* The probe's inventory over any number of scans of a network where hosts *)
(* appear, vanish, move and swap addresses: inventoryState.records of      *)
(* cmd/netviz-probe/inventory.go, one step per loop iteration.             *)
(*                                                                         *)
(* Its names differ from module Probe's, whose inventory takes whole scans *)
(* at once, so that the theorems can speak of both.                        *)
(***************************************************************************)
EXTENDS DeviceRecords

CONSTANT MultiHomed  \* may one MAC answer at several addresses (a router)?
ASSUME MultiHomedAssumption == MultiHomed \in BOOLEAN

Observations ==
  {b \in [IPs -> Sightings] :
     MultiHomed \/ \A i, j \in IPs : b[i] \in Macs /\ b[i] = b[j] => i = j}

VARIABLES
  known,     \* inventoryState, and the records of the call in progress
  batch,     \* the observations of the scan being recorded, by address
  pass,      \* "idle", or the loop records is in: "active", then "silent"
  cursor,    \* the loop index over hosts
  occupant   \* history: the device last discovered at each address

loopVars == <<known, batch, pass, cursor, occupant>>

LoopInit ==
  /\ known = EmptyInventory
  /\ batch = [ip \in IPs |-> Silent]
  /\ pass = "idle"
  /\ cursor = 1
  /\ occupant = [ip \in IPs |-> NoID]

\* A scan has observed every address of the network.
Scan ==
  /\ pass = "idle"
  /\ batch' \in Observations
  /\ known' = NewBatch(known)
  /\ pass' = "active"
  /\ cursor' = 1
  /\ UNCHANGED occupant

RecordActive ==
  /\ pass = "active"
  /\ cursor <= NumIPs
  /\ Discovered(batch[cursor])
  /\ known' = Sight(known, cursor, batch[cursor])
  /\ occupant' = [occupant EXCEPT ![cursor] = RecordID(cursor, batch[cursor])]
  /\ cursor' = cursor + 1
  /\ UNCHANGED <<batch, pass>>

RecordSilent ==
  /\ pass = "silent"
  /\ cursor <= NumIPs
  /\ ~Discovered(batch[cursor])
  /\ known' = Miss(known, cursor)
  /\ cursor' = cursor + 1
  /\ UNCHANGED <<batch, pass, occupant>>

\* Each loop passes over the hosts the other one handles.
SkipHost ==
  /\ cursor <= NumIPs
  /\ \/ pass = "active" /\ ~Discovered(batch[cursor])
     \/ pass = "silent" /\ Discovered(batch[cursor])
  /\ cursor' = cursor + 1
  /\ UNCHANGED <<known, batch, pass, occupant>>

EndPass ==
  /\ pass # "idle"
  /\ cursor > NumIPs
  /\ pass' = IF pass = "active" THEN "silent" ELSE "idle"
  /\ cursor' = 1
  /\ UNCHANGED <<known, batch, occupant>>

LoopNext == Scan \/ RecordActive \/ RecordSilent \/ SkipHost \/ EndPass

LoopSpec == LoopInit /\ [][LoopNext]_loopVars

-----------------------------------------------------------------------------
\* Properties.

LoopTypeOK ==
  /\ known \in Inventory
  /\ batch \in [IPs -> Sightings]
  /\ pass \in {"idle", "active", "silent"}
  /\ cursor \in 1 .. NumIPs + 1
  /\ occupant \in [IPs -> IDs \cup {NoID}]

\* The two maps agree, whatever devices move, swap or share addresses: an
\* address is only ever mapped to a device whose record names that address.
\* Without it a down report would carry an address nobody found silent.
IndexConsistent ==
  \A ip \in IPs : known.idByIP[ip] # NoID =>
    /\ known.byID[known.idByIP[ip]] # NoRecord
    /\ known.byID[known.idByIP[ip]].id = known.idByIP[ip]
    /\ known.byID[known.idByIP[ip]].ip = ip

\* A device found active somewhere in a scan is reported as it was found: the
\* silence of the address it left never overwrites it (inventory.go:27-28).
ActiveNeverOverwritten ==
  pass = "idle" => \A id \in known.active :
    /\ id \in known.reported
    /\ \E ip \in IPs : /\ Discovered(batch[ip])
                       /\ known.byID[id] = ToDeviceRecord(ip, batch[ip])

\* A record made of silence is about the last device discovered at an address
\* that this very scan found silent, and says it is down.
DownIsAboutTheOccupant ==
  pass = "idle" => \A id \in known.reported \ known.active :
    LET r == known.byID[id] IN
      /\ r.status = "down"
      /\ batch[r.ip] = Silent
      /\ occupant[r.ip] = id

\* The comment on inventoryState (inventory.go:10-12): once a real device has
\* been observed, later silent observations for its IP are reported as down.
\* A device's IP is the one its latest record names; the devices meant here are
\* those identified by their hardware address.
SilentOccupantIsReportedDown ==
  pass = "idle" => \A ip \in IPs :
    LET id == occupant[ip] IN
      (/\ id \in Macs
       /\ known.byID[id].ip = ip
       /\ batch[ip] = Silent
       /\ id \notin known.active)
      => id \in known.reported

=============================================================================
