---------------------------- MODULE Probe_proofs ----------------------------
(***************************************************************************)
(* The probe for any number of addresses, devices, scans and pushes.       *)
(*                                                                         *)
(* First its inventory, loop iteration by loop iteration (module           *)
(* Inventory): IndexConsistent, ActiveNeverOverwritten and                 *)
(* DownIsAboutTheOccupant.  IndexConsistent is inductive by itself.  The   *)
(* two properties of a finished scan are about the end of records; the     *)
(* invariant says what is true of the records made so far within its loops *)
(* (ActiveSoFar and DownSoFar), and that the address index follows the     *)
(* occupants (IndexFollows).                                               *)
(*                                                                         *)
(* Then the loop that pushes (module Probe): TypeOK, OwedOrDelivered and   *)
(* NoFalseDown.  There a whole call of records is one step, so what one    *)
(* host does to the inventory is carried over all of them by induction     *)
(* (SetInduction, PassRule, RecordsReach).  Between a scan and its push    *)
(* the latest record of a device may be neither stored nor queued;         *)
(* QueueIsLatest and Owed say what is true then: it is about to be sent,   *)
(* and a queued record that is not the latest is about to be replaced.     *)
(***************************************************************************)
EXTENDS Probe, Inventory, TLAPS, FiniteSetTheorems, FunctionTheorems, SequenceTheorems,
        WellFoundedInduction

ActiveSoFar ==
  \A id \in known.active :
    /\ id \in known.reported
    /\ \E ip \in IPs : /\ Discovered(batch[ip])
                       /\ known.byID[id] = ToDeviceRecord(ip, batch[ip])

DownSoFar ==
  \A id \in known.reported \ known.active :
    /\ pass # "active"
    /\ known.byID[id] # NoRecord
    /\ known.byID[id].status = "down"
    /\ batch[known.byID[id].ip] = Silent
    /\ occupant[known.byID[id].ip] = id

IndexFollows == \A ip \in IPs : known.idByIP[ip] \in {NoID, occupant[ip]}

IInv == LoopTypeOK /\ IndexConsistent /\ IndexFollows /\ ActiveSoFar /\ DownSoFar

-----------------------------------------------------------------------------

\* A record made of a discovered host is one, and names its own id and address.
LEMMA RecordFacts ==
  ASSUME NEW ip \in IPs, NEW s \in Sightings
  PROVE  /\ ToDeviceRecord(ip, s) \in DeviceRecord
         /\ ToDeviceRecord(ip, s).id = RecordID(ip, s)
         /\ ToDeviceRecord(ip, s).ip = ip
         /\ ToDeviceRecord(ip, s) # NoRecord
         /\ RecordID(ip, s) \in IDs
         /\ RecordID(ip, s) # NoID
<1>1. RecordID(ip, s) \in IDs
  BY DEF RecordID, IDs
<1>2. ToDeviceRecord(ip, s) \in DeviceRecord
  BY <1>1 DEF ToDeviceRecord, DeviceRecord
<1> QED
  BY <1>1, <1>2, SentinelsAssumption DEF ToDeviceRecord

\* What Sight makes of an inventory.
LEMMA SightFacts ==
  ASSUME NEW i \in Inventory, NEW ip \in IPs, NEW s \in Sightings
  PROVE  LET id == RecordID(ip, s)
             j  == Sight(i, ip, s)
         IN  /\ j \in Inventory
             /\ j.byID[id] = ToDeviceRecord(ip, s)
             /\ \A k \in IDs \ {id} : j.byID[k] = i.byID[k]
             /\ j.idByIP[ip] = id
             /\ \A a \in IPs \ {ip} :
                  \/ j.idByIP[a] = NoID
                  \/ /\ j.idByIP[a] = i.idByIP[a]
                     /\ i.byID[id] # NoRecord => i.byID[id].ip # a
             /\ j.active = i.active \cup {id}
             /\ j.reported = i.reported \cup {id}
BY RecordFacts DEF Sight, Inventory, ToDeviceRecord

\* What Miss makes of an inventory whose index is right at ip.
LEMMA MissFacts ==
  ASSUME NEW i \in Inventory, NEW ip \in IPs,
         i.idByIP[ip] # NoID, i.idByIP[ip] \notin i.active,
         i.byID[i.idByIP[ip]] # NoRecord
  PROVE  LET id == i.idByIP[ip]
             j  == Miss(i, ip)
         IN  /\ j \in Inventory
             /\ j.byID[id] = [i.byID[id] EXCEPT !.status = "down"]
             /\ j.byID[id] \in DeviceRecord
             /\ \A k \in IDs \ {id} : j.byID[k] = i.byID[k]
             /\ j.idByIP = i.idByIP
             /\ j.active = i.active
             /\ j.reported = i.reported \cup {id}
<1> DEFINE id == i.idByIP[ip]
           r  == [i.byID[id] EXCEPT !.status = "down"]
<1>1. id \in IDs /\ i.byID[id] \in DeviceRecord
  BY DEF Inventory
<1>2. r \in DeviceRecord
  BY <1>1 DEF DeviceRecord
<1>3. Miss(i, ip) = [i EXCEPT !.byID = [i.byID EXCEPT ![id] = r],
                              !.reported = i.reported \cup {id}]
  BY <1>1 DEF Miss, Inventory
<1>4. [i.byID EXCEPT ![id] = r] \in [IDs -> DeviceRecord \cup {NoRecord}]
  BY <1>2 DEF Inventory
<1>5. i.reported \cup {id} \in SUBSET IDs
  BY <1>1 DEF Inventory
<1>6. Miss(i, ip) \in Inventory
  BY <1>3, <1>4, <1>5 DEF Inventory
<1>7. /\ Miss(i, ip).byID = [i.byID EXCEPT ![id] = r]
      /\ Miss(i, ip).idByIP = i.idByIP
      /\ Miss(i, ip).active = i.active
      /\ Miss(i, ip).reported = i.reported \cup {id}
  BY <1>3 DEF Inventory
<1>8. /\ Miss(i, ip).byID[id] = r
      /\ \A k \in IDs \ {id} : Miss(i, ip).byID[k] = i.byID[k]
  BY <1>1, <1>7 DEF Inventory
<1> QED
  BY <1>2, <1>6, <1>7, <1>8

-----------------------------------------------------------------------------

LEMMA LoopInitInv == LoopInit => IInv
<1> SUFFICES ASSUME LoopInit PROVE IInv
  OBVIOUS
<1>1. LoopTypeOK
  BY NumIPsAssumption DEF LoopInit, LoopTypeOK, EmptyInventory, Inventory, Sightings
<1> QED
  BY <1>1 DEF LoopInit, IInv, IndexConsistent, IndexFollows, ActiveSoFar, DownSoFar, EmptyInventory

\* A discovered host at the cursor.
LEMMA ActiveStep == ASSUME IInv, RecordActive PROVE IInv'
<1> DEFINE s  == batch[cursor]
           id == RecordID(cursor, s)
<1>1. /\ known \in Inventory /\ cursor \in IPs /\ s \in Sightings
      /\ known' = Sight(known, cursor, s) /\ pass = "active"
      /\ occupant' = [occupant EXCEPT ![cursor] = id]
      /\ batch' = batch /\ pass' = pass /\ cursor' = cursor + 1
  BY NumIPsAssumption DEF IInv, LoopTypeOK, RecordActive, IPs
<1>2. /\ known' \in Inventory
      /\ known'.byID[id] = ToDeviceRecord(cursor, s)
      /\ \A k \in IDs \ {id} : known'.byID[k] = known.byID[k]
      /\ known'.idByIP[cursor] = id
      /\ \A a \in IPs \ {cursor} :
           \/ known'.idByIP[a] = NoID
           \/ /\ known'.idByIP[a] = known.idByIP[a]
              /\ known.byID[id] # NoRecord => known.byID[id].ip # a
      /\ known'.active = known.active \cup {id}
      /\ known'.reported = known.reported \cup {id}
  BY <1>1, SightFacts
<1>3. /\ ToDeviceRecord(cursor, s).id = id /\ ToDeviceRecord(cursor, s).ip = cursor
      /\ ToDeviceRecord(cursor, s) # NoRecord /\ id \in IDs /\ id # NoID
  BY <1>1, RecordFacts
<1>4. LoopTypeOK'
  BY <1>1, <1>2, <1>3, NumIPsAssumption DEF IInv, LoopTypeOK, IPs
<1>5. IndexConsistent'
  BY <1>2, <1>3 DEF IInv, LoopTypeOK, Inventory, IndexConsistent
<1>6. IndexFollows'
  BY <1>1, <1>2, <1>3 DEF IInv, LoopTypeOK, IndexFollows
<1>7. ActiveSoFar'
  BY <1>1, <1>2 DEF IInv, LoopTypeOK, Inventory, ActiveSoFar, RecordActive
<1>8. DownSoFar'
  BY <1>1, <1>2 DEF IInv, DownSoFar
<1> QED
  BY <1>4, <1>5, <1>6, <1>7, <1>8 DEF IInv

\* A silent address at the cursor.
LEMMA SilentStep == ASSUME IInv, RecordSilent PROVE IInv'
<1> DEFINE id == known.idByIP[cursor]
<1>1. /\ known \in Inventory /\ cursor \in IPs /\ batch[cursor] = Silent
      /\ known' = Miss(known, cursor) /\ pass = "silent"
      /\ batch' = batch /\ pass' = pass /\ cursor' = cursor + 1 /\ occupant' = occupant
  BY NumIPsAssumption DEF IInv, LoopTypeOK, RecordSilent, IPs, Discovered
<1>2. CASE id = NoID \/ id \in known.active
  <2>1. known' = known
    BY <1>1, <1>2 DEF Miss
  <2> QED
    BY <1>1, <2>1, NumIPsAssumption
       DEF IInv, LoopTypeOK, IPs, IndexConsistent, IndexFollows, ActiveSoFar, DownSoFar
<1>3. CASE id # NoID /\ id \notin known.active
  <2>1. /\ known.byID[id] # NoRecord /\ known.byID[id].id = id /\ known.byID[id].ip = cursor
        /\ occupant[cursor] = id /\ id \in IDs /\ known.byID[id] \in DeviceRecord
    BY <1>1, <1>3 DEF IInv, LoopTypeOK, Inventory, IndexConsistent, IndexFollows
  <2>2. /\ known' \in Inventory
        /\ known'.byID[id] = [known.byID[id] EXCEPT !.status = "down"]
        /\ known'.byID[id] \in DeviceRecord
        /\ \A k \in IDs \ {id} : known'.byID[k] = known.byID[k]
        /\ known'.idByIP = known.idByIP
        /\ known'.active = known.active
        /\ known'.reported = known.reported \cup {id}
    BY <1>1, <1>3, <2>1, MissFacts
  <2>3. /\ known'.byID[id].status = "down" /\ known'.byID[id].id = id
        /\ known'.byID[id].ip = cursor /\ known'.byID[id] # NoRecord
    BY <2>1, <2>2, SentinelsAssumption DEF DeviceRecord
  <2>4. LoopTypeOK'
    BY <1>1, <2>2, NumIPsAssumption DEF IInv, LoopTypeOK, IPs
  <2>5. IndexConsistent' /\ IndexFollows'
    <3> HIDE DEF id
    <3>1. IndexFollows'
      BY <1>1, <2>2 DEF IInv, IndexFollows
    <3>2. ASSUME NEW ip \in IPs, known.idByIP[ip] # NoID
          PROVE  LET k == known.idByIP[ip] IN
                 known'.byID[k] # NoRecord /\ known'.byID[k].id = k /\ known'.byID[k].ip = ip
      <4>1. known.idByIP[ip] \in IDs
        BY <1>1, <3>2 DEF Inventory
      <4>2. CASE known.idByIP[ip] = id
        BY <2>1, <2>3, <3>2, <4>2 DEF IInv, IndexConsistent
      <4>3. CASE known.idByIP[ip] # id
        BY <2>2, <3>2, <4>1, <4>3 DEF IInv, IndexConsistent
      <4> QED
        BY <4>2, <4>3
    <3> QED
      BY <2>2, <3>1, <3>2 DEF IndexConsistent
  <2>6. ActiveSoFar'
    BY <1>1, <1>3, <2>2 DEF IInv, LoopTypeOK, Inventory, ActiveSoFar
  <2>7. DownSoFar'
    <3> HIDE DEF id
    <3>1. ASSUME NEW k \in known'.reported \ known'.active
          PROVE  /\ known'.byID[k] # NoRecord
                 /\ known'.byID[k].status = "down"
                 /\ batch[known'.byID[k].ip] = Silent
                 /\ occupant[known'.byID[k].ip] = k
      <4>1. CASE k = id
        BY <1>1, <2>1, <2>3, <4>1
      <4>2. CASE k # id
        <5>1. k \in known.reported \ known.active /\ k \in IDs
          BY <1>1, <2>2, <4>2 DEF Inventory
        <5> QED
          BY <2>2, <4>2, <5>1 DEF IInv, DownSoFar
      <4> QED
        BY <4>1, <4>2
    <3> QED
      BY <1>1, <3>1 DEF DownSoFar
  <2> QED
    BY <2>4, <2>5, <2>6, <2>7 DEF IInv
<1> QED
  BY <1>2, <1>3

LEMMA LoopNextInv == IInv /\ [LoopNext]_loopVars => IInv'
<1> SUFFICES ASSUME IInv, [LoopNext]_loopVars PROVE IInv'
  OBVIOUS
<1>1. CASE Scan
  <2>1. /\ known' \in Inventory /\ known'.byID = known.byID /\ known'.idByIP = known.idByIP
        /\ known'.active = {} /\ known'.reported = {}
    BY <1>1 DEF Scan, NewBatch, IInv, LoopTypeOK, Inventory
  <2>2. LoopTypeOK'
    BY <1>1, <2>1, NumIPsAssumption DEF Scan, Observations, IInv, LoopTypeOK
  <2> QED
    BY <1>1, <2>1, <2>2
       DEF Scan, IInv, IndexConsistent, IndexFollows, ActiveSoFar, DownSoFar
<1>2. CASE RecordActive
  BY <1>2, ActiveStep
<1>3. CASE RecordSilent
  BY <1>3, SilentStep
<1>4. CASE SkipHost
  BY <1>4, NumIPsAssumption
     DEF SkipHost, IInv, LoopTypeOK, IndexConsistent, IndexFollows, ActiveSoFar, DownSoFar
<1>5. CASE EndPass
  BY <1>5, NumIPsAssumption
     DEF EndPass, IInv, LoopTypeOK, IndexConsistent, IndexFollows, ActiveSoFar, DownSoFar
<1>6. CASE UNCHANGED loopVars
  BY <1>6 DEF loopVars, IInv, LoopTypeOK, IndexConsistent, IndexFollows, ActiveSoFar, DownSoFar
<1> QED
  BY <1>1, <1>2, <1>3, <1>4, <1>5, <1>6 DEF LoopNext

-----------------------------------------------------------------------------

THEOREM Invariance == LoopSpec => []IInv
BY LoopInitInv, LoopNextInv, PTL DEF LoopSpec

\* The inventory is well typed in every reachable state.
THEOREM TypeCorrect == LoopSpec => []LoopTypeOK
BY Invariance, PTL DEF IInv

\* The two maps of inventoryState never disagree.
THEOREM IndexStaysConsistent == LoopSpec => []IndexConsistent
BY Invariance, PTL DEF IInv

\* The silent loop never overwrites a device that the active loop recorded.
THEOREM ActiveKept == LoopSpec => []ActiveNeverOverwritten
<1>1. IInv => ActiveNeverOverwritten
  BY DEF IInv, ActiveSoFar, ActiveNeverOverwritten
<1> QED
  BY Invariance, <1>1, PTL

\* A down report is about the device last discovered at an address that this
\* scan found silent.
THEOREM DownIsGrounded == LoopSpec => []DownIsAboutTheOccupant
<1>1. IInv => DownIsAboutTheOccupant
  BY DEF IInv, DownSoFar, DownIsAboutTheOccupant
<1> QED
  BY Invariance, <1>1, PTL

-----------------------------------------------------------------------------
(* One pass of records over the hosts, by induction.                       *)

LEMMA LeastOf == ASSUME NEW S, S \subseteq Nat, S # {} PROVE \E n \in S : \A m \in S : n <= m
<1>1. PICK n \in S : \A m \in S : <<m, n>> \notin OpToRel(<, Nat)
  BY NatLessThanWellFounded, WFMin
<1>2. \A m \in S : ~(m < n)
  BY <1>1 DEF OpToRel
<1> QED
  BY <1>2

\* Induction stated of a set, which the provers can use where they cannot
\* instantiate an operator.
LEMMA SetInduction ==
  ASSUME NEW S, 0 \in S, \A n \in Nat : n \in S => n + 1 \in S
  PROVE  Nat \subseteq S
<1> SUFFICES ASSUME Nat \ S # {} PROVE FALSE
  OBVIOUS
<1>1. PICK n \in Nat \ S : \A m \in Nat \ S : n <= m
  <2> DEFINE T == Nat \ S
  <2>1. T \subseteq Nat /\ T # {}
    OBVIOUS
  <2> HIDE DEF T
  <2>2. \E n \in T : \A m \in T : n <= m
    BY <2>1, LeastOf
  <2> QED
    BY <2>2 DEF T
<1>2. n # 0 /\ n - 1 \in Nat /\ n - 1 + 1 = n
  BY <1>1
<1>3. n - 1 \in S
  BY <1>1, <1>2
<1> QED
  BY <1>1, <1>2, <1>3

\* What one pass goes through, up to its n-th host.
Through(f, n, i, b, hosts) ==
  f = [k \in 0..n |-> IF k = 0 THEN i
                      ELSE IF k \in hosts THEN Recorded(f[k - 1], k, b[k]) ELSE f[k - 1]]

LEMMA PassGoesThrough ==
  ASSUME NEW i, NEW b, NEW hosts
  PROVE  \E f : Through(f, NumIPs, i, b, hosts) /\ Pass(i, b, hosts) = f[NumIPs]
<1> DEFINE S == {n \in Nat : \E f : Through(f, n, i, b, hosts)}
<1>1. 0 \in S
  <2>1. Through([k \in 0..0 |-> i], 0, i, b, hosts)
    BY DEF Through
  <2> QED
    BY <2>1
<1>2. ASSUME NEW n \in Nat, n \in S PROVE n + 1 \in S
  <2>1. PICK f : Through(f, n, i, b, hosts)
    BY <1>2
  <2> DEFINE last == IF n + 1 \in hosts THEN Recorded(f[n], n + 1, b[n + 1]) ELSE f[n]
             g == [k \in 0..(n + 1) |-> IF k = n + 1 THEN last ELSE f[k]]
             h == [k \in 0..(n + 1) |->
                     IF k = 0 THEN i
                     ELSE IF k \in hosts THEN Recorded(g[k - 1], k, b[k]) ELSE g[k - 1]]
  <2>2. ASSUME NEW k \in 0..(n + 1) PROVE g[k] = h[k]
    <3>1. CASE k = n + 1
      <4>1. k - 1 = n /\ k # 0 /\ g[n] = f[n]
        BY <3>1
      <4> QED
        BY <3>1, <4>1
    <3>2. CASE k # n + 1
      <4>1. k \in 0..n /\ g[k] = f[k]
        BY <3>2
      <4>2. k # 0 => k - 1 \in 0..(n + 1) /\ k - 1 # n + 1 /\ g[k - 1] = f[k - 1]
        BY <4>1
      <4> HIDE DEF g
      <4>3. f[k] = IF k = 0 THEN i
                   ELSE IF k \in hosts THEN Recorded(f[k - 1], k, b[k]) ELSE f[k - 1]
        BY <2>1, <4>1 DEF Through
      <4> QED
        BY <4>1, <4>2, <4>3
    <3> QED
      BY <3>1, <3>2
  <2>3. g = h
    BY <2>2
  <2>4. Through(g, n + 1, i, b, hosts)
    BY <2>3 DEF Through
  <2> QED
    BY <2>4
<1>3. Nat \subseteq S
  <2> HIDE DEF S
  <2> QED
    BY <1>1, <1>2, SetInduction
<1>4. \E f : Through(f, NumIPs, i, b, hosts)
  BY <1>3, NumIPsAssumption
<1> QED
  BY <1>4 DEF Pass, Through

\* What holds of the inventory a pass begins with, and is carried over each
\* host, holds of the inventory it ends with.  T is a set of inventories to
\* every number of hosts passed.
LEMMA PassRule ==
  ASSUME NEW i, NEW b, NEW hosts, NEW T, i \in T[0],
         \A k \in IPs : \A j \in T[k - 1] :
           (IF k \in hosts THEN Recorded(j, k, b[k]) ELSE j) \in T[k]
  PROVE  Pass(i, b, hosts) \in T[NumIPs]
<1>1. PICK f : Through(f, NumIPs, i, b, hosts) /\ Pass(i, b, hosts) = f[NumIPs]
  BY PassGoesThrough
<1> DEFINE S == {n \in Nat : n <= NumIPs => f[n] \in T[n]}
<1>2. 0 \in S
  <2>1. f[0] = i
    BY <1>1, NumIPsAssumption DEF Through
  <2> QED
    BY <2>1
<1>3. ASSUME NEW n \in Nat, n \in S PROVE n + 1 \in S
  <2> SUFFICES ASSUME n + 1 <= NumIPs PROVE f[n + 1] \in T[n + 1]
    OBVIOUS
  <2>1. f[n] \in T[n] /\ n + 1 \in IPs /\ n + 1 - 1 = n /\ n + 1 \in 0..NumIPs /\ n + 1 # 0
    BY <1>3, NumIPsAssumption DEF IPs
  <2>2. \A k \in 0..NumIPs :
          f[k] = IF k = 0 THEN i
                 ELSE IF k \in hosts THEN Recorded(f[k - 1], k, b[k]) ELSE f[k - 1]
    BY <1>1 DEF Through
  <2> QED
    BY <2>1, <2>2
<1>4. Nat \subseteq S
  <2> HIDE DEF S
  <2> QED
    BY <1>2, <1>3, SetInduction
<1> QED
  BY <1>1, <1>4, NumIPsAssumption

-----------------------------------------------------------------------------
(* What records makes of an inventory.                                     *)

\* The two maps agree, and a record is kept under its own id.
MapsAgree(i) ==
  /\ \A ip \in IPs : i.idByIP[ip] # NoID =>
       i.byID[i.idByIP[ip]] # NoRecord /\ i.byID[i.idByIP[ip]].ip = ip
  /\ \A id \in IDs : i.byID[id] # NoRecord => i.byID[id].id = id

\* Every id that is reported has a record.
Reports(i) ==
  /\ IsFiniteSet(i.reported) /\ i.active \subseteq i.reported
  /\ \A id \in i.reported : i.byID[id] # NoRecord

\* An inventory j that records has reached from i: it is one, and only what is
\* reported differs from what was kept.
Reached(i, j) ==
  /\ j \in Inventory /\ MapsAgree(j) /\ Reports(j)
  /\ \A id \in IDs \ j.reported : j.byID[id] = i.byID[id]

LEMMA SightReaches ==
  ASSUME NEW i, NEW j, Reached(i, j), NEW ip \in IPs, NEW s \in Sightings
  PROVE  Reached(i, Sight(j, ip, s))
<1> DEFINE id == RecordID(ip, s)
           t  == Sight(j, ip, s)
<1>1. /\ t \in Inventory
      /\ t.byID[id] = ToDeviceRecord(ip, s)
      /\ \A k \in IDs \ {id} : t.byID[k] = j.byID[k]
      /\ t.idByIP[ip] = id
      /\ \A a \in IPs \ {ip} :
           \/ t.idByIP[a] = NoID
           \/ t.idByIP[a] = j.idByIP[a] /\ (j.byID[id] # NoRecord => j.byID[id].ip # a)
      /\ t.active = j.active \cup {id}
      /\ t.reported = j.reported \cup {id}
  BY SightFacts DEF Reached
<1>2. /\ ToDeviceRecord(ip, s).id = id /\ ToDeviceRecord(ip, s).ip = ip
      /\ ToDeviceRecord(ip, s) # NoRecord /\ id \in IDs
  BY RecordFacts
<1> HIDE DEF t, id
<1>3. MapsAgree(t)
  <2>1. ASSUME NEW a \in IPs, t.idByIP[a] # NoID
        PROVE  t.byID[t.idByIP[a]] # NoRecord /\ t.byID[t.idByIP[a]].ip = a
    <3>1. CASE a = ip
      BY <1>1, <1>2, <3>1
    <3>2. CASE a # ip
      <4>1. t.idByIP[a] = j.idByIP[a] /\ t.idByIP[a] \in IDs
        BY <1>1, <2>1, <3>2 DEF Inventory
      <4>2. j.byID[j.idByIP[a]] # NoRecord /\ j.byID[j.idByIP[a]].ip = a
        BY <2>1, <4>1 DEF Reached, MapsAgree
      <4>3. t.idByIP[a] # id
        BY <1>1, <2>1, <3>2, <4>1, <4>2
      <4> QED
        BY <1>1, <4>1, <4>2, <4>3
    <3> QED
      BY <3>1, <3>2
  <2>2. \A k \in IDs : t.byID[k] # NoRecord => t.byID[k].id = k
    BY <1>1, <1>2 DEF Reached, MapsAgree
  <2> QED
    BY <2>1, <2>2 DEF MapsAgree
<1>4. Reports(t)
  <2>1. IsFiniteSet(t.reported)
    BY <1>1, FS_AddElement DEF Reached, Reports
  <2>2. \A k \in t.reported : t.byID[k] # NoRecord
    BY <1>1, <1>2 DEF Reached, Reports, Inventory
  <2> QED
    BY <1>1, <2>1, <2>2 DEF Reached, Reports
<1>5. \A k \in IDs \ t.reported : t.byID[k] = i.byID[k]
  BY <1>1 DEF Reached
<1> QED
  BY <1>1, <1>3, <1>4, <1>5 DEF Reached, t

LEMMA MissReaches ==
  ASSUME NEW i, NEW j, Reached(i, j), NEW ip \in IPs
  PROVE  /\ Reached(i, Miss(j, ip)) /\ Miss(j, ip).active = j.active
         /\ \A k \in j.active : Miss(j, ip).byID[k] = j.byID[k]
<1> DEFINE id == j.idByIP[ip]
           t  == Miss(j, ip)
<1>1. CASE id = NoID \/ id \in j.active
  BY <1>1 DEF Miss
<1>2. CASE id # NoID /\ id \notin j.active
  <2>1. id \in IDs /\ j.byID[id] # NoRecord /\ j.byID[id].ip = ip /\ j.byID[id].id = id
        /\ j.byID[id] \in DeviceRecord
    BY <1>2 DEF Reached, MapsAgree, Inventory
  <2>2. /\ t \in Inventory
        /\ t.byID[id] = [j.byID[id] EXCEPT !.status = "down"]
        /\ t.byID[id] \in DeviceRecord
        /\ \A k \in IDs \ {id} : t.byID[k] = j.byID[k]
        /\ t.idByIP = j.idByIP
        /\ t.active = j.active
        /\ t.reported = j.reported \cup {id}
    BY <1>2, <2>1, MissFacts DEF Reached
  <2>3. t.byID[id].id = id /\ t.byID[id].ip = ip /\ t.byID[id] # NoRecord
    BY <2>1, <2>2, SentinelsAssumption DEF DeviceRecord
  <2> HIDE DEF t, id
  <2>4. MapsAgree(t)
    <3>1. ASSUME NEW a \in IPs, t.idByIP[a] # NoID
          PROVE  t.byID[t.idByIP[a]] # NoRecord /\ t.byID[t.idByIP[a]].ip = a
      <4>1. /\ j.byID[j.idByIP[a]] # NoRecord /\ j.byID[j.idByIP[a]].ip = a
            /\ j.idByIP[a] \in IDs
        BY <2>2, <3>1 DEF Reached, MapsAgree, Inventory
      <4>2. CASE j.idByIP[a] = id
        BY <2>1, <2>2, <2>3, <4>1, <4>2
      <4>3. CASE j.idByIP[a] # id
        BY <2>2, <4>1, <4>3
      <4> QED
        BY <4>2, <4>3
    <3>2. \A k \in IDs : t.byID[k] # NoRecord => t.byID[k].id = k
      BY <2>2, <2>3 DEF Reached, MapsAgree
    <3> QED
      BY <3>1, <3>2 DEF MapsAgree
  <2>5. Reports(t)
    <3>1. IsFiniteSet(t.reported)
      BY <2>2, FS_AddElement DEF Reached, Reports
    <3>2. \A k \in t.reported : t.byID[k] # NoRecord
      BY <2>2, <2>3 DEF Reached, Reports, Inventory
    <3> QED
      BY <2>2, <3>1, <3>2 DEF Reached, Reports
  <2>6. \A k \in IDs \ t.reported : t.byID[k] = i.byID[k]
    BY <2>2 DEF Reached
  <2>7. \A k \in j.active : t.byID[k] = j.byID[k]
    BY <1>2, <2>2 DEF Reached, Inventory, id
  <2> QED
    BY <2>2, <2>4, <2>5, <2>6, <2>7 DEF Reached, t
<1> QED
  BY <1>1, <1>2

\* The id of an answering host is reported up once its address was passed.
UpSoFar(j, b, ips) ==
  \A ip \in ips : b[ip] \notin {Silent, Named} =>
    RecordID(ip, b[ip]) \in j.active /\ j.byID[RecordID(ip, b[ip])].status = "up"

LEMMA RecordsReach ==
  ASSUME NEW i \in Inventory, MapsAgree(i), NEW d \in SUBSET IPs, NEW b \in [d -> Sightings]
  PROVE  Reached(i, Records(i, b)) /\ UpSoFar(Records(i, b), b, d)
<1> DEFINE found == {ip \in d : Discovered(b[ip])}
           start == NewBatch(i)
           half  == Pass(start, b, found)
           T == [k \in 0..NumIPs |->
                   {j \in Inventory : Reached(i, j) /\ UpSoFar(j, b, d \cap 1..k)}]
           U == [k \in 0..NumIPs |->
                   {j \in Inventory : Reached(i, j) /\ UpSoFar(j, b, d)}]
<1>1. Records(i, b) = Pass(half, b, d \ found)
  BY DEF Records
<1>2. start \in T[0]
  <2>1. /\ start \in Inventory /\ start.byID = i.byID /\ start.idByIP = i.idByIP
        /\ start.active = {} /\ start.reported = {}
    BY DEF NewBatch, Inventory
  <2>2. Reached(i, start)
    BY <2>1, FS_EmptySet DEF Reached, MapsAgree, Reports
  <2>3. UpSoFar(start, b, d \cap 1..0)
    BY DEF UpSoFar
  <2> QED
    BY <2>1, <2>2, <2>3, NumIPsAssumption
<1>3. ASSUME NEW k \in IPs, NEW j \in T[k - 1]
      PROVE  (IF k \in found THEN Recorded(j, k, b[k]) ELSE j) \in T[k]
  <2>1. k \in 0..NumIPs /\ k - 1 \in 0..NumIPs /\ 1..k = 1..(k - 1) \cup {k}
    BY NumIPsAssumption DEF IPs
  <2>2. j \in Inventory /\ Reached(i, j) /\ UpSoFar(j, b, d \cap 1..(k - 1))
    BY <1>3, <2>1
  <2>3. CASE k \in found
    <3> DEFINE id == RecordID(k, b[k])
               t  == Sight(j, k, b[k])
    <3>1. k \in d /\ b[k] \in Sightings /\ Recorded(j, k, b[k]) = t
      BY <2>3 DEF Recorded
    <3>2. Reached(i, t)
      BY <2>2, <3>1, SightReaches
    <3>3. /\ t.byID[id] = ToDeviceRecord(k, b[k])
          /\ \A n \in IDs \ {id} : t.byID[n] = j.byID[n]
          /\ t.active = j.active \cup {id}
      BY <2>2, <3>1, SightFacts
    <3>4. b[k] \notin {Silent, Named} => t.byID[id].status = "up"
      BY <3>3 DEF ToDeviceRecord
    <3>5. ASSUME NEW ip \in d \cap 1..(k - 1), b[ip] \notin {Silent, Named}
          PROVE  RecordID(ip, b[ip]) \in t.active /\ t.byID[RecordID(ip, b[ip])].status = "up"
      <4>1. RecordID(ip, b[ip]) \in j.active /\ j.byID[RecordID(ip, b[ip])].status = "up"
        BY <2>2, <3>5 DEF UpSoFar
      <4>2. RecordID(ip, b[ip]) \in IDs
        BY RecordFacts
      <4>3. CASE RecordID(ip, b[ip]) = id
        <5>1. ip # k /\ ip \in 1..NumIPs /\ k \in 1..NumIPs
          BY <2>1 DEF IPs
        <5>2. b[k] \in Macs
          BY <4>3, <5>1, MacsAssumption DEF RecordID
        <5>3. b[k] \notin {Silent, Named}
          BY <5>2, SightingsAssumption
        <5> QED
          BY <3>3, <3>4, <4>3, <5>3
      <4>4. CASE RecordID(ip, b[ip]) # id
        BY <3>3, <4>1, <4>2, <4>4
      <4> QED
        BY <4>3, <4>4
    <3>6. UpSoFar(t, b, d \cap 1..k)
      <4> HIDE DEF t
      <4>1. ASSUME NEW ip \in d \cap 1..k, b[ip] \notin {Silent, Named}
            PROVE  RecordID(ip, b[ip]) \in t.active /\ t.byID[RecordID(ip, b[ip])].status = "up"
        <5>1. CASE ip = k
          BY <3>3, <3>4, <4>1, <5>1
        <5>2. CASE ip # k
          BY <2>1, <3>5, <4>1, <5>2
        <5> QED
          BY <5>1, <5>2
      <4> QED
        BY <4>1 DEF UpSoFar
    <3> HIDE DEF t
    <3> QED
      BY <2>1, <2>3, <3>1, <3>2, <3>6 DEF Reached
  <2>4. CASE k \notin found
    <3>1. UpSoFar(j, b, d \cap 1..k)
      BY <2>1, <2>2, <2>4 DEF UpSoFar, Discovered
    <3> QED
      BY <2>1, <2>2, <2>4, <3>1
  <2> QED
    BY <2>3, <2>4
<1>4. half \in T[NumIPs]
  <2> HIDE DEF T, found, start
  <2> QED
    BY <1>2, <1>3, PassRule
<1>5. half \in U[0]
  <2>1. d \cap 1..NumIPs = d
    BY DEF IPs
  <2> HIDE DEF half
  <2> QED
    BY <1>4, <2>1, NumIPsAssumption
<1>6. ASSUME NEW k \in IPs, NEW j \in U[k - 1]
      PROVE  (IF k \in d \ found THEN Recorded(j, k, b[k]) ELSE j) \in U[k]
  <2>1. k \in 0..NumIPs /\ k - 1 \in 0..NumIPs
    BY NumIPsAssumption DEF IPs
  <2>2. j \in Inventory /\ Reached(i, j) /\ UpSoFar(j, b, d)
    BY <1>6, <2>1
  <2>3. CASE k \in d \ found
    <3> DEFINE t == Miss(j, k)
    <3>1. Recorded(j, k, b[k]) = t
      BY <2>3 DEF Recorded
    <3>2. Reached(i, t) /\ t.active = j.active /\ \A n \in j.active : t.byID[n] = j.byID[n]
      BY <2>2, MissReaches
    <3> HIDE DEF t
    <3>3. UpSoFar(t, b, d)
      BY <2>2, <3>2 DEF UpSoFar
    <3> QED
      BY <2>1, <2>3, <3>1, <3>2, <3>3 DEF Reached
  <2>4. CASE k \notin d \ found
    BY <2>1, <2>2, <2>4
  <2> QED
    BY <2>3, <2>4
<1>7. Records(i, b) \in U[NumIPs]
  <2> HIDE DEF U, found, half
  <2> QED
    BY <1>1, <1>5, <1>6, PassRule
<1> QED
  BY <1>7, NumIPsAssumption

-----------------------------------------------------------------------------
(* The sequences and numbers a push is made with.                          *)

LEMMA SetToSeqFacts ==
  ASSUME NEW S, IsFiniteSet(S)
  PROVE  /\ SetToSeq(S) \in Seq(S)
         /\ \A x \in S : \E k \in DOMAIN SetToSeq(S) : SetToSeq(S)[k] = x
<1> DEFINE n == Cardinality(S)
           f == SetToSeq(S)
<1>1. n \in Nat /\ ExistsBijection(1..n, S)
  BY FS_CardinalityType
<1>2. PICK g : g \in Bijection(1..n, S)
  BY <1>1 DEF ExistsBijection
<1>3. g \in [1..n -> S] /\ \A a, c \in 1..n : g[a] = g[c] => a = c
  BY <1>2, Fun_BijectionProperties
<1>4. \E h \in [1..n -> S] : IsInjective(h)
  BY <1>3 DEF IsInjective
<1>5. f \in [1..n -> S] /\ IsInjective(f)
  BY <1>4 DEF SetToSeq
<1> HIDE DEF f, n
<1>6. f \in Injection(1..n, S)
  BY <1>5 DEF Injection
<1>7. Cardinality(1..n) = n
  BY <1>1, FS_Interval
<1>8. f \in Surjection(1..n, S)
  BY <1>6, <1>7, FS_Injection DEF n
<1>9. \A x \in S : \E k \in 1..n : f[k] = x
  BY <1>8 DEF Surjection
<1>10. f \in Seq(S) /\ DOMAIN f = 1..n
  BY <1>1, <1>5
<1> QED
  BY <1>9, <1>10 DEF f

LEMMA GreatestOf ==
  ASSUME NEW n \in Nat, NEW S, S \subseteq 1..n, S # {}
  PROVE  Max(S) \in S /\ \A x \in S : x <= Max(S)
<1> DEFINE R == {m \in Nat : \E x \in S : m = n - x}
<1>1. R \subseteq Nat /\ R # {}
  <2>1. PICK x \in S : TRUE
    OBVIOUS
  <2>2. n - x \in Nat
    BY <2>1
  <2> QED
    BY <2>1, <2>2
<1>2. PICK m \in R : \A k \in R : m <= k
  <2> HIDE DEF R
  <2> QED
    BY <1>1, LeastOf
<1>3. PICK x \in S : m = n - x
  BY <1>2
<1>4. \A y \in S : x >= y
  BY <1>2, <1>3
<1> QED
  BY <1>3, <1>4 DEF Max

\* What mergeRecords makes: the fresh records, all of them, and the held ones
\* of which no fresh one was made; no device is left out.
LEMMA MergeFacts ==
  ASSUME NEW held \in Seq(DeviceRecord), NEW fresh, fresh \subseteq DeviceRecord,
         IsFiniteSet(fresh), \A f, g \in fresh : f.id = g.id => f = g
  PROVE  /\ MergeRecords(held, fresh) \in Seq(DeviceRecord)
         /\ \A k \in DOMAIN MergeRecords(held, fresh) :
              \/ MergeRecords(held, fresh)[k] \in fresh
              \/ \E n \in DOMAIN held :
                   /\ MergeRecords(held, fresh)[k] = held[n]
                   /\ \A f \in fresh : f.id # held[n].id
         /\ \A f \in fresh :
              \E k \in DOMAIN MergeRecords(held, fresh) : MergeRecords(held, fresh)[k] = f
         /\ \A n \in DOMAIN held :
              \E k \in DOMAIN MergeRecords(held, fresh) :
                MergeRecords(held, fresh)[k].id = held[n].id
<1> DEFINE newest(r) == IF \E f \in fresh : f.id = r.id
                        THEN CHOOSE f \in fresh : f.id = r.id ELSE r
           front == [k \in DOMAIN held |-> newest(held[k])]
           back  == Added(held, fresh)
           S     == {r \in fresh : r.id \notin IDsOf(held)}
           m     == MergeRecords(held, fresh)
<1>1. m = front \o back
  BY DEF MergeRecords
<1>2. /\ back \in Seq(S)
      /\ \A x \in S : \E k \in DOMAIN back : back[k] = x
  <2>1. IsFiniteSet(S)
    BY FS_Subset
  <2> HIDE DEF S
  <2> QED
    BY <2>1, SetToSeqFacts DEF Added, S
<1>3. \A n \in DOMAIN held :
        /\ front[n].id = held[n].id /\ front[n] \in DeviceRecord
        /\ \/ front[n] \in fresh
           \/ front[n] = held[n] /\ \A f \in fresh : f.id # held[n].id
        /\ \A f \in fresh : f.id = held[n].id => front[n] = f
  <2> SUFFICES ASSUME NEW n \in DOMAIN held
               PROVE  /\ newest(held[n]).id = held[n].id /\ newest(held[n]) \in DeviceRecord
                      /\ \/ newest(held[n]) \in fresh
                         \/ newest(held[n]) = held[n] /\ \A f \in fresh : f.id # held[n].id
                      /\ \A f \in fresh : f.id = held[n].id => newest(held[n]) = f
    BY Zenon
  <2>1. held[n] \in DeviceRecord
    OBVIOUS
  <2> QED
    BY <2>1
<1>4. front \in Seq(DeviceRecord) /\ Len(front) = Len(held) /\ DOMAIN front = 1..Len(held)
  <2>1. DOMAIN held = 1..Len(held) /\ Len(held) \in Nat
    OBVIOUS
  <2>2. front \in [1..Len(held) -> DeviceRecord]
    BY <1>3, <2>1
  <2> HIDE DEF front
  <2> QED
    BY <2>1, <2>2
<1> HIDE DEF newest, front, back, m
<1>5. back \in Seq(DeviceRecord) /\ DOMAIN back = 1..Len(back) /\ Len(back) \in Nat
  BY <1>2
<1>6. /\ m \in Seq(DeviceRecord)
      /\ Len(m) = Len(front) + Len(back) /\ DOMAIN m = 1..(Len(front) + Len(back))
      /\ \A k \in DOMAIN m : m[k] = IF k <= Len(front) THEN front[k] ELSE back[k - Len(front)]
  BY <1>1, <1>4, <1>5, ConcatProperties
<1>7. \A k \in DOMAIN front : k \in DOMAIN m /\ m[k] = front[k]
  BY <1>4, <1>5, <1>6
<1>8. \A k \in DOMAIN back : k + Len(front) \in DOMAIN m /\ m[k + Len(front)] = back[k]
  <2> SUFFICES ASSUME NEW k \in DOMAIN back
               PROVE  k + Len(front) \in DOMAIN m /\ m[k + Len(front)] = back[k]
    OBVIOUS
  <2>1. /\ k \in 1..Len(back) /\ k + Len(front) \in DOMAIN m
        /\ ~(k + Len(front) <= Len(front)) /\ k + Len(front) - Len(front) = k
    BY <1>4, <1>5, <1>6
  <2> QED
    BY <1>6, <2>1
<1>9. ASSUME NEW k \in DOMAIN m
      PROVE  \/ m[k] \in fresh
             \/ \E n \in DOMAIN held : m[k] = held[n] /\ \A f \in fresh : f.id # held[n].id
  <2>1. CASE k <= Len(front)
    <3>1. k \in DOMAIN held /\ m[k] = front[k]
      BY <1>4, <1>6, <2>1
    <3> QED
      BY <1>3, <3>1
  <2>2. CASE ~(k <= Len(front))
    <3>1. k - Len(front) \in DOMAIN back /\ m[k] = back[k - Len(front)]
      BY <1>4, <1>5, <1>6, <2>2
    <3> QED
      BY <1>2, <3>1
  <2> QED
    BY <2>1, <2>2
<1>10. ASSUME NEW f \in fresh PROVE \E k \in DOMAIN m : m[k] = f
  <2>1. CASE \E n \in DOMAIN held : held[n].id = f.id
    BY <1>3, <1>4, <1>7, <2>1
  <2>2. CASE ~\E n \in DOMAIN held : held[n].id = f.id
    <3>1. f \in S
      BY <2>2 DEF IDsOf
    <3>2. PICK k \in DOMAIN back : back[k] = f
      BY <1>2, <3>1
    <3> QED
      BY <1>8, <3>2
  <2> QED
    BY <2>1, <2>2
<1>11. ASSUME NEW n \in DOMAIN held PROVE \E k \in DOMAIN m : m[k].id = held[n].id
  BY <1>3, <1>4, <1>7
<1> QED
  BY <1>6, <1>9, <1>10, <1>11 DEF m
-----------------------------------------------------------------------------
(* What the probe owes its backend.                                        *)

\* A queued record is the latest one made of its device, unless a newer one is
\* about to take its place.
QueueIsLatest ==
  \A k \in DOMAIN pending :
    \/ pending[k] = inv.byID[pending[k].id]
    \/ pc = "send" /\ pending[k].id \in inv.reported

\* The latest record of a device was stored, is queued, or is about to be sent.
Owed ==
  \A id \in IDs : inv.byID[id] # NoRecord =>
    \/ table[id] = inv.byID[id]
    \/ \E k \in DOMAIN pending : pending[k] = inv.byID[id]
    \/ pc = "send" /\ id \in inv.reported

\* What answered the whole scan at hand is reported up.
AnsweringIsUp ==
  pc = "send" /\ ~cancelled =>
    \A id \in answering : id \in inv.reported /\ inv.byID[id].status = "up"

Sequenced ==
  pending \in Seq(DeviceRecord) /\ runs \in Seq([IPs -> DeviceRecord \cup {NoRecord}])

PInv ==
  /\ TypeOK /\ Sequenced /\ MapsAgree(inv) /\ Reports(inv)
  /\ QueueIsLatest /\ Owed /\ AnsweringIsUp

LEMMA InitPInv == Init => PInv
<1> SUFFICES ASSUME Init PROVE PInv
  OBVIOUS
<1>1. TypeOK
  <2>1. inv \in Inventory
    BY DEF Init, EmptyInventory, Inventory
  <2>2. /\ net \in Networks /\ file \in Ranges \cup {Torn} /\ pc = "start" /\ cancelled \in BOOLEAN
        /\ active \in Ranges /\ answering \subseteq IDs
        /\ table \in [IDs -> DeviceRecord \cup {NoRecord}]
    BY DEF Init
  <2>3. backoff \in 0 .. RetryMaxDelay /\ Len(runs) = 0 /\ Len(runs) <= Keep
    BY ProbeAssumption DEF Init
  <2>4. pending = <<>> /\ runs = <<>>
    BY DEF Init
  <2> QED
    BY <2>1, <2>2, <2>3, <2>4 DEF TypeOK
<1>2. MapsAgree(inv) /\ Reports(inv)
  BY FS_EmptySet DEF Init, EmptyInventory, MapsAgree, Reports
<1> QED
  BY <1>1, <1>2 DEF Init, PInv, Sequenced, QueueIsLatest, Owed, AnsweringIsUp, EmptyInventory

\* The fresh records are those of the reported devices, one of each.
LEMMA FreshFacts ==
  ASSUME PInv
  PROVE  /\ Fresh(inv) \subseteq DeviceRecord /\ IsFiniteSet(Fresh(inv))
         /\ \A r \in Fresh(inv) : r.id \in inv.reported /\ r = inv.byID[r.id]
         /\ \A id \in inv.reported : inv.byID[id] \in Fresh(inv) /\ inv.byID[id].id = id
<1>1. /\ inv \in Inventory
      /\ \A id \in inv.reported :
           id \in IDs /\ inv.byID[id] \in DeviceRecord /\ inv.byID[id].id = id
  BY DEF PInv, TypeOK, Inventory, Reports, MapsAgree
<1>2. IsFiniteSet(Fresh(inv))
  <2> DEFINE f == [id \in inv.reported |-> inv.byID[id]]
  <2>1. f \in Surjection(inv.reported, Fresh(inv))
    BY DEF Surjection, Fresh
  <2> QED
    BY <2>1, FS_Surjection DEF PInv, Reports
<1> QED
  BY <1>1, <1>2 DEF Fresh

\* Everything a push carries is the latest record of its device, and what is
\* reported or was queued is in it.
LEMMA BatchFacts ==
  ASSUME PInv
  PROVE  /\ Batch \in Seq(DeviceRecord)
         /\ \A k \in DOMAIN Batch : Batch[k] \in DeviceRecord
         /\ \A id \in inv.reported : \E k \in DOMAIN Batch : Batch[k].id = id
         /\ \A n \in DOMAIN pending : \E k \in DOMAIN Batch : Batch[k].id = pending[n].id
         /\ \A k \in DOMAIN Batch : Batch[k] = inv.byID[Batch[k].id]
<1>1. pending \in Seq(DeviceRecord)
  BY DEF PInv, Sequenced
<1>2. /\ Fresh(inv) \subseteq DeviceRecord /\ IsFiniteSet(Fresh(inv))
      /\ \A f, g \in Fresh(inv) : f.id = g.id => f = g
  BY FreshFacts
<1>3. /\ Batch \in Seq(DeviceRecord)
      /\ \A k \in DOMAIN Batch :
           \/ Batch[k] \in Fresh(inv)
           \/ \E n \in DOMAIN pending :
                Batch[k] = pending[n] /\ \A f \in Fresh(inv) : f.id # pending[n].id
      /\ \A f \in Fresh(inv) : \E k \in DOMAIN Batch : Batch[k] = f
      /\ \A n \in DOMAIN pending : \E k \in DOMAIN Batch : Batch[k].id = pending[n].id
  BY <1>1, <1>2, MergeFacts DEF Batch
<1>4. \A id \in inv.reported : \E k \in DOMAIN Batch : Batch[k].id = id
  <2> TAKE id \in inv.reported
  <2>1. inv.byID[id] \in Fresh(inv) /\ inv.byID[id].id = id
    BY FreshFacts
  <2> QED
    BY <1>3, <2>1
<1>5. ASSUME NEW k \in DOMAIN Batch PROVE Batch[k] = inv.byID[Batch[k].id]
  <2>1. CASE Batch[k] \in Fresh(inv)
    BY <2>1, FreshFacts
  <2>2. ASSUME NEW n \in DOMAIN pending, Batch[k] = pending[n],
               \A f \in Fresh(inv) : f.id # pending[n].id
        PROVE  Batch[k] = inv.byID[Batch[k].id]
    <3>1. pending[n].id \notin inv.reported
      BY <2>2, FreshFacts
    <3> QED
      BY <2>2, <3>1 DEF PInv, QueueIsLatest
  <2> QED
    BY <1>3, <2>1, <2>2
<1>6. \A k \in DOMAIN Batch : Batch[k] \in DeviceRecord
  BY <1>3
<1> QED
  BY <1>3, <1>4, <1>5, <1>6

\* What a device is owed is in the push, or was stored before.
LEMMA OwedIsCarried ==
  ASSUME PInv, NEW id \in IDs, inv.byID[id] # NoRecord
  PROVE  \/ table[id] = inv.byID[id]
         \/ \E k \in DOMAIN Batch : Batch[k].id = id /\ Batch[k] = inv.byID[id]
<1>1. inv.byID[id].id = id
  BY DEF PInv, MapsAgree
<1>2. \/ table[id] = inv.byID[id]
      \/ \E k \in DOMAIN pending : pending[k] = inv.byID[id]
      \/ id \in inv.reported
  BY DEF PInv, Owed
<1> QED
  BY <1>1, <1>2, BatchFacts

\* A row the server stores is one of the records it received.
LEMMA RowFacts ==
  ASSUME NEW records \in Seq(DeviceRecord), NEW ip \in IPs
  PROVE  \/ RowsOf(records)[ip] = NoRecord
         \/ \E k \in DOMAIN records : RowsOf(records)[ip] = records[k]
<1> DEFINE at == {k \in DOMAIN records : records[k].ip = ip}
<1>1. RowsOf(records)[ip] = IF at = {} THEN NoRecord ELSE records[Max(at)]
  BY DEF RowsOf
<1>2. Len(records) \in Nat /\ at \subseteq 1..Len(records) /\ at \subseteq DOMAIN records
  OBVIOUS
<1>3. at # {} => Max(at) \in at
  <2> HIDE DEF at
  <2> QED
    BY <1>2, GreatestOf
<1> QED
  BY <1>1, <1>2, <1>3

\* An accepted push stores the latest record of every device in it, and its
\* rows are the last run of the server.
LEMMA AcceptFacts ==
  ASSUME PInv, Accept(Batch)
  PROVE  /\ table' \in [IDs -> DeviceRecord \cup {NoRecord}]
         /\ \A id \in IDs : \/ table'[id] = inv.byID[id]
                            \/ table'[id] = table[id] /\ \A k \in DOMAIN Batch : Batch[k].id # id
         /\ runs' \in Seq([IPs -> DeviceRecord \cup {NoRecord}]) /\ Len(runs') <= Keep
         /\ Last(runs') = RowsOf(Batch)
<1> DEFINE Rows == [IPs -> DeviceRecord \cup {NoRecord}]
           s == Append(runs, RowsOf(Batch))
<1>1. ASSUME NEW id \in IDs
      PROVE  /\ table'[id] \in DeviceRecord \cup {NoRecord}
             /\ \/ table'[id] = inv.byID[id]
                \/ table'[id] = table[id] /\ \A k \in DOMAIN Batch : Batch[k].id # id
  <2>1. table'[id] = IF id \in IDsOf(Batch)
                     THEN Batch[CHOOSE k \in DOMAIN Batch : Batch[k].id = id] ELSE table[id]
    BY DEF Accept
  <2>2. CASE id \in IDsOf(Batch)
    <3> DEFINE k == CHOOSE k \in DOMAIN Batch : Batch[k].id = id
    <3>1. k \in DOMAIN Batch /\ Batch[k].id = id
      BY <2>2 DEF IDsOf
    <3> HIDE DEF k
    <3>2. Batch[k] = inv.byID[id] /\ Batch[k] \in DeviceRecord
      BY <3>1, BatchFacts
    <3> QED
      BY <2>1, <2>2, <3>2 DEF k
  <2>3. CASE id \notin IDsOf(Batch)
    BY <2>1, <2>3 DEF IDsOf, PInv, TypeOK
  <2> QED
    BY <2>2, <2>3
<1>2. table' \in [IDs -> DeviceRecord \cup {NoRecord}]
  <2>1. table' = [id \in IDs |-> table'[id]]
    BY DEF Accept
  <2> QED
    BY <1>1, <2>1
<1>3. RowsOf(Batch) \in Rows
  <2>1. \A ip \in IPs : RowsOf(Batch)[ip] \in DeviceRecord \cup {NoRecord}
    BY BatchFacts, RowFacts
  <2>2. RowsOf(Batch) = [ip \in IPs |-> RowsOf(Batch)[ip]]
    BY DEF RowsOf
  <2> QED
    BY <2>1, <2>2
<1> HIDE DEF Rows
<1>4. runs \in Seq(Rows) /\ Len(runs) \in Nat /\ Len(runs) <= Keep
  BY DEF PInv, Sequenced, TypeOK, Rows
<1>5. s \in Seq(Rows) /\ Len(s) = Len(runs) + 1 /\ s[Len(s)] = RowsOf(Batch)
  BY <1>3, <1>4
<1>6. runs' = Prune(s)
  BY DEF Accept
<1> HIDE DEF s
<1>7. runs' \in Seq(Rows) /\ Len(runs') <= Keep /\ runs'[Len(runs')] = RowsOf(Batch)
  <2>1. CASE Len(s) > Keep
    <3>1. runs' = Tail(s) /\ s # <<>> /\ Len(s) > 1
      BY <1>4, <1>5, <1>6, <2>1, ProbeAssumption DEF Prune
    <3>2. /\ Tail(s) \in Seq(Rows) /\ Len(Tail(s)) = Len(s) - 1
          /\ \A k \in 1..Len(Tail(s)) : Tail(s)[k] = s[k + 1]
      BY <1>5, <3>1, HeadTailProperties
    <3>3. Len(s) - 1 \in 1..Len(Tail(s)) /\ Len(s) - 1 + 1 = Len(s)
      BY <1>4, <1>5, <3>1, <3>2
    <3> QED
      BY <1>4, <1>5, <3>1, <3>2, <3>3
  <2>2. CASE ~(Len(s) > Keep)
    BY <1>4, <1>5, <1>6, <2>2, ProbeAssumption DEF Prune
  <2> QED
    BY <2>1, <2>2
<1> QED
  BY <1>1, <1>2, <1>7 DEF Last, Rows

LEMMA BackoffFacts == ASSUME NEW n \in 0 .. RetryMaxDelay PROVE NextBackoff(n) \in 0 .. RetryMaxDelay
BY ProbeAssumption DEF NextBackoff

\* A push that failed leaves nothing behind, stored or not.
LEMMA HoldKeeps ==
  ASSUME PInv, Hold, inv' = inv, net' = net, file' = file, cancelled' = cancelled,
         active' = active, Accept(Batch) \/ UNCHANGED <<runs, table>>
  PROVE  PInv'
<1>1. /\ pc' = "wait" /\ pending' = Batch /\ answering' = {}
      /\ backoff' \in 0 .. RetryMaxDelay
  BY BackoffFacts DEF Hold, EndCycle, PInv, TypeOK
<1>2. /\ runs' \in Seq([IPs -> DeviceRecord \cup {NoRecord}]) /\ Len(runs') <= Keep
      /\ table' \in [IDs -> DeviceRecord \cup {NoRecord}]
      /\ \A id \in IDs : table'[id] = inv.byID[id] \/ table'[id] = table[id]
  BY AcceptFacts DEF PInv, TypeOK, Sequenced
<1>3. \A k \in DOMAIN runs' : runs'[k] \in [IPs -> DeviceRecord \cup {NoRecord}]
  BY <1>2
<1>4. TypeOK'
  BY <1>1, <1>2, <1>3, BatchFacts DEF PInv, TypeOK
<1>5. QueueIsLatest'
  BY <1>1, BatchFacts DEF QueueIsLatest
<1>6. Owed'
  <2> SUFFICES ASSUME NEW id \in IDs, inv.byID[id] # NoRecord
               PROVE  table'[id] = inv.byID[id] \/ \E k \in DOMAIN Batch : Batch[k] = inv.byID[id]
    BY <1>1 DEF Owed
  <2> QED
    BY <1>2, OwedIsCarried
<1>7. Sequenced'
  BY <1>1, <1>2, BatchFacts DEF Sequenced
<1> QED
  BY <1>1, <1>4, <1>5, <1>6, <1>7 DEF PInv, MapsAgree, Reports, AnsweringIsUp

\* A push that succeeded stored all that was owed.
LEMMA DeliverKeeps ==
  ASSUME PInv, Deliver, Accept(Batch), UNCHANGED <<net, file, cancelled, active, inv>>
  PROVE  PInv'
<1>1. pc' = "wait" /\ pending' = <<>> /\ answering' = {} /\ backoff' = 0
  BY DEF Deliver, EndCycle
<1>2. /\ runs' \in Seq([IPs -> DeviceRecord \cup {NoRecord}]) /\ Len(runs') <= Keep
      /\ table' \in [IDs -> DeviceRecord \cup {NoRecord}]
      /\ \A id \in IDs : \/ table'[id] = inv.byID[id]
                         \/ table'[id] = table[id] /\ \A k \in DOMAIN Batch : Batch[k].id # id
  BY AcceptFacts
<1>3. \A k \in DOMAIN runs' : runs'[k] \in [IPs -> DeviceRecord \cup {NoRecord}]
  BY <1>2
<1>4. TypeOK'
  BY <1>1, <1>2, <1>3, ProbeAssumption DEF PInv, TypeOK
<1>5. Owed'
  <2> SUFFICES ASSUME NEW id \in IDs, inv.byID[id] # NoRecord
               PROVE  table'[id] = inv.byID[id]
    BY DEF Owed
  <2> QED
    BY <1>2, OwedIsCarried
<1> QED
  BY <1>1, <1>2, <1>4, <1>5
     DEF PInv, Sequenced, MapsAgree, Reports, QueueIsLatest, AnsweringIsUp

\* A probe that lost its memory owes nothing.
LEMMA ForgetKeeps ==
  ASSUME PInv, Forget, UNCHANGED <<net, file, active, runs, table>>,
         pc' \in {"start", "stopped"}, cancelled' \in BOOLEAN
  PROVE  PInv'
<1>1. inv' \in Inventory
  BY DEF Forget, EmptyInventory, Inventory
<1>2. pending' = <<>> /\ backoff' = 0 /\ answering' = {} /\ 0 \in 0 .. RetryMaxDelay
  BY ProbeAssumption DEF Forget
<1>3. TypeOK'
  BY <1>1, <1>2 DEF PInv, TypeOK
<1>4. MapsAgree(inv') /\ Reports(inv')
  BY FS_EmptySet DEF Forget, EmptyInventory, MapsAgree, Reports
<1>5. \A id \in IDs : inv'.byID[id] = NoRecord
  BY DEF Forget, EmptyInventory
<1> QED
  BY <1>2, <1>3, <1>4, <1>5
     DEF PInv, Sequenced, MapsAgree, Reports, QueueIsLatest, Owed, AnsweringIsUp

\* A cycle that scanned: what it found is reported, and what answered is up.
LEMMA ScanKeeps == ASSUME PInv, ScanNetwork PROVE PInv'
<1>1. PICK b \in Batches : inv' = Records(inv, b)
  BY DEF ScanNetwork
<1>2. /\ active \in SUBSET IPs /\ \A ip \in IPs : net[ip] \in Sightings
      /\ inv \in Inventory /\ MapsAgree(inv)
  BY ProbeAssumption DEF PInv, TypeOK, Networks
<1>3. PICK d \in SUBSET active : b \in [d -> Sightings]
  BY <1>2 DEF Batches
<1>4. Reached(inv, inv') /\ UpSoFar(inv', b, d)
  BY <1>1, <1>2, <1>3, RecordsReach
<1>5. /\ inv' \in Inventory /\ MapsAgree(inv') /\ Reports(inv')
      /\ \A id \in IDs \ inv'.reported : inv'.byID[id] = inv.byID[id]
  BY <1>4 DEF Reached
<1>6. /\ pc = "scan" /\ UNCHANGED <<net, file, cancelled, active, pending, backoff, runs, table>>
      /\ \/ inv'.reported = {} /\ pc' = "wait" /\ answering' = {}
         \/ /\ pc' = "send"
            /\ answering' = {RecordID(ip, net[ip]) :
                               ip \in {a \in active : net[a] \notin {Silent, Named}}}
  BY DEF ScanNetwork, EndCycle, backendVars
<1>7. TypeOK'
  <2>1. answering' \subseteq IDs
    BY <1>2, <1>6 DEF RecordID, IDs
  <2> QED
    BY <1>5, <1>6, <2>1 DEF PInv, TypeOK
<1>8. QueueIsLatest'
  <2> SUFFICES ASSUME NEW k \in DOMAIN pending
               PROVE  \/ pending[k] = inv'.byID[pending[k].id]
                      \/ pc' = "send" /\ pending[k].id \in inv'.reported
    BY <1>6 DEF QueueIsLatest
  <2>1. pending[k].id \in IDs /\ pending[k] = inv.byID[pending[k].id]
    BY <1>6 DEF PInv, TypeOK, DeviceRecord, QueueIsLatest
  <2> QED
    BY <1>5, <1>6, <2>1
<1>9. Owed'
  <2> SUFFICES ASSUME NEW id \in IDs, inv'.byID[id] # NoRecord
               PROVE  \/ table[id] = inv'.byID[id]
                      \/ \E k \in DOMAIN pending : pending[k] = inv'.byID[id]
                      \/ pc' = "send" /\ id \in inv'.reported
    BY <1>6 DEF Owed
  <2>1. CASE id \in inv'.reported
    BY <1>6, <2>1
  <2>2. CASE id \notin inv'.reported
    BY <1>5, <1>6, <2>2 DEF PInv, Owed
  <2> QED
    BY <2>1, <2>2
<1>10. AnsweringIsUp'
  <2> SUFFICES ASSUME pc' = "send", ~cancelled, NEW id \in answering'
               PROVE  id \in inv'.reported /\ inv'.byID[id].status = "up"
    BY <1>6 DEF AnsweringIsUp
  <2>1. b = [ip \in active |-> net[ip]] /\ d = active
    BY <1>3 DEF Batches
  <2>2. PICK ip \in active : net[ip] \notin {Silent, Named} /\ id = RecordID(ip, net[ip])
    BY <1>6
  <2>3. id \in inv'.active /\ inv'.byID[id].status = "up"
    BY <1>4, <2>1, <2>2 DEF UpSoFar
  <2> QED
    BY <1>5, <2>3 DEF Reports
<1> QED
  BY <1>5, <1>6, <1>7, <1>8, <1>9, <1>10 DEF PInv, Sequenced, MapsAgree, Reports

LEMMA NextPInv == PInv /\ [Next]_vars => PInv'
<1> SUFFICES ASSUME PInv, [Next]_vars PROVE PInv'
  OBVIOUS
<1> USE DEF probeVars, backendVars
<1>1. CASE Move \/ BeginEdit \/ EndEdit \/ UNCHANGED vars
  <2>1. /\ UNCHANGED <<probeVars, backendVars>> /\ net' \in Networks
        /\ file' \in Ranges \cup {Torn}
    BY <1>1 DEF Move, BeginEdit, EndEdit, vars, PInv, TypeOK
  <2>2. TypeOK'
    BY <2>1 DEF PInv, TypeOK
  <2> QED
    BY <2>1, <2>2
       DEF PInv, Sequenced, MapsAgree, Reports, QueueIsLatest, Owed, AnsweringIsUp
<1>2. CASE Stop
  <2>1. TypeOK'
    BY <1>2 DEF Stop, PInv, TypeOK
  <2> QED
    BY <1>2, <2>1
       DEF Stop, PInv, Sequenced, MapsAgree, Reports, QueueIsLatest, Owed, AnsweringIsUp
<1>3. CASE Restart
  BY <1>3, ForgetKeeps DEF Restart
<1>4. CASE Start \/ Wake
  <2>1. /\ pc \in {"start", "wait"} /\ pc' \in {"stopped", "scan"} /\ active' \in Ranges
        /\ UNCHANGED <<net, file, cancelled, inv, pending, backoff, answering, runs, table>>
    BY <1>4 DEF Start, Wake, PInv, TypeOK
  <2>2. TypeOK'
    BY <2>1 DEF PInv, TypeOK
  <2> QED
    BY <2>1, <2>2
       DEF PInv, Sequenced, MapsAgree, Reports, QueueIsLatest, Owed, AnsweringIsUp
<1>5. CASE Leave
  <2>1. cancelled' \in BOOLEAN
    BY <1>5 DEF Leave, PInv, TypeOK
  <2> QED
    BY <1>5, <2>1, ForgetKeeps DEF Leave
<1>6. CASE ScanNetwork
  BY <1>6, ScanKeeps
<1>7. CASE SendFails \/ SendUnconfirmed
  BY <1>7, HoldKeeps DEF SendFails, SendUnconfirmed
<1>8. CASE SendSucceeds
  BY <1>8, DeliverKeeps DEF SendSucceeds
<1> QED
  BY <1>1, <1>2, <1>3, <1>4, <1>5, <1>6, <1>7, <1>8 DEF Next, ProbeStep

THEOREM PInvariance == Spec => []PInv
BY InitPInv, NextPInv, PTL DEF Spec

\* The probe, its queue and its backend are well typed in every reachable
\* state.
THEOREM ProbeTypeCorrect == Spec => []TypeOK
BY PInvariance, PTL DEF PInv

\* Between cycles no device's latest record is lost: it was stored or it is
\* queued, whatever requests, replies and prunes failed.
THEOREM NothingOwedIsLost == Spec => []OwedOrDelivered
<1>1. PInv => OwedOrDelivered
  BY DEF PInv, Owed, OwedOrDelivered
<1> QED
  BY PInvariance, <1>1, PTL

\* No push stores "down" of a device that answered the scan it follows.
THEOREM DownIsNeverFalse == Spec => NoFalseDown
<1> DEFINE Honest ==
      runs' # runs => \A ip \in IPs :
        LET row == Last(runs')[ip] IN
        row # NoRecord /\ row.status = "down" => row.id \notin answering
<1>1. PInv /\ [Next]_vars => [Honest]_vars
  <2> SUFFICES ASSUME PInv, Next, runs' # runs PROVE Honest
    BY DEF vars, backendVars
  <2>1. pc = "send" /\ ~cancelled /\ Accept(Batch)
    BY DEF Next, Move, BeginEdit, EndEdit, Stop, Restart, ProbeStep, Start, Wake, Leave,
           ScanNetwork, SendFails, SendUnconfirmed, SendSucceeds, backendVars
  <2> SUFFICES ASSUME NEW ip \in IPs, Last(runs')[ip] # NoRecord,
                      Last(runs')[ip].status = "down", Last(runs')[ip].id \in answering
               PROVE  FALSE
    OBVIOUS
  <2>2. Batch \in Seq(DeviceRecord) /\ Last(runs') = RowsOf(Batch)
    BY <2>1, AcceptFacts, BatchFacts
  <2>3. PICK k \in DOMAIN Batch : Last(runs')[ip] = Batch[k]
    BY <2>2, RowFacts
  <2>4. Last(runs')[ip] = inv.byID[Last(runs')[ip].id]
    BY <2>3, BatchFacts
  <2>5. inv.byID[Last(runs')[ip].id].status = "up"
    BY <2>1 DEF PInv, AnsweringIsUp
  <2> QED
    BY <2>4, <2>5
<1>2. NoFalseDown <=> [][Honest]_vars
  BY DEF NoFalseDown
<1> QED
  BY <1>1, <1>2, PInvariance, PTL DEF Spec

=============================================================================
