---------------------------- MODULE DeviceTracker ----------------------------
(***************************************************************************)
(* The analyzer thread (src/Server/AnalysisEngine.cs) and the device lists *)
(* of the rooms (src/Server/Room.cs).  Mature packets are taken from the   *)
(* analysis queue one at a time; each creates or moves a device.  Every    *)
(* time the token of the queue expires the thread looks for anonymous      *)
(* devices that are one device under two random MACs, merges them, and     *)
(* then forgets the devices it has not heard for a while.                  *)
(*                                                                         *)
(* A device object is a number; the identifier it is stored under is its   *)
(* MAC, or, for a random (local) MAC, a name made of a short hash of the   *)
(* MAC and of the time of its creation.  deviceMap is a                    *)
(* ConcurrentDictionaryStack, used here through what DictStack is shown    *)
(* to implement: a map and an age order.  Positions are reduced to their   *)
(* room and date; SSIDs, aliases, capabilities and the similarity score    *)
(* beyond its zero cases are abstract.                                     *)
(***************************************************************************)
EXTENDS Integers, FiniteSets, Functions, Recency

CONSTANTS GlobalMACs,    \* addresses burnt into a device
          LocalMACs,     \* random addresses, isMACLocal
          Hash4(_),      \* first hex digits of the hash code of a MAC
          Rooms,         \* rooms with stations
          Extern,        \* externRoom, for weak receptions
          NoDevice,      \* a device object that does not exist
          Objects,       \* bound: how many device objects exist at once
          Holdoff,       \* 3 seconds: no new position in the same room
          MergeAfter,    \* 3 minutes of silence before a merge
          ForgetAfter,   \* 5 minutes of silence before a device is forgotten
          MaxDelay,      \* bound: how late a packet reaches the analyzer
          MaxTime,       \* bound: when the clock of the model stops
          MaxDrifts      \* bound: merges that leave a room behind, and how far
                         \* below zero they bring the count of one

MACs   == GlobalMACs \cup LocalMACs
Places == Rooms \cup {Extern}

(* An identifier made of a hash begins with "ANON-": no MAC does.          *)
ASSUME DeviceAssumption ==
    /\ GlobalMACs \cap LocalMACs = {}
    /\ \A m \in LocalMACs, t \in 0..MaxTime : <<Hash4(m), t>> \notin GlobalMACs
    /\ IsFiniteSet(Rooms) /\ Extern \notin Rooms
    /\ NoDevice \notin Objects
    /\ {Holdoff, MergeAfter, ForgetAfter, MaxDelay, MaxTime, MaxDrifts} \subseteq Nat
    /\ Holdoff <= MergeAfter /\ MergeAfter < ForgetAfter

VARIABLES now,           \* the clock, in units of the smallest delay
          dev,           \* the device objects in deviceMap
          deviceMap,     \* identifier -> device object
          order,         \* age order of the identifiers in deviceMap
          anoniDevices,  \* random MAC -> identifier of its device
          members,       \* Room.devicesInRoom
          devicecount,   \* Room.devicecount
          phase,         \* what the analyzer thread is doing
          todo,          \* findSameAnonimous: its copy, MAC -> identifier, to look at
          drifts,        \* history: merges that left a device in a room it has left
          collided       \* history: a new device took an identifier in use

vars == <<now, dev, deviceMap, order, anoniDevices, members, devicecount,
          phase, todo, drifts, collided>>

tables == <<dev, deviceMap, order, anoniDevices, members, devicecount>>

Device(m, id, r, t) ==
    [mac |-> m, id |-> id, room |-> r, seen |-> t,    \* lastPosition
     first |-> t, firstRoom |-> r,                    \* firstPosition
     touched |-> now,                                 \* history: last upsert
     merged |-> FALSE]                                \* history: it was a merge

Tracked == Range(deviceMap)

Init ==
    /\ now = 0
    /\ dev = [o \in Objects |-> NoDevice]
    /\ deviceMap = [i \in {} |-> NoDevice]
    /\ order = [i \in {} |-> {}]
    /\ anoniDevices = [m \in {} |-> m]
    /\ members = [r \in Places |-> {}]
    /\ devicecount = [r \in Places |-> 0]
    /\ phase = "analyze"
    /\ todo = [m \in {} |-> m]
    /\ drifts = 0
    /\ collided = FALSE

-----------------------------------------------------------------------------
(* Room.addDevice and removeDevice: the count moves even when the set does *)
(* not, for a device that is, or is not, in the room.                      *)
Added(ms, r, o)   == [ms EXCEPT ![r] = @ \cup {o}]
Removed(ms, r, o) == [ms EXCEPT ![r] = @ \ {o}]
Count(cs, r, n)   == [cs EXCEPT ![r] = @ + n]

(* locateAndPublish for a device that was in room old.  Mutant: the old    *)
(* room still lists the device.                                            *)
Move_StillListed(o, old, r) ==
    IF old = r THEN UNCHANGED <<members, devicecount>>
    ELSE /\ members' = Added(members, r, o)
         /\ devicecount' = Count(Count(devicecount, old, -1), r, 1)

Move(o, old, r) ==
    IF old = r THEN UNCHANGED <<members, devicecount>>
    ELSE /\ members' = Added(Removed(members, old, o), r, o)
         /\ devicecount' = Count(Count(devicecount, old, -1), r, 1)

(* The upsert of a device that is already in the map makes it the youngest *)
(* entry.  Mutant: it keeps its place.                                     *)
Upserted_InPlace(id) == order
Upserted(id) == Touched(order, id)

(* analyzePacket: the device of the packet is known.  sr is the room of    *)
(* the stations that received it, r where triangulate puts it, t its time. *)
KnownDevice(o, sr, r, t) ==
    IF dev[o].seen + Holdoff > t /\ dev[o].room = sr
    THEN UNCHANGED tables
    ELSE /\ Move(o, dev[o].room, r)
         /\ dev' = [dev EXCEPT ![o] = [@ EXCEPT !.room = r, !.seen = t, !.touched = now,
                                                  !.merged = FALSE]]
         /\ order' = Upserted(dev[o].id)
         /\ UNCHANGED <<deviceMap, anoniDevices>>

(* A device never heard of, or forgotten.  When another device already has *)
(* the identifier, the new one takes its place in the map, because the     *)
(* updater returns the given value; the other one stays in its room.       *)
Identifier(m) == IF m \in LocalMACs THEN <<Hash4(m), now>> ELSE m

Unused == Objects \ (Tracked \cup UNION Range(members))

NewDevice(m, r, t) ==
    LET id == Identifier(m)
        o  == CHOOSE x \in Unused : TRUE
        old == IF id \in DOMAIN deviceMap THEN {deviceMap[id]} ELSE {}
    IN  /\ Unused # {}
        /\ dev' = [x \in Objects |-> IF x = o THEN Device(m, id, r, t)
                                     ELSE IF x \in old THEN NoDevice ELSE dev[x]]
        /\ deviceMap' = Stored(deviceMap, id, o)
        /\ collided' = (collided \/ old # {})
        /\ order' = Touched(order, id)
        /\ anoniDevices' = IF m \in LocalMACs THEN Stored(anoniDevices, m, id)
                           ELSE anoniDevices
        /\ members' = Added(members, r, o)
        /\ devicecount' = Count(devicecount, r, 1)

(* anoniDevices.Add throws for a MAC it already has.  Only a cancellation  *)
(* is caught in analyzerProcess: the thread is gone.                       *)
Die == phase' = "dead" /\ UNCHANGED tables

PermanentIdentifier(m) ==
    IF m \in DOMAIN anoniDevices THEN anoniDevices[m] ELSE m

AnalyzePacket(m, sr, r, t) ==
    /\ phase = "analyze"
    /\ LET id == PermanentIdentifier(m)
       IN  \/ /\ id \in DOMAIN deviceMap
              /\ KnownDevice(deviceMap[id], sr, r, t)
              /\ UNCHANGED <<phase, collided>>
           \/ /\ id \notin DOMAIN deviceMap
              /\ m \notin DOMAIN anoniDevices
              /\ NewDevice(m, r, t)
              /\ UNCHANGED phase
           \/ /\ id \notin DOMAIN deviceMap
              /\ m \in DOMAIN anoniDevices
              /\ Die
              /\ UNCHANGED collided
    /\ UNCHANGED <<now, todo, drifts>>

-----------------------------------------------------------------------------
(* The token of the queue has expired: findSameAnonimous works on a copy   *)
(* of the values of anoniDevices, in no order known to the caller.         *)
Expire ==
    /\ phase = "analyze"
    /\ phase' = "match"
    /\ todo' = anoniDevices
    /\ UNCHANGED <<now, tables, drifts, collided>>

(* scoreDeviceSimilarity: the cases it scores above zero.                  *)
Comparable(a, b) ==
    LET early == IF a.first > b.first THEN b ELSE a
        late  == IF a.first > b.first THEN a ELSE b
    IN  /\ early.seen + MergeAfter <= now
        /\ early.seen <= late.first
        /\ early.room = late.firstRoom

(* Of the two objects given to mergeAnonimous, which are one when two MACs *)
(* lead to it, the identity that is kept and the one that is dropped.      *)
Kept(x, y)   == IF dev[x].first > dev[y].first THEN y ELSE x
Merged(x, y) == IF dev[x].first > dev[y].first THEN x ELSE y

(* The map without b and with A as a.  Mutant: b stays in the map.         *)
Rekeyed_Both(A, a, b) == Stored(deviceMap, a.id, A)
Rekeyed(A, a, b) == Stored(Forgotten(deviceMap, b.id), a.id, A)

(* The random MACs once a is known under the MAC of b.  Mutant: the MAC a  *)
(* had before is not forgotten.                                            *)
Renamed_Both(a, b) == Stored(anoniDevices, b.mac, a.id)
Renamed(a, b) == Stored(Forgotten(anoniDevices, a.mac), b.mac, a.id)

MergeAnonimous(x, y) ==
    LET A == Kept(x, y)
        B == Merged(x, y)
        a == dev[A]
        b == dev[B]
    IN  /\ dev' = [o \in Objects |->
                      IF o = A THEN [a EXCEPT !.room = b.room, !.seen = b.seen,
                                              !.mac = b.mac, !.touched = now,
                                              !.merged = TRUE]
                      ELSE IF o = B THEN NoDevice ELSE dev[o]]
        /\ deviceMap' = Rekeyed(A, a, b)
        /\ order' = Touched(Dropped(order, b.id), a.id)
        /\ members' = Removed(members, b.room, B)
        /\ devicecount' = Count(devicecount, b.room, -1)
        /\ devicecount'[b.room] >= -MaxDrifts
        /\ anoniDevices' = Renamed(a, b)
        /\ drifts' = drifts + (IF a.room # b.room THEN 1 ELSE 0)
        /\ drifts' <= MaxDrifts

(* One turn of the outer loop: the identifier copied for the MAC m is      *)
(* compared with those after it, and merged with the best match if that    *)
(* one scores enough; with itself, if two MACs lead to it.                 *)
MatchOf(m, n) ==
    /\ {todo[m], todo[n]} \subseteq DOMAIN deviceMap
    /\ Comparable(dev[deviceMap[todo[m]]], dev[deviceMap[todo[n]]])
    /\ MergeAnonimous(deviceMap[todo[n]], deviceMap[todo[m]])

FindSame(m) ==
    /\ phase = "match"
    /\ m \in DOMAIN todo
    /\ todo' = Forgotten(todo, m)
    /\ \/ UNCHANGED <<tables, drifts>>
       \/ \E n \in DOMAIN todo' : MatchOf(m, n)
    /\ UNCHANGED <<now, phase, collided>>

EndMatch ==
    /\ phase = "match"
    /\ DOMAIN todo = {}
    /\ phase' = "clean"
    /\ UNCHANGED <<now, tables, todo, drifts, collided>>

(* householdCleaning: the oldest device goes when it has been silent.      *)
Silent(o) == dev[o].seen + ForgetAfter < now

Household(i) ==
    /\ phase = "clean"
    /\ IsOldest(order, i)
    /\ Silent(deviceMap[i])
    /\ LET o == deviceMap[i]
           d == dev[o]
       IN  /\ deviceMap' = Forgotten(deviceMap, i)
           /\ order' = Dropped(order, i)
           /\ dev' = [dev EXCEPT ![o] = NoDevice]
           /\ anoniDevices' = IF d.mac \in LocalMACs THEN Forgotten(anoniDevices, d.mac)
                              ELSE anoniDevices
           /\ members' = Removed(members, d.room, o)
           /\ devicecount' = Count(devicecount, d.room, -1)
    /\ UNCHANGED <<now, phase, todo, drifts, collided>>

EndCleaning ==
    /\ phase = "clean"
    /\ \A i \in DOMAIN deviceMap : IsOldest(order, i) => ~Silent(deviceMap[i])
    /\ phase' = "analyze"
    /\ UNCHANGED <<now, tables, todo, drifts, collided>>

Tick ==
    /\ now < MaxTime
    /\ now' = now + 1
    /\ UNCHANGED <<tables, phase, todo, drifts, collided>>

(* A packet is located in the room of its stations, or outside.            *)
Packet ==
    \E m \in MACs, sr \in Rooms, t \in (now - MaxDelay)..now :
        \E r \in {sr, Extern} : t >= 0 /\ AnalyzePacket(m, sr, r, t)

Next ==
    \/ Packet
    \/ Expire
    \/ \E m \in DOMAIN todo : FindSame(m)
    \/ EndMatch
    \/ \E i \in DOMAIN deviceMap : Household(i)
    \/ EndCleaning
    \/ Tick

Spec == Init /\ [][Next]_vars

-----------------------------------------------------------------------------
Identifiers == GlobalMACs \cup {<<Hash4(m), t>> : m \in LocalMACs, t \in 0..MaxTime}

DeviceType ==
    [mac : MACs, id : Identifiers, room : Places, seen : 0..MaxTime,
     first : 0..MaxTime, firstRoom : Places, touched : 0..MaxTime, merged : BOOLEAN]

TypeOK ==
    /\ now \in 0..MaxTime
    /\ dev \in [Objects -> DeviceType \cup {NoDevice}]
    /\ DOMAIN deviceMap \subseteq Identifiers
    /\ \A i \in DOMAIN deviceMap :
         deviceMap[i] \in Objects /\ dev[deviceMap[i]] \in DeviceType
    /\ DOMAIN order = DOMAIN deviceMap
    /\ DOMAIN anoniDevices \subseteq LocalMACs
    /\ members \in [Places -> SUBSET Objects]
    /\ devicecount \in [Places -> Int]
    /\ phase \in {"analyze", "match", "clean", "dead"}
    /\ DOMAIN todo \subseteq LocalMACs /\ Range(todo) \subseteq Identifiers
    /\ drifts \in 0..MaxDrifts
    /\ collided \in BOOLEAN

(* The two maps agree, as their declarations say ("id, corresponding       *)
(* device" and "mac, corresponding id", AnalysisEngine.cs:13,15): a random *)
(* MAC that is known leads to the one tracked device that has it now, and  *)
(* every tracked anonymous device is found that way, through any sequence  *)
(* of sightings, merges and removals.                                      *)
AnonymousResolve ==
    /\ \A m \in DOMAIN anoniDevices :
         /\ anoniDevices[m] \in DOMAIN deviceMap
         /\ dev[deviceMap[anoniDevices[m]]].mac = m
    /\ \A o \in Tracked :
         dev[o].mac \in LocalMACs =>
             /\ dev[o].mac \in DOMAIN anoniDevices
             /\ anoniDevices[dev[o].mac] = dev[o].id
    /\ \A i \in DOMAIN deviceMap : dev[deviceMap[i]].id = i
    /\ phase # "dead"

(* The only way to lose that is a new device whose identifier is in use.   *)
OnlyCollisionsConfuse == ~collided => AnonymousResolve

(* No device is counted twice or lost between rooms: the counts of all     *)
(* rooms add up to the tracked devices.                                    *)
CountsAddUp == FoldFunction(+, 0, devicecount) = Cardinality(Tracked)

(* Lists and counts of the rooms are exactly the tracked devices by the    *)
(* room of their last position.                                            *)
RoomsExact ==
    \A r \in Places :
        /\ members[r] = {o \in Tracked : dev[o].room = r}
        /\ devicecount[r] = Cardinality(members[r])

(* Moves, merges and removals keep the counts adding up, and the only way  *)
(* to lose the exact rooms is a merge with an identity that had changed    *)
(* room: mergeAnonimous moves the position of the kept device, but not the *)
(* device (lines 106 and 113).  Devices lost to a collision are beyond     *)
(* both.                                                                   *)
OnlyMergesDrift == ~collided => CountsAddUp /\ (drifts = 0 => RoomsExact)

(* "Remove from the device list the devices that have not been detected    *)
(* for a while" (AnalysisEngine.cs:253): the cleaning looks at the head    *)
(* only, and the list is in the order of upserts, not of dates, so that a  *)
(* device silent for five minutes stays behind a head that is not.  This   *)
(* is how long: none whose last upsert, by a packet or by a merge, is more *)
(* than ForgetAfter ago, and none that a packet placed more than           *)
(* ForgetAfter and the delay of the packet after its date.  A merge gives  *)
(* the kept device a new place in the list and the old date of the other.  *)
CleaningIsComplete ==
    [][EndCleaning =>
         \A o \in Tracked :
             /\ now - dev[o].touched <= ForgetAfter
             /\ ~dev[o].merged => now - dev[o].seen <= ForgetAfter + MaxDelay]_vars
=============================================================================
