---------------------------- MODULE PacketFusion -----------------------------
(***************************************************************************)
(* FileParser (src/Server/FileParser.cs): the boards of a room upload the  *)
(* packets they sniffed, and the copies of one packet, which have the same *)
(* hash, are fused until every station of a room has delivered one.  Then  *)
(* the packet is mature and goes to the analyzer; a packet that does not   *)
(* mature is dropped by a periodic task once it is five minutes old.       *)
(*                                                                         *)
(* Files are parsed by the threads of their connections, the task runs on  *)
(* a timer, and stations come and go meanwhile.  The waiting packets are   *)
(* in a ConcurrentDictionaryStack, whose write lock makes a step of each   *)
(* upsert and of each pop; what it promises is proved in DictStackProofs.  *)
(* A Station object belongs to one board and one Room object for its life; *)
(* a board that was removed, or registers twice, gets a new object, and    *)
(* receptions are compared by object.  Room objects are compared by name   *)
(* in one place and by reference in the other, and two of them may have    *)
(* one name.  Signal strengths and lines that are discarded are abstract.  *)
(***************************************************************************)
EXTENDS Naturals, Sequences, FiniteSets, Functions, Recency

CONSTANTS Stations,      \* Station objects, each used once
          BoardOf(_),    \* the board a Station object stands for
          RoomOf(_),     \* its location.room
          NameOf(_),     \* the roomName of a Room object
          Packets,       \* hashes of packets
          Old,           \* the age past which isOld holds, 5 minutes
          MaxQueue       \* bound: packets waiting for the analyzer

ASSUME FusionAssumption == Old \in Nat /\ MaxQueue \in Nat

VARIABLES stations,      \* Context.stations: board -> Station object
          associated,    \* stations of the rooms: counted in stationcount
          used,          \* history: Station objects that have been created
          uploading,     \* stations whose file is being parsed
          recv,          \* waiting packet -> Receivings, in order of arrival
          age,           \* waiting packet -> age of its Timestamp, up to Old + 1
          order,         \* age order of the waiting packets in the container
          idle,          \* history: waiting packet -> time since its last upsert
          analysis,      \* AnalysisQueue
          timer          \* what the periodic task is doing

vars == <<stations, associated, used, uploading, recv, age, order, idle, analysis,
          timer>>

boards  == <<stations, associated, used>>
waiting == <<recv, age, order, idle>>

Init ==
    /\ stations = [b \in {} |-> <<>>]
    /\ associated = {}
    /\ used = {}
    /\ uploading = {}
    /\ recv = [p \in {} |-> <<>>]
    /\ age = [p \in {} |-> 0]
    /\ order = [p \in {} |-> {}]
    /\ idle = [p \in {} |-> 0]
    /\ analysis = <<>>
    /\ timer = "sleeps"

-----------------------------------------------------------------------------
StationsOf(r)  == {s \in associated : RoomOf(s) = r}
stationcount(r) == Cardinality(StationsOf(r))

(* loadStation and createStation make a new object for a board, also for   *)
(* one that has an object already: the dictionary forgets the old one, its *)
(* room does not.                                                          *)
AddStation(s) ==
    /\ s \notin used
    /\ used' = used \cup {s}
    /\ associated' = associated \cup {s}
    /\ stations' = Stored(stations, BoardOf(s), s)
    /\ UNCHANGED <<uploading, waiting, analysis, timer>>

(* Silent boards, deleted stations and rooms: the object the dictionary    *)
(* has for a board leaves its room, also while a file of it is being       *)
(* parsed.                                                                 *)
RemoveStation(b) ==
    /\ b \in DOMAIN stations
    /\ associated' = associated \ {stations[b]}
    /\ stations' = Forgotten(stations, b)
    /\ UNCHANGED <<used, uploading, waiting, analysis, timer>>

(* The station of a file is looked up once, when the file starts.          *)
FileStart(s) ==
    /\ s \in Range(stations) \ uploading
    /\ uploading' = uploading \cup {s}
    /\ UNCHANGED <<boards, waiting, analysis, timer>>

FileEnd(s) ==
    /\ s \in uploading
    /\ uploading' = uploading \ {s}
    /\ UNCHANGED <<boards, waiting, analysis, timer>>

(* packetReducer: a station that is already there is not added again.      *)
Reduced_Again(p, s) ==                                     \* mutant
    IF p \notin DOMAIN recv THEN <<s>> ELSE Append(recv[p], s)

Reduced(p, s) ==
    IF p \notin DOMAIN recv THEN <<s>>
    ELSE IF s \in Range(recv[p]) THEN recv[p] ELSE Append(recv[p], s)

(* isReady: receptions are counted per room name, the key of a name being  *)
(* the first Room object that came with it, and compared with the stations *)
(* of that object; the rooms are looked at in the order their names came.  *)
(* Of the first one that matches the receptions stay; those of other Room  *)
(* objects, one of the same name included, are dropped.                    *)
Named(rs, r) == {i \in DOMAIN rs : NameOf(RoomOf(rs[i])) = NameOf(r)}
InRoom(rs, r) == {i \in DOMAIN rs : RoomOf(rs[i]) = r}
Keys(rs) == {i \in DOMAIN rs : \A j \in Named(rs, RoomOf(rs[i])) : i <= j}

Mature_More(rs, r) == Cardinality(Named(rs, r)) > stationcount(r)      \* mutant

Mature(rs, r) == Cardinality(Named(rs, r)) = stationcount(r)

Winners(rs) == {i \in Keys(rs) : Mature(rs, RoomOf(rs[i]))}
Winner(rs)  == RoomOf(rs[CHOOSE i \in Winners(rs) : \A j \in Winners(rs) : i <= j])
IsReady(rs) == Winners(rs) # {}

(* What the analyzer gets: the stations of the receptions kept, and how    *)
(* many receptions these are.                                              *)
Emission(p, rs) ==
    LET kept == InRoom(rs, Winner(rs))
    IN  [packet |-> p, recv |-> {rs[i] : i \in kept}, count |-> Cardinality(kept)]

(* A packet that stays becomes the youngest one.  Mutant: the oldest one.  *)
Upserted_First(p) ==
    [j \in DOMAIN order \cup {p} |-> IF j = p THEN {} ELSE order[j] \cup {p}]

Upserted(p) == Touched(order, p)

(* The packet comes out of the container.  Mutant: its place is kept.      *)
Left_Place(p) == order
Left(p) == Dropped(order, p)

(* ParseOnTheFly, one line: upsertAndConditionallyRemove, and, if the      *)
(* packet came out, sendToAnalysisQueue.  a is the age of the line's time, *)
(* any; what is older than Old counts as Old + 1.                          *)
ParseLine(s, p, a) ==
    /\ s \in uploading
    /\ LET rs == Reduced(p, s)
       IN  IF IsReady(rs)
           THEN /\ Len(analysis) < MaxQueue
                /\ analysis' = Append(analysis, Emission(p, rs))
                /\ recv' = Forgotten(recv, p)
                /\ age' = Forgotten(age, p)
                /\ order' = Left(p)
                /\ idle' = Forgotten(idle, p)
           ELSE /\ recv' = Stored(recv, p, rs)
                /\ age' = IF p \in DOMAIN age THEN age ELSE Stored(age, p, a)
                /\ order' = Upserted(p)
                /\ idle' = Stored(idle, p, 0)
                /\ UNCHANGED analysis
    /\ UNCHANGED <<boards, uploading, timer>>

(* The analyzer thread takes a packet.                                     *)
Take ==
    /\ analysis # <<>>
    /\ analysis' = Tail(analysis)
    /\ UNCHANGED <<boards, uploading, waiting, timer>>

-----------------------------------------------------------------------------
(* MyMethod every 30 seconds: the boards are checked first (see            *)
(* StationRegistry), which may never return: a check that a deletion of    *)
(* the user overtook keeps the lock all later ones wait for.               *)
Wake ==
    /\ timer = "sleeps"
    /\ timer' = "checks"
    /\ UNCHANGED <<boards, uploading, waiting, analysis>>

CheckReturns ==
    /\ timer = "checks"
    /\ timer' = "pops"
    /\ UNCHANGED <<boards, uploading, waiting, analysis>>

CheckBlocks ==
    /\ timer = "checks"
    /\ timer' = "blocked"
    /\ UNCHANGED <<boards, uploading, waiting, analysis>>

(* Then the packets that are old are popped, and dropped.  (The comment on *)
(* sendToAnalysisQueue, AnalysisEngine.cs:27, would have them analyzed.)   *)
IsOld(p) == age[p] > Old

PopOld(p) ==
    /\ timer = "pops"
    /\ IsOldest(order, p)
    /\ IsOld(p)
    /\ recv' = Forgotten(recv, p)
    /\ age' = Forgotten(age, p)
    /\ order' = Left(p)
    /\ idle' = Forgotten(idle, p)
    /\ UNCHANGED <<boards, uploading, analysis, timer>>

(* Mutant: the loop is an if, a pass ends whatever is left.                *)
EndPass_Any ==
    /\ timer = "pops"
    /\ timer' = "sleeps"
    /\ UNCHANGED <<boards, uploading, waiting, analysis>>

EndPass ==
    /\ timer = "pops"
    /\ \A p \in DOMAIN order : IsOldest(order, p) => ~IsOld(p)
    /\ timer' = "sleeps"
    /\ UNCHANGED <<boards, uploading, waiting, analysis>>

Older(f) == [p \in DOMAIN f |-> IF f[p] > Old THEN f[p] ELSE f[p] + 1]

Tick ==
    /\ age' = Older(age)
    /\ idle' = Older(idle)
    /\ UNCHANGED <<boards, uploading, recv, order, analysis, timer>>

Check == CheckReturns \/ CheckBlocks
PopAnOld == \E p \in DOMAIN order : PopOld(p)

Next ==
    \/ \E s \in Stations :
         \/ AddStation(s)
         \/ FileStart(s)
         \/ FileEnd(s)
         \/ \E p \in Packets, a \in 0..(Old + 1) : ParseLine(s, p, a)
    \/ \E b \in DOMAIN stations : RemoveStation(b)
    \/ Take
    \/ Wake
    \/ Check
    \/ PopAnOld
    \/ EndPass
    \/ Tick

Spec == Init /\ [][Next]_vars

(* Time passes, and the timer keeps firing.  The check of the boards ends  *)
(* or blocks, which of the two is not said; the pops that follow it end.   *)
Fairness ==
    /\ WF_vars(Tick)
    /\ WF_vars(Wake)
    /\ WF_vars(Check)
    /\ WF_vars(PopAnOld)
    /\ WF_vars(EndPass)

FairSpec == Spec /\ Fairness

-----------------------------------------------------------------------------
TypeOK ==
    /\ associated \subseteq used /\ used \subseteq Stations
    /\ Range(stations) \subseteq associated
    /\ uploading \subseteq used
    /\ DOMAIN recv \subseteq Packets
    /\ DOMAIN age = DOMAIN recv /\ DOMAIN order = DOMAIN recv /\ DOMAIN idle = DOMAIN recv
    /\ \A p \in DOMAIN recv :
         /\ recv[p] \in Seq(Stations)
         /\ age[p] \in 0..(Old + 1)
         /\ idle[p] \in 0..(Old + 1)
    /\ analysis \in Seq([packet : Packets, recv : SUBSET Stations, count : Nat])
    /\ timer \in {"sleeps", "checks", "pops", "blocked"}

Emits == analysis' # analysis /\ Len(analysis') > Len(analysis)
Emitted == analysis'[Len(analysis')]

(* No station was ever put into another Room object of the name of r.      *)
Twinless(r) == \A s \in used : NameOf(RoomOf(s)) = NameOf(r) => RoomOf(s) = r

(* An emitted packet holds receptions of one room, one per station, and    *)
(* when none of these stations has left since, every station of the room   *)
(* is among them: no room is located from part of its stations.  That is,  *)
(* unless a second Room object was given the name of the room, which the   *)
(* windows allow when the database fails: its receptions are counted, and  *)
(* not kept.                                                               *)
EmissionIsComplete ==
    [][Emits =>
         LET rs == Emitted.recv
         IN  /\ rs # {}
             /\ \A s, t \in rs : RoomOf(s) = RoomOf(t)
             /\ Cardinality(rs) = Emitted.count
             /\ \A s \in rs :
                    rs \subseteq associated /\ Twinless(RoomOf(s)) =>
                        StationsOf(RoomOf(s)) \subseteq rs]_vars

(* While no station leaves, a packet all stations of a room have delivered *)
(* does not keep waiting: its last copy takes it out.  That is, unless the *)
(* room has a twin of the same name, whose copies are counted with its own. *)
NoneCompleteWaits ==
    used = associated =>
        \A p \in DOMAIN recv, s \in associated :
            Twinless(RoomOf(s)) => ~(StationsOf(RoomOf(s)) \subseteq Range(recv[p]))

(* After a pass of the periodic task every packet still waiting has had a  *)
(* copy delivered within the last five minutes, although a pass looks only *)
(* at the packet that was updated first.                                   *)
PassIsComplete == [][EndPass => \A p \in DOMAIN recv : idle[p] <= Old]_vars

(* A packet of which no more copies come stops waiting, mature or dropped, *)
(* however many other packets keep coming; unless the check of the boards, *)
(* which every pass begins with, has blocked.                              *)
NoneWaitsForever ==
    \A p \in Packets :
        p \in DOMAIN recv ~>
            \/ p \notin DOMAIN recv
            \/ p \in DOMAIN idle /\ idle[p] = 0
            \/ timer = "blocked"
=============================================================================
