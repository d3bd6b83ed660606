------------------------ MODULE StationRegistryProofs ------------------------
(***************************************************************************)
(* Proofs about StationRegistry, for any boards, rooms and pool threads:   *)
(* while no board has two objects, the dictionary, the station lists of    *)
(* the rooms and their counts agree, a board that was told it is           *)
(* associated stays so, and only a deletion by the user loses the locks.   *)
(***************************************************************************)
EXTENDS StationRegistry, FiniteSetTheorems, TLAPS

-----------------------------------------------------------------------------
(* Dictionaries (see Recency).                                              *)

(* Forgetting a key leaves the others.                                     *)
LEMMA ForgottenIs ==
    ASSUME NEW f, NEW k
    PROVE  /\ DOMAIN Forgotten(f, k) = DOMAIN f \ {k}
           /\ \A j \in DOMAIN f \ {k} : Forgotten(f, k)[j] = f[j]
  BY DEF Forgotten

(* A dictionary keeps the types of its keys and values.                    *)
LEMMA StoredTyped ==
    ASSUME NEW f, NEW K, NEW S, DOMAIN f \subseteq K, Range(f) \subseteq S,
           NEW k \in K, NEW d \in S
    PROVE  DOMAIN Stored(f, k, d) \subseteq K /\ Range(Stored(f, k, d)) \subseteq S
  BY DEF Range, Stored

(* What is forgotten leaves the types as they were.                        *)
LEMMA ForgottenTyped ==
    ASSUME NEW f, NEW K, NEW S, DOMAIN f \subseteq K, Range(f) \subseteq S, NEW k
    PROVE  DOMAIN Forgotten(f, k) \subseteq K /\ Range(Forgotten(f, k)) \subseteq S
  BY DEF Range, Forgotten

-----------------------------------------------------------------------------
(* The parts of the inductive invariant.                                   *)

(* What the UI thread carries from one step of an operation to the next.   *)
UiCarries ==
    /\ ui.pc \in UiPcs \ {"idle", "unroom", "crashed"} => ui.board \in Boards
    /\ ui.pc \in {"add", "create", "newroom", "unroom"} => ui.arg \in Rooms
    /\ ui.pc \in {"add", "create"} => Fresh(ui.board, ui.arg) # {}
    /\ UiAt("unlink") => /\ ui.arg \in Objects /\ ui.arg \in members[RoomOf(ui.arg)]
                         /\ BoardOf(ui.arg) = ui.board /\ ui.board \notin Associated

(* Objects are where they belong, and the rooms count them, doubled or not. *)
Counted ==
    /\ \A b \in Associated : /\ stations[b] \in Objects /\ BoardOf(stations[b]) = b
                             /\ stations[b] \in members[RoomOf(stations[b])]
    /\ \A r \in Rooms : /\ \A o \in members[r] : RoomOf(o) = r
                        /\ IsFiniteSet(members[r])
                        /\ stationcount[r] = Cardinality(members[r])

(* Who holds the locks: the lists exist only under the upgradeable one.     *)
Held ==
    /\ \A t \in Tasks :
          /\ task[t].pc \in {"check", "upgrade", "recheck", "remove", "aborted"} <=> upgrader = t
          /\ task[t].pc \in {"recheck", "remove", "aborted"} <=> writer = t
          /\ task[t].list # {} => upgrader = t
          /\ task[t].pc \in {"upgrade", "recheck", "remove", "aborted"} =>
                task[t].object \in task[t].list
    /\ writer # None => ~UiReading

(* The exceptions end here: what holds while no board has two objects.      *)
Once ==
    /\ \A r \in Rooms : \A o \in members[r] :
          \/ BoardOf(o) \in Associated /\ stations[BoardOf(o)] = o
          \/ UiAt("unlink") /\ ui.arg = o
    /\ \A t \in Tasks : \A o \in task[t].list : o \in members[RoomOf(o)]
    /\ \A b \in answered : b \in Associated /\ stations[b] \notin silent
    /\ \A t \in Tasks : task[t].pc = "remove" => BoardOf(task[t].object) \notin answered
    /\ Leaked => UiAt("unlink")

IInv == TypeOK /\ UiCarries /\ Counted /\ Held /\ (~doubled => Once)

-----------------------------------------------------------------------------
(* Lemmas about the operators.                                             *)

(* An object names its board and its room.                                 *)
LEMMA ObjectIs == ASSUME NEW o \in Objects PROVE BoardOf(o) \in Boards /\ RoomOf(o) \in Rooms
  BY DEF Objects, BoardOf, RoomOf

(* The values of a dictionary.                                             *)
LEMMA RangeIs == ASSUME NEW f, NEW x PROVE x \in Range(f) <=> \E k \in DOMAIN f : f[k] = x
  BY DEF Range

-----------------------------------------------------------------------------
(* Steps of the UI thread between its operations on the tables.            *)

(* They keep the invariant if they keep the types and what they carry, take *)
(* no read lock from a writer, and neither begin nor end an unlinking.      *)
LEMMA UiMoves ==
    ASSUME IInv, UNCHANGED <<tables, silent, task, locks, answered, doubled>>,
           TypeOK', UiCarries', ~UiAt("unlink"), ~UiAt("unlink")',
           UiReading' => UiReading \/ writer = None
    PROVE  IInv'
<1>1. /\ stations' = stations /\ members' = members /\ stationcount' = stationcount
      /\ silent' = silent /\ task' = task /\ upgrader' = upgrader /\ writer' = writer
      /\ answered' = answered /\ doubled' = doubled
  BY DEF tables, locks
<1>2. Counted'
  BY <1>1 DEF IInv, Counted, Associated
<1>3. Held'
  BY <1>1 DEF IInv, Held, UiReading, UiAt
<1>4. ~doubled' => Once'
  BY <1>1 DEF IInv, Once, Associated, UiAt, Leaked
<1> QED BY <1>2, <1>3, <1>4 DEF IInv

(* What such a step puts into ui is of its type.                           *)
LEMMA UiIs ==
    ASSUME NEW pc \in UiPcs, NEW b \in Boards \cup {None}, NEW x \in Rooms \cup Objects \cup {None},
           Ui(pc, b, x)
    PROVE  /\ ui' \in [pc : UiPcs, board : Boards \cup {None}, arg : Rooms \cup Objects \cup {None}]
           /\ ui'.pc = pc /\ ui'.board = b /\ ui'.arg = x
  BY DEF Ui

(* An idle UI thread carries nothing.                                      *)
LEMMA IdleCarries == ASSUME ui'.pc \in {"idle", "crashed"} PROVE UiCarries'
  BY DEF UiCarries, UiAt

(* A board asks for the read lock.                                         *)
LEMMA RegisterStep == ASSUME IInv, NEW b \in Boards, Register(b) PROVE IInv'
<1>1. ui'.pc = "register" /\ ui'.board = b /\ TypeOK'
  BY UiIs DEF Register, IInv, TypeOK, Names, UiPcs, tables, screen, locks, Associated
<1>2. UiCarries'
  BY <1>1 DEF UiCarries, UiAt
<1> QED BY <1>1, <1>2, UiMoves DEF Register, UiAt, UiReading

(* It gets the read lock only while nobody writes.                         *)
LEMMA EnterReadStep == ASSUME IInv, EnterRead PROVE IInv'
<1>0. ui.board \in Boards
  BY DEF EnterRead, IInv, UiCarries, UiAt, UiPcs
<1>1. ui'.pc = "reading" /\ ui'.board \in Boards /\ TypeOK'
  BY <1>0, UiIs DEF EnterRead, IInv, TypeOK, Names, UiPcs, tables, screen, locks, Associated
<1>2. UiCarries'
  BY <1>1 DEF UiCarries, UiAt
<1> QED BY <1>1, <1>2, UiMoves DEF EnterRead, UiAt, UiReading, CanRead

(* A board without a station goes on to its saved room.                    *)
LEMMA NotAssociatedStep == ASSUME IInv, NotAssociated PROVE IInv'
<1>0. ui.board \in Boards
  BY DEF NotAssociated, IInv, UiCarries, UiReading, UiAt, UiPcs
<1>1. ui'.pc = "load" /\ ui'.board \in Boards /\ TypeOK'
  BY <1>0, UiIs DEF NotAssociated, IInv, TypeOK, Names, UiPcs, tables, screen, locks, Associated
<1>2. UiCarries'
  BY <1>1 DEF UiCarries, UiAt
<1> QED BY <1>1, <1>2, UiMoves DEF NotAssociated, UiAt, UiReading

(* The room is fresh for the board until it is added.                      *)
LEMMA LoadConfigStep == ASSUME IInv, LoadConfig PROVE IInv'
<1>0. ui.board \in Boards
  BY DEF LoadConfig, IInv, UiCarries, UiAt, UiPcs
<1>1. PICK r \in Rooms : Fresh(ui.board, r) # {} /\ Ui("add", ui.board, r)
  BY DEF LoadConfig, Loaded
<1>2. ui'.pc = "add" /\ ui'.board = ui.board /\ ui'.arg = r /\ TypeOK'
  BY <1>0, <1>1, UiIs DEF LoadConfig, IInv, TypeOK, Names, UiPcs, tables, screen, locks,
                          Associated
<1>3. Fresh(ui.board, r)' # {}
  <2>1. stations' = stations /\ members' = members
    BY DEF LoadConfig, tables
  <2> QED BY <1>1, <1>2, <2>1 DEF Fresh, Existing
<1>4. UiCarries'
  BY <1>0, <1>2, <1>3 DEF UiCarries, UiAt, Fresh
<1> QED BY <1>2, <1>4, UiMoves DEF LoadConfig, UiAt, UiReading

(* A window opens, and a saved room that is gone is forgotten.             *)
LEMMA OpenAdderStep == ASSUME IInv, OpenAdder PROVE IInv'
<1>0. ui.board \in Boards
  BY DEF OpenAdder, IInv, UiCarries, UiAt, UiPcs
<1>1. ui' \in [pc : UiPcs, board : Boards \cup {None}, arg : Rooms \cup Objects \cup {None}]
      /\ ui'.pc = "idle"
  BY UiIs DEF OpenAdder, UiIdle, UiPcs
<1>2. config' \in [Boards -> Names \cup {None}]
  BY DEF OpenAdder, MayForget, IInv, TypeOK
<1>3. DOMAIN adder' \subseteq Boards /\ Range(adder') \subseteq Rooms \cup {None}
  <2>1. DOMAIN adder \subseteq Boards /\ Range(adder) \subseteq Rooms \cup {None}
    BY DEF IInv, TypeOK
  <2>2. adder' = Stored(adder, ui.board, None)
    BY DEF OpenAdder
  <2> QED BY <1>0, <2>1, <2>2, StoredTyped
<1>4. TypeOK'
  BY <1>1, <1>2, <1>3 DEF OpenAdder, IInv, TypeOK, Names, tables, locks, Associated
<1> QED BY <1>1, <1>4, IdleCarries, UiMoves DEF OpenAdder, UiAt, UiReading

(* A loaded room is picked in the window.                                  *)
LEMMA PickRoomStep == ASSUME IInv, NEW b \in Boards, NEW r \in Rooms, PickRoom(b, r) PROVE IInv'
<1>1. DOMAIN adder' \subseteq Boards /\ Range(adder') \subseteq Rooms \cup {None}
  BY DEF PickRoom, IInv, TypeOK, Range
<1>2. TypeOK'
  BY <1>1 DEF PickRoom, IInv, TypeOK, Names, tables, locks, Associated
<1>3. UiCarries'
  BY DEF PickRoom, UiCarries, UiAt
<1> QED BY <1>2, <1>3, UiMoves DEF PickRoom, UiAt, UiReading

(* A new one is asked for,                                                 *)
LEMMA MakeRoomStep == ASSUME IInv, NEW b \in Boards, NEW r \in Rooms, MakeRoom(b, r) PROVE IInv'
<1>1. ui'.pc = "newroom" /\ ui'.board = b /\ ui'.arg = r /\ TypeOK'
  BY UiIs DEF MakeRoom, IInv, TypeOK, Names, UiPcs, tables, screen, locks, Associated
<1>2. UiCarries'
  BY <1>1 DEF UiCarries, UiAt
<1> QED BY <1>1, <1>2, UiMoves DEF MakeRoom, UiAt, UiReading

(* and made under the write lock.                                          *)
LEMMA CreateRoomStep == ASSUME IInv, CreateRoom PROVE IInv'
<1>0. ui.arg \in Rooms
  BY DEF CreateRoom, IInv, UiCarries, UiAt
<1>1. ui' \in [pc : UiPcs, board : Boards \cup {None}, arg : Rooms \cup Objects \cup {None}]
      /\ ui'.pc = "idle"
  BY UiIs DEF CreateRoom, UiIdle, UiPcs
<1>2. rooms' \in [Rooms -> {"new", "loaded", "stray", "archived"}]
  BY DEF CreateRoom, IInv, TypeOK
<1>3. DOMAIN adder' \subseteq Boards /\ Range(adder') \subseteq Rooms \cup {None}
  BY <1>0 DEF CreateRoom, IInv, TypeOK, Range
<1>4. TypeOK'
  BY <1>1, <1>2, <1>3 DEF CreateRoom, IInv, TypeOK, Names, tables, locks, Associated
<1> QED BY <1>1, <1>4, IdleCarries, UiMoves DEF CreateRoom, UiAt, UiReading

(* The room confirmed has a number left for the board.                     *)
LEMMA ConfirmStep == ASSUME IInv, NEW b \in Boards, ConfirmNewStation(b) PROVE IInv'
<1> DEFINE r == adder[b]
<1>0. r \in Rooms
  BY DEF ConfirmNewStation, IInv, TypeOK, Range
<1>1. ui'.pc = "create" /\ ui'.board = b /\ ui'.arg = r /\ TypeOK'
  BY <1>0, UiIs DEF ConfirmNewStation, IInv, TypeOK, Names, UiPcs, tables, screen, locks, Associated
<1>2. stations' = stations /\ members' = members /\ Fresh(b, r) # {} /\ adder' = adder
  BY DEF ConfirmNewStation, tables, screen
<1>3. Fresh(b, r)' # {}
  BY <1>2 DEF Fresh, Existing
<1>4. UiCarries'
  BY <1>0, <1>1, <1>2, <1>3 DEF UiCarries, UiAt, Fresh
<1> QED BY <1>1, <1>4, UiMoves DEF ConfirmNewStation, UiAt, UiReading

(* The window is closed.                                                   *)
LEMMA CloseAdderStep == ASSUME IInv, NEW b \in Boards, CloseAdder(b) PROVE IInv'
<1>1. DOMAIN adder' \subseteq Boards /\ Range(adder') \subseteq Rooms \cup {None}
  <2>1. DOMAIN adder \subseteq Boards /\ Range(adder) \subseteq Rooms \cup {None}
    BY DEF IInv, TypeOK
  <2>2. adder' = Forgotten(adder, b)
    BY DEF CloseAdder
  <2> QED BY <2>1, <2>2, ForgottenTyped
<1>2. TypeOK'
  BY <1>1 DEF CloseAdder, IInv, TypeOK, Names, tables, locks, Associated
<1>3. UiCarries'
  BY DEF CloseAdder, UiCarries, UiAt
<1> QED BY <1>2, <1>3, UiMoves DEF CloseAdder, UiAt, UiReading

(* The question opens,                                                     *)
LEMMA AskDeleteStep == ASSUME IInv, NEW b \in Boards, AskDelete(b) PROVE IInv'
<1>1. TypeOK'
  BY DEF AskDelete, IInv, TypeOK, Names, tables, locks, Associated
<1>2. UiCarries'
  BY DEF AskDelete, UiCarries, UiAt
<1> QED BY <1>1, <1>2, UiMoves DEF AskDelete, UiAt, UiReading

(* is answered with no,                                                    *)
LEMMA AnswerNoStep == ASSUME IInv, AnswerNo PROVE IInv'
<1>1. TypeOK'
  BY DEF AnswerNo, IInv, TypeOK, Names, tables, locks, Associated
<1>2. UiCarries'
  BY DEF AnswerNo, UiCarries, UiAt
<1> QED BY <1>1, <1>2, UiMoves DEF AnswerNo, UiAt, UiReading

(* or with yes when the board is gone.                                     *)
LEMMA AnswerYesTooLateStep == ASSUME IInv, AnswerYesTooLate PROVE IInv'
<1>1. ui'.pc = "crashed" /\ TypeOK'
  BY UiIs DEF AnswerYesTooLate, IInv, TypeOK, Names, UiPcs, tables, locks, Associated
<1> QED BY <1>1, IdleCarries, UiMoves DEF AnswerYesTooLate, UiAt, UiReading

(* The user deletes a room,                                                *)
LEMMA DeleteRoomStep == ASSUME IInv, NEW r \in Rooms, DeleteRoom(r) PROVE IInv'
<1>1. ui'.pc = "unroom" /\ ui'.arg = r /\ TypeOK'
  BY UiIs DEF DeleteRoom, IInv, TypeOK, Names, UiPcs, tables, screen, locks, Associated
<1>2. UiCarries'
  BY <1>1 DEF UiCarries, UiAt
<1> QED BY <1>1, <1>2, UiMoves DEF DeleteRoom, UiAt, UiReading

(* or ends the program with it.                                            *)
LEMMA RemoveRoomFailsStep == ASSUME IInv, RemoveRoomFails PROVE IInv'
<1>1. ui'.pc = "crashed" /\ TypeOK'
  BY UiIs DEF RemoveRoomFails, IInv, TypeOK, Names, UiPcs, tables, screen, locks, Associated
<1> QED BY <1>1, IdleCarries, UiMoves DEF RemoveRoomFails, UiAt, UiReading

-----------------------------------------------------------------------------
(* Steps of the pool threads between the removals.                         *)

TaskRecord == [pc : TaskPcs, rooms : SUBSET Rooms, list : SUBSET Objects,
               object : Objects \cup {None}]

(* Only thread t moves.                                                    *)
OnlyMoves(t) == /\ task' \in [Tasks -> TaskRecord]
                /\ \A u \in Tasks \ {t} : task'[u] = task[u]

(* Such a step keeps the invariant if its list stays within the station    *)
(* lists, an object that will be removed is of no board that was answered, *)
(* and the locks are lost only while the UI thread unlinks.                *)
LEMMA TaskMoves ==
    ASSUME IInv, UNCHANGED <<tables, rooms, config, screen, ui, answered, doubled>>,
           NEW t \in Tasks, OnlyMoves(t), silent' \subseteq silent,
           upgrader' \in Tasks \cup {None}, writer' \in Tasks \cup {None}, Held',
           ~doubled => /\ \A o \in task'[t].list : o \in members[RoomOf(o)]
                       /\ task'[t].pc = "remove" => BoardOf(task'[t].object) \notin answered
                       /\ task'[t].pc = "aborted" => UiAt("unlink")
    PROVE  IInv'
<1>1. /\ stations' = stations /\ members' = members /\ stationcount' = stationcount
      /\ rooms' = rooms /\ config' = config /\ adder' = adder /\ asking' = asking
      /\ ui' = ui /\ answered' = answered /\ doubled' = doubled
  BY DEF tables, screen
<1>2. TypeOK'
  BY <1>1 DEF IInv, TypeOK, Names, OnlyMoves, TaskRecord, Associated
<1>3. UiCarries'
  BY <1>1 DEF IInv, UiCarries, UiAt, Fresh, Existing, Associated
<1>4. Counted'
  BY <1>1 DEF IInv, Counted, Associated
<1>5. ASSUME ~doubled PROVE Once'
  <2>1. Once /\ \A u \in Tasks : u # t => task'[u] = task[u]
    BY <1>5 DEF IInv, OnlyMoves
  <2>2. \A r \in Rooms : \A o \in members'[r] :
           \/ BoardOf(o) \in Associated' /\ stations'[BoardOf(o)] = o
           \/ UiAt("unlink")' /\ ui'.arg = o
    BY <1>1, <2>1 DEF Once, Associated, UiAt
  <2>3. \A u \in Tasks : \A o \in task'[u].list : o \in members'[RoomOf(o)]
    BY <1>1, <1>5, <2>1 DEF Once
  <2>4. \A b \in answered' : b \in Associated' /\ stations'[b] \notin silent'
    BY <1>1, <2>1 DEF Once, Associated
  <2>5. \A u \in Tasks : task'[u].pc = "remove" => BoardOf(task'[u].object) \notin answered'
    BY <1>1, <1>5, <2>1 DEF Once
  <2>6. Leaked' => UiAt("unlink")'
    BY <1>1, <1>5, <2>1 DEF Once, Leaked, UiAt
  <2> QED BY <2>2, <2>3, <2>4, <2>5, <2>6 DEF Once
<1> QED BY <1>1, <1>2, <1>3, <1>4, <1>5 DEF IInv

(* What the invariant says of the threads.                                 *)
LEMMA TaskFacts ==
    ASSUME IInv
    PROVE  /\ task \in [Tasks -> TaskRecord]
           /\ upgrader \in Tasks \cup {None} /\ writer \in Tasks \cup {None}
           /\ None \notin Tasks
           /\ \A t \in Tasks :
                /\ task[t].pc \in {"check", "upgrade", "recheck", "remove", "aborted"} <=> upgrader = t
                /\ task[t].pc \in {"recheck", "remove", "aborted"} <=> writer = t
                /\ task[t].list # {} => upgrader = t
                /\ task[t].pc \in {"upgrade", "recheck", "remove", "aborted"} =>
                      task[t].object \in task[t].list
                /\ ~doubled => /\ \A o \in task[t].list : o \in members[RoomOf(o)]
                               /\ task[t].pc = "remove" => BoardOf(task[t].object) \notin answered
                               /\ task[t].pc = "aborted" => UiAt("unlink")
           /\ writer # None => ~UiReading
  BY RegistryAssumption DEF IInv, TypeOK, TaskRecord, Held, Once, Leaked

(* The changes of a thread.                                                *)
LEMMA SetIs ==
    ASSUME IInv, NEW t \in Tasks, NEW pc \in TaskPcs, Set(t, pc)
    PROVE  /\ OnlyMoves(t) /\ task'[t].pc = pc /\ task'[t].list = task[t].list
           /\ task'[t].object = task[t].object
  BY TaskFacts DEF Set, OnlyMoves, TaskRecord

(* Skipping drops the object from the list.                                *)
LEMMA SkipIs ==
    ASSUME IInv, NEW t \in Tasks, Skip(t)
    PROVE  /\ OnlyMoves(t) /\ task'[t].pc = "check"
           /\ task'[t].list = task[t].list \ {task[t].object}
           /\ task'[t].object = task[t].object
<1> DEFINE x == [task[t] EXCEPT !.pc = "check", !.list = @ \ {task[t].object}]
<1>1. task \in [Tasks -> TaskRecord]
  BY TaskFacts
<1>2. x \in TaskRecord /\ x.pc = "check" /\ x.list = task[t].list \ {task[t].object}
      /\ x.object = task[t].object
  BY <1>1 DEF TaskRecord, TaskPcs
<1>3. task' = [task EXCEPT ![t] = x]
  BY <1>1 DEF Skip
<1> QED BY <1>1, <1>2, <1>3 DEF OnlyMoves

(* A pass starts without a list.                                           *)
LEMMA WakeStep == ASSUME IInv, NEW t \in Tasks, Wake(t) PROVE IInv'
<1>1. /\ OnlyMoves(t) /\ task'[t].pc = "room" /\ task'[t].list = task[t].list
      /\ task[t].pc = "sleeps"
  <2> DEFINE x == [task[t] EXCEPT !.pc = "room", !.rooms = {r \in Rooms : rooms[r] = "loaded"}]
  <2>1. task \in [Tasks -> TaskRecord] /\ task[t].pc = "sleeps"
    BY TaskFacts DEF Wake, AtPc
  <2>2. x \in TaskRecord /\ x.pc = "room" /\ x.list = task[t].list
    BY <2>1 DEF TaskRecord, TaskPcs
  <2>3. task' = [task EXCEPT ![t] = x]
    BY <2>1 DEF Wake
  <2> QED BY <2>1, <2>2, <2>3 DEF OnlyMoves
<1>2. Held'
  BY <1>1, TaskFacts DEF Wake, locks, Held, OnlyMoves, UiReading, UiAt
<1> QED BY <1>1, <1>2, TaskFacts, TaskMoves DEF Wake, locks

(* The list is a copy of the stations of the room, taken under the lock.   *)
LEMMA CheckRoomStep == ASSUME IInv, NEW t \in Tasks, NEW r \in Rooms, CheckRoom(t, r) PROVE IInv'
<1>1. /\ OnlyMoves(t) /\ task'[t].pc = "check" /\ task'[t].list = members[r]
      /\ task[t].pc = "room" /\ upgrader' = t /\ upgrader = None /\ writer = None
      /\ writer' = writer
  BY TaskFacts DEF CheckRoom, AtPc, CanEnterUpgradeable, OnlyMoves, TaskRecord, TaskPcs, IInv, TypeOK
<1>2. Held'
  BY <1>1, TaskFacts DEF CheckRoom, Held, OnlyMoves, UiReading, UiAt
<1>3. \A o \in members[r] : o \in members[RoomOf(o)]
  BY DEF IInv, Counted
<1> QED BY <1>1, <1>2, <1>3, TaskFacts, TaskMoves DEF CheckRoom

(* A silent object is kept for the removal, the others leave the list.     *)
LEMMA CheckStep == ASSUME IInv, NEW t \in Tasks, NEW o \in task[t].list, Check(t, o) PROVE IInv'
<1>1. /\ OnlyMoves(t) /\ task[t].pc = "check"
      /\ \/ task'[t].pc = "upgrade" /\ task'[t].list = task[t].list /\ task'[t].object = o
         \/ task'[t].pc = "check" /\ task'[t].list = task[t].list \ {o}
  BY TaskFacts DEF Check, AtPc, OnlyMoves, TaskRecord, TaskPcs
<1>2. Held'
  BY <1>1, TaskFacts DEF Check, locks, Held, OnlyMoves, UiReading, UiAt
<1> QED BY <1>1, <1>2, TaskFacts, TaskMoves DEF Check, locks

(* The upgradeable lock is given back with an empty list.                  *)
LEMMA EndRoomStep == ASSUME IInv, NEW t \in Tasks, EndRoom(t) PROVE IInv'
<1>1. /\ OnlyMoves(t) /\ task[t].pc = "check" /\ task'[t].pc = "room"
      /\ task'[t].list = {} /\ upgrader = t /\ upgrader' = None /\ writer' = writer
  <2> DEFINE x == [task[t] EXCEPT !.pc = "room", !.object = None]
  <2>1. task \in [Tasks -> TaskRecord] /\ task[t].pc = "check" /\ task[t].list = {}
    BY TaskFacts DEF EndRoom, AtPc
  <2>2. x \in TaskRecord /\ x.pc = "room" /\ x.list = {}
    BY <2>1 DEF TaskRecord, TaskPcs
  <2>3. task' = [task EXCEPT ![t] = x]
    BY <2>1 DEF EndRoom
  <2> QED BY <2>1, <2>2, <2>3, TaskFacts DEF OnlyMoves, EndRoom
<1>2. Held'
  BY <1>1, TaskFacts DEF EndRoom, Held, OnlyMoves, UiReading, UiAt
<1> QED BY <1>1, <1>2, TaskFacts, TaskMoves DEF EndRoom

(* It becomes the write lock while no reader is in.                        *)
LEMMA EnterWriteStep == ASSUME IInv, NEW t \in Tasks, EnterWrite(t) PROVE IInv'
<1>1. /\ OnlyMoves(t) /\ task[t].pc = "upgrade" /\ task'[t].pc = "recheck"
      /\ task'[t].list = task[t].list /\ task'[t].object = task[t].object
      /\ upgrader = t /\ upgrader' = t /\ writer = None /\ writer' = t /\ ~UiReading
  BY SetIs, TaskFacts DEF EnterWrite, AtPc, CanUpgrade, TaskPcs
<1>2. Held'
  BY <1>1, TaskFacts DEF EnterWrite, Held, OnlyMoves, UiReading, UiAt
<1> QED BY <1>1, <1>2, TaskFacts, TaskMoves DEF EnterWrite

(* A board that was answered since is not silent.                          *)
LEMMA RecheckStep == ASSUME IInv, NEW t \in Tasks, Recheck(t) PROVE IInv'
<1> DEFINE o == task[t].object
<1>0. task[t].pc = "recheck" /\ writer = t /\ upgrader = t /\ o \in task[t].list
  BY TaskFacts DEF Recheck, AtPc
<1>1. CASE o \in silent
  <2>1. /\ OnlyMoves(t) /\ task'[t].pc = "remove" /\ task'[t].list = task[t].list
        /\ task'[t].object = o /\ writer' = writer /\ upgrader' = upgrader
    BY <1>1, SetIs, TaskFacts DEF Recheck, TaskPcs
  <2>2. Held'
    BY <1>0, <2>1, TaskFacts DEF Recheck, Held, OnlyMoves, UiReading, UiAt
  <2>3. ASSUME ~doubled PROVE BoardOf(o) \notin answered
    <3>1. o \in Objects /\ o \in members[RoomOf(o)] /\ RoomOf(o) \in Rooms
      BY <1>0, <2>3, TaskFacts, ObjectIs DEF TaskRecord
    <3>2. \/ BoardOf(o) \in Associated /\ stations[BoardOf(o)] = o
          \/ UiAt("unlink") /\ ui.arg = o
      BY <2>3, <3>1 DEF IInv, Once
    <3>3. UiAt("unlink") /\ ui.arg = o => BoardOf(o) \notin Associated
      BY DEF IInv, UiCarries
    <3> QED BY <1>1, <2>3, <3>2, <3>3 DEF IInv, Once
  <2> QED BY <1>0, <2>1, <2>2, <2>3, TaskFacts, TaskMoves DEF Recheck
<1>2. CASE o \notin silent
  <2>1. /\ OnlyMoves(t) /\ task'[t].pc = "check" /\ task'[t].list = task[t].list \ {o}
        /\ writer' = None /\ upgrader' = upgrader
    BY <1>2, SkipIs DEF Recheck
  <2>2. Held'
    BY <1>0, <2>1, TaskFacts DEF Recheck, Held, OnlyMoves, UiReading, UiAt
  <2> QED BY <1>0, <2>1, <2>2, TaskFacts, TaskMoves DEF Recheck
<1> QED BY <1>1, <1>2

(* The object that is not in the dictionary any more is being unlinked.    *)
LEMMA AbortStep == ASSUME IInv, NEW t \in Tasks, Abort(t) PROVE IInv'
<1> DEFINE o == task[t].object
<1>1. /\ OnlyMoves(t) /\ task[t].pc = "remove" /\ task'[t].pc = "aborted"
      /\ task'[t].list = task[t].list /\ task'[t].object = o
      /\ upgrader' = upgrader /\ writer' = writer /\ o \in task[t].list
      /\ BoardOf(o) \notin Associated
  BY SetIs, TaskFacts DEF Abort, AtPc, TaskPcs, locks
<1>2. Held'
  BY <1>1, TaskFacts DEF Abort, Held, OnlyMoves, UiReading, UiAt
<1>3. ASSUME ~doubled PROVE UiAt("unlink")
  <2>1. o \in Objects /\ o \in members[RoomOf(o)] /\ RoomOf(o) \in Rooms
    BY <1>1, <1>3, TaskFacts, ObjectIs DEF TaskRecord
  <2> QED BY <1>1, <1>3, <2>1 DEF IInv, Once
<1> QED BY <1>1, <1>2, <1>3, TaskFacts, TaskMoves DEF Abort

(* The pass ends,                                                          *)
LEMMA EndAlivenessStep == ASSUME IInv, NEW t \in Tasks, EndAliveness(t) PROVE IInv'
<1>1. /\ OnlyMoves(t) /\ task[t].pc = "room" /\ task'[t].pc = "pops"
      /\ task'[t].list = task[t].list /\ upgrader' = upgrader /\ writer' = writer
  BY SetIs, TaskFacts DEF EndAliveness, AtPc, TaskPcs, locks
<1>2. Held'
  BY <1>1, TaskFacts DEF EndAliveness, Held, OnlyMoves, UiReading, UiAt
<1> QED BY <1>1, <1>2, TaskFacts, TaskMoves DEF EndAliveness

(* and the thread with it.                                                 *)
LEMMA EndTaskStep == ASSUME IInv, NEW t \in Tasks, EndTask(t) PROVE IInv'
<1>1. /\ OnlyMoves(t) /\ task[t].pc = "pops" /\ task'[t].pc = "sleeps"
      /\ task'[t].list = {} /\ upgrader' = upgrader /\ writer' = writer
  BY TaskFacts DEF EndTask, AtPc, TaskPcs, locks, Sleep, OnlyMoves, TaskRecord
<1>2. Held'
  BY <1>1, TaskFacts DEF EndTask, Held, OnlyMoves, UiReading, UiAt
<1> QED BY <1>1, <1>2, TaskFacts, TaskMoves DEF EndTask

-----------------------------------------------------------------------------
(* Boards are heard, or fall silent.                                       *)

(* Such a step keeps the invariant if the boards it lets count as answered *)
(* are heard in the dictionary, and none of them is about to be removed.   *)
LEMMA Hears ==
    ASSUME IInv, UNCHANGED <<tables, task, locks, doubled>>, TypeOK', UiCarries',
           UiReading' => UiReading,
           UiAt("unlink") => UiAt("unlink")' /\ ui'.arg = ui.arg,
           ~doubled => /\ \A b \in answered' : b \in Associated /\ stations[b] \notin silent'
                       /\ \A t \in Tasks :
                            task[t].pc = "remove" => BoardOf(task[t].object) \notin answered'
    PROVE  IInv'
<1>1. /\ stations' = stations /\ members' = members /\ stationcount' = stationcount
      /\ task' = task /\ upgrader' = upgrader /\ writer' = writer /\ doubled' = doubled
  BY DEF tables, locks
<1>2. Counted'
  BY <1>1 DEF IInv, Counted, Associated
<1>3. Held'
  BY <1>1 DEF IInv, Held
<1>4. ASSUME ~doubled PROVE Once'
  <2>1. \A r \in Rooms : \A o \in members'[r] :
           \/ BoardOf(o) \in Associated' /\ stations'[BoardOf(o)] = o
           \/ UiAt("unlink")' /\ ui'.arg = o
    BY <1>1, <1>4 DEF IInv, Once, Associated
  <2>2. \A t \in Tasks : \A o \in task'[t].list : o \in members'[RoomOf(o)]
    BY <1>1, <1>4 DEF IInv, Once
  <2>3. /\ \A b \in answered' : b \in Associated' /\ stations'[b] \notin silent'
        /\ \A t \in Tasks : task'[t].pc = "remove" => BoardOf(task'[t].object) \notin answered'
    BY <1>1, <1>4 DEF Associated
  <2>4. Leaked' => UiAt("unlink")'
    BY <1>1, <1>4 DEF IInv, Once, Leaked
  <2> QED BY <2>1, <2>2, <2>3, <2>4 DEF Once
<1> QED BY <1>1, <1>2, <1>3, <1>4 DEF IInv

(* Nobody holds the write lock, so nobody is about to remove a station.    *)
LEMMA ReconnectStep == ASSUME IInv, Reconnect PROVE IInv'
<1>1. ui.board \in Associated /\ ui.board \in Boards
  BY DEF Reconnect, IInv, TypeOK
<1>2. ui' \in [pc : UiPcs, board : Boards \cup {None}, arg : Rooms \cup Objects \cup {None}]
      /\ ui'.pc = "idle"
  BY UiIs DEF Reconnect, UiIdle, UiPcs
<1>3. silent' \subseteq Objects /\ answered' \subseteq Boards
  BY <1>1 DEF Reconnect, IInv, TypeOK
<1>4. TypeOK'
  BY <1>2, <1>3 DEF Reconnect, IInv, TypeOK, Names, tables, screen, locks, Associated
<1>5. ASSUME NEW t \in Tasks PROVE task[t].pc # "remove"
  BY <1>5, TaskFacts DEF Reconnect
<1>6. ASSUME ~doubled, NEW b \in answered' PROVE b \in Associated /\ stations[b] \notin silent'
  <2>1. silent' = silent \ {stations[ui.board]} /\ answered' = answered \cup {ui.board}
    BY DEF Reconnect
  <2> QED BY <1>1, <1>6, <2>1 DEF IInv, Once
<1>7. UiCarries' /\ ~UiReading' /\ ~UiAt("unlink")
  BY <1>2, IdleCarries DEF UiReading, UiAt, Reconnect
<1> QED BY <1>4, <1>5, <1>6, <1>7, Hears DEF Reconnect

(* A heartbeat only makes an object less silent.                           *)
LEMMA HeartbeatStep == ASSUME IInv, NEW b \in Boards, Heartbeat(b) PROVE IInv'
<1>1. silent' \subseteq silent /\ answered' = answered /\ ui' = ui
  BY DEF Heartbeat
<1>2. TypeOK'
  BY <1>1 DEF Heartbeat, IInv, TypeOK, Names, tables, screen, locks, Associated
<1>3. UiCarries'
  BY DEF Heartbeat, IInv, UiCarries, UiAt, Fresh, Existing, Associated, tables
<1>4. ~doubled => /\ \A c \in answered' : c \in Associated /\ stations[c] \notin silent'
                  /\ \A t \in Tasks :
                       task[t].pc = "remove" => BoardOf(task[t].object) \notin answered'
  BY <1>1 DEF IInv, Once
<1> QED BY <1>1, <1>2, <1>3, <1>4, Hears DEF Heartbeat, UiReading, UiAt

(* A board whose object falls silent does not count as answered any more.  *)
LEMMA SilenceStep == ASSUME IInv, NEW o \in Objects, Silence(o) PROVE IInv'
<1>1. silent' = silent \cup {o} /\ answered' \subseteq answered /\ ui' = ui
  BY DEF Silence
<1>2. TypeOK'
  BY <1>1 DEF Silence, IInv, TypeOK, Names, tables, screen, locks, Associated
<1>3. UiCarries'
  BY DEF Silence, IInv, UiCarries, UiAt, Fresh, Existing, Associated, tables
<1>4. ASSUME ~doubled, NEW b \in answered' PROVE b \in Associated /\ stations[b] \notin silent'
  <2>1. b \in Associated /\ stations[b] \notin silent /\ BoardOf(stations[b]) = b
    BY <1>1, <1>4 DEF IInv, Once, Counted
  <2>2. stations[b] # o
    BY <1>4, <2>1, RangeIs DEF Silence, Associated
  <2> QED BY <1>1, <2>1, <2>2
<1>5. ~doubled => \A t \in Tasks :
                    task[t].pc = "remove" => BoardOf(task[t].object) \notin answered'
  BY <1>1 DEF IInv, Once
<1> QED BY <1>1, <1>2, <1>3, <1>4, <1>5, Hears DEF Silence, UiReading, UiAt

-----------------------------------------------------------------------------
(* The dictionary and the station lists change.                            *)

(* The user has confirmed: the station leaves the dictionary, not its room. *)
LEMMA AnswerYesStep == ASSUME IInv, AnswerYes PROVE IInv'
<1> DEFINE a == asking
           o == stations[a]
<1>1. a \in Associated /\ a \in Boards /\ o \in Objects /\ BoardOf(o) = a
      /\ o \in members[RoomOf(o)]
  BY DEF AnswerYes, IInv, TypeOK, Counted
<1>2. ui' \in [pc : UiPcs, board : Boards \cup {None}, arg : Rooms \cup Objects \cup {None}]
      /\ ui'.pc = "unlink" /\ ui'.board = a /\ ui'.arg = o /\ ui.pc = "idle"
  BY <1>1, UiIs DEF AnswerYes, UiPcs, UiAt
<1>3. /\ members' = members /\ stationcount' = stationcount /\ silent' = silent
      /\ task' = task /\ upgrader' = upgrader /\ writer' = writer /\ doubled' = doubled
      /\ answered' = answered \ {a} /\ stations' = Forgotten(stations, a)
  BY DEF AnswerYes, locks
<1>4. /\ DOMAIN stations' = Associated \ {a}
      /\ \A b \in Associated \ {a} : stations'[b] = stations[b]
  BY <1>3, ForgottenIs DEF Associated
<1> HIDE DEF a, o
<1>5. TypeOK'
  <2>1. DOMAIN stations' \subseteq Boards /\ Range(stations') \subseteq Objects
    BY <1>3, ForgottenTyped DEF IInv, TypeOK, Associated
  <2>2. answered' \subseteq Boards /\ asking' \in Boards \cup {None}
    BY <1>3 DEF AnswerYes, IInv, TypeOK
  <2> QED BY <1>2, <1>3, <2>1, <2>2 DEF AnswerYes, IInv, TypeOK, Names, Associated
<1>6. UiCarries'
  BY <1>1, <1>2, <1>3, <1>4 DEF UiCarries, UiAt, Associated
<1>7. Counted'
  BY <1>3, <1>4 DEF IInv, Counted, Associated
<1>8. Held'
  BY <1>2, <1>3 DEF IInv, Held, UiReading, UiAt
<1>9. ASSUME ~doubled PROVE Once'
  <2>1. \A r \in Rooms : \A x \in members'[r] :
           \/ BoardOf(x) \in Associated' /\ stations'[BoardOf(x)] = x
           \/ UiAt("unlink")' /\ ui'.arg = x
    <3> SUFFICES ASSUME NEW r \in Rooms, NEW x \in members[r]
                 PROVE  \/ BoardOf(x) \in Associated' /\ stations'[BoardOf(x)] = x
                        \/ UiAt("unlink")' /\ ui'.arg = x
      BY <1>3
    <3>1. BoardOf(x) \in Associated /\ stations[BoardOf(x)] = x
      BY <1>2, <1>9 DEF IInv, Once, UiAt
    <3> QED BY <1>2, <1>4, <3>1 DEF Associated, UiAt, o
  <2>2. \A t \in Tasks : \A x \in task'[t].list : x \in members'[RoomOf(x)]
    BY <1>3, <1>9 DEF IInv, Once
  <2>3. \A b \in answered' : b \in Associated' /\ stations'[b] \notin silent'
    BY <1>3, <1>4, <1>9 DEF IInv, Once, Associated
  <2>4. \A t \in Tasks : task'[t].pc = "remove" => BoardOf(task'[t].object) \notin answered'
    BY <1>3, <1>9 DEF IInv, Once
  <2>5. UiAt("unlink")'
    BY <1>2 DEF UiAt
  <2> QED BY <2>1, <2>2, <2>3, <2>4, <2>5 DEF Once
<1> QED BY <1>3, <1>5, <1>6, <1>7, <1>8, <1>9 DEF IInv

(* While nobody holds the upgradeable lock, no thread has a list, and none *)
(* is about to remove a station or has lost the locks.                     *)
LEMMA NobodyChecks ==
    ASSUME IInv, upgrader = None
    PROVE  \A t \in Tasks : /\ task[t].list = {}
                            /\ task[t].pc \notin {"remove", "aborted"}
  BY TaskFacts

(* A station is added: to the dictionary, to its room and to its count.    *)
LEMMA AssociateStep ==
    ASSUME IInv, ui.pc \in {"add", "create"}, CanWrite, Associate,
           UNCHANGED <<rooms, asking, task, locks>>,
           config' \in [Boards -> Names \cup {None}],
           DOMAIN adder' \subseteq Boards, Range(adder') \subseteq Rooms \cup {None}
    PROVE  IInv'
<1> DEFINE r == ui.arg
           a == ui.board
           o == CHOOSE x \in Fresh(a, r) : TRUE
<1>1. a \in Boards /\ r \in Rooms /\ Fresh(a, r) # {}
  BY DEF IInv, UiCarries, UiPcs
<1>2. o \in Objects /\ o \notin Existing /\ BoardOf(o) = a /\ RoomOf(o) = r
  BY <1>1 DEF Fresh
<1>3. /\ stations' = Stored(stations, a, o)
      /\ members' = [members EXCEPT ![r] = @ \cup {o}]
      /\ stationcount' = [stationcount EXCEPT ![r] = @ + 1]
      /\ silent' = silent \ {o} /\ answered' = answered \cup {a}
      /\ doubled' = (doubled \/ a \in Associated)
  BY DEF Associate, AddTo
<1>4. task' = task /\ upgrader' = upgrader /\ writer' = writer /\ rooms' = rooms
      /\ asking' = asking /\ upgrader = None /\ writer = None
  BY DEF locks, CanWrite
<1>5. ui' \in [pc : UiPcs, board : Boards \cup {None}, arg : Rooms \cup Objects \cup {None}]
      /\ ui'.pc = "idle"
  BY UiIs DEF Associate, UiIdle, UiPcs
<1> HIDE DEF r, a, o
<1>6. /\ DOMAIN stations' = Associated \cup {a} /\ stations'[a] = o
      /\ \A b \in Associated \ {a} : stations'[b] = stations[b]
  <2>1. stations' = Stored(stations, a, o)
    BY <1>3
  <2>2. /\ DOMAIN Stored(stations, a, o) = DOMAIN stations \cup {a}
        /\ Stored(stations, a, o)[a] = o
        /\ \A b \in DOMAIN stations \ {a} : Stored(stations, a, o)[b] = stations[b]
    BY DEF Stored
  <2> QED BY <2>1, <2>2 DEF Associated
<1>7. /\ members \in [Rooms -> SUBSET Objects] /\ stationcount \in [Rooms -> Nat]
      /\ \A q \in Rooms : /\ \A x \in members[q] : RoomOf(x) = q
                          /\ IsFiniteSet(members[q])
                          /\ stationcount[q] = Cardinality(members[q])
  BY DEF IInv, TypeOK, Counted
<1>8. o \notin members[r]
  BY <1>1, <1>2, <1>7 DEF Existing, Range
<1>9. TypeOK'
  <2>1. DOMAIN stations' \subseteq Boards /\ Range(stations') \subseteq Objects
    <3>1. DOMAIN stations \subseteq Boards /\ Range(stations) \subseteq Objects
      BY DEF IInv, TypeOK, Associated
    <3>2. stations' = Stored(stations, a, o) /\ a \in Boards /\ o \in Objects
      BY <1>1, <1>2, <1>3
    <3> QED BY <3>1, <3>2, StoredTyped
  <2>2. members' \in [Rooms -> SUBSET Objects]
    BY <1>2, <1>3, <1>7
  <2>3. stationcount' \in [Rooms -> Nat]
    <3>1. stationcount' = [stationcount EXCEPT ![r] = @ + 1] /\ stationcount[r] + 1 \in Nat
      BY <1>1, <1>3, <1>7
    <3> QED BY <1>7, <3>1
  <2>4. silent' \subseteq Objects /\ answered' \subseteq Boards
    BY <1>1, <1>3 DEF IInv, TypeOK
  <2>5. doubled' \in BOOLEAN
    BY <1>3 DEF IInv, TypeOK
  <2> QED BY <1>4, <1>5, <2>1, <2>2, <2>3, <2>4, <2>5 DEF IInv, TypeOK, Names, Associated
<1>10. UiCarries'
  BY <1>5, IdleCarries
<1>11. Counted'
  <2>1. ASSUME NEW b \in Associated'
        PROVE  /\ stations'[b] \in Objects /\ BoardOf(stations'[b]) = b
               /\ stations'[b] \in members'[RoomOf(stations'[b])]
    <3>1. CASE b = a
      BY <1>1, <1>2, <1>3, <1>6, <1>7, <3>1
    <3>2. CASE b # a
      <4>1. /\ stations[b] \in Objects /\ BoardOf(stations[b]) = b
            /\ stations[b] \in members[RoomOf(stations[b])] /\ stations'[b] = stations[b]
        BY <1>6, <2>1, <3>2 DEF IInv, Counted, Associated
      <4>2. RoomOf(stations[b]) \in Rooms
        BY <4>1, ObjectIs
      <4> QED BY <1>3, <1>7, <4>1, <4>2
    <3> QED BY <3>1, <3>2
  <2>2. ASSUME NEW q \in Rooms
        PROVE  /\ \A x \in members'[q] : RoomOf(x) = q
               /\ IsFiniteSet(members'[q])
               /\ stationcount'[q] = Cardinality(members'[q])
    <3>1. CASE q = r
      <4>1. members'[q] = members[r] \cup {o} /\ stationcount'[q] = stationcount[r] + 1
        BY <1>1, <1>3, <1>7, <3>1
      <4>2. IsFiniteSet(members[r] \cup {o})
            /\ Cardinality(members[r] \cup {o}) = Cardinality(members[r]) + 1
        BY <1>1, <1>7, <1>8, FS_AddElement
      <4> QED BY <1>1, <1>2, <1>7, <3>1, <4>1, <4>2
    <3>2. CASE q # r
      BY <1>3, <1>7, <3>2
    <3> QED BY <3>1, <3>2
  <2> QED BY <2>1, <2>2 DEF Counted
<1>12. Held'
  BY <1>4 DEF IInv, Held
<1>13. ASSUME ~doubled' PROVE Once'
  <2>1. ~doubled /\ a \notin Associated /\ Once
    BY <1>3, <1>13 DEF IInv
  <2>2. \A t \in Tasks : task'[t].list = {} /\ task'[t].pc \notin {"remove", "aborted"}
    BY <1>4, NobodyChecks
  <2>3. ASSUME NEW q \in Rooms, NEW x \in members'[q]
        PROVE  BoardOf(x) \in Associated' /\ stations'[BoardOf(x)] = x
    <3>1. CASE x = o
      BY <1>2, <1>6, <3>1 DEF Associated
    <3>2. CASE x # o
      <4>1. x \in members[q]
        BY <1>3, <1>7, <2>3, <3>2
      <4>2. BoardOf(x) \in Associated /\ stations[BoardOf(x)] = x
        BY <2>1, <4>1 DEF Once, UiAt
      <4> QED BY <1>6, <2>1, <4>2 DEF Associated
    <3> QED BY <3>1, <3>2
  <2>4. ASSUME NEW b \in answered' PROVE b \in Associated' /\ stations'[b] \notin silent'
    <3>1. CASE b = a
      BY <1>3, <1>6, <3>1 DEF Associated
    <3>2. CASE b # a
      <4>1. b \in Associated /\ stations[b] \notin silent
        BY <1>3, <2>1, <2>4, <3>2 DEF Once
      <4> QED BY <1>3, <1>6, <3>2, <4>1 DEF Associated
    <3> QED BY <3>1, <3>2
  <2> QED BY <2>2, <2>3, <2>4 DEF Once, Leaked
<1> QED BY <1>9, <1>10, <1>11, <1>12, <1>13 DEF IInv

(* The board is added to its saved room,                                   *)
LEMMA AddStationStep == ASSUME IInv, AddStation PROVE IInv'
<1>1. config' \in [Boards -> Names \cup {None}]
      /\ DOMAIN adder' \subseteq Boards /\ Range(adder') \subseteq Rooms \cup {None}
      /\ UNCHANGED <<rooms, asking, task, locks>>
  BY DEF AddStation, IInv, TypeOK, screen
<1> QED BY <1>1, AssociateStep DEF AddStation, UiAt

(* or to the one confirmed in the window.                                  *)
LEMMA CreateStationStep == ASSUME IInv, CreateStation PROVE IInv'
<1>1. ui.board \in Boards /\ ui.arg \in Rooms
  BY DEF CreateStation, IInv, UiCarries, UiAt, UiPcs
<1>2. config' \in [Boards -> Names \cup {None}]
  BY <1>1 DEF CreateStation, MaySave, IInv, TypeOK, Names
<1>3. DOMAIN adder' \subseteq Boards /\ Range(adder') \subseteq Rooms \cup {None}
  <2>1. DOMAIN adder \subseteq Boards /\ Range(adder) \subseteq Rooms \cup {None}
    BY DEF IInv, TypeOK
  <2>2. adder' = Forgotten(adder, ui.board)
    BY DEF CreateStation
  <2> QED BY <2>1, <2>2, ForgottenTyped
<1> QED BY <1>2, <1>3, AssociateStep DEF CreateStation, UiAt

(* What RemoveFrom leaves: each room counts the objects that stay in it.   *)
LEMMA RemovedIs ==
    ASSUME IInv, NEW os, os \subseteq Objects, \A o \in os : o \in members[RoomOf(o)],
           RemoveFrom(os)
    PROVE  /\ members' \in [Rooms -> SUBSET Objects] /\ stationcount' \in [Rooms -> Nat]
           /\ \A r \in Rooms : /\ members'[r] = members[r] \ os
                               /\ IsFiniteSet(members'[r])
                               /\ stationcount'[r] = Cardinality(members'[r])
<1>1. /\ members \in [Rooms -> SUBSET Objects] /\ stationcount \in [Rooms -> Nat]
      /\ \A r \in Rooms : /\ \A o \in members[r] : RoomOf(o) = r
                          /\ IsFiniteSet(members[r])
                          /\ stationcount[r] = Cardinality(members[r])
  BY DEF IInv, TypeOK, Counted
<1>2. /\ members' = [r \in Rooms |-> members[r] \ os]
      /\ stationcount' = [r \in Rooms |-> stationcount[r]
                              - Cardinality({o \in os : RoomOf(o) = r})]
  BY DEF RemoveFrom
<1>3. ASSUME NEW r \in Rooms
      PROVE  /\ members'[r] = members[r] \ os /\ IsFiniteSet(members'[r])
             /\ stationcount'[r] = Cardinality(members'[r]) /\ stationcount'[r] \in Nat
  <2> DEFINE out == {o \in os : RoomOf(o) = r}
  <2>1. members[r] \ os = members[r] \ out /\ members[r] \cap out = out
    BY <1>1
  <2>2. IsFiniteSet(members[r] \ out)
        /\ Cardinality(members[r] \ out) = Cardinality(members[r]) - Cardinality(members[r] \cap out)
    BY <1>1, FS_Difference
  <2>3. Cardinality(members[r] \ out) \in Nat
    BY <2>2, FS_CardinalityType
  <2>4. members'[r] = members[r] \ os /\ stationcount'[r] = stationcount[r] - Cardinality(out)
    BY <1>2
  <2> QED BY <1>1, <2>1, <2>2, <2>3, <2>4
<1> QED BY <1>1, <1>2, <1>3

(* The boards bs leave the dictionary and the objects os the rooms.  This  *)
(* keeps what Counted and Once say of the tables, if the objects of those  *)
(* boards are among os, and no object of a board that stays is.            *)
LEMMA Removal ==
    ASSUME IInv, NEW os, NEW bs, os \subseteq Objects, \A o \in os : o \in members[RoomOf(o)],
           RemoveFrom(os), DOMAIN stations' = Associated \ bs,
           \A b \in Associated \ bs : stations'[b] = stations[b],
           \A b \in bs \cap Associated : stations[b] \in os,
           \A o \in os : BoardOf(o) \in bs \/ BoardOf(o) \notin Associated
    PROVE  /\ Associated' \subseteq Boards /\ Range(stations') \subseteq Objects
           /\ Counted'
           /\ \A r \in Rooms : \A o \in members[r] :
                 BoardOf(o) \in Associated /\ stations[BoardOf(o)] = o /\ o \in members'[r]
                    => BoardOf(o) \in Associated' /\ stations'[BoardOf(o)] = o
<1>1. /\ members' \in [Rooms -> SUBSET Objects] /\ stationcount' \in [Rooms -> Nat]
      /\ \A r \in Rooms : /\ members'[r] = members[r] \ os
                          /\ IsFiniteSet(members'[r])
                          /\ stationcount'[r] = Cardinality(members'[r])
  BY RemovedIs
<1>2. Associated' = Associated \ bs
  BY DEF Associated
<1>3. ASSUME NEW b \in Associated'
      PROVE  /\ b \in Boards /\ stations'[b] \in Objects /\ BoardOf(stations'[b]) = b
             /\ stations'[b] \in members'[RoomOf(stations'[b])]
  <2>1. /\ b \in Associated /\ b \notin bs /\ b \in Boards
        /\ stations'[b] = stations[b] /\ stations[b] \in Objects
        /\ BoardOf(stations[b]) = b /\ stations[b] \in members[RoomOf(stations[b])]
    BY <1>2, <1>3 DEF IInv, TypeOK, Counted
  <2>2. RoomOf(stations[b]) \in Rooms /\ stations[b] \notin os
    BY <2>1, ObjectIs
  <2> QED BY <1>1, <2>1, <2>2
<1>4. Counted'
  <2>1. \A r \in Rooms : \A o \in members'[r] : RoomOf(o) = r
    BY <1>1 DEF IInv, Counted
  <2> QED BY <1>1, <1>3, <2>1 DEF Counted
<1>5. Range(stations') \subseteq Objects
  BY <1>3 DEF Range, Associated
<1>6. ASSUME NEW r \in Rooms, NEW o \in members[r], o \in members'[r],
             BoardOf(o) \in Associated, stations[BoardOf(o)] = o
      PROVE  BoardOf(o) \in Associated' /\ stations'[BoardOf(o)] = o
  <2>1. o \notin os
    BY <1>1, <1>6
  <2>2. BoardOf(o) \notin bs
    BY <1>6, <2>1
  <2> QED BY <1>2, <1>6, <2>2
<1> QED BY <1>3, <1>4, <1>5, <1>6

(* The second half of the UI deletion, under the write lock.               *)
LEMMA UnlinkStationStep == ASSUME IInv, UnlinkStation PROVE IInv'
<1> DEFINE o == ui.arg
           os == {o}
<1>1. /\ o \in Objects /\ o \in members[RoomOf(o)] /\ BoardOf(o) \notin Associated
      /\ ui.board \in Boards /\ ui.pc = "unlink"
  BY DEF UnlinkStation, IInv, UiCarries, UiAt, UiPcs
<1>2. /\ stations' = stations /\ RemoveFrom(os) /\ silent' = silent \ os
      /\ task' = task /\ upgrader' = upgrader /\ writer' = writer /\ rooms' = rooms
      /\ adder' = adder /\ asking' = asking /\ answered' = answered /\ doubled' = doubled
      /\ upgrader = None /\ writer = None
  BY DEF UnlinkStation, locks, screen, CanWrite
<1>3. ui' \in [pc : UiPcs, board : Boards \cup {None}, arg : Rooms \cup Objects \cup {None}]
      /\ ui'.pc = "idle"
  BY UiIs DEF UnlinkStation, UiIdle, UiPcs
<1>4. config' \in [Boards -> Names \cup {None}]
  BY DEF UnlinkStation, MayForget, IInv, TypeOK
<1>5. /\ os \subseteq Objects /\ \A x \in os : x \in members[RoomOf(x)]
      /\ \A x \in os : BoardOf(x) \notin Associated
  BY <1>1
<1>6. DOMAIN stations' = Associated \ {} /\ \A b \in Associated \ {} : stations'[b] = stations[b]
  BY <1>2 DEF Associated
<1> HIDE DEF os, o
<1>none. \A x \in {} \cap Associated : stations[x] \in os
  OBVIOUS
<1>7. /\ Associated' \subseteq Boards /\ Range(stations') \subseteq Objects /\ Counted'
      /\ \A r \in Rooms : \A x \in members[r] :
            BoardOf(x) \in Associated /\ stations[BoardOf(x)] = x /\ x \in members'[r]
               => BoardOf(x) \in Associated' /\ stations'[BoardOf(x)] = x
  BY <1>none, <1>2, <1>5, <1>6, Removal
<1>8. /\ members' \in [Rooms -> SUBSET Objects] /\ stationcount' \in [Rooms -> Nat]
      /\ \A r \in Rooms : members'[r] = members[r] \ os
  BY <1>2, <1>5, RemovedIs
<1>9. TypeOK'
  BY <1>2, <1>3, <1>4, <1>7, <1>8 DEF IInv, TypeOK, Names
<1>10. UiCarries'
  BY <1>3, IdleCarries
<1>11. Held'
  BY <1>2 DEF IInv, Held
<1>12. ASSUME ~doubled PROVE Once'
  <2>1. \A t \in Tasks : task'[t].list = {} /\ task'[t].pc \notin {"remove", "aborted"}
    BY <1>2, NobodyChecks
  <2>2. ASSUME NEW r \in Rooms, NEW x \in members'[r]
        PROVE  BoardOf(x) \in Associated' /\ stations'[BoardOf(x)] = x
    <3>1. x \in members[r] /\ x # o
      BY <1>8, <2>2 DEF os
    <3>2. BoardOf(x) \in Associated /\ stations[BoardOf(x)] = x
      BY <1>12, <3>1 DEF IInv, Once, o
    <3> QED BY <1>7, <2>2, <3>1, <3>2
  <2>3. \A b \in answered' : b \in Associated' /\ stations'[b] \notin silent'
    BY <1>2, <1>12 DEF IInv, Once, Associated
  <2> QED BY <2>1, <2>2, <2>3 DEF Once, Leaked
<1> QED BY <1>2, <1>7, <1>9, <1>10, <1>11, <1>12 DEF IInv

(* A room is deleted with its stations; nobody has a copy of their list.   *)
LEMMA RemoveRoomStep == ASSUME IInv, RemoveRoom PROVE IInv'
<1> DEFINE bs == {BoardOf(o) : o \in members[ui.arg]}
           os == {stations[b] : b \in bs}
<1>1. bs \subseteq Associated /\ ui.arg \in Rooms /\ ui.pc = "unroom"
  BY DEF RemoveRoom, IInv, UiCarries, UiAt
<1>2. /\ stations' = [b \in Associated \ bs |-> stations[b]] /\ RemoveFrom(os)
      /\ silent' \subseteq silent /\ answered' = answered \ bs
      /\ rooms' = [rooms EXCEPT ![ui.arg] = "archived"]
      /\ task' = task /\ upgrader' = upgrader /\ writer' = writer
      /\ adder' = adder /\ asking' = asking /\ doubled' = doubled
      /\ upgrader = None /\ writer = None
  BY DEF RemoveRoom, locks, screen, CanWrite
<1>3. ui' \in [pc : UiPcs, board : Boards \cup {None}, arg : Rooms \cup Objects \cup {None}]
      /\ ui'.pc = "idle"
  BY UiIs DEF RemoveRoom, UiIdle, UiPcs
<1>4. config' \in [Boards -> Names \cup {None}]
  BY DEF RemoveRoom, MayForget, IInv, TypeOK
<1>5. /\ os \subseteq Objects /\ \A x \in os : x \in members[RoomOf(x)]
      /\ \A x \in os : BoardOf(x) \in bs
      /\ \A b \in bs : stations[b] \in os
  BY <1>1 DEF IInv, Counted
<1> HIDE DEF bs, os
<1>6. DOMAIN stations' = Associated \ bs /\ \A b \in Associated \ bs : stations'[b] = stations[b]
  BY <1>2
<1>7. /\ Associated' \subseteq Boards /\ Range(stations') \subseteq Objects /\ Counted'
      /\ \A r \in Rooms : \A x \in members[r] :
            BoardOf(x) \in Associated /\ stations[BoardOf(x)] = x /\ x \in members'[r]
               => BoardOf(x) \in Associated' /\ stations'[BoardOf(x)] = x
  BY <1>2, <1>5, <1>6, Removal
<1>8. /\ members' \in [Rooms -> SUBSET Objects] /\ stationcount' \in [Rooms -> Nat]
      /\ \A r \in Rooms : members'[r] = members[r] \ os
  BY <1>2, <1>5, RemovedIs
<1>9. TypeOK'
  BY <1>2, <1>3, <1>4, <1>7, <1>8 DEF IInv, TypeOK, Names
<1>10. UiCarries'
  BY <1>3, IdleCarries
<1>11. Held'
  BY <1>2 DEF IInv, Held
<1>12. ASSUME ~doubled PROVE Once'
  <2>1. \A t \in Tasks : task'[t].list = {} /\ task'[t].pc \notin {"remove", "aborted"}
    BY <1>2, NobodyChecks
  <2>2. ASSUME NEW r \in Rooms, NEW x \in members'[r]
        PROVE  BoardOf(x) \in Associated' /\ stations'[BoardOf(x)] = x
    <3>1. x \in members[r]
      BY <1>8, <2>2
    <3>2. BoardOf(x) \in Associated /\ stations[BoardOf(x)] = x
      BY <1>1, <1>12, <3>1 DEF IInv, Once, UiAt
    <3> QED BY <1>7, <2>2, <3>1, <3>2
  <2>3. \A b \in answered' : b \in Associated' /\ stations'[b] \notin silent'
    <3>1. \A b \in answered : b \in Associated /\ stations[b] \notin silent
      BY <1>12 DEF IInv, Once
    <3> QED BY <1>2, <1>6, <3>1 DEF Associated
  <2> QED BY <2>1, <2>2, <2>3 DEF Once, Leaked
<1> QED BY <1>2, <1>7, <1>9, <1>10, <1>11, <1>12 DEF IInv

(* The periodic task removes a station: the one it looked at, while no     *)
(* board has two.                                                          *)
LEMMA RemoveSilentStep == ASSUME IInv, NEW t \in Tasks, RemoveSilent(t) PROVE IInv'
<1> DEFINE o == task[t].object
           b == BoardOf(o)
           os == {stations[b]}
<1>1. /\ task[t].pc = "remove" /\ writer = t /\ upgrader = t /\ o \in task[t].list
      /\ b \in Associated
  BY TaskFacts DEF RemoveSilent, AtPc
<1>2. /\ stations' = Forgotten(stations, b) /\ RemoveFrom(os) /\ silent' = silent
      /\ Skip(t) /\ writer' = None /\ upgrader' = upgrader /\ rooms' = rooms
      /\ config' = config /\ adder' = adder /\ asking' = asking /\ ui' = ui
      /\ answered' = answered /\ doubled' = doubled
  BY DEF RemoveSilent, screen
<1>3. OnlyMoves(t) /\ task'[t].pc = "check" /\ task'[t].list = task[t].list \ {o}
  BY <1>2, SkipIs
<1>4. /\ os \subseteq Objects /\ \A x \in os : x \in members[RoomOf(x)]
      /\ \A x \in os : BoardOf(x) \in {b}
      /\ \A a \in {b} : stations[a] \in os
  BY <1>1 DEF IInv, Counted
<1>5. DOMAIN stations' = Associated \ {b} /\ \A a \in Associated \ {b} : stations'[a] = stations[a]
  BY <1>2, ForgottenIs DEF Associated
<1> HIDE DEF b, o, os
<1>6. /\ Associated' \subseteq Boards /\ Range(stations') \subseteq Objects /\ Counted'
      /\ \A r \in Rooms : \A x \in members[r] :
            BoardOf(x) \in Associated /\ stations[BoardOf(x)] = x /\ x \in members'[r]
               => BoardOf(x) \in Associated' /\ stations'[BoardOf(x)] = x
  BY <1>2, <1>4, <1>5, Removal
<1>7. /\ members' \in [Rooms -> SUBSET Objects] /\ stationcount' \in [Rooms -> Nat]
      /\ \A r \in Rooms : members'[r] = members[r] \ os
  BY <1>2, <1>4, RemovedIs
<1>8. TypeOK'
  BY <1>2, <1>3, <1>6, <1>7, TaskFacts DEF IInv, TypeOK, Names, OnlyMoves, TaskRecord
<1>9. UiCarries'
  <2>1. \A r \in Rooms : Fresh(ui.board, r) \subseteq Fresh(ui.board, r)'
    <3>1. Existing' \subseteq Existing
      <4>1. Range(stations') \subseteq Range(stations)
        BY <1>5 DEF Range, Associated
      <4>2. UNION Range(members') \subseteq UNION Range(members)
        BY <1>7 DEF IInv, TypeOK, Range
      <4> QED BY <4>1, <4>2 DEF Existing
    <3> QED BY <1>2, <3>1 DEF Fresh
  <2>2. ASSUME UiAt("unlink")
        PROVE  /\ ui.arg \in Objects /\ ui.arg \in members'[RoomOf(ui.arg)]
               /\ BoardOf(ui.arg) = ui.board /\ ui.board \notin Associated'
    <3>1. /\ ui.arg \in Objects /\ ui.arg \in members[RoomOf(ui.arg)]
          /\ BoardOf(ui.arg) = ui.board /\ ui.board \notin Associated
      BY <2>2 DEF IInv, UiCarries
    <3>2. ui.arg \notin os /\ RoomOf(ui.arg) \in Rooms
      BY <1>1, <1>4, <3>1, ObjectIs
    <3>3. ui.board \notin Associated'
      BY <1>5, <3>1 DEF Associated
    <3> QED BY <1>7, <3>1, <3>2, <3>3
  <2>3. /\ ui.pc \in UiPcs \ {"idle", "unroom", "crashed"} => ui.board \in Boards
        /\ ui.pc \in {"add", "create", "newroom", "unroom"} => ui.arg \in Rooms
        /\ ui.pc \in {"add", "create"} => Fresh(ui.board, ui.arg) # {}
    BY DEF IInv, UiCarries
  <2>4. ui.pc \in {"add", "create"} => Fresh(ui.board, ui.arg)' # {}
    BY <1>2, <2>1, <2>3
  <2> QED BY <1>2, <2>2, <2>3, <2>4 DEF UiCarries, UiAt, Fresh
<1>10. Held'
  BY <1>1, <1>2, <1>3, TaskFacts DEF Held, OnlyMoves, UiReading, UiAt
<1>11. ASSUME ~doubled PROVE Once'
  <2>1. o \in Objects /\ o \in members[RoomOf(o)] /\ RoomOf(o) \in Rooms /\ b \notin answered
    BY <1>1, <1>11, TaskFacts, ObjectIs DEF TaskRecord, o, b
  <2>2. stations[b] = o
    <3>1. UiAt("unlink") /\ ui.arg = o => b \notin Associated
      BY DEF IInv, UiCarries, b
    <3> QED BY <1>1, <1>11, <2>1, <3>1 DEF IInv, Once, b
  <2>3. ASSUME NEW r \in Rooms, NEW x \in members'[r]
        PROVE  \/ BoardOf(x) \in Associated' /\ stations'[BoardOf(x)] = x
               \/ UiAt("unlink")' /\ ui'.arg = x
    <3>1. x \in members[r]
      BY <1>7, <2>3
    <3>2. \/ BoardOf(x) \in Associated /\ stations[BoardOf(x)] = x
          \/ UiAt("unlink") /\ ui.arg = x
      BY <1>11, <3>1 DEF IInv, Once
    <3> QED BY <1>2, <1>6, <2>3, <3>1, <3>2 DEF UiAt
  <2>4. ASSUME NEW u \in Tasks, NEW x \in task'[u].list PROVE x \in members'[RoomOf(x)]
    <3>1. u = t /\ x \in task[t].list /\ x # o
      BY <1>1, <1>3, <2>4, TaskFacts DEF OnlyMoves
    <3>2. x \in Objects /\ x \in members[RoomOf(x)] /\ RoomOf(x) \in Rooms
      BY <1>11, <3>1, TaskFacts, ObjectIs DEF TaskRecord
    <3> QED BY <1>7, <2>2, <3>1, <3>2 DEF os
  <2>5. \A a \in answered' : a \in Associated' /\ stations'[a] \notin silent'
    <3>1. \A a \in answered : a \in Associated /\ stations[a] \notin silent
      BY <1>11 DEF IInv, Once
    <3> QED BY <1>2, <1>5, <2>1, <3>1 DEF Associated
  <2>6. \A u \in Tasks : task'[u].pc \notin {"remove", "aborted"}
    BY <1>1, <1>3, TaskFacts DEF OnlyMoves
  <2> QED BY <2>3, <2>4, <2>5, <2>6 DEF Once, Leaked
<1> QED BY <1>2, <1>6, <1>8, <1>9, <1>10, <1>11 DEF IInv

-----------------------------------------------------------------------------
(* The invariant.                                                          *)

(* It holds when the server starts: no board, no list, no lock.            *)
LEMMA InitHolds == Init => IInv
<1> SUFFICES ASSUME Init PROVE IInv
  OBVIOUS
<1>1. /\ DOMAIN stations = {} /\ Range(stations) = {} /\ DOMAIN adder = {} /\ Range(adder) = {}
      /\ rooms \in [Rooms -> {"new", "loaded"}] /\ members = [r \in Rooms |-> {}]
      /\ stationcount = [r \in Rooms |-> 0] /\ asking = None /\ silent = {}
      /\ ui = [pc |-> "idle", board |-> None, arg |-> None]
      /\ task = [t \in Tasks |-> Sleep] /\ upgrader = None /\ writer = None
      /\ answered = {} /\ doubled = FALSE
      /\ config \in [Boards -> Names \cup {None}]
  BY DEF Init, Range
<1>2. TypeOK
  <2>1. /\ rooms \in [Rooms -> {"new", "loaded", "stray", "archived"}]
        /\ members \in [Rooms -> SUBSET Objects] /\ stationcount \in [Rooms -> Nat]
        /\ config \in [Boards -> Names \cup {None}]
    BY <1>1
  <2>2. ui \in [pc : UiPcs, board : Boards \cup {None}, arg : Rooms \cup Objects \cup {None}]
    BY <1>1 DEF UiPcs
  <2>3. task \in [Tasks -> [pc : TaskPcs, rooms : SUBSET Rooms, list : SUBSET Objects,
                            object : Objects \cup {None}]]
    BY <1>1 DEF TaskPcs, Sleep
  <2> QED BY <1>1, <2>1, <2>2, <2>3 DEF TypeOK, Associated
<1>3. UiCarries
  BY <1>1 DEF UiCarries, UiAt
<1>4. Counted
  BY <1>1, FS_EmptySet DEF Counted, Associated
<1>5. Held
  BY <1>1, RegistryAssumption DEF Held, Sleep
<1>6. Once
  BY <1>1 DEF Once, Leaked, Sleep
<1> QED BY <1>2, <1>3, <1>4, <1>5, <1>6 DEF IInv

(* Every step keeps it.                                                    *)
LEMMA StepHolds == IInv /\ [Next]_vars => IInv'
<1> SUFFICES ASSUME IInv, [Next]_vars PROVE IInv'
  OBVIOUS
<1>1. ASSUME NEW b \in Boards,
             \/ Register(b)
             \/ \E r \in Rooms : PickRoom(b, r) \/ MakeRoom(b, r)
             \/ ConfirmNewStation(b)
             \/ CloseAdder(b)
             \/ AskDelete(b)
             \/ Heartbeat(b)
      PROVE  IInv'
  BY <1>1, RegisterStep, PickRoomStep, MakeRoomStep, ConfirmStep, CloseAdderStep,
     AskDeleteStep, HeartbeatStep
<1>2. CASE \E o \in Objects : Silence(o)
  BY <1>2, SilenceStep
<1>3. CASE AnswerNo \/ AnswerYes \/ AnswerYesTooLate
  BY <1>3, AnswerNoStep, AnswerYesStep, AnswerYesTooLateStep
<1>4. CASE \E r \in Rooms : DeleteRoom(r)
  BY <1>4, DeleteRoomStep
<1>5. CASE EnterRead
  BY <1>5, EnterReadStep
<1>6. CASE UiStep
  BY <1>6, ReconnectStep, NotAssociatedStep, LoadConfigStep, OpenAdderStep, AddStationStep,
     CreateRoomStep, CreateStationStep, UnlinkStationStep, RemoveRoomStep, RemoveRoomFailsStep
     DEF UiStep
<1>7. CASE Timer
  BY <1>7, WakeStep DEF Timer
<1>8. ASSUME NEW t \in Tasks, NextRoom(t) PROVE IInv'
  <2>1. task[t].rooms \subseteq Rooms
    BY TaskFacts DEF TaskRecord
  <2> QED BY <1>8, <2>1, CheckRoomStep DEF NextRoom
<1>9. ASSUME NEW t \in Tasks, TaskStep(t) PROVE IInv'
  BY <1>9, CheckStep, EndRoomStep, EnterWriteStep, RecheckStep, RemoveSilentStep, AbortStep,
     EndAlivenessStep, EndTaskStep DEF TaskStep
<1>10. CASE UNCHANGED vars
  <2>1. /\ UNCHANGED <<tables, silent, task, locks, answered, doubled>>
        /\ rooms' = rooms /\ config' = config /\ adder' = adder /\ asking' = asking /\ ui' = ui
    BY <1>10 DEF vars, tables, locks
  <2>2. TypeOK' /\ UiCarries'
    BY <2>1 DEF IInv, TypeOK, UiCarries, UiAt, Fresh, Existing, Associated, tables, locks
  <2> QED BY <2>1, <2>2, Hears DEF IInv, Once, UiReading, UiAt
<1> QED BY <1>1, <1>2, <1>3, <1>4, <1>5, <1>6, <1>7, <1>8, <1>9, <1>10 DEF Next

(* So it always holds.                                                     *)
LEMMA AlwaysHolds == Spec => []IInv
  BY InitHolds, StepHolds, PTL DEF Spec

(* The dictionaries, lists, counts, locks and threads keep their types; a  *)
(* station count is never negative, whatever deletes a station.            *)
THEOREM TypeCorrect == Spec => []TypeOK
<1>1. IInv => TypeOK
  BY DEF IInv
<1> QED BY <1>1, AlwaysHolds, PTL

(* While no board has two objects, the rooms list exactly the stations of  *)
(* the dictionary, and the one being unlinked, and count them right.       *)
THEOREM TablesAlwaysAgree == Spec => []TablesAgree
<1>1. ASSUME IInv PROVE TablesAgree
  <2> SUFFICES ASSUME ~doubled, NEW r \in Rooms
               PROVE  /\ members[r] = {o \in Range(stations) \cup Unlinking : RoomOf(o) = r}
                      /\ stationcount[r] = Cardinality(members[r])
    BY DEF TablesAgree
  <2>1. ASSUME NEW o \in members[r] PROVE o \in Range(stations) \cup Unlinking /\ RoomOf(o) = r
    <3>1. RoomOf(o) = r
      BY <1>1 DEF IInv, Counted
    <3>2. CASE BoardOf(o) \in Associated /\ stations[BoardOf(o)] = o
      BY <3>1, <3>2, RangeIs DEF Associated
    <3>3. CASE UiAt("unlink") /\ ui.arg = o
      BY <3>1, <3>3 DEF Unlinking
    <3> QED BY <1>1, <3>2, <3>3 DEF IInv, Once
  <2>2. ASSUME NEW o \in Range(stations) \cup Unlinking, RoomOf(o) = r PROVE o \in members[r]
    <3>1. CASE o \in Range(stations)
      BY <1>1, <2>2, <3>1, RangeIs DEF IInv, Counted, Associated
    <3>2. CASE o \in Unlinking
      BY <1>1, <2>2, <3>2 DEF IInv, UiCarries, Unlinking
    <3> QED BY <3>1, <3>2
  <2>3. stationcount[r] = Cardinality(members[r])
    BY <1>1 DEF IInv, Counted
  <2> QED BY <2>1, <2>2, <2>3
<1> QED BY <1>1, AlwaysHolds, PTL

(* A board that was told it is associated is not removed before it has     *)
(* been silent again: the second look under the write lock is enough.      *)
THEOREM ReconnectedAlwaysStays == Spec => []ReconnectedStays
<1>1. IInv => ReconnectedStays
  BY DEF IInv, Once, ReconnectedStays
<1> QED BY <1>1, AlwaysHolds, PTL

(* The periodic task loses its two locks only to a deletion by the user    *)
(* that has emptied the dictionary and waits for one of them.              *)
THEOREM OnlyDeletionsEverLeak == Spec => []OnlyDeletionsLeak
<1>1. IInv => OnlyDeletionsLeak
  BY DEF IInv, Once, OnlyDeletionsLeak
<1> QED BY <1>1, AlwaysHolds, PTL

=============================================================================
