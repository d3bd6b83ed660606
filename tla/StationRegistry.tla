--------------------------- MODULE StationRegistry ---------------------------
(***************************************************************************)
(* Which boards are associated with which rooms: the dictionaries of       *)
(* Context (src/Server/Context.cs), the station lists of the rooms         *)
(* (src/Server/Room.cs) and the ReaderWriterLockSlim around them.          *)
(*                                                                         *)
(* Two kinds of threads meet here.  The UI thread executes one operation   *)
(* at a time: registrations, which the connection threads hand to it with  *)
(* Dispatcher.Invoke, and what the user does in the windows.  The timer of *)
(* FileParser starts a periodic task every 30 seconds, on another thread   *)
(* of the pool when the last one has not ended; it removes the boards that *)
(* have been silent for more than 1.1 minutes.  A connection thread that   *)
(* receives a file refreshes the heartbeat of its board without any lock.  *)
(*                                                                         *)
(* A Station object is named by its board, its room (location.room, which  *)
(* never changes) and a number that tells two such objects apart.  Rooms   *)
(* are Room objects: the dictionary and the database know them by name, and *)
(* the window that makes one does so even when the name is taken.  Where   *)
(* both tables change under the write lock, taking the lock, the change    *)
(* and releasing it are one step; the steps of the UI deletion and of the  *)
(* periodic task, which do not hold it throughout, are apart.  The database *)
(* answers or fails, as the code allows at each call.                      *)
(***************************************************************************)
EXTENDS Integers, FiniteSets, Functions, Recency

CONSTANTS Boards,       \* MAC addresses
          Rooms,        \* Room objects
          NameOf(_),    \* roomName of a Room object
          Tasks,        \* bound: pool threads that run the periodic task
          Copies,       \* bound: objects of one board in one room at once
          None          \* nothing: no room, no board, no thread

Names == {NameOf(r) : r \in Rooms}

ASSUME RegistryAssumption ==
    /\ None \notin Boards \cup Rooms \cup Names \cup Tasks
    /\ Copies \in Nat \ {0}

VARIABLES stations,     \* Context.stations: board -> Station object
          rooms,        \* per room: "new", "loaded" in Context.rooms, "archived",
                        \* or "stray": made while its name was loaded
          members,      \* Room.stationsInRoom
          stationcount, \* Room.stationcount
          config,       \* the database: the name of the room saved for a board
          adder,        \* open StationAdder windows: board -> room picked so far
          asking,       \* the board the open "Delete station?" box is about
          silent,       \* objects whose lastHearthbeat is over 1.1 minutes old
          ui,           \* the UI thread: [pc, board, arg], arg a room or object
          task,         \* per pool thread: [pc, rooms, list, object]
          upgrader,     \* holder of the upgradeable read lock
          writer,       \* pool thread that holds the write lock
          answered,     \* history: boards told they are associated, heard since
          doubled       \* history: a board got an object while it had one

vars == <<stations, rooms, members, stationcount, config, adder, asking,
          silent, ui, task, upgrader, writer, answered, doubled>>

tables == <<stations, members, stationcount>>
locks  == <<upgrader, writer>>
screen == <<adder, asking>>

Objects    == Boards \X Rooms \X (1..Copies)
BoardOf(o) == o[1]
RoomOf(o)  == o[2]
Existing   == Range(stations) \cup UNION Range(members)

Associated == DOMAIN stations
UiAt(pc)   == ui.pc = pc
Ui(pc, b, x) == ui' = [pc |-> pc, board |-> b, arg |-> x]
UiIdle     == Ui("idle", None, None)
Sleep      == [pc |-> "sleeps", rooms |-> {}, list |-> {}, object |-> None]

(* getRoom.                                                                *)
Loaded(n) == {r \in Rooms : rooms[r] = "loaded" /\ NameOf(r) = n}

Init ==
    /\ stations = [b \in {} |-> None]
    /\ rooms \in [Rooms -> {"new", "loaded"}]
    /\ \A r, q \in Rooms : rooms[r] = "loaded" /\ q \in Loaded(NameOf(r)) => q = r
    /\ members = [r \in Rooms |-> {}]
    /\ stationcount = [r \in Rooms |-> 0]
    /\ config \in [Boards -> {n \in Names : Loaded(n) # {}} \cup {None}]
    /\ adder = [b \in {} |-> None]
    /\ asking = None
    /\ silent = {}
    /\ ui = [pc |-> "idle", board |-> None, arg |-> None]
    /\ task = [t \in Tasks |-> Sleep]
    /\ upgrader = None
    /\ writer = None
    /\ answered = {}
    /\ doubled = FALSE

-----------------------------------------------------------------------------
(* The lock.  A thread that waits for the write lock keeps new readers     *)
(* out; an upgradeable reader keeps other upgradeable readers and writers  *)
(* out, but not the readers.                                               *)
UiReading     == UiAt("reading")
UiWantsWrite  == ui.pc \in {"add", "create", "unlink", "unroom", "newroom"}
TaskWaits     == \E t \in Tasks : task[t].pc = "upgrade"

CanRead       == writer = None /\ ~TaskWaits
CanWrite      == writer = None /\ upgrader = None
CanUpgrade(t) == writer = None /\ upgrader = t /\ ~UiReading

CanEnterUpgradeable == writer = None /\ upgrader = None /\ ~UiWantsWrite

(* Room.addStation and removeStation, with the entry of the dictionary.    *)
Fresh(b, r) == {o \in Objects \ Existing : BoardOf(o) = b /\ RoomOf(o) = r}

AddTo(r, b) ==
    LET o == CHOOSE x \in Fresh(b, r) : TRUE
    IN  /\ stations' = Stored(stations, b, o)
        /\ members' = [members EXCEPT ![r] = @ \cup {o}]
        /\ stationcount' = [stationcount EXCEPT ![r] = @ + 1]
        /\ silent' = silent \ {o}

(* Mutants: the count of a room is lowered once, whoever leaves it, or by  *)
(* the room and by its caller.                                             *)
RemoveFrom_Once(os) ==
    /\ members' = [r \in Rooms |-> members[r] \ os]
    /\ stationcount' = [r \in Rooms |-> stationcount[r]
                            - (IF \E o \in os : RoomOf(o) = r THEN 1 ELSE 0)]

RemoveFrom_Twice(os) ==
    /\ members' = [r \in Rooms |-> members[r] \ os]
    /\ stationcount' = [r \in Rooms |-> stationcount[r]
                            - 2 * Cardinality({o \in os : RoomOf(o) = r})]

RemoveFrom(os) ==
    /\ members' = [r \in Rooms |-> members[r] \ os]
    /\ stationcount' = [r \in Rooms |-> stationcount[r]
                            - Cardinality({o \in os : RoomOf(o) = r})]

(* deleteStation and saveStation: the database does it, or fails.          *)
MayForget(bs) ==
    config' \in {config, [b \in Boards |-> IF b \in bs THEN None ELSE config[b]]}
MaySave(b, r) == config' \in {config, [config EXCEPT ![b] = NameOf(r)]}

-----------------------------------------------------------------------------
(* tryAddStation: a board registers.                                       *)
Register(b) ==
    /\ UiAt("idle")
    /\ Ui("register", b, None)
    /\ UNCHANGED <<tables, rooms, config, screen, silent, task, locks, answered, doubled>>

EnterRead ==
    /\ UiAt("register")
    /\ CanRead
    /\ Ui("reading", ui.board, None)
    /\ UNCHANGED <<tables, rooms, config, screen, silent, task, locks, answered, doubled>>

(* It is reconnecting: the object gets the new handler and a heartbeat.    *)
Reconnect ==
    /\ UiReading
    /\ ui.board \in Associated
    /\ silent' = silent \ {stations[ui.board]}
    /\ answered' = answered \cup {ui.board}
    /\ UiIdle
    /\ UNCHANGED <<tables, rooms, config, screen, task, locks, doubled>>

NotAssociated ==
    /\ UiReading
    /\ ui.board \notin Associated
    /\ Ui("load", ui.board, None)
    /\ UNCHANGED <<tables, rooms, config, screen, silent, task, locks, answered, doubled>>

(* loadStation: the board has a saved room that is still loaded ...        *)
LoadConfig ==
    /\ UiAt("load")
    /\ \E r \in Loaded(config[ui.board]) :
           Fresh(ui.board, r) # {} /\ Ui("add", ui.board, r)
    /\ UNCHANGED <<tables, rooms, config, screen, silent, task, locks, answered, doubled>>

(* ... or none, or the database does not answer, or the room is gone: a    *)
(* StationAdder window opens, in place of the one the board may have.      *)
OpenAdder ==
    /\ UiAt("load")
    /\ IF Loaded(config[ui.board]) = {} THEN MayForget({ui.board})
       ELSE UNCHANGED config
    /\ adder' = Stored(adder, ui.board, None)
    /\ UiIdle
    /\ UNCHANGED <<tables, rooms, asking, silent, task, locks, answered, doubled>>

Associate ==
    /\ AddTo(ui.arg, ui.board)
    /\ doubled' = (doubled \/ ui.board \in Associated)
    /\ answered' = answered \cup {ui.board}
    /\ UiIdle

AddStation ==
    /\ UiAt("add")
    /\ CanWrite
    /\ Associate
    /\ UNCHANGED <<rooms, config, screen, task, locks>>

-----------------------------------------------------------------------------
(* The pages of the StationAdder window: a room is picked, or made, ...    *)
PickRoom(b, r) ==
    /\ UiAt("idle")
    /\ b \in DOMAIN adder
    /\ rooms[r] = "loaded"
    /\ adder' = [adder EXCEPT ![b] = r]
    /\ UNCHANGED <<tables, rooms, config, asking, silent, ui, task, locks, answered, doubled>>

(* A name in use is refused only if the database says so: when it does not *)
(* answer, or the room was never saved, the page goes on, ...              *)
MakeRoom(b, r) ==
    /\ UiAt("idle")
    /\ b \in DOMAIN adder
    /\ rooms[r] = "new"
    /\ Ui("newroom", b, r)
    /\ UNCHANGED <<tables, rooms, config, screen, silent, task, locks, answered, doubled>>

(* ... and keeps the object it made even when createRoom refuses the name. *)
CreateRoom ==
    /\ UiAt("newroom")
    /\ CanWrite
    /\ rooms' = [rooms EXCEPT ![ui.arg] =
                      IF Loaded(NameOf(ui.arg)) = {} THEN "loaded" ELSE "stray"]
    /\ adder' = [adder EXCEPT ![ui.board] = ui.arg]
    /\ UiIdle
    /\ UNCHANGED <<tables, config, asking, silent, task, locks, answered, doubled>>

(* ... and the position confirmed.  Nobody looks again whether the room is *)
(* still loaded.                                                           *)
ConfirmNewStation(b) ==
    /\ UiAt("idle")
    /\ b \in DOMAIN adder
    /\ adder[b] # None /\ Fresh(b, adder[b]) # {}
    /\ Ui("create", b, adder[b])
    /\ UNCHANGED <<tables, rooms, config, screen, silent, task, locks, answered, doubled>>

CreateStation ==
    /\ UiAt("create")
    /\ CanWrite
    /\ Associate
    /\ MaySave(ui.board, ui.arg)
    /\ adder' = Forgotten(adder, ui.board)
    /\ UNCHANGED <<rooms, asking, task, locks>>

(* Closed without a confirmation: the board is told to reboot.             *)
CloseAdder(b) ==
    /\ UiAt("idle")
    /\ b \in DOMAIN adder
    /\ adder' = Forgotten(adder, b)
    /\ UNCHANGED <<tables, rooms, config, asking, silent, ui, task, locks, answered, doubled>>

-----------------------------------------------------------------------------
(* The user deletes a station.  While the question is open the UI thread   *)
(* keeps serving registrations.                                            *)
AskDelete(b) ==
    /\ UiAt("idle")
    /\ asking = None
    /\ b \in Associated
    /\ asking' = b
    /\ UNCHANGED <<tables, rooms, config, adder, silent, ui, task, locks, answered, doubled>>

AnswerNo ==
    /\ UiAt("idle")
    /\ asking # None
    /\ asking' = None
    /\ UNCHANGED <<tables, rooms, config, adder, silent, ui, task, locks, answered, doubled>>

(* removeStation takes the station out of the dictionary, and only then    *)
(* asks for the write lock.                                                *)
AnswerYes ==
    /\ UiAt("idle")
    /\ asking \in Associated
    /\ Ui("unlink", asking, stations[asking])
    /\ stations' = Forgotten(stations, asking)
    /\ answered' = answered \ {asking}
    /\ asking' = None
    /\ UNCHANGED <<members, stationcount, rooms, config, adder, silent, task, locks,
                   doubled>>

(* The periodic task was faster: the null station ends the program.        *)
AnswerYesTooLate ==
    /\ UiAt("idle")
    /\ asking # None /\ asking \notin Associated
    /\ Ui("crashed", None, None)
    /\ asking' = None
    /\ UNCHANGED <<tables, rooms, config, adder, silent, task, locks, answered, doubled>>

UnlinkStation ==
    /\ UiAt("unlink")
    /\ CanWrite
    /\ RemoveFrom({ui.arg})
    /\ silent' = silent \ {ui.arg}
    /\ MayForget({ui.board})
    /\ UiIdle
    /\ UNCHANGED <<stations, rooms, screen, task, locks, answered, doubled>>

(* removeRoom: everything happens under the write lock.  The stations of   *)
(* the room are removed by name; one that the dictionary does not have any *)
(* more ends the program.                                                  *)
DeleteRoom(r) ==
    /\ UiAt("idle")
    /\ rooms[r] = "loaded"
    /\ Ui("unroom", None, r)
    /\ UNCHANGED <<tables, rooms, config, screen, silent, task, locks, answered, doubled>>

RemoveRoom ==
    /\ UiAt("unroom")
    /\ CanWrite
    /\ LET bs == {BoardOf(o) : o \in members[ui.arg]}
       IN  /\ bs \subseteq Associated
           /\ Cardinality(bs) = Cardinality(members[ui.arg])
           /\ stations' = [b \in Associated \ bs |-> stations[b]]
           /\ RemoveFrom({stations[b] : b \in bs})
           /\ silent' = silent \cap Existing'
           /\ MayForget(bs)
           /\ answered' = answered \ bs
    /\ rooms' = [rooms EXCEPT ![ui.arg] = "archived"]
    /\ UiIdle
    /\ UNCHANGED <<screen, task, locks, doubled>>

RemoveRoomFails ==
    /\ UiAt("unroom")
    /\ CanWrite
    /\ LET bs == {BoardOf(o) : o \in members[ui.arg]}
       IN  ~(bs \subseteq Associated /\ Cardinality(bs) = Cardinality(members[ui.arg]))
    /\ Ui("crashed", None, None)
    /\ UNCHANGED <<tables, rooms, config, screen, silent, task, locks, answered, doubled>>

-----------------------------------------------------------------------------
(* checkAllStationAliveness, the first thing the periodic task does.       *)
Set(t, pc)    == task' = [task EXCEPT ![t].pc = pc]
Skip(t)       == task' = [task EXCEPT ![t].pc = "check", ![t].list = @ \ {task[t].object}]
AtPc(t, pc)   == task[t].pc = pc /\ ~UiAt("crashed")

Wake(t) ==
    /\ AtPc(t, "sleeps")
    /\ task' = [task EXCEPT ![t].pc = "room",
                            ![t].rooms = {r \in Rooms : rooms[r] = "loaded"}]
    /\ UNCHANGED <<tables, rooms, config, screen, silent, ui, locks, answered, doubled>>

(* checkStationAliveness of one room, on a copy of its stations.           *)
CheckRoom(t, r) ==
    /\ AtPc(t, "room")
    /\ r \in task[t].rooms
    /\ CanEnterUpgradeable
    /\ upgrader' = t
    /\ task' = [task EXCEPT ![t].pc = "check", ![t].rooms = @ \ {r}, ![t].list = members[r]]
    /\ UNCHANGED <<tables, rooms, config, screen, silent, ui, writer, answered, doubled>>

Check_Reversed(t, o) ==                                                \* mutant
    /\ AtPc(t, "check")
    /\ o \in task[t].list
    /\ IF o \notin silent
       THEN task' = [task EXCEPT ![t].pc = "upgrade", ![t].object = o]
       ELSE task' = [task EXCEPT ![t].list = @ \ {o}]
    /\ UNCHANGED <<tables, rooms, config, screen, silent, ui, locks, answered, doubled>>

Check(t, o) ==
    /\ AtPc(t, "check")
    /\ o \in task[t].list
    /\ IF o \in silent
       THEN task' = [task EXCEPT ![t].pc = "upgrade", ![t].object = o]
       ELSE task' = [task EXCEPT ![t].list = @ \ {o}]
    /\ UNCHANGED <<tables, rooms, config, screen, silent, ui, locks, answered, doubled>>

EndRoom(t) ==
    /\ AtPc(t, "check")
    /\ task[t].list = {}
    /\ upgrader' = None
    /\ task' = [task EXCEPT ![t].pc = "room", ![t].object = None]
    /\ silent' = silent \cap Existing
    /\ UNCHANGED <<tables, rooms, config, screen, ui, writer, answered, doubled>>

EnterWrite(t) ==
    /\ AtPc(t, "upgrade")
    /\ CanUpgrade(t)
    /\ writer' = t
    /\ Set(t, "recheck")
    /\ UNCHANGED <<tables, rooms, config, screen, silent, ui, upgrader, answered, doubled>>

(* Mutants: no second look, and no ExitWriteLock after it.                 *)
Recheck_KeepsLock(t) ==
    /\ AtPc(t, "recheck")
    /\ IF task[t].object \in silent THEN Set(t, "remove") ELSE Skip(t)
    /\ UNCHANGED <<tables, rooms, config, screen, silent, ui, locks, answered, doubled>>

Recheck_Not(t) ==
    /\ AtPc(t, "recheck")
    /\ Set(t, "remove")
    /\ UNCHANGED <<tables, rooms, config, screen, silent, ui, locks, answered, doubled>>

(* It may have reconnected while the task waited for the write lock.       *)
Recheck(t) ==
    /\ AtPc(t, "recheck")
    /\ IF task[t].object \in silent
       THEN Set(t, "remove") /\ UNCHANGED writer
       ELSE Skip(t) /\ writer' = None
    /\ UNCHANGED <<tables, rooms, config, screen, silent, ui, upgrader, answered, doubled>>

RemoveSilent_StillListed(t) ==       \* mutant: the room keeps the object
    /\ AtPc(t, "remove")
    /\ BoardOf(task[t].object) \in Associated
    /\ stations' = Forgotten(stations, BoardOf(task[t].object))
    /\ Skip(t)
    /\ writer' = None
    /\ UNCHANGED <<members, stationcount, rooms, config, screen, silent, ui, upgrader,
                   answered, doubled>>

RemoveSilent(t) ==
    /\ AtPc(t, "remove")
    /\ LET b == BoardOf(task[t].object)
       IN  /\ b \in Associated
           /\ stations' = Forgotten(stations, b)
           /\ RemoveFrom({stations[b]})
    /\ Skip(t)
    /\ writer' = None
    /\ UNCHANGED <<rooms, config, screen, silent, ui, upgrader, answered, doubled>>

(* The UI thread has already taken the board out of the dictionary:        *)
(* removeStation dereferences null.  The timer swallows the exception, and *)
(* both locks stay with the thread.                                        *)
Abort(t) ==
    /\ AtPc(t, "remove")
    /\ BoardOf(task[t].object) \notin Associated
    /\ Set(t, "aborted")
    /\ UNCHANGED <<tables, rooms, config, screen, silent, ui, locks, answered, doubled>>

(* All rooms checked: the task goes on to the waiting packets.             *)
EndAliveness(t) ==
    /\ AtPc(t, "room")
    /\ task[t].rooms = {}
    /\ Set(t, "pops")
    /\ UNCHANGED <<tables, rooms, config, screen, silent, ui, locks, answered, doubled>>

EndTask(t) ==
    /\ AtPc(t, "pops")
    /\ task' = [task EXCEPT ![t] = Sleep]
    /\ UNCHANGED <<tables, rooms, config, screen, silent, ui, locks, answered, doubled>>

-----------------------------------------------------------------------------
(* A file of an associated board arrives; or none for 1.1 minutes.         *)
Heartbeat(b) ==
    /\ b \in Associated
    /\ stations[b] \in silent
    /\ ~UiAt("crashed")
    /\ silent' = silent \ {stations[b]}
    /\ UNCHANGED <<tables, rooms, config, screen, ui, task, locks, answered, doubled>>

Silence(o) ==
    /\ o \in (Existing \cup UNION {task[t].list : t \in Tasks}) \ silent
    /\ ~UiAt("crashed")
    /\ silent' = silent \cup {o}
    /\ answered' = IF o \in Range(stations) THEN answered \ {BoardOf(o)} ELSE answered
    /\ UNCHANGED <<tables, rooms, config, screen, ui, task, locks, doubled>>

(* Steps the UI thread takes once it has started an operation.             *)
UiStep ==
    \/ Reconnect \/ NotAssociated \/ LoadConfig \/ OpenAdder
    \/ AddStation \/ CreateRoom \/ CreateStation \/ UnlinkStation
    \/ RemoveRoom \/ RemoveRoomFails

TaskStep(t) ==
    \/ \E o \in task[t].list : Check(t, o)
    \/ EndRoom(t)
    \/ EnterWrite(t)
    \/ Recheck(t)
    \/ RemoveSilent(t)
    \/ Abort(t)
    \/ EndAliveness(t)
    \/ EndTask(t)

NextRoom(t) == \E r \in task[t].rooms : CheckRoom(t, r)

Timer == \E t \in Tasks : Wake(t)

Next ==
    \/ \E b \in Boards :
         \/ Register(b)
         \/ \E r \in Rooms : PickRoom(b, r) \/ MakeRoom(b, r)
         \/ ConfirmNewStation(b)
         \/ CloseAdder(b)
         \/ AskDelete(b)
         \/ Heartbeat(b)
    \/ \E o \in Objects : Silence(o)
    \/ AnswerNo
    \/ AnswerYes
    \/ AnswerYesTooLate
    \/ \E r \in Rooms : DeleteRoom(r)
    \/ EnterRead
    \/ UiStep
    \/ Timer
    \/ \E t \in Tasks : NextRoom(t) \/ TaskStep(t)

Spec == Init /\ [][Next]_vars

(* Threads that can go on do, and the timer keeps firing.  The lock wakes  *)
(* those that wait for it each time it is released, so a thread that finds *)
(* it free again and again gets it: strong fairness.  Users and boards owe *)
(* nothing.                                                                *)
Fairness ==
    /\ WF_vars(UiStep)
    /\ SF_vars(EnterRead)
    /\ WF_vars(Timer)
    /\ \A t \in Tasks : WF_vars(TaskStep(t)) /\ SF_vars(NextRoom(t))

FairSpec == Spec /\ Fairness

-----------------------------------------------------------------------------
UiPcs == {"idle", "register", "reading", "load", "add", "newroom", "create",
          "unlink", "unroom", "crashed"}
TaskPcs == {"sleeps", "room", "check", "upgrade", "recheck", "remove", "pops", "aborted"}

TypeOK ==
    /\ Associated \subseteq Boards /\ Range(stations) \subseteq Objects
    /\ rooms \in [Rooms -> {"new", "loaded", "stray", "archived"}]
    /\ members \in [Rooms -> SUBSET Objects]
    /\ stationcount \in [Rooms -> Nat]
    /\ config \in [Boards -> Names \cup {None}]
    /\ DOMAIN adder \subseteq Boards /\ Range(adder) \subseteq Rooms \cup {None}
    /\ asking \in Boards \cup {None}
    /\ silent \subseteq Objects
    /\ ui \in [pc : UiPcs, board : Boards \cup {None}, arg : Rooms \cup Objects \cup {None}]
    /\ task \in [Tasks -> [pc : TaskPcs, rooms : SUBSET Rooms, list : SUBSET Objects,
                           object : Objects \cup {None}]]
    /\ upgrader \in Tasks \cup {None}
    /\ writer \in Tasks \cup {None}
    /\ answered \subseteq Boards
    /\ doubled \in BOOLEAN

(* The dictionary, the station lists of the rooms and their counts say the *)
(* same whenever the write lock is free: stationcount, which decides when  *)
(* a packet has been received by a whole room, is the number of stations   *)
(* of the room.  Only the object that a UI deletion is about to unlink is  *)
(* listed without being in the dictionary.                                 *)
Unlinking == IF UiAt("unlink") THEN {ui.arg} ELSE {}

TablesAgree ==
    ~doubled =>
        \A r \in Rooms :
            /\ members[r] = {o \in Range(stations) \cup Unlinking : RoomOf(o) = r}
            /\ stationcount[r] = Cardinality(members[r])

(* "lock to avoid removal if reconnecting" (Context.cs:85): a board whose  *)
(* registration was answered with its association keeps it until it has    *)
(* been silent again or the user deletes it.                               *)
ReconnectedStays == ~doubled => answered \subseteq Associated

(* Only a deletion by the user can make the periodic task lose its locks,  *)
(* and then the UI thread waits for one of them.                           *)
Leaked == \E t \in Tasks : task[t].pc = "aborted"

OnlyDeletionsLeak == Leaked => UiAt("unlink") \/ doubled

(* The UI thread gets back to its user, unless a lock has been lost.       *)
Stopped == Leaked \/ UiAt("crashed")

UiReturns == ~UiAt("idle") ~> UiAt("idle") \/ Stopped

(* A silent board of a loaded room is removed, or heard again, however the *)
(* registrations and the passes of the periodic task overlap.  Not so one  *)
(* whose Room object is not in Context.rooms, which no pass visits: the    *)
(* room was deleted while its StationAdder window was open, or made there  *)
(* with the name of another.                                               *)
SilentNow(b) ==
    b \in Associated /\ stations[b] \in silent /\ rooms[RoomOf(stations[b])] = "loaded"

SilentBoardsLeave == \A b \in Boards : SilentNow(b) ~> ~SilentNow(b) \/ Stopped

(* "every 30 seconds I execute MyMethod" (FileParser.cs:128), whose second *)
(* step is "pop incomplete and old packet from data structure" (line 140): *)
(* a periodic task that has started gets there.                            *)
PeriodicTaskPops ==
    \A t \in Tasks : task[t].pc = "room" ~> task[t].pc = "pops" \/ UiAt("crashed")
=============================================================================
