# WiFi Tracker: TLA+ specifications

Boards (ESP32) stand at known places of a room and listen to WiFi probe
requests. In turns of a minute they upload what they heard to a server (C#,
WPF). The server fuses the copies of one packet heard by all boards of a room,
computes where the sender stood, keeps track of the devices in every room, and
shows and stores them. On the board, the files of packets lie in a flash file
system, SPIFFS, with a page cache of its own. This directory holds the TLA+ specifications of that
system, the TLC models that check them on small instances, and the theorems
about them that TLAPS proves.

To check a model: `tlc -config MCPacketFusion.cfg MCPacketFusion`, and likewise for
the others. The configurations belong to the module of the same name, except that
`MCStationLiveness.cfg`, `MCPeriodicTask.cfg` belong to `MCStationRegistry`,
`MCSpiffsPowerLoss.cfg` to `MCSpiffsStore` and `MCBoardExchange.cfg` to
`MCBoardLink`.
To check the proofs: `tlapm DictStackProofs.tla`, and likewise for the other modules
whose name ends in `Proofs`.
`PROJECT.json` maps every definition to the source lines it stands for.

## 1. Inventory

### Parts, their state and operations

| Part | Source | State | Operations |
|---|---|---|---|
| Board: tasks | `ESP32/main/main.c`, `cmd_file.c` | `id_sniFile`, two files, `xMutex`, `SNIFFEND_BIT`, `server_time`/`offset_time` and their copies, the suspended state of `sniff_task` | sniffing turn, upload, SYNC, STANDBY, RESUME, REBOOT, restart on any error |
| Board: link | `ESP32/main/cmd_socket.c` | one TCP socket | `client_register`, `client_timesync`, `send_sniffed_packages`, command loop |
| Board: files | `ESP32/components/spiffs/spiffs_{nucleus,gc,hydrogen}.c`, `esp_spiffs.c` | blocks of the flash with their lookup, count and magic; page counters, cursors; descriptors | mount, format, create, open, read, write, seek, truncate, remove, rename, meta data, quick and full collection |
| Board: page cache | `spiffs_cache.c`, `spiffs_hydrogen.c` | cache pages: copies of flash pages, bytes that wait to be written | read, program, erase, write, flush, release |
| Connection, file intake | `Server/Connection.cs`, `Protocol.cs`, `StationHandler.cs` | one shared receive buffer, the MAC of every socket, the file being received | accept, receive, registration, header and chunks of a file, commands to a board |
| Packet fusion | `Server/FileParser.cs`, `Packet.cs` | waiting packets with their receptions, analysis queue, 30 s timer | parse a line (fuse, mature, enqueue), periodic task (aliveness, pop old packets, hourly clock request) |
| Dictionary with an age order | `Server/ConcurrentDictionaryStack.cs` | a dictionary whose nodes form a doubly linked list, a reader-writer lock | upsert, upsert-and-remove, remove, pop, conditional pop, peek, lookup |
| Analysis engine | `Server/AnalysisEngine.cs`, `Room.cs`, `Device.cs` | `deviceMap`, `anoniDevices`, per-room device lists and counts | analyse a packet, match and merge anonymous devices, forget silent devices |
| Position computation | `Server/PositionTools.cs`, `GrandientDescender.cs` | none | triangulation from signal strengths, interpolation |
| Station registry | `Server/Context.cs`, `Room.cs`, `Station.cs`, `StationAdder*`, `AddingStationPages/*` | stations by MAC, rooms, per-room station lists and counts, a reader-writer lock, open windows | registration, reconnection, adding, deletion of stations and rooms, aliveness check |
| Database access | `Server/DatabaseInterface.cs` | pool of four connections, broken/recovered flag | query, write, report |
| Database publisher | `Server/DatabasePublisher.cs`, `Publisher.cs` | pending tasks and their counter | store positions, statistics, renames |
| Aggregator | `Server/Aggregator.cs` | one-second and five-minute buckets per room | device updates, two timers, room removal |
| Live view, replay | `Server/MainWindow.xaml.cs`, `GuiInterface.cs`, `Graphics.cs` | selected room, drawn devices, replay position | GUI updates, selection, deletion dialogs, replay of stored positions |
| Start and shutdown | `Server/Startup.xaml.cs`, `Context.cs` | threads, `confirmclose` | start, `Context.kill` |
| Others | `ESP32/components/md5`, `spiffs_check.c`, `Tester.cs`, `User.cs`, `Database/*.sql` | - | MD5, a consistency check nobody calls, sample data, schema |

### How they interact

* A board and the server share one TCP connection. The board registers, is
  accepted once its `Station` object exists, exchanges the clock, and from then
  on uploads files while it obeys commands.
* The board's two files are opened, appended to, closed, read and emptied through
  the C library and the VFS wrappers, which call SPIFFS; every call holds the file
  system's mutex. SPIFFS reads and programs the flash through the page cache, except
  for the erasure of blocks, which goes past it. The board may restart, or lose its
  power, in the middle of any of this; mounting scans the flash and formats it only
  if it is none of SPIFFS'.
* Data of every connection is handled on a thread of the pool. A registration is
  handed synchronously to the UI thread (`Dispatcher.Invoke`), which looks the
  board up under the read lock, loads its saved place from the database, or
  opens a `StationAdder` window.
* The rows of a file go to `FileParser.ParseOnTheFly`, which fuses them in a
  `ConcurrentDictionaryStack`. It counts receptions against
  `Room.stationcount`, which registrations, deletions and the aliveness check
  change concurrently. Mature packets go through a blocking queue to the one
  analyzer thread.
* The analyzer keeps its devices in another `ConcurrentDictionaryStack`, moves
  them between rooms and calls the publishers: GUI, database, aggregator.
* The 30-second timer of `FileParser` checks the aliveness of stations (under the
  upgradeable lock, then the write lock) and pops packets that will not mature.
* The user deletes stations and rooms on the UI thread, under the write lock.

### What is hard, and what must hold

`PROJECT.json` lists the hazards at their lines. By part:

* **Dictionary.** Nodes are unlinked and appended at either end and in between;
  a wrong pointer surfaces many calls later. *The chain must represent the order
  of last insertion or update, and every call return what an age-ordered queue
  would.* `pop` on an empty structure keeps the write lock: *no element may be
  hidden by that.*
* **Fusion.** Stations leave, return as new objects, and deliver a packet twice;
  the periodic pop looks at the head only, while the order is by last copy and
  the age by first. *What is emitted is complete for its room; nothing complete
  waits; nothing waits forever.*
* **Devices.** Two maps and two identities change in a merge; dates run
  backwards; identifiers are short hashes and may collide. *A random MAC leads
  to the one device that has it; no device is lost or counted twice; rooms list
  exactly the devices whose last position is in them.*
* **Stations.** The dictionary and the lists of the rooms change in two steps in
  `removeStation`; UI, overlapping periodic tasks and registrations meet at one
  lock; dialogs keep stale choices. *Tables agree; a board told it is associated
  stays so; silent boards leave; nobody blocks forever.*
* **Board.** Three tasks share the file selector, the clock and one semaphore,
  and `vTaskSuspend` may stop one anywhere. *Uploads are whole, closed and in
  order; packets of one file are stamped by one exchange; uploads and clock
  resets end.*
* **Board link.** Reads join messages, and both ends look for one word in what they
  have read and forget the rest; the length of a file goes through a text; a read
  may go beyond the end of a file. *The server stays in step with the stream; both
  ends never wait for one another; exchanges end; the led does what the server
  believes.*
* **Files on the flash.** Pages are programmed in pieces and only erased by the
  block; the collector moves pages under open descriptors, in the middle of a
  write; the flash is full, or the power goes, between any two writes. *A call
  works on one file and leaves the others alone; nothing leaks; counters agree; no
  cell is programmed twice; a loss of power leaves a flash that mounts, and only the
  files it cut may be unclear.*
* **Page cache.** Erasing goes past it; bytes of a file wait in a page known to
  several descriptors. *Copies are what the flash holds; accepted bytes get where
  the caller put them; every waiting page can be flushed.*
* **Database, publishers, aggregator, views, shutdown.** Unordered database tasks,
  a pool of four, a thread that joins itself, a view that reads the selected room
  on one thread and draws on another. Not modelled yet.

## 2. Modules

| Module | Models | Composes |
|---|---|---|
| `Recency` | age orders as functions, used by the three below | |
| `RecencyQueue` | abstract specification: what the dictionary promises its callers | `Recency` |
| `DictStack` | `ConcurrentDictionaryStack.cs`, pointer by pointer; implements `RecencyQueue` | `RecencyQueue` by `INSTANCE` |
| `DictStackProofs` | theorems about `DictStack` | |
| `PacketFusion` | `FileParser.cs` with the station lists it counts against | age order of the dictionary |
| `PacketFusionProofs` | theorems about `PacketFusion` | |
| `DeviceTracker` | `AnalysisEngine.cs`, device lists of `Room.cs` | age order of the dictionary |
| `DeviceTrackerProofs` | theorems about `DeviceTracker` | |
| `StationRegistry` | `Context.cs`, station lists of `Room.cs`, the windows that add and delete | |
| `StationRegistryProofs` | theorems about `StationRegistry` | |
| `SnifferFiles` | the board's three tasks after start-up | |
| `SnifferFilesProofs` | theorems about `SnifferFiles` | |
| `BoardLink` | both ends of the socket: registration, clock exchange, upload, commands | |
| `BoardLinkProofs` | theorems about `BoardLink` | |
| `FileStore` | abstract specification: what callers may rely on of the file system | |
| `SpiffsFlash` | flash, lookup, allocation, page moves, scan at mount | |
| `SpiffsGc` | index headers, descriptors' events, the collector | `SpiffsFlash` |
| `SpiffsObjects` | create, open, append, modify, truncate, read | `SpiffsGc` |
| `SpiffsStore` | the API and losses of power as a state machine; implements `FileStore` | `SpiffsObjects`, `FileStore` by `INSTANCE` |
| `SpiffsStoreProofs` | theorems about `SpiffsStore` | |
| `SpiffsCache` | the page cache and the calls through it | |
| `SpiffsCacheProofs` | theorems about `SpiffsCache` | |
| `MC*` | constants for TLC | |

Definitions marked "mutant" next to an operator are the plausible bugs that the
properties are known to detect; no specification uses them.

### DictStack

`mapper` is the dictionary, `next` and `prec` the node pointers, `first` and
`last` the ends. The node of a key is named by the key: a removed node is
garbage, and a new insertion starts with null pointers (`NodePtr`). Every method
runs under the write lock, so a method is one step; `ShiftPosition` and `Unlink`
follow `shiftPositionInternal` and `removeInternal` branch by branch. `locker` is
FALSE after a pop of an empty structure, which returns without releasing the
lock; then only `getKey`, which takes no lock, answers (callers on other threads
block). `older` is a history variable, the order of last insertions and updates,
against which the pointers are compared. What a caller's function returns is
left open. The key extractor yields the node's own key, which both users of the
class respect.

`ImplementsQueue` is `RecencyQueue`'s specification under the mapping
`content <- mapper`, `Nothing <- Null`, `older` and `out` by name: `pop`,
`popConditional` and `peek` return the element untouched for longest, every
other call the element of its key.

### PacketFusion

A `Station` object belongs to one board and one `Room` object for life; a board that
was removed and returns is a new object, and so may be one that registers while it
has an object (`AddStation` has no guard against it, as `createStation` has none).
`stations` is the dictionary of `Context`, from which the station of a file is taken
(`FileStart`) and through which stations leave (`RemoveStation`), also between that
lookup and the file's last row. Receptions are compared by object, as `packetReducer`
does. `Room` objects are compared by name in one place of `isReady` and by reference in
the other, and two of them may have one name: `Named` is what is counted (the key of a
name is the first object that came with it, `Keys`), `InRoom` what is kept. `ParseLine`
is one `upsertAndConditionallyRemove` with the enqueueing that follows it: `Reduced`,
`IsReady` (names in order of their first reception, equality with `stationcount`) and
`Emission` are its parts. The timer's task is `Wake`, the check of the boards, which
returns or blocks for ever (`CheckReturns`, `CheckBlocks`; `StationRegistry` has the
reason, finding 1), then the pass `PopOld`*, `EndPass`. Ages are counted in coarse units
up to one beyond `Old` (five minutes), and a line may have any. `idle`, the time since
the last copy, is history. Parsing of fields, discarded lines, signal strengths and the
hourly clock request are left out.

### DeviceTracker

One thread: `AnalyzePacket` (known device, new device, or the exception of
`anoniDevices.Add` that ends the thread), `Expire` - `FindSame`* - `EndMatch`
for the matching of anonymous devices on a copy of `anoniDevices`, `Household`* -
`EndCleaning` for the removal of silent ones. The similarity score is reduced to
the conditions under which it is zero (`Comparable`); above that, matching or
not is nondeterministic. Where a packet is located is nondeterministic between
the room of its stations and `externRoom`. An identifier of a random MAC is its
short hash with the minute of creation; `Hash4` is a constant, so that runs with
and without equal hashes are possible. On a collision the new device replaces
the old one in the map, while the old one stays in its room. `drifts` and
`collided` record the two causes by which the tables may come to disagree; `merged`
marks a device whose date a merge has set, which `CleaningIsComplete` cannot bound: the
list that the cleaning looks at the head of is in the order of upserts, and a merge is
one. A device silent for five minutes does stay behind a head that is not; the property
says for how long.
SSIDs, aliases, `kill()` and the publishers' calls are left out.

### StationRegistry

A `Station` object is `<<board, room, number>>`. `Rooms` are `Room` objects, which the
dictionary and the database know by name (`NameOf`, `Loaded`). The window that makes a
room asks the database whether the name is taken, goes on when it does not answer, and
keeps its object when `createRoom` refuses it: such a room is `"stray"`, as one that was
deleted is `"archived"`; no pass of the aliveness check visits either. The UI thread has a program
counter (`ui`) because it may wait for the lock in the middle of an operation,
and dialogs (`adder`, `asking`) that stay open while it serves others. Each pool
thread (`task`) runs the periodic task: per room, the upgradeable lock, a copy of
the stations, per silent station the write lock, a second look, the removal.
Where everything happens under the write lock, taking, changing and releasing it
are one step. `removeStation` by the UI takes two steps, because the entry of the
dictionary goes before the lock is taken (`AnswerYes`, `UnlinkStation`); by the
periodic task it either finds the entry (`RemoveSilent`) or throws (`Abort`), in
which case both locks stay with the thread. A null station met by the UI thread
ends the program (`"crashed"`). The guards of the lock (`CanRead`, `CanWrite`,
`CanUpgrade`, `CanEnterUpgradeable`) model `ReaderWriterLockSlim`: waiting writers
keep new readers out. The database answers or fails at every call (`MaySave`,
`MayForget`). `answered` and `doubled` are history. `Heartbeat` and `Silence`
replace the clock.

### SnifferFiles

A batch is what one turn of the sniffer writes to a file, numbered from the start
of the board; its rows are counted. The sniffer reads the two clock values, takes
the semaphore to flip `id_sniFile`, empties that file, fills it and sets the bit.
The sender clears the bit, takes the semaphore, notes the size once and sends
until it is reached. The command loop sets the two clock values under the
semaphore, and suspends or resumes the sniffer. Any order of tasks is allowed:
sniffer and sender have one priority. Rows still arrive while the sniffer is
suspended, as the radio's callback does not run in its task. Every call of the file
system takes and returns SPIFFS' mutex; only the sniffer can be stopped in between, so
that its `fopen` and `fclose` are two steps each (`EnterOpen`, `Open`, `EnterClose`,
`Close`), and those of the sender wait while it is in one (`InFileSystem`). `mute` is a
server that keeps the connection and no longer does its part: an exchange, whose reads
have no timeout, then never ends, while a write fails after 5 seconds
(`cmd_socket.c:35-41`). `Reboot` may come at
any moment: lost connections, failed writes and the REBOOT command all restart
the board. `overtaken` records that the sniffer flipped before the upload of the
previous batch was over. Start-up, registration and the led are in `BoardLink`.

### BoardLink

The state of one connection: what is under way in both directions, the places of
`app_main` and `filesend_task` on the board, of the connection's callback on the
server, and the semaphore between the first two. A message is a word; a file is
`FILE`, its header with a length in rows, and its rows. A read takes any number of
the messages that have arrived (`BoardReads`, `ServerReads`), and its handler does
what the chain of `strstr` or `IndexOf` does with them: `client_register` takes
anything for its answer, `client_timesync` answers a `PING` and takes a `CLOCK` that
comes first, the command loop carries out one command, the server handles one
request. What was read with it is forgotten: `missed` records what
that was about, if an exchange or the led, and the properties name it. `Receiving` is the reception of
a file: the length from a header that survived (`AfterHead`), the rows that were
read with it, what is read beyond its end. `misread` records the two ways a length
is wrong. `Restart` may come at any moment (the access point is lost, a write times
out, `REBOOT`), as may `Close`; a peer that has vanished is found by the keep-alive of
the socket, and then is a closed one. `blinking` is what `StationHandler` believes: it
changes when a command is sent (`Send`), and also when it cannot be, which closes the
connection (`SendCommandFails`). The sniffer, the third user of the semaphore, is in
`SnifferFiles`; here it may be suspended with a lock that the other tasks wait for
(`kept`), and may empty the file under an upload, whose loop then sends nothing until
the file has rows again (`emptied`). STANDBY and RESUME are commands the board obeys;
`StationHandler.shutdown`, which would send them, has no caller. Rows split by a read,
the receive buffer that several boards share and the locks inside the C library are
left out.

### SPIFFS: SpiffsFlash, SpiffsGc, SpiffsObjects, SpiffsStore

An API call holds the mutex, so that it is one step, and everything below it is an
operator from the state of the call to the next, in the order of the code:
`s.trail` keeps the flash after each of its writes, which is where the power may
go (`Lost`), and tells a call that was refused from one that broke half way
(`Answer`); `s.res` is the result, and every operator leaves a failed call
(`~Ok(s)`) as it is, unless the code goes on. A cell of the flash is a lookup
entry or a field of a page; erased it is `Blank`, and programming it with a second
value leaves what both have in common: the bits of two numbers (`BitAnd`), `Mixed` for
names and for entries in use, of which the proof shows that it does not happen. A page in which that has happened, or that was copied from one, is marked
(`mixed`, history). A search for a free page asks the lookup only: it finds pages that a
lost move has programmed, and what is written there adds to what they hold
(`FindFree`). Flags are the sets of bits that are still ones. A
file is a header (an index page with name and size), further index pages, and data
pages, all found through the lookup.

`SpiffsFlash` has the page operations: erase, find free, allocate, delete, copy,
move, and the scan at mount, which formats when two blocks have no magic and erases
one that lost it. `SpiffsGc` has the headers, the events by which descriptors
follow moved pages, and the collector: candidates by score, the states of
`spiffs_gc_clean` (`CleanObject`, `CleanIndex`), `GcCheck` before a write.
`SpiffsObjects` has the loops over the pages of a file with their locals in the
call, including which failures end the loop and still store the index. `SpiffsStore`
has the calls, the descriptors (`TakeFd` follows `spiffs_fd_find_new`, whose cached
names keep the place where a search starts), and the properties. A name is its own
hash. Writes go straight to the file, as with `SPIFFS_O_DIRECT`.

`Implements` is `FileStore`'s specification under the mapping `files <- Files`,
which reads the bytes of every name off the flash: a name with two headers, or a
file with a page that is missing, foreign, claimed twice or mixed (`Clear`), is
`Unclear`. `last` is the last call and its answer. `FileStore` promises that a call
that is *done* has made of its file exactly what it was asked to (`Done`: the bytes put
where the caller said, the file emptied, created, removed or renamed), that one that is
*refused* - it failed before its first write - has changed nothing, and that one that
*breaks* - it failed later, or lost the power - has done a part of it (`Parts`). Every
other file is as it was. The exceptions are named: a call that breaks may leave any file
unclear, the file of a call may also be unclear for what an earlier broken call has left
(`scarred`), and while a page in use holds two writes (`marred`) a file may be lost, but
never has other bytes.

### SpiffsCache

A cache page is free, a copy of a flash page, or bytes that wait for an object.
`last_access` only ever decides which copy is the oldest: `older` keeps, for each
copy, the copies that were accessed before it. The upper half (`PhysRd`, `PhysWr`, `PhysDelete`,
`EraseBlock`) is the cache under all of SPIFFS; pages are sets of bits here. The
lower half is `SPIFFS_write` and the calls that flush, as functions on a record of
the variables: which bytes go to a page, when it is written out, which descriptors
know it (`Release`). Below the calls a file is the bytes of its object, and a
write there may fail: `SpiffsStore` shows the rest. A closed descriptor keeps the
page it knew, as in the code; its other fields, which the next open writes, are
cleared (`Shut`). `meant` is what the accepted writes make of a file. `lost`
records bytes that waited and were dropped, by a flush that failed or by a
removal, and the model ends there. `SPIFFS_unmount` goes through the descriptors one
by one, whether or not their flush works (`UnmountFd`), with no other call between
(`leaving`); `Mount` clears cache and descriptors.

## 3. Runs

| Run | Configuration, bounds | What it shows |
|---|---|---|
| `dict_stack` | `MCDictStack`: 3 keys, 2 elements | `Linked` (pointers = order of updates), `LeakFreezesOnlyEmpty`, refinement of `RecencyQueue` |
| `device_tracker` | `MCDeviceTracker`: 1 fixed and 2 random MACs with the same short hash, 1 room and outside, 2 objects, clock to 3, packets late by 1 | `OnlyCollisionsConfuse`, `OnlyMergesDrift`: only a named cause can break the agreement; `CleaningIsComplete`: how long a silent device can stay |
| `packet_fusion` | `MCPacketFusion`: 4 boards, two in one room, one in a second room, one in a room object that has the name of the first; one board may get a second object; at most 3 objects created, the second room or the twin; 2 packets, the second only while just the two stations of the first room have been created; fair timer | `NoneCompleteWaits`, `EmissionIsComplete`, `PassIsComplete`, `NoneWaitsForever` |
| `station_registry` | `MCStationRegistry`: 2 boards, 2 room objects of one name, 2 overlapping periodic tasks, up to the first board with two objects; boards, rooms and tasks symmetric | `TablesAgree`, `ReconnectedStays`, `OnlyDeletionsLeak` |
| `station_liveness` | `MCStationLiveness`: 1 board, which may get an object in each of 2 room objects of one name, 2 tasks, fair | `UiReturns`, `SilentBoardsLeave` |
| `periodic_task` | `MCPeriodicTask`: 1 board, 1 room, 2 tasks, fair | **violated**: `PeriodicTaskPops` |
| `sniffer_files` | `MCSnifferFiles`: 3 batches of up to 2 rows, 2 exchanges, fair | `OnlyOvertakingMisSends`, `UploadsEnd`, `ResetsEnd` |
| `spiffs_store` | `MCSpiffsStore`: 4 blocks of 2 pages, 2 names, 2 descriptors that may share a file, files up to 3 bytes, no loss of power, 2 erasures; names symmetric | `CellsOnce`, `NoPageLeaks`, `PagesCounted`, `DescriptorsFollow`, refinement of `FileStore` |
| `spiffs_power_loss` | `MCSpiffsPowerLoss`: 4 blocks of 2 pages, 2 names, 1 descriptor, 2 losses of power, each after any write, 2 erasures; the calls of `Life`; names symmetric | `MountsAgain`, refinement of `FileStore` |
| `spiffs_cache` | `MCSpiffsCache`: 2 cache pages, 2 flash pages (one a lookup page), 2 objects, 2 descriptors, files up to 2 bytes | `Coherent`, `KeepsWrites`, `NoneStranded` |
| `board_link` | `MCBoardLink`: files of up to 1 row, 2 rounds, 2 attempts, 5 commands (BLINK, OKLED, SYNC, REBOOT, STANDBY) of which 2 may be under way, fair | `InStep`, `NoMutualWait`, `LedFollows`, `ExchangesEnd` |
| `board_exchange` | `MCBoardExchange`: as small as the exchange allows, fair | **violated**: `FailedExchangeEnds` |

Every passing run but `station_liveness` and `spiffs_power_loss`, whose modules
have one elsewhere, also checks its module's `TypeOK`.

Why the bounds are enough for what the runs ask:

* Three keys are the least with a node that is neither first nor last; pointers
  relate neighbours only. The theorems cover every other number.
* Two random MACs make a merge, and a second one after a new sighting; the same
  hash makes them collide when they appear at one instant and not otherwise, so
  one run contains collided and uncollided histories. The clock runs long enough
  to merge, to forget, and to see a device again. `MaxDrifts` allows one merge
  that leaves a room behind; more of them repeat the same effect. Two objects are
  those that can be tracked at once with two random addresses; three MACs
  compete for them.
* With two stations in a room a packet waits for the other one, one station can
  leave and return as a new object while its receptions stay, or get the new object
  beside the old one, and the station of the second room decides which room matures
  first. The fourth one stands in a room object of the same name as the first:
  its receptions are counted with theirs. Two packets are needed for the head to hide
  one behind it.
* Two periodic tasks overlap; a third would wait at the same upgradeable lock.
  Two boards give a pass a list and let a registration of one meet the removal of
  the other. Two room objects of one name are a room and the one made beside it, or
  after it was deleted. The second object of a board, which a forgotten `StationAdder`
  window can make, is only in the liveness run, where it matters: the safety
  invariants name it (`doubled`) as their exception, and the safety run ends there
  (`CONSTRAINT Single`); the theorems need no such end.
* Three batches fill each file once and the first one again, which is the least
  for an upload to meet its successor in one file.

* On the flash, a data page has 2 bytes, a header and an index page refer to one
  data page each: a file of 3 bytes needs a header, an index page and two data
  pages, and writes of 1 and 2 bytes end within a page, at its end and beyond it.
  Of the 8 pages the collector needs a block: two files, or one that is
  rewritten, fill the rest, so that writes meet a full flash and collections move
  headers, index and data pages. Two names let one file disturb another and are renamed
  into one another; two descriptors move pages under each other and share a file. Each
  loss may come after any write of any call: the first mount, a collection, or the
  repair and the calls after the first loss. Two losses are the least in which a repair
  is cut, and in which a page that one loss left programmed is cut again while it is
  taken; for `MountsAgain` the theorem covers any number. `MaxErases` is what ends a
  run: a call begins only while the erase count is at most that, each loss spends one,
  and `UpdateMeta`, which fills the flash by itself, leaves the last one to the others.
  With two erasures a collection follows a collection, and a repair a loss. The view
  leaves out the last call of a state (`last`), by which only the step to it is judged;
  names are only compared, hence the symmetry.
* Two cache pages are the least in which a copy is evicted while another page
  waits; two descriptors share the waiting page of one file, and two files compete
  for it.
* A read takes up to everything under way: three messages of a file are its start,
  header and row, two commands one that hides the other. More rows only repeat
  the reception's step; the theorems cover any number.

Deadlock checking is off where a model really stops: after the crash of the
program or of the analyzer thread, at the end of the model's clock, or when a
lock has been lost, when the flash is worn to the bound (`MaxErases`), and after the
first lost bytes of the cache. The other models never stop.

### Fairness

* `PacketFusion`: time passes (`Tick`), the timer fires (`Wake`), its check of the
  boards returns or blocks for ever - which of the two is left open - and a pass goes on:
  weak fairness. Nothing is assumed of stations and packets.
* `StationRegistry`: the UI thread and pool threads that can go on do (weak
  fairness of `UiStep`, `TaskStep`), the timer keeps firing (weak fairness of
  `Timer`). `ReaderWriterLockSlim` wakes its waiters each time it is released,
  so a thread that finds it free again and again gets it: strong fairness for
  entering the read lock and the upgradeable lock. Nothing is assumed of users
  and boards.
* `SnifferFiles`: FreeRTOS runs ready tasks of one priority in turn (weak
  fairness) and gives a semaphore, SPIFFS' mutex included, to a waiting task (strong
  fairness of taking the one, and of the sender's steps, which need the other). The
  server's answer in an exchange is only owed by one that has not fallen silent
  (`~mute`). Nothing is assumed of probes, commands and restarts. A suspended sniffer
  is not ready.
* `BoardLink`: the callback of the server goes on whenever it can (weak fairness of
  `ServerStep`), but for `Accept`, which waits for the UI thread (`Dispatcher.Invoke`)
  and is not fair, as finding 1 blocks that thread. The tasks of the board get the
  semaphore they wait for if it is free again and again, and go on while they have what
  they wait for (strong fairness), unless a suspended sniffer keeps a lock (`~kept`).
  The loop of an upload makes no step while its file is empty (`emptied`), and nobody
  owes the file its rows. Nothing is assumed of commands, files, restarts and closed
  connections.

The liveness properties name what defeats them: `UiReturns` and
`SilentBoardsLeave` a lost lock or a crash, the latter also a room outside the
dictionary; `NoneWaitsForever` a check of the boards that blocked; `ExchangesEnd` a
forgotten message, a first exchange on a closed connection, a registration that waits
for the UI thread, a lock kept by a suspended sniffer or by the upload of an emptied
file; `UploadsEnd` and `ResetsEnd` a sniffer suspended with the semaphore or the file
system's mutex in hand, a file emptied under its upload, or a server that falls silent
in an exchange. These are real behaviours of the code, listed under the hazards.

### Findings

1. `Context.cs:265` - the UI's `removeStation` drops the dictionary entry before
   it asks for the write lock. A periodic task in its second look then throws
   with both locks held; every later one blocks before it pops old packets, and
   the UI blocks too (run `periodic_task`).
2. `main.c:450` - the first clock exchange tests the result of `client_timesync` for
   -1, which that function never returns. When the server closes the connection
   during the first exchange, the restart that `main.c:456` intends is not reached
   and the board calls `client_timesync` again for ever (run `board_exchange`).

### Known divergences

Behaviours the models contain and the properties name as exceptions or stop at:

* A merge gives the kept device the newer identity's position but leaves it listed
  in its old room (`AnalysisEngine.cs:106,113`; `drifts`).
* The cleaning stops at the first device that is not silent, and the order is that of
  upserts: a device not detected for five minutes stays while one before it is not
  silent (`AnalysisEngine.cs:258`).
* Maturity of a packet is equality with `stationcount`: after a station has left, a
  packet delivered by all others may hold more receptions than that, and is dropped
  after five minutes (`FileParser.cs:68`). `AnalysisEngine.cs:27` says of
  `sendToAnalysisQueue` that it is for packets received by all stations or timed out;
  those that time out are only dropped (`FileParser.cs:142`).
* Two `Room` objects may have one name: a new one is made when the database does not
  say that the name is taken (`NewRoom.xaml.cs:52`, `DatabaseInterface.cs:225`), and
  stays with the station although `createRoom` refuses it (`NewRoom.xaml.cs:72`).
  Receptions of both are counted together and kept apart (`FileParser.cs:61-81`;
  `Twinless`), and no pass finds the silent boards of the one outside the dictionary.
* `switchLedBlink` changes its belief although the command could not be sent
  (`StationHandler.cs:22-34`; `missed`).
* The sniffer may flip its file before the sender it has signalled takes the
  semaphore (`main.c:661`; `overtaken`); it copies the two clock values between the
  assignments of a reset (`main.c:656-657`).
* On the link (`missed`, `misread`): ACCEPT and PING in one read
  (`cmd_socket.c:119`); a `CLOCK` behind another message, whose time `sscanf` does
  not find (`cmd_socket.c:176`); the end of a file and the board's SYNC in one read
  (`Protocol.cs:130`), after which the board waits with the semaphore and does not
  even obey REBOOT; a read that ends with the header of a file
  (`Protocol.cs:88`); a length with a byte above 127, which the conversion to text
  changes (`Protocol.cs:71`).
* A write of SPIFFS that finds the flash full may leave orphaned pages and a second
  index page of the same place; a rename cut by a loss of power leaves two headers
  of one name, or one that was never finished. After a loss of power the page counters
  may be off.
* An append that loses its power may have programmed cells beyond the size of the
  file. The next append programs the same cells in place without looking at them
  (`spiffs_object_append`), so that its bytes are mixed with the lost ones although
  the call succeeds: the file is `Unclear`.
* A move programs its page before the lookup entry (`spiffs_nucleus.c:841-855`). When
  the power goes between the two, the next call that needs a page takes this one, as
  only the lookup is asked (`spiffs_nucleus.c:466-480`), and succeeds. If a header was
  moved and a file is created there, its name is garbled and it refers to the pages of
  the moved file; a rename onto it loses the file, and after a second loss a removed
  file may be back. These are the files `FileStore` allows to be lost while `marred`.
* A first append that fails before its first byte programs the size 0 into the header
  (`spiffs_nucleus.c:1390-1400`). Later appends that succeed keep size 0 on the flash,
  as programming clears bits only: the file is seen as empty after the next open.
* A descriptor's offset does not follow a truncation by another one: it may be behind the
  end, and an append there goes by that offset. With the geometry of the runs (a header
  refers to one page) the call then fails; with a header that refers to two or more, at a
  page boundary, it would leave a hole.
* `spiffs.h:255` calls `free_blocks` the current number of free blocks. Collecting
  a block that was wholly free counts it again.
* Descriptors opened without a name are missed by the events of the collector
  (`spiffs_cb_object_event` passes over `score` 0). `SPIFFS_remove` opens such a
  descriptor and does not get it back from its own event.
* Removing a file under bytes that wait leaves their cache page behind; the next
  object of that id, or the next use of a descriptor that had the page, inherits
  it. A close whose flush fails leaves the descriptor open; reading, seeking and
  unmounting do not look at a failed flush. These are `lost`.

## 4. Proofs

`DictStackProofs`, for any sets of keys and elements, from
`Null \notin Keys`:

* `TypeCorrect`: `Spec => []TypeOK`.
* `ChainIsAgeOrder`: `Spec => []Linked`. The inductive invariant is
  `TypeOK /\ Linked`. Pointers alone would not be inductive: that unlinking a node
  joins its neighbours correctly needs that `next` and `prec` are inverse *and*
  that both follow one strict total order, which is what `AgeOrder`,
  `NextIsNewer` and `PrecIsInverse` say together. Two lemmas carry the proof:
  `ShiftKeepsInv` for insertions and updates (new node, last node, node to be
  moved) and `UnlinkKeepsInv` for removals.
* `LeakIsHarmless`: `Spec => []LeakFreezesOnlyEmpty`.
* `Refinement`: `Spec => ImplementsQueue`, by `StepRefines`: under the invariant
  every step is a step of the abstract queue or a stutter. `HeadIsOldest` is the
  link between `first` and the order.

`SnifferFilesProofs`, for any positive `MaxRows`, `MaxBatches`, `MaxSyncs`:

* `TypeCorrect`: `Spec => []TypeOK`, with `Bounds`: what a task has tested still
  holds when it counts, because only that task counts.
* `UploadsInOrder`: `Spec => []OnlyOvertakingMisSends`. It is not inductive as it
  stands: that the file being sent is closed needs `Holders` (who holds the
  semaphore is where the tasks are) and `InStep` (until it is overtaken, the
  sender works only while the sniffer has not flipped, and the selected file holds
  the last batch). `IInv` is the conjunction.

`SpiffsCacheProofs`, for any numbers of cache pages, flash pages, objects and
descriptors and any lengths, from `CacheAssumption` (indices are positive, `None` is
none of the values, data are sequences of bytes):

* `TypeCorrect`: `Spec => []TypeOK`, with `Ages`: the copies are always strictly
  ordered by their last access, so that `spiffs_cache_page_remove_oldest` has one
  candidate.
* `CopiesAreCoherent`: `Spec => []Coherent`. `DropStep` is the common part of all
  that drops copies: the flash changes only under dropped copies.
* `NobodyIsStranded` and `AcceptedIsKept`: `Spec => []NoneStranded` and
  `Spec => []KeepsWrites`, both up to the first lost byte, where the model ends. A
  call is a function on a record of the variables, so the invariant is one on
  records (`Safe`): `Tied` (who waits for what and who can flush it), `Shows` (what
  was accepted is there) and, as neither is inductive alone, `Placed`: waiting bytes
  begin within the file or at its end, no descriptor is behind the end of its file,
  and a closed one knows no page. Without the first, flushing would move the bytes to
  the end; without the last, an opened descriptor would flush another object's page.
  One lemma says for every part of a call what it does (`DumpIs`, `StoreIs`, ...) and
  one that it keeps `Safe` (`DumpSafe`, `StoreSafe`, ...); `PutTwice` (a write into
  waiting bytes is a write into the file) and `PutNothing` are the facts about bytes
  they rest on.

`PacketFusionProofs` and `DeviceTrackerProofs` both begin with lemmas about age
orders. An age order is a function from keys to the sets of older keys; `IsOrder` says
that it is a strict total order on finitely many keys, `TouchedIs` and `DroppedIs` that
an upsert and a removal leave one, and `OneIsOldest` that one key is older than all
others, which is what a look at the head of the dictionary relies on. Its induction is
over the numbers of older keys: the least of them (`FirstOf`) is found from the
well-foundedness of `<`, since the library's induction theorems cannot be instantiated
here.

`PacketFusionProofs`, for any stations, rooms and packets, from `FusionAssumption`
(`Old` and `MaxQueue` are natural numbers; nothing is assumed of the age of a line, of
who has an object, or of the names of rooms):

* `TypeCorrect`: `Spec => []TypeOK`.
* `CompleteNeverWaits`: `Spec => []NoneCompleteWaits`, at the heart of the
  inductive invariant with `Receivings` (a packet lists every station once, so that
  the number of its receptions is the cardinality of a set: `CountIs`) and `ByAge`
  (the order of the container is that of the last copies, and a copy is no older than
  its packet). Receptions are counted by
  name; `Twinless` is what makes of that a count of one room object. A station that joins raises what its room asks for; one that leaves
  may leave a packet with more receptions than that, which equality never matches.
* `EmissionsAreComplete` and `PassesAreComplete`: the action properties
  `EmissionIsComplete` (`EmitsIs` says which receptions an emission has) and
  `PassIsComplete` (a pass that stops at the first young head leaves nothing whose
  last copy is old, though perhaps what is old by its first). A packet emitted by the
  count of a room that has a twin is incomplete, as the code's is: the theorem excepts
  exactly those.

`DeviceTrackerProofs`, for any addresses, rooms, device objects and delays, from
`DeviceAssumption` (rooms are finitely many; a made-up identifier is no MAC, as it
begins with `ANON-`; the holdoff is at most the silence before a merge, and that is below the one before a
device is forgotten, as in the code's constants):

* `TypeCorrect`: `Spec => []TypeOK`.
* `MapsAgreeUntilCollision`: `Spec => []OnlyCollisionsConfuse`. The invariant adds
  `Stores` (every device is stored under its own identifier), and `Resolves`: a
  random MAC leads to its device and back, and the copy that a pass of matching works
  on leads to each device once. Without the latter, a device merged away could be
  matched again.
* `RoomsExactUntilDrift`: `Spec => []OnlyMergesDrift`. Its first half, that the counts
  add up to the tracked devices, is about a fold over the rooms; it cannot be said
  with cardinalities alone, because after a merge that leaves a room behind a count
  may go below zero. `PartialIs` shows that the sum exists on every subset of a finite
  domain, `SumChanged` that it changes with one entry by as much; both find the
  smallest set on which they would fail (`SmallestOf`). Its second half, the exact
  rooms, is `Exact` in the invariant.
* `CleaningsAreComplete`: `Spec => CleaningIsComplete`, from `ByAge`: the map is in
  the order of the last upserts, no sighting is younger than its upsert, and none is
  older by more than the delay of packets, unless a merge gave the device its date.

`StationRegistryProofs`, for any boards, rooms and pool threads, from
`RegistryAssumption` (`None` is none of them, a board may have an object):

* `TypeCorrect`: `Spec => []TypeOK`.
* `TablesAlwaysAgree`, `ReconnectedAlwaysStays`, `OnlyDeletionsEverLeak`:
  `TablesAgree`, `ReconnectedStays` and `OnlyDeletionsLeak` always hold. One
  invariant carries the three: `Counted` (objects are where they belong, and the
  rooms count them) and `Held` (who holds which lock is where the threads are; lists
  of silent stations exist only under the upgradeable lock, and the writer excludes
  the UI's reads) hold always, `Once` while no board has two objects. `Once` adds what
  the three properties need of one another: a board in a thread's hands is still in its
  room, and one that was answered is not about to be removed. `UiCarries` is what the
  UI thread may rely on between two steps of one operation. `AssociateStep`, `Removal`
  and `RemoveSilentStep` are the operations where the parts meet.

`BoardLinkProofs`, for any numbers of attempts, rounds, rows and messages under way,
from `LinkAssumption` (these are positive, and the commands are the six that
`Protocol.cs` sends):

* `TypeCorrect`: `Spec => []TypeOK`.
* `NeverBothWait`: `Spec => []NoMutualWait`, from `Roles` (who holds the semaphore is
  where the tasks of the board are) and `Turns`: while a registration or an exchange
  runs, it is the turn of one end, and the one message the other waits for is under
  way, unless it is among the lost ones (`missed`).
* `ServerInStep`: `Spec => []InStep`, from `Frames` (a `FILE` under way is followed
  by its header) and `Lengths`: the header of a file under way says how many rows
  follow it, and a server that has misread no length stands before a request, or in a
  file of which it awaits as many rows as follow (`Located`). `RowsAfter` is that
  statement for any place of the stream and for a file that is still being sent;
  `RowsKept` and `RowsRead` carry it through the reads of both ends.
* `LedAgrees`: `Spec => []LedFollows`. `Led` says it before the commands have
  arrived: the last one about the led that is under way is what the server believes.
  A command that cannot be sent changes the belief without one; from then on, until the
  board restarts, the theorem claims nothing (`missed`).

`SpiffsStoreProofs`, for any flash of at least three blocks, any names, data and
descriptors, and any number of erasures and losses of power, from `GeometryAssumption`,
`CellAssumption` (an erased and a mixed cell are no numbers), `RunsAssumption` and
`LengthAssumption`:

* `StoreSteady`: `Spec => []Steady`. A loss may come between any two writes of a call,
  so that an invariant of the states between calls says too little. `Recoverable` is
  what the flash must be after *every* write: at most one block without its magic, and
  that one with a blank lookup; every other block with its erase count; lookup entries
  blank or numbers. `Complete`, what it must be when a call returns, adds that no block
  is without its magic. A call under way is `Solid` when its flash is complete and
  every flash of its trail was recoverable, and `Sound` when moreover its counters
  count no more pages than have a taken lookup entry (`Within`). Every operator of `SpiffsFlash`, `SpiffsGc`,
  `SpiffsObjects` and `SpiffsStore` leaves a sound call sound, whether it succeeds or
  fails: the lemmas named `XKeeps`, one for each operator `X`, up to the calls of the
  API. `EraseBlockKeeps` is the one place where a block passes through an incomplete state:
  it begins from a complete flash, and that is why a second one never appears; the
  repair at the mount (`LuScanKeeps`) begins from a flash with at most this one block.
  The loops of the code are folds; `RunExists` and `RunKeeps` show that a fold of steps
  that keep a predicate keeps it. What the search for a free page returns
  (`FreeScanIs`, `FindFreeIs`) is blank in the lookup, which is all that keeps an entry
  from being mixed, and a page from being counted that was taken before.
* `Remounts`: `Spec => []MountsAgain`. `MountFinds`: the scan of every mount succeeds,
  so that `spiffs_mount` never formats a flash that holds files. `TakenOnce`: no lookup
  entry is ever programmed with two values.
* `SpaceIsSeen`: `Spec => []SpaceSeen`. The pages `spiffs_gc_check` computes as free
  from `stats_p_allocated` and `stats_p_deleted` are never fewer than the free ones
  less the two blocks it holds back, so that no flash is reported full for counters
  that fell behind. Per operator: a page taken (`EnteredKeeps`) adds one to both sides,
  a page deleted (`StruckKeeps`) moves from one counter to the other, an erased block
  is taken out of the counters with at least the pages it frees (`FreedCount`,
  `ReclaimKeeps`), and the mount counts every taken page once (`ScannedIs`).

Only model-checked:

* Of `SpiffsStore`, what depends on which page an index refers to: that it implements
  `FileStore`, `NoPageLeaks`, `DescriptorsFollow`, `CellsOnce` for the cells of pages,
  `PagesCounted` and the bounds in `TypeOK`. They need that every reference in an
  index is the one live page of its place, through the loops of the collector, which
  moves pages while another call is in the middle of changing an index. Each holds
  only until a loss or a call that failed half way, so that the invariant would have
  to say for every failure of every loop what it leaves. Of `PagesCounted` half is
  proved, the inequality of `SpaceSeen`; the equality does not survive a loss: a
  collection that ends between the move of a data page and the write of its index
  leaves an index that refers to a deleted page, and removing the file deletes and
  counts that page a second time.
* All liveness, whose proof under fairness needs `ENABLED`, which is out of the
  provers' reach.

## 5. What is not modelled

* Geometry and signal strengths: floating point. Only the room a position falls
  in is kept, nondeterministically.
* MD5, generated code, XAML layout, sample data.
* In SPIFFS: opening by directory entry or page, directories, index maps,
  `SPIFFS_info`, the visitors of the API and `SPIFFS_probe_fs`; `spiffs_check.c`,
  which nothing calls; the VFS wrappers but `spiffs_mount`. A write of the HAL is
  atomic; erase counts do not wrap. `SpiffsStore` and `SpiffsCache` are not composed:
  each stands for the other by the interface its header comment names.
* Several boards on one server share a receive buffer (`Connection.cs:131`):
  `BoardLink` has one. Reads end at the boundaries of messages there; a row cut by
  a read is a matter of `Chunker`, which is left out.
* The message boxes that `loadStation` and `saveStation` open while the UI thread
  goes on serving: each such call is atomic in `StationRegistry`.
* Database access, publishers, aggregator, views and shutdown: see the plan.

## 6. Plan

Done: the dictionary with its abstract specification and proofs, fusion, devices,
stations, the board's tasks, the link, and the board's file system with its
abstract specification and its cache. Still without a model, in the order of what
they would add:

1. **`DbPublisher`** and **`Shutdown`**: unordered tasks, the counter
   `confirmclose` waits for, `Context.kill` from either thread.
2. **`DbPool`**: four connections, nested message boxes, broken and recovered
   states.
3. **`Aggregator`**, then **`LiveView`** and replay: buckets against room removal;
   GUI updates against the selection of a room.
4. The buffer several connections share, and rows cut by a read.

Theorems to prove next: of SPIFFS, `PagesCounted` without a loss of power, from what
each operator does to the sets of free, live and deleted pages beside `Sound`; then
that the references of an index are live pages of its object, which `NoPageLeaks` and
`DescriptorsFollow` rest on.
