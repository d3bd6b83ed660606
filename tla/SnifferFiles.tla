---------------------------- MODULE SnifferFiles -----------------------------
(***************************************************************************)
(* The board (src/ESP32/main/main.c): sniff_task fills two files in turn,  *)
(* filesend_task uploads the one just finished, and the command loop of    *)
(* app_main resets the clock or suspends the sniffer.  A binary semaphore  *)
(* (xMutex) guards id_sniFile, the uploads and the resets; SNIFFEND_BIT    *)
(* tells the sender that a file is finished.                               *)
(*                                                                         *)
(* Every call of the file system takes its lock (spiffs_mutex) and gives   *)
(* it back.  Only the sniffer can be stopped in between, by vTaskSuspend:  *)
(* its calls are two steps each, those of the others are one.              *)
(*                                                                         *)
(* What one file holds is a batch, numbered from 1; its rows are counted.  *)
(* Any order of the three tasks is allowed: the sniffer and the sender     *)
(* have the same priority, and the sender is only made ready when the bit  *)
(* is set.  A clock value is the number of the exchange that gave it.      *)
(***************************************************************************)
EXTENDS Integers

CONSTANTS MaxRows,      \* bound: rows of a file
          MaxBatches,   \* bound: files sniffed between two restarts
          MaxSyncs      \* bound: clock exchanges between two restarts

ASSUME SnifferAssumption ==
    /\ MaxRows \in Nat \ {0}
    /\ MaxBatches \in Nat \ {0}
    /\ MaxSyncs \in Nat \ {0}

VARIABLES id,           \* id_sniFile: 0 selects PATH_first, 1 PATH_second
          file,         \* the two files: [batch, rows]
          batch,        \* the batch the sniffer opened last
          mutex,        \* who holds xMutex
          bit,          \* SNIFFEND_BIT
          sniffer,      \* where sniff_task is
          standby,      \* it is suspended
          sender,       \* filesend_task: [pc, file, batch, size, sent]
          command,      \* where the command loop is
          mute,         \* the server keeps the connection, but not its part
          clock,        \* server_time, offset_time
          available,    \* their copies that stamp the packets of the batch
          lastSent,     \* history: the batch uploaded last
          overtaken     \* history: a flip came before the upload it should follow

vars == <<id, file, batch, mutex, bit, sniffer, standby, sender, command, mute,
          clock, available, lastSent, overtaken>>

files == <<id, file, batch, bit>>
times == <<clock, available>>
past  == <<lastSent, overtaken>>

Waiting == [pc |-> "wait", file |-> 0, batch |-> 0, size |-> 0, sent |-> 0]

Emptied   == [f \in {0, 1} |-> [batch |-> 0, rows |-> 0]]
FirstSync == [server |-> 1, offset |-> 1]

(* Every start empties both files, registers and exchanges the clock.      *)
Init ==
    /\ id = 1
    /\ file = Emptied
    /\ batch = 0
    /\ mutex = "none"
    /\ bit = FALSE
    /\ sniffer = "server"
    /\ standby = FALSE
    /\ sender = Waiting
    /\ command = "idle"
    /\ mute = FALSE
    /\ clock = FirstSync
    /\ available = FirstSync
    /\ lastSent = 0
    /\ overtaken = FALSE

(* A lost connection, a failed write or exchange, REBOOT.                  *)
Reboot ==
    /\ id' = 1
    /\ file' = Emptied
    /\ batch' = 0
    /\ mutex' = "none"
    /\ bit' = FALSE
    /\ sniffer' = "server"
    /\ standby' = FALSE
    /\ sender' = Waiting
    /\ command' = "idle"
    /\ mute' = FALSE
    /\ clock' = FirstSync
    /\ available' = FirstSync
    /\ lastSent' = 0
    /\ overtaken' = FALSE

-----------------------------------------------------------------------------
(* sniff_task, unless it is suspended.                                     *)
At(pc)    == sniffer = pc /\ ~standby
Pending   == bit \/ sender.pc # "wait"

(* The sniffer is in fopen or fclose, with the lock of the file system.    *)
InFileSystem == sniffer \in {"opening", "closing"}

Moves(from, to) ==
    /\ At(from)
    /\ sniffer' = to
    /\ UNCHANGED <<files, mutex, standby, sender, command, mute, times, past>>

ReadServerTime ==
    /\ At("server")
    /\ available' = [available EXCEPT !.server = clock.server]
    /\ sniffer' = "offset"
    /\ UNCHANGED <<files, mutex, standby, sender, command, mute, clock, past>>

ReadOffsetTime ==
    /\ At("offset")
    /\ available' = [available EXCEPT !.offset = clock.offset]
    /\ sniffer' = "take"
    /\ UNCHANGED <<files, mutex, standby, sender, command, mute, clock, past>>

TakeToFlip ==
    /\ At("take")
    /\ batch < MaxBatches
    /\ mutex = "none"
    /\ mutex' = "sniffer"
    /\ sniffer' = "flip"
    /\ UNCHANGED <<files, standby, sender, command, mute, times, past>>

Flip_Increments ==                   \* mutant: id_sniFile++ on both sides
    /\ At("flip")
    /\ id' = id + 1
    /\ mutex' = "none"
    /\ sniffer' = "open"
    /\ overtaken' = (overtaken \/ Pending)
    /\ UNCHANGED <<file, batch, bit, standby, sender, command, mute, times, lastSent>>

Flip ==
    /\ At("flip")
    /\ id' = 1 - id
    /\ mutex' = "none"
    /\ sniffer' = "open"
    /\ overtaken' = (overtaken \/ Pending)
    /\ UNCHANGED <<file, batch, bit, standby, sender, command, mute, times, lastSent>>

EnterOpen == Moves("open", "opening")

(* fopen(..., "w") empties the file, whoever is reading it.                *)
Open ==
    /\ At("opening")
    /\ batch' = batch + 1
    /\ file' = [file EXCEPT ![id] = [batch |-> batch + 1, rows |-> 0]]
    /\ sniffer' = "sniff"
    /\ UNCHANGED <<id, bit, mutex, standby, sender, command, mute, times, past>>

(* sniffer_packet_handler; the radio goes on while the task is suspended.  *)
Sniffed ==
    /\ sniffer = "sniff"
    /\ file[id].rows < MaxRows
    /\ file' = [file EXCEPT ![id].rows = @ + 1]
    /\ UNCHANGED <<id, batch, bit, mutex, sniffer, standby, sender, command, mute, times, past>>

EndSniff == Moves("sniff", "close")

EnterClose == Moves("close", "closing")

Close ==
    /\ At("closing")
    /\ bit' = TRUE
    /\ sniffer' = "server"
    /\ UNCHANGED <<id, file, batch, mutex, standby, sender, command, mute, times, past>>

-----------------------------------------------------------------------------
(* filesend_task.                                                          *)
Awake ==
    /\ sender.pc = "wait"
    /\ bit
    /\ bit' = FALSE
    /\ sender' = [sender EXCEPT !.pc = "take"]
    /\ UNCHANGED <<id, file, batch, mutex, sniffer, standby, command, mute, times, past>>

TakeToSend ==
    /\ sender.pc = "take"
    /\ mutex = "none"
    /\ mutex' = "sender"
    /\ sender' = [sender EXCEPT !.pc = "open"]
    /\ UNCHANGED <<files, sniffer, standby, command, mute, times, past>>

(* send_sniffed_packages: the size is taken once, and announced.           *)
Announce(f) ==
    /\ sender.pc = "open" /\ ~InFileSystem
    /\ sender' = [pc |-> "send", file |-> f, batch |-> file[f].batch,
                  size |-> file[f].rows, sent |-> 0]
    /\ UNCHANGED <<files, mutex, sniffer, standby, command, mute, times, past>>

StartSend_Other == Announce(1 - id)  \* mutant: the file to be filled next

StartSend == Announce(id)

(* Each turn sends what the next fread returns, until the size is reached. *)
(* At the end of an emptied file it returns nothing, and the loop goes on. *)
(* A write that the server does not take fails within 5 seconds (Reboot).  *)
SendChunk ==
    /\ sender.pc = "send" /\ sender.sent < sender.size
    /\ ~InFileSystem
    /\ \E n \in 1..(file[sender.file].rows - sender.sent) :
         sender' = [sender EXCEPT !.sent = @ + n]
    /\ UNCHANGED <<files, mutex, sniffer, standby, command, mute, times, past>>

EndSend_KeepsMutex ==                \* mutant
    /\ sender.pc = "send" /\ sender.sent >= sender.size /\ ~InFileSystem
    /\ sender' = Waiting
    /\ lastSent' = sender.batch
    /\ UNCHANGED <<files, mutex, sniffer, standby, command, mute, times, overtaken>>

EndSend ==
    /\ sender.pc = "send" /\ sender.sent >= sender.size /\ ~InFileSystem
    /\ sender' = Waiting
    /\ mutex' = "none"
    /\ lastSent' = sender.batch
    /\ UNCHANGED <<files, sniffer, standby, command, mute, times, overtaken>>

-----------------------------------------------------------------------------
(* The command loop: SYNC, with its two assignments, ...                   *)
Sync ==
    /\ command = "idle"
    /\ clock.server < MaxSyncs
    /\ command' = "take"
    /\ UNCHANGED <<files, mutex, sniffer, standby, sender, mute, times, past>>

TakeToSync ==
    /\ command = "take"
    /\ mutex = "none"
    /\ mutex' = "command"
    /\ command' = "server"
    /\ UNCHANGED <<files, sniffer, standby, sender, mute, times, past>>

(* client_timesync waits for the server's clock, for ever if need be.      *)
SetServerTime ==
    /\ command = "server"
    /\ clock' = [clock EXCEPT !.server = @ + 1]
    /\ command' = "offset"
    /\ UNCHANGED <<files, mutex, sniffer, standby, sender, mute, available, past>>

SetOffsetTime_KeepsMutex ==          \* mutant
    /\ command = "offset"
    /\ clock' = [clock EXCEPT !.offset = clock.server]
    /\ command' = "idle"
    /\ UNCHANGED <<files, mutex, sniffer, standby, sender, mute, available, past>>

SetOffsetTime ==
    /\ command = "offset"
    /\ clock' = [clock EXCEPT !.offset = clock.server]
    /\ mutex' = "none"
    /\ command' = "idle"
    /\ UNCHANGED <<files, sniffer, standby, sender, mute, available, past>>

(* ... STANDBY and RESUME.                                                 *)
Standby ==
    /\ command = "idle"
    /\ standby' = TRUE
    /\ UNCHANGED <<files, mutex, sniffer, sender, command, mute, times, past>>

Resume ==
    /\ command = "idle"
    /\ standby' = FALSE
    /\ UNCHANGED <<files, mutex, sniffer, sender, command, mute, times, past>>

(* The server, or the network, stops without the connection being closed.  *)
FallsSilent ==
    /\ ~mute
    /\ mute' = TRUE
    /\ UNCHANGED <<files, mutex, sniffer, standby, sender, command, times, past>>

-----------------------------------------------------------------------------
Sniffing ==
    \/ ReadServerTime \/ ReadOffsetTime \/ Flip
    \/ EnterOpen \/ Open \/ EndSniff \/ EnterClose \/ Close
Sending   == Awake \/ StartSend \/ SendChunk \/ EndSend
Resetting == SetServerTime \/ SetOffsetTime

Next ==
    \/ Sniffing \/ TakeToFlip \/ Sniffed
    \/ Sending \/ TakeToSend
    \/ Resetting \/ TakeToSync
    \/ Sync \/ Standby \/ Resume \/ FallsSilent
    \/ Reboot

Spec == Init /\ [][Next]_vars

(* Tasks that can go on do, and one that waits for the semaphore, or for   *)
(* the file system, gets it if it becomes free again and again.  A silent  *)
(* server does not owe its clock; probes and commands owe nothing.         *)
Fairness ==
    /\ WF_vars(Sniffing) /\ SF_vars(TakeToFlip)
    /\ SF_vars(Sending) /\ SF_vars(TakeToSend)
    /\ WF_vars(~mute /\ SetServerTime) /\ WF_vars(SetOffsetTime) /\ SF_vars(TakeToSync)

FairSpec == Spec /\ Fairness

-----------------------------------------------------------------------------
TypeOK ==
    /\ id \in {0, 1}
    /\ file \in [{0, 1} -> [batch : 0..MaxBatches, rows : 0..MaxRows]]
    /\ batch \in 0..MaxBatches
    /\ mutex \in {"none", "sniffer", "sender", "command"}
    /\ bit \in BOOLEAN
    /\ sniffer \in {"server", "offset", "take", "flip", "open", "opening", "sniff",
                   "close", "closing"}
    /\ standby \in BOOLEAN
    /\ sender \in [pc : {"wait", "take", "open", "send"}, file : {0, 1},
                   batch : 0..MaxBatches, size : 0..MaxRows, sent : 0..MaxRows]
    /\ command \in {"idle", "take", "server", "offset"}
    /\ mute \in BOOLEAN
    /\ clock \in [server : 1..MaxSyncs, offset : 1..MaxSyncs]
    /\ available \in [server : 1..MaxSyncs, offset : 1..MaxSyncs]
    /\ lastSent \in 0..MaxBatches
    /\ overtaken \in BOOLEAN

(* As long as no flip overtakes the sender, every finished batch is        *)
(* uploaded once, in order, from a closed file, and exactly as long as     *)
(* announced, in spite of clock resets and suspensions.                    *)
Finished == IF sniffer \in {"sniff", "close", "closing"} THEN batch - 1 ELSE batch

Exact ==
    /\ sender.batch = lastSent + 1 /\ sender.batch <= Finished
    /\ file[sender.file] = [batch |-> sender.batch, rows |-> sender.size]
    /\ sender.sent <= sender.size

OnlyOvertakingMisSends ==
    ~overtaken =>
        /\ Finished = lastSent + (IF Pending THEN 1 ELSE 0)
        /\ sender.pc = "send" => Exact

(* Every upload and every clock reset that has started ends, unless the    *)
(* sniffer is suspended with the semaphore or with the lock of the file    *)
(* system, the file is emptied under the upload, or the server falls       *)
(* silent in a clock exchange, whose reads have no timeout.                *)
Stuck ==
    \/ sniffer = "flip" /\ standby
    \/ InFileSystem /\ standby
    \/ sender.pc = "send" /\ file[sender.file].batch # sender.batch
    \/ command = "server" /\ mute

UploadsEnd == sender.pc # "wait" ~> sender.pc = "wait" \/ Stuck

ResetsEnd == command # "idle" ~> command = "idle" \/ Stuck
=============================================================================
