-------------------------- MODULE SnifferFilesProofs -------------------------
(***************************************************************************)
(* Theorems about SnifferFiles for any number of rows, batches and clock   *)
(* exchanges.                                                              *)
(***************************************************************************)
EXTENDS SnifferFiles, TLAPS

(* Between a guard on a bound and the step that counts, nobody else counts. *)
Bounds ==
    /\ sniffer \in {"flip", "open", "opening"} => batch < MaxBatches
    /\ command \in {"take", "server"} => clock.server < MaxSyncs

TypeInv == TypeOK /\ Bounds

(* The sniffer and the sender hold the semaphore exactly in these places.  *)
Holders ==
    /\ sniffer = "flip" <=> mutex = "sniffer"
    /\ sender.pc \in {"open", "send"} <=> mutex = "sender"
    /\ command \in {"server", "offset"} <=> mutex = "command"

(* Until it is overtaken, the sender is at work only while the sniffer has *)
(* not flipped again, and the file of id_sniFile holds the last batch.     *)
BeforeFlip == {"server", "offset", "take", "flip"}

InStep ==
    ~overtaken =>
        /\ Pending => sniffer \in BeforeFlip
        /\ bit => sender.pc = "wait"
        /\ sniffer \notin {"open", "opening"} => file[id].batch = batch \/ batch = 0
        /\ sender.pc = "send" => sender.file = id

IInv == TypeInv /\ Holders /\ InStep /\ OnlyOvertakingMisSends

-----------------------------------------------------------------------------
(* The values every start gives the variables are in their ranges.         *)
LEMMA BootTypes ==
    /\ Emptied \in [{0, 1} -> [batch : 0..MaxBatches, rows : 0..MaxRows]]
    /\ Waiting \in [pc : {"wait", "take", "open", "send"}, file : {0, 1},
                   batch : 0..MaxBatches, size : 0..MaxRows, sent : 0..MaxRows]
    /\ FirstSync \in [server : 1..MaxSyncs, offset : 1..MaxSyncs]
<1>1. 0 \in 0..MaxBatches /\ 0 \in 0..MaxRows /\ 1 \in 1..MaxSyncs
  BY SnifferAssumption
<1> QED
  BY <1>1 DEF Emptied, Waiting, FirstSync

LEMMA TypeInit == Init => TypeInv
<1> SUFFICES ASSUME Init PROVE TypeInv
  OBVIOUS
<1>1. batch \in 0..MaxBatches /\ lastSent \in 0..MaxBatches
  BY SnifferAssumption DEF Init
<1> QED
  BY <1>1, BootTypes DEF Init, TypeInv, TypeOK, Bounds

LEMMA TypeStep == TypeInv /\ [Next]_vars => TypeInv'
<1> SUFFICES ASSUME TypeInv, [Next]_vars PROVE TypeInv'
  OBVIOUS
<1> USE SnifferAssumption DEF TypeInv, TypeOK, Bounds
<1>1. CASE Sniffing
  <2>1. CASE ReadServerTime
    BY <2>1 DEF ReadServerTime, At, files, past
  <2>2. CASE ReadOffsetTime
    BY <2>2 DEF ReadOffsetTime, At, files, past
  <2>3. CASE Flip
    BY <2>3 DEF Flip, At, times, Pending
  <2>4. CASE Open
    BY <2>4 DEF Open, At, times, past
  <2>5. CASE Close
    BY <2>5 DEF Close, At, times, past
  <2>6. CASE EnterOpen
    BY <2>6 DEF EnterOpen, Moves, At, files, times, past
  <2>7. CASE EndSniff
    BY <2>7 DEF EndSniff, Moves, At, files, times, past
  <2>8. CASE EnterClose
    BY <2>8 DEF EnterClose, Moves, At, files, times, past
  <2> QED
    BY <1>1, <2>1, <2>2, <2>3, <2>4, <2>5, <2>6, <2>7, <2>8 DEF Sniffing
<1>2. CASE TakeToFlip
  BY <1>2 DEF TakeToFlip, At, files, times, past
<1>3. CASE Sniffed
  BY <1>3 DEF Sniffed, times, past
<1>4. CASE Sending
  <2>1. CASE Awake
    <3>1. /\ bit' \in BOOLEAN /\ standby' \in BOOLEAN /\ overtaken' \in BOOLEAN
          /\ mute' \in BOOLEAN
          /\ UNCHANGED <<id, file, batch, mutex, sniffer, command, clock, available,
                        lastSent>>
      BY <2>1, Zenon DEF Awake, times, past
    <3>2. sender' \in [pc : {"wait", "take", "open", "send"}, file : {0, 1},
                       batch : 0..MaxBatches, size : 0..MaxRows, sent : 0..MaxRows]
      BY <2>1 DEF Awake
    <3> QED
      BY <3>1, <3>2
  <2>2. CASE StartSend
    <3>1. file[id].batch \in 0..MaxBatches /\ file[id].rows \in 0..MaxRows
      OBVIOUS
    <3>2. sender' \in [pc : {"wait", "take", "open", "send"}, file : {0, 1},
                       batch : 0..MaxBatches, size : 0..MaxRows, sent : 0..MaxRows]
      BY <2>2, <3>1 DEF StartSend, Announce
    <3> QED
      BY <2>2, <3>2 DEF StartSend, Announce, files, times, past
  <2>3. CASE SendChunk
    BY <2>3 DEF SendChunk, files, times, past
  <2>4. CASE EndSend
    BY <2>4 DEF EndSend, files, times, Waiting
  <2> QED
    BY <1>4, <2>1, <2>2, <2>3, <2>4 DEF Sending
<1>5. CASE TakeToSend
  BY <1>5 DEF TakeToSend, files, times, past
<1>6. CASE Resetting
  <2>1. CASE SetServerTime
    BY <2>1 DEF SetServerTime, files, past
  <2>2. CASE SetOffsetTime
    BY <2>2 DEF SetOffsetTime, files, past
  <2> QED
    BY <1>6, <2>1, <2>2 DEF Resetting
<1>7. CASE TakeToSync
  BY <1>7 DEF TakeToSync, files, times, past
<1>8. CASE Sync
  BY <1>8 DEF Sync, files, times, past
<1>9. CASE Standby
  BY <1>9 DEF Standby, files, times, past
<1>10. CASE Resume
  <2>1. /\ bit' \in BOOLEAN /\ standby' \in BOOLEAN /\ overtaken' \in BOOLEAN
        /\ mute' \in BOOLEAN
        /\ UNCHANGED <<id, file, batch, mutex, sniffer, sender, command, clock,
                      available, lastSent>>
    BY <1>10, Zenon DEF Resume, files, times, past
  <2> QED
    BY <2>1
<1>13. CASE FallsSilent
  <2>1. /\ bit' \in BOOLEAN /\ standby' \in BOOLEAN /\ overtaken' \in BOOLEAN
        /\ mute' \in BOOLEAN
        /\ UNCHANGED <<id, file, batch, mutex, sniffer, sender, command, clock,
                      available, lastSent>>
    BY <1>13, Zenon DEF FallsSilent, files, times, past
  <2> QED
    BY <2>1
<1>11. CASE Reboot
  <2>1. batch' \in 0..MaxBatches /\ lastSent' \in 0..MaxBatches
    BY <1>11 DEF Reboot
  <2> QED
    BY <1>11, <2>1, BootTypes DEF Reboot
<1>12. CASE UNCHANGED vars
  BY <1>12 DEF vars
<1> QED
  BY <1>1, <1>2, <1>3, <1>4, <1>5, <1>6, <1>7, <1>8, <1>9, <1>10, <1>11, <1>12, <1>13 DEF Next

(* Every variable of the board keeps to its range, whatever the order of   *)
(* the tasks: in particular id_sniFile stays 0 or 1.                       *)
THEOREM TypeCorrect == Spec => []TypeOK
<1>1. TypeInv => TypeOK
  BY DEF TypeInv
<1> QED
  BY <1>1, TypeInit, TypeStep, PTL DEF Spec

-----------------------------------------------------------------------------
LEMMA InvInit == Init => IInv
<1> SUFFICES ASSUME Init PROVE IInv
  OBVIOUS
<1>1. TypeInv
  BY TypeInit
<1> QED
  BY <1>1
  DEF Init, IInv, Holders, InStep, OnlyOvertakingMisSends, Pending, Finished,
      Emptied, FirstSync, Waiting

LEMMA InvStep == IInv /\ [Next]_vars => IInv'
<1> SUFFICES ASSUME IInv, [Next]_vars PROVE IInv'
  OBVIOUS
<1>0. TypeInv'
  BY TypeStep DEF IInv
<1> USE <1>0, SnifferAssumption
    DEF IInv, TypeInv, TypeOK, Holders, InStep, OnlyOvertakingMisSends, Pending,
        Finished, Exact, BeforeFlip
<1>1. CASE Sniffing
  <2>1. CASE ReadServerTime
    BY <2>1 DEF ReadServerTime, At, files, past
  <2>2. CASE ReadOffsetTime
    BY <2>2 DEF ReadOffsetTime, At, files, past
  <2>3. CASE Flip
    BY <2>3 DEF Flip, At, times
  <2>4. CASE Open
    BY <2>4 DEF Open, At, times, past
  <2>5. CASE Close
    BY <2>5 DEF Close, At, times, past
  <2>6. CASE EnterOpen
    BY <2>6 DEF EnterOpen, Moves, At, files, times, past
  <2>7. CASE EndSniff
    BY <2>7 DEF EndSniff, Moves, At, files, times, past
  <2>8. CASE EnterClose
    BY <2>8 DEF EnterClose, Moves, At, files, times, past
  <2> QED
    BY <1>1, <2>1, <2>2, <2>3, <2>4, <2>5, <2>6, <2>7, <2>8 DEF Sniffing
<1>2. CASE TakeToFlip
  BY <1>2 DEF TakeToFlip, At, files, times, past
<1>3. CASE Sniffed
  BY <1>3 DEF Sniffed, times, past
<1>4. CASE Sending
  <2>1. CASE Awake
    BY <2>1 DEF Awake, times, past
  <2>2. CASE StartSend
    BY <2>2 DEF StartSend, Announce, files, times, past
  <2>3. CASE SendChunk
    BY <2>3 DEF SendChunk, files, times, past
  <2>4. CASE EndSend
    BY <2>4 DEF EndSend, files, times, Waiting
  <2> QED
    BY <1>4, <2>1, <2>2, <2>3, <2>4 DEF Sending
<1>5. CASE TakeToSend
  BY <1>5 DEF TakeToSend, files, times, past
<1>6. CASE Resetting
  <2>1. CASE SetServerTime
    BY <2>1 DEF SetServerTime, files, past
  <2>2. CASE SetOffsetTime
    BY <2>2 DEF SetOffsetTime, files, past
  <2> QED
    BY <1>6, <2>1, <2>2 DEF Resetting
<1>7. CASE TakeToSync
  BY <1>7 DEF TakeToSync, files, times, past
<1>8. CASE Sync
  BY <1>8 DEF Sync, files, times, past
<1>9. CASE Standby
  BY <1>9 DEF Standby, files, times, past
<1>10. CASE Resume
  BY <1>10 DEF Resume, files, times, past
<1>13. CASE FallsSilent
  BY <1>13 DEF FallsSilent, files, times, past
<1>11. CASE Reboot
  BY <1>11 DEF Reboot, Emptied, FirstSync, Waiting
<1>12. CASE UNCHANGED vars
  BY <1>12 DEF vars
<1> QED
  BY <1>1, <1>2, <1>3, <1>4, <1>5, <1>6, <1>7, <1>8, <1>9, <1>10, <1>11, <1>12, <1>13 DEF Next

(* As long as the sniffer does not flip before the sender has served the   *)
(* finished file, every batch is uploaded once, in order, closed and whole. *)
(* The rest of the interleavings, clock resets and suspensions in any      *)
(* place among them, do no harm.                                           *)
THEOREM UploadsInOrder == Spec => []OnlyOvertakingMisSends
<1>1. IInv => OnlyOvertakingMisSends
  BY DEF IInv
<1> QED
  BY <1>1, InvInit, InvStep, PTL DEF Spec
=============================================================================
