--------------------------- MODULE BoardLinkProofs ---------------------------
(***************************************************************************)
(* Proofs about BoardLink, for any number of attempts, rounds, rows and    *)
(* messages under way: whose turn it is in a registration or an exchange,  *)
(* which gives NoMutualWait; where a file under way begins and how many    *)
(* rows follow, which gives InStep; and what the commands under way say    *)
(* about the led, which gives LedFollows.                                  *)
(***************************************************************************)
EXTENDS BoardLink, FiniteSetTheorems, SequenceTheorems, WellFoundedInduction, TLAPS

(* Of a set of naturals one is the first.                                  *)
LEMMA FirstOf == ASSUME NEW S \in SUBSET Nat, S # {} PROVE \E s \in S : \A t \in S : s <= t
<1> DEFINE before == OpToRel(<, Nat)
<1>1. IsWellFoundedOn(before, Nat)
  BY NatLessThanWellFounded
<1>2. before = {ss \in Nat \X Nat : ss[1] < ss[2]}
  BY Zenon DEF OpToRel
<1> HIDE DEF before
<1>3. PICK s \in S : \A t \in S : <<t, s>> \notin before
  BY <1>1, WFMin
<1>4. \A x, y \in Nat : x < y => <<x, y>> \in before
  BY <1>2
<1>5. ASSUME NEW t \in S PROVE s <= t
  <2>1. s \in Nat /\ t \in Nat /\ ~ t < s
    BY <1>3, <1>4
  <2> QED BY <2>1
<1> QED BY <1>5

-----------------------------------------------------------------------------
(* The parts of the inductive invariant.                                   *)

(* The semaphore, the tasks, and the end of the connection.                *)
Roles ==
    /\ mutex = "sender" <=> sender \in {"file", "head", "rows"}
    /\ mutex = "main" <=> board = "ask" \/ (board = "exchange" /\ started)
    /\ board \in {"idle", "take", "ask"} => started
    /\ board \in {"register", "answer"} => ~started
    /\ ~started => sender = "wait"
    /\ shut <=> server = "gone"
    /\ shut => up = <<>>
    /\ server = "pong" => rounds < Pings

(* None of the kinds K in a stream; k once, and no other of them.          *)
None(s, K) == \A i \in 1 .. Len(s) : s[i].kind \notin K
Once(s, k, K) == \E i \in 1 .. Len(s) : /\ s[i].kind = k
                                        /\ \A j \in 1 .. Len(s) : j # i => s[j].kind \notin K

Asked == {"PING", "CLOCK"}
Asking == {"REGISTER", "PONG", "SYNC"}

(* Nothing is asked for; or it is the turn of one end, the other waits, and*)
(* the one message that it waits for is under way, unless it is lost.      *)
NobodyAsks == /\ server \in {"idle", "head", "file"}
              /\ None(up, Asking) /\ None(down, Asked)
Registers == server = "idle" /\ up = <<M("REGISTER")>> /\ down = <<>> /\ ~known
Accepts   == server = "accept" /\ up = <<>> /\ None(down, Asked)
Pinging    == server = "ping" /\ up = <<>> /\ None(down, Asked)
Pinged    == server = "pong" /\ up = <<>> /\ Once(down, "PING", Asked)
Ponged    == server = "pong" /\ up = <<M("PONG")>> /\ None(down, Asked)
Clocked   == server = "idle" /\ up = <<>> /\ Once(down, "CLOCK", Asked)
Syncs     == /\ started /\ server \in {"idle", "head", "file"} /\ None(down, Asked)
             /\ up # <<>> /\ up[Len(up)].kind = "SYNC"
             /\ \A i \in 1 .. Len(up) - 1 : up[i].kind \notin Asking
Lost      == /\ server \in {"idle", "pong", "file"} /\ up = <<>> /\ None(down, Asked)
             /\ "exchange" \in missed

Turns ==
    ~shut =>
      /\ board = "register" => server = "idle" /\ up = <<>> /\ down = <<>> /\ ~known
      /\ board = "answer" => \/ Registers \/ Accepts
                             \/ (rounds = 0 /\ (Pinging \/ Pinged))
      /\ board = "exchange" => \/ Accepts \/ Pinging \/ Pinged \/ Ponged \/ Clocked
                               \/ Syncs \/ Lost
      /\ board \in {"idle", "take", "ask"} => NobodyAsks

(* A file under way begins with FILE and its header.                       *)
Frames ==
    /\ \A i \in 1 .. Len(up) : up[i].kind = "FILE" =>
          IF i = Len(up) THEN sender = "head" ELSE up[i + 1].kind = "HEAD"
    /\ \A i \in 2 .. Len(up) : up[i].kind = "HEAD" => up[i - 1].kind = "FILE"
    /\ (sender = "head" /\ up # <<>>) => up[Len(up)].kind = "FILE"
    /\ server = "head" => IF up = <<>> THEN sender = "head" ELSE up[1].kind = "HEAD"

(* Behind place i of a stream n rows follow, more of them still to be sent.*)
RowsAfter(s, i, n, more) ==
    \E c \in 0 .. Len(s) - i :
        /\ \A j \in i + 1 .. i + c : s[j].kind = "ROW"
        /\ IF i + c < Len(s) THEN n = c /\ s[i + c + 1].kind # "ROW" ELSE n = c + more
ToSend == IF sender = "rows" THEN left ELSE 0

(* The server stands before a message that starts a request, or in a file  *)
(* of which it awaits as many rows as follow.                              *)
Located ==
    /\ server = "idle" => /\ RowsAfter(up, 0, 0, ToSend)
                          /\ IF up = <<>> THEN sender # "head" ELSE up[1].kind # "HEAD"
    /\ server = "file" => RowsAfter(up, 0, expect, ToSend) /\ expect \in 1 .. MaxRows

(* Headers are true, and the server knows where it is.                     *)
Lengths ==
    /\ \A i \in 1 .. Len(up) :
          /\ up[i].kind \in Asking \cup {"FILE", "HEAD", "ROW"}
          /\ up[i].kind = "HEAD" => RowsAfter(up, i, up[i].size, ToSend)
    /\ (~misread /\ ~shut) => Located

(* A stream's last kind of K is k.                                         *)
LastOf(s, K, k) == \E i \in 1 .. Len(s) : /\ s[i].kind = k
                                          /\ \A j \in 1 .. Len(s) : j > i => s[j].kind \notin K

(* The last command about the led under way, or else what it does, is what *)
(* the server believes.                                                    *)
Led ==
    "led" \notin missed =>
      \/ None(down, About) /\ led = blinking
      \/ \E k \in About : LastOf(down, About, k) /\ (blinking <=> k = "BLINK")

IInv == TypeOK /\ Roles /\ Turns /\ Frames /\ Lengths /\ Led

-----------------------------------------------------------------------------
(* Streams.                                                                *)

(* What is read of a stream, and what is left of it.                       *)
LEMMA SplitIs ==
    ASSUME NEW S, NEW s \in Seq(S), NEW k \in 1 .. Len(s)
    PROVE  /\ Start(s, k) \in Seq(S) /\ Len(Start(s, k)) = k
           /\ \A i \in 1 .. k : Start(s, k)[i] = s[i]
           /\ Rest(s, k) \in Seq(S) /\ Len(Rest(s, k)) = Len(s) - k
           /\ \A i \in 1 .. Len(s) - k : Rest(s, k)[i] = s[k + i]
<1>1. Len(s) \in Nat /\ \A i \in 1 .. Len(s) : s[i] \in S
  OBVIOUS
<1>2. /\ Start(s, k) \in Seq(S) /\ Len(Start(s, k)) = k
      /\ \A i \in 1 .. k : Start(s, k)[i] = s[i]
  BY <1>1, SubSeqProperties DEF Start
<1>3. /\ Rest(s, k) \in Seq(S) /\ Len(Rest(s, k)) = Len(s) - k
      /\ \A i \in 1 .. Len(s) - k : Rest(s, k)[i] = s[k + i]
  <2>1. k + 1 \in Int /\ Len(s) \in Int /\ \A i \in k + 1 .. Len(s) : s[i] \in S
    BY <1>1
  <2>2. /\ SubSeq(s, k + 1, Len(s)) \in Seq(S)
        /\ Len(SubSeq(s, k + 1, Len(s))) =
              IF k + 1 <= Len(s) THEN Len(s) - (k + 1) + 1 ELSE 0
        /\ \A i \in 1 .. Len(s) - (k + 1) + 1 : SubSeq(s, k + 1, Len(s))[i] = s[k + 1 + i - 1]
    BY <2>1, SubSeqProperties
  <2> QED BY <1>1, <2>2 DEF Rest
<1> QED BY <1>2, <1>3

(* What is sent comes last.                                                *)
LEMMA AppendIs ==
    ASSUME NEW S, NEW s \in Seq(S), NEW m \in S
    PROVE  /\ Append(s, m) \in Seq(S) /\ Len(Append(s, m)) = Len(s) + 1
           /\ \A i \in 1 .. Len(s) : Append(s, m)[i] = s[i]
           /\ Append(s, m)[Len(s) + 1] = m
  OBVIOUS

(* The kinds of a stream.                                                  *)
LEMMA KindsAre ==
    ASSUME NEW S, NEW s \in Seq(S)
    PROVE  Kinds(s) = {s[i].kind : i \in 1 .. Len(s)}
  BY DEF Kinds

(* A message of each kind.                                                 *)
LEMMA MessageIs ==
    /\ \A k \in Kind : M(k) \in Message /\ M(k).kind = k
    /\ \A n \in 0 .. MaxRows, h \in BOOLEAN : [kind |-> "HEAD", size |-> n, high |-> h] \in Message
    /\ \A m \in Message : m.kind \in Kind /\ m.size \in 0 .. MaxRows
  BY LinkAssumption DEF M, Message, Kind

(* The kinds, as a set.                                                    *)
LEMMA KindIs ==
    /\ Kind = {"REGISTER", "ACCEPT", "PING", "PONG", "CLOCK", "FILE", "HEAD", "ROW",
               "BLINK", "OKLED", "REBOOT", "SYNC", "STANDBY", "RESUME"}
    /\ Commands \subseteq Kind \ {"REGISTER", "ACCEPT", "PING", "PONG", "CLOCK", "FILE", "HEAD", "ROW"}
<1>1. {Order[i] : i \in DOMAIN Order} =
         {"BLINK", "OKLED", "REBOOT", "SYNC", "STANDBY", "RESUME"}
  <2>1. DOMAIN Order = 1 .. 6
    BY DEF Order
  <2>2. 1 .. 6 = {1, 2, 3, 4, 5, 6}
    OBVIOUS
  <2> QED BY <2>1, <2>2 DEF Order
<1> QED BY <1>1, LinkAssumption DEF Kind

(* What forgotten messages were about.                                     *)
LEMMA ConcernsIs ==
    ASSUME NEW K
    PROVE  /\ Concerns(K) \subseteq {"exchange", "led"}
           /\ "led" \in Concerns(K) <=> K \cap About # {}
           /\ "exchange" \in Concerns(K) <=> K \cap Vital # {}
  BY DEF Concerns

(* The two ends' streams and the numbers, from the type invariant.         *)
LEMMA Streams ==
    ASSUME TypeOK
    PROVE  /\ up \in Seq(Message) /\ Len(up) \in Nat /\ \A i \in 1 .. Len(up) : up[i] \in Message
           /\ down \in Seq(Message) /\ Len(down) \in Nat
           /\ \A i \in 1 .. Len(down) : down[i] \in Message
           /\ left \in Nat /\ MaxRows \in Nat \ {0} /\ Pings \in Nat \ {0} /\ Trials \in Nat \ {0}
           /\ Lots = MaxRows + 2
  BY LinkAssumption DEF TypeOK, Lots

-----------------------------------------------------------------------------
(* Types.                                                                  *)

(* What a message adds keeps the types of the streams.                     *)
LEMMA SentTyped ==
    ASSUME TypeOK, NEW m \in Message
    PROVE  (Sent(m) => up' \in Seq(Message)) /\ (Answer(m) => down' \in Seq(Message))
<1>1. up \in Seq(Message) /\ down \in Seq(Message)
  BY Streams
<1>2. Append(up, m) \in Seq(Message) /\ Append(down, m) \in Seq(Message)
  BY <1>1, AppendIs
<1> QED BY <1>1, <1>2 DEF Sent, Answer

(* What a read takes, and what it leaves.                                  *)
LEMMA BoardReadsIs ==
    ASSUME TypeOK, NEW pc, NEW got, BoardReads(pc, got)
    PROVE  /\ board = pc
           /\ got \in Seq(Message) /\ Len(got) \in 1 .. Len(down)
           /\ \A i \in 1 .. Len(got) : got[i] = down[i]
           /\ down' \in Seq(Message) /\ Len(down') = Len(down) - Len(got)
           /\ \A i \in 1 .. Len(down') : down'[i] = down[Len(got) + i]
<1>1. PICK k \in 1 .. Len(down) : got = Start(down, k) /\ down' = Rest(down, k)
  BY DEF BoardReads
<1>2. down \in Seq(Message)
  BY Streams
<1>3. /\ Start(down, k) \in Seq(Message) /\ Len(Start(down, k)) = k
      /\ \A i \in 1 .. k : Start(down, k)[i] = down[i]
      /\ Rest(down, k) \in Seq(Message) /\ Len(Rest(down, k)) = Len(down) - k
      /\ \A i \in 1 .. Len(down) - k : Rest(down, k)[i] = down[k + i]
  BY <1>2, SplitIs
<1> QED BY <1>1, <1>3 DEF BoardReads

(* The same of the other stream.                                           *)
LEMMA ServerReadsIs ==
    ASSUME TypeOK, NEW pc, NEW got, ServerReads(pc, got)
    PROVE  /\ server = pc
           /\ got \in Seq(Message) /\ Len(got) \in 1 .. Len(up)
           /\ \A i \in 1 .. Len(got) : got[i] = up[i]
           /\ up' \in Seq(Message) /\ Len(up') = Len(up) - Len(got)
           /\ \A i \in 1 .. Len(up') : up'[i] = up[Len(got) + i]
<1>1. PICK k \in 1 .. Len(up) : got = Start(up, k) /\ up' = Rest(up, k)
  BY DEF ServerReads
<1>2. up \in Seq(Message)
  BY Streams
<1>3. /\ Start(up, k) \in Seq(Message) /\ Len(Start(up, k)) = k
      /\ \A i \in 1 .. k : Start(up, k)[i] = up[i]
      /\ Rest(up, k) \in Seq(Message) /\ Len(Rest(up, k)) = Len(up) - k
      /\ \A i \in 1 .. Len(up) - k : Rest(up, k)[i] = up[k + i]
  BY <1>2, SplitIs
<1> QED BY <1>1, <1>3 DEF ServerReads

(* The content of a file changes the server's fields only.                 *)
LEMMA ReceivingTyped ==
    ASSUME TypeOK, NEW n \in -1 .. Lots, NEW content \in Seq(Message), NEW garbled,
           Receiving(n, content, garbled)
    PROVE  /\ expect' \in 0 .. Lots /\ server' \in {"idle", "file"}
           /\ missed' \subseteq {"exchange", "led"} /\ misread' \in BOOLEAN
<1>1. /\ Len(content) \in Nat /\ Lots \in Nat /\ Concerns(Kinds(content)) \subseteq {"exchange", "led"}
      /\ missed \subseteq {"exchange", "led"} /\ misread \in BOOLEAN
  BY Streams, ConcernsIs DEF TypeOK
<1> DEFINE missing == Missing(n, content)
<1>2. missing \in Int /\ missing <= Lots
  BY <1>1 DEF Missing
<1>3. /\ expect' = IF missing > 0 THEN missing ELSE 0
      /\ server' = IF missing > 0 THEN "file" ELSE "idle"
      /\ missed' = missed \cup Concerns(Kinds(content))
      /\ misread' = (misread \/ garbled \/ "FILE" \in Kinds(content))
  BY DEF Receiving, Forgets
<1> HIDE DEF missing
<1>4. missed' \subseteq {"exchange", "led"}
  BY <1>1, <1>3
<1>5. misread' \in BOOLEAN
  BY <1>3
<1>6. expect' \in 0 .. Lots /\ server' \in {"idle", "file"}
  BY <1>1, <1>2, <1>3
<1> QED BY <1>4, <1>5, <1>6

(* So does what is done with a header.                                     *)
LEMMA AfterHeadTyped ==
    ASSUME TypeOK, NEW head \in Message, NEW content \in Seq(Message), NEW first,
           AfterHead(head, content, first)
    PROVE  /\ expect' \in 0 .. Lots /\ server' \in {"idle", "file"}
           /\ missed' \subseteq {"exchange", "led"} /\ misread' \in BOOLEAN
<1>1. head.size \in 0 .. MaxRows /\ Lots = MaxRows + 2 /\ MaxRows \in Nat /\ head.size \in Nat
  BY MessageIs, Streams
<1>2. \/ Receiving(0, <<>>, head.size > 0) /\ content = <<>>
      \/ Receiving(head.size - 1, content, TRUE)
      \/ Receiving(head.size + 1, content, TRUE)
      \/ Receiving(head.size, content, FALSE)
  BY DEF AfterHead
<1>3. {0, head.size - 1, head.size, head.size + 1} \subseteq -1 .. Lots
  BY <1>1
<1> QED BY <1>2, <1>3, ReceivingTyped

(* The steps that are no restart.                                          *)
Retries == /\ RegisterFails
           /\ board' = "register" /\ trials' = trials - 1 /\ trials # 1
           /\ UNCHANGED <<up, down, shut, started, led, mutex, senderVars, serverVars, past, others>>

(* Every step but a restart is one of the board, the sender or the server. *)
LEMMA Steps ==
    ASSUME Next
    PROVE  \/ Restart
           \/ Register \/ Retries \/ AskSync \/ TakeToSync
           \/ \E got : Registered(got) \/ Exchange(got) \/ Obey(got)
           \/ FileReady \/ TakeToSend \/ SendFile \/ SendHead \/ SendRow \/ EndUpload
           \/ Accept \/ Ping
           \/ \E got : \/ OnRegister(got) \/ OnSync(got) \/ OnFile(got) \/ OnOther(got)
                       \/ Pong(got) \/ ReadHead(got) \/ ReadRows(got)
           \/ \E c \in Commands : Send(c)
           \/ Close \/ \E c \in About : SendCommandFails(c)
           \/ EmptyFile \/ FillFile
<1>1. ASSUME BoardStep
      PROVE  \/ Restart
             \/ Register \/ Retries \/ AskSync
             \/ \E got : Registered(got) \/ Exchange(got) \/ Obey(got)
  BY <1>1 DEF BoardStep, RegisterFails, ExchangeFails, CommandsEnd, ObeyReboot, Retries
<1>2. ASSUME SenderStep PROVE Restart \/ SendFile \/ SendHead \/ SendRow \/ EndUpload
  BY <1>2 DEF SenderStep, SendFails
<1>3. ASSUME ServerStep
      PROVE  \/ Accept \/ Ping
             \/ \E got : \/ OnRegister(got) \/ OnSync(got) \/ OnFile(got) \/ OnOther(got)
                         \/ Pong(got) \/ ReadHead(got) \/ ReadRows(got)
  BY <1>3 DEF ServerStep
<1> QED BY <1>1, <1>2, <1>3 DEF Next

(* A step of the board keeps the types.                                    *)
LEMMA BoardTyped ==
    ASSUME TypeOK, \/ Register \/ Retries \/ AskSync \/ TakeToSync
                   \/ \E got : Registered(got) \/ Exchange(got) \/ Obey(got)
    PROVE  TypeOK'
<1>1. CASE Register
  <2>1. up' \in Seq(Message)
    BY <1>1, SentTyped, MessageIs, KindIs DEF Register
  <2> QED BY <1>1, <2>1 DEF TypeOK, Register, senderVars, serverVars, past, others
<1>2. CASE Retries
  <2>1. trials' \in 1 .. Trials
    BY <1>2, LinkAssumption DEF TypeOK, Retries
  <2> QED BY <1>2, <2>1 DEF TypeOK, Retries, senderVars, serverVars, past, others
<1>3. CASE AskSync
  <2>1. up' \in Seq(Message)
    BY <1>3, SentTyped, MessageIs, KindIs DEF AskSync
  <2> QED BY <1>3, <2>1 DEF TypeOK, AskSync, senderVars, serverVars, past, others
<1>4. CASE TakeToSync
  BY <1>4 DEF TypeOK, TakeToSync, senderVars, serverVars, past, others
<1>5. ASSUME NEW got, Registered(got) PROVE TypeOK'
  <2>1. down' \in Seq(Message)
    BY <1>5, BoardReadsIs DEF Registered
  <2>2. missed' \subseteq {"exchange", "led"}
    BY <1>5, ConcernsIs DEF Registered, Forgets, TypeOK
  <2> QED BY <1>5, <2>1, <2>2 DEF TypeOK, Registered, senderVars, serverVars, past, others
<1>6. ASSUME NEW got, Exchange(got) PROVE TypeOK'
  <2>1. down' \in Seq(Message)
    BY <1>6, BoardReadsIs DEF Exchange
  <2>2. up' \in Seq(Message)
    BY <1>6, SentTyped, MessageIs, KindIs DEF Exchange, TypeOK
  <2>3. /\ board' \in {"idle", board} /\ started' \in BOOLEAN
        /\ mutex' \in {"none", mutex} /\ missed' \subseteq {"exchange", "led"}
    BY <1>6, ConcernsIs DEF Exchange, Forgets, TypeOK
  <2>4. UNCHANGED <<shut, trials, led, senderVars, serverVars, misread, others>>
    BY <1>6 DEF Exchange
  <2> QED BY <2>1, <2>2, <2>3, <2>4 DEF TypeOK, senderVars, serverVars, others
<1>7. ASSUME NEW got, Obey(got) PROVE TypeOK'
  <2>1. down' \in Seq(Message)
    BY <1>7, BoardReadsIs DEF Obey
  <2>2. /\ board' \in {"take", "idle"} /\ led' = Lit(Chosen(got)) /\ Suspended(Chosen(got))
        /\ missed' \subseteq {"exchange", "led"}
    BY <1>7, ConcernsIs DEF Obey, Forgets, TypeOK
  <2>3. led' \in BOOLEAN /\ kept' \in BOOLEAN
    BY <2>2 DEF Lit, Suspended, TypeOK
  <2>4. UNCHANGED <<up, shut, started, trials, mutex, senderVars, serverVars, misread, emptied>>
    BY <1>7 DEF Obey
  <2> QED BY <2>1, <2>2, <2>3, <2>4 DEF TypeOK, senderVars, serverVars
<1> QED BY <1>1, <1>2, <1>3, <1>4, <1>5, <1>6, <1>7

(* So does a step of the sender.                                           *)
LEMMA SenderTyped ==
    ASSUME TypeOK, FileReady \/ TakeToSend \/ SendFile \/ SendHead \/ SendRow \/ EndUpload
    PROVE  TypeOK'
<1>1. CASE FileReady \/ TakeToSend \/ EndUpload
  <2>1. /\ sender' \in {"wait", "take", "file"} /\ mutex' \in {"none", "sender", mutex}
        /\ UNCHANGED <<up, down, shut, boardVars, left, serverVars, past, others>>
    BY <1>1 DEF FileReady, TakeToSend, EndUpload
  <2> QED BY <2>1 DEF TypeOK, boardVars, serverVars, past, others
<1>2. CASE SendFile
  <2>1. up' \in Seq(Message)
    BY <1>2, SentTyped, MessageIs, KindIs DEF SendFile, Writes
  <2> QED BY <1>2, <2>1 DEF TypeOK, SendFile, Writes, boardVars, serverVars, past, others
<1>3. CASE SendHead
  <2>1. PICK high \in BOOLEAN :
           Writes("head", "rows", [kind |-> "HEAD", size |-> left, high |-> high])
    BY <1>3 DEF SendHead
  <2>2. [kind |-> "HEAD", size |-> left, high |-> high] \in Message
    BY MessageIs DEF TypeOK
  <2>3. up' \in Seq(Message)
    BY <2>1, <2>2, SentTyped DEF Writes
  <2>4. left' = left
    BY <1>3 DEF SendHead
  <2> QED BY <2>1, <2>3, <2>4 DEF TypeOK, Writes, boardVars, serverVars, past, others
<1>4. CASE SendRow
  <2>1. up' \in Seq(Message)
    BY <1>4, SentTyped, MessageIs, KindIs DEF SendRow, Writes
  <2>2. left' \in 0 .. MaxRows
    BY <1>4, Streams DEF SendRow, TypeOK
  <2> QED BY <1>4, <2>1, <2>2 DEF TypeOK, SendRow, Writes, boardVars, serverVars, past, others
<1> QED BY <1>1, <1>2, <1>3, <1>4

(* So does a step of the server, a user or the timer.                      *)
LEMMA ServerTyped ==
    ASSUME TypeOK, Roles,
           \/ Accept \/ Ping
           \/ \E got : \/ OnRegister(got) \/ OnSync(got) \/ OnFile(got) \/ OnOther(got)
                       \/ Pong(got) \/ ReadHead(got) \/ ReadRows(got)
           \/ \E c \in Commands : Send(c)
           \/ Close
    PROVE  TypeOK'
<1>1. CASE Accept \/ Ping
  <2>1. down' \in Seq(Message)
    BY <1>1, SentTyped, MessageIs, KindIs DEF Accept, Ping
  <2>2. rounds' \in 0 .. Pings /\ server' \in {"ping", "pong", "idle"}
    BY <1>1, LinkAssumption DEF Accept, Ping, TypeOK
  <2>3. /\ UNCHANGED <<up, shut, board, started, trials, led, mutex, sender, left, known>>
        /\ UNCHANGED <<expect, blinking, missed, misread, kept, emptied>>
    BY <1>1 DEF Accept, Ping, boardVars, senderVars, past, others
  <2> QED BY <2>1, <2>2, <2>3 DEF TypeOK
<1>2. ASSUME NEW got, OnRegister(got) \/ OnSync(got) PROVE TypeOK'
  <2>1. up' \in Seq(Message)
    BY <1>2, ServerReadsIs DEF OnRegister, OnSync
  <2>2. /\ rounds' \in {0, rounds} /\ known' \in BOOLEAN /\ server' \in {"accept", "ping"}
        /\ UNCHANGED <<expect, blinking>>
    BY <1>2 DEF OnRegister, OnSync, TypeOK
  <2>3. UNCHANGED <<down, shut, boardVars, mutex, senderVars, past, others>>
    BY <1>2 DEF OnRegister, OnSync
  <2>4. rounds' \in 0 .. Pings
    BY <2>2, Streams DEF TypeOK
  <2> QED BY <2>1, <2>2, <2>3, <2>4 DEF TypeOK, boardVars, senderVars, past, others
<1>3. ASSUME NEW got, OnOther(got) PROVE TypeOK'
  <2>1. up' \in Seq(Message)
    BY <1>3, ServerReadsIs DEF OnOther
  <2>2. missed' \subseteq {"exchange", "led"}
    BY <1>3, ConcernsIs DEF OnOther, Forgets, TypeOK
  <2> QED BY <1>3, <2>1, <2>2 DEF TypeOK, OnOther, boardVars, senderVars, serverVars, others
<1>4. ASSUME NEW got, Pong(got) PROVE TypeOK'
  <2>1. up' \in Seq(Message)
    BY <1>4, ServerReadsIs DEF Pong
  <2>2. missed' \subseteq {"exchange", "led"}
    BY <1>4, ConcernsIs DEF Pong, Forgets, TypeOK
  <2>3. server' \in {"ping", "idle"} /\ rounds' \in 0 .. Pings
    BY <1>4, LinkAssumption DEF Pong, ServerReads, Roles, TypeOK
  <2> QED BY <1>4, <2>1, <2>2, <2>3 DEF TypeOK, Pong, boardVars, senderVars, others
<1>5. ASSUME NEW got, OnFile(got) \/ ReadHead(got) \/ ReadRows(got) PROVE TypeOK'
  <2>1. /\ up' \in Seq(Message) /\ got \in Seq(Message) /\ Len(got) \in Nat /\ Len(got) >= 1
        /\ \A i \in 1 .. Len(got) : got[i] \in Message
    <3>1. up' \in Seq(Message) /\ got \in Seq(Message) /\ Len(got) \in 1 .. Len(up)
      BY <1>5, ServerReadsIs DEF OnFile, ReadHead, ReadRows
    <3> QED BY <3>1, Streams
  <2>2. \A k \in 1 .. Len(got) : Rest(got, k) \in Seq(Message)
    BY <2>1, SplitIs
  <2> DEFINE L == Len(got)
  <2>3. 1 \in 1 .. L /\ (L # 1 => 2 \in 1 .. L)
    <3>1. L \in Nat /\ L >= 1
      BY <2>1
    <3> HIDE DEF L
    <3> QED BY <3>1
  <2>4. expect \in -1 .. Lots
    <3>1. expect \in 0 .. Lots /\ Lots \in Nat
      BY Streams DEF TypeOK
    <3> QED BY <3>1
  <2>5. /\ expect' \in 0 .. Lots /\ server' \in {"idle", "file", "head"}
        /\ missed' \subseteq {"exchange", "led"} /\ misread' \in BOOLEAN
    <3>1. CASE OnFile(got)
      <4>1. \/ Receiving(Lots, Rest(got, 1), TRUE)
            \/ server' = "head" /\ UNCHANGED <<expect, missed, misread>>
            \/ Len(got) # 1 /\ AfterHead(got[2], Rest(got, 2), TRUE)
        BY <3>1 DEF OnFile
      <4>2. Lots \in -1 .. Lots
        BY Streams
      <4>3. 1 \in 1 .. Len(got) /\ (Len(got) # 1 => 2 \in 1 .. Len(got))
        BY <2>3
      <4>4. CASE Receiving(Lots, Rest(got, 1), TRUE)
        <5>1. Rest(got, 1) \in Seq(Message)
          BY <2>2, <4>3
        <5>2. /\ expect' \in 0 .. Lots /\ server' \in {"idle", "file"}
              /\ missed' \subseteq {"exchange", "led"} /\ misread' \in BOOLEAN
          BY <4>2, <4>4, <5>1, ReceivingTyped
        <5> QED BY <5>2
      <4>5. CASE server' = "head" /\ UNCHANGED <<expect, missed, misread>>
        BY <4>5 DEF TypeOK
      <4>6. CASE Len(got) # 1 /\ AfterHead(got[2], Rest(got, 2), TRUE)
        <5>1. got[2] \in Message /\ Rest(got, 2) \in Seq(Message)
          BY <2>1, <2>2, <4>3, <4>6
        <5>2. /\ expect' \in 0 .. Lots /\ server' \in {"idle", "file"}
              /\ missed' \subseteq {"exchange", "led"} /\ misread' \in BOOLEAN
          BY <4>6, <5>1, AfterHeadTyped
        <5> QED BY <5>2
      <4> QED BY <4>1, <4>4, <4>5, <4>6
    <3>2. CASE ReadHead(got)
      <4>1. /\ got[1] \in Message /\ Rest(got, 1) \in Seq(Message)
            /\ AfterHead(got[1], Rest(got, 1), FALSE)
        BY <2>1, <2>2, <2>3, <3>2 DEF ReadHead
      <4>2. /\ expect' \in 0 .. Lots /\ server' \in {"idle", "file"}
            /\ missed' \subseteq {"exchange", "led"} /\ misread' \in BOOLEAN
        BY <4>1, AfterHeadTyped
      <4> QED BY <4>2
    <3>3. CASE ReadRows(got)
      <4>1. expect \in -1 .. Lots /\ Receiving(expect, got, FALSE)
        BY <2>4, <3>3 DEF ReadRows
      <4>2. /\ expect' \in 0 .. Lots /\ server' \in {"idle", "file"}
            /\ missed' \subseteq {"exchange", "led"} /\ misread' \in BOOLEAN
        BY <2>1, <4>1, ReceivingTyped
      <4> QED BY <4>2
    <3> QED BY <1>5, <3>1, <3>2, <3>3
  <2>6. UNCHANGED <<down, shut, boardVars, mutex, senderVars, known, rounds, blinking, others>>
    BY <1>5 DEF OnFile, ReadHead, ReadRows
  <2> QED BY <2>1, <2>5, <2>6 DEF TypeOK, boardVars, senderVars, others
<1>6. ASSUME NEW c \in Commands, Send(c) PROVE TypeOK'
  <2>1. down' \in Seq(Message)
    BY <1>6, SentTyped, MessageIs, KindIs DEF Send
  <2> QED BY <1>6, <2>1 DEF TypeOK, Send, Believed, boardVars, senderVars, past, others
<1>7. CASE Close
  BY <1>7 DEF TypeOK, Close, Shuts, boardVars, senderVars, past, others
<1> QED BY <1>1, <1>2, <1>3, <1>4, <1>5, <1>6, <1>7

-----------------------------------------------------------------------------
(* What a read of the server does to its own fields.                       *)

(* The content of a file ends it or is followed by more.                   *)
LEMMA AfterHeadIs ==
    ASSUME NEW head, NEW content, NEW first, AfterHead(head, content, first)
    PROVE  server' \in {"idle", "file"}
  BY DEF AfterHead, Receiving

(* A read leaves the streams' other end alone.                             *)
LEMMA ServerReadIs ==
    ASSUME TypeOK, Roles,
           NEW got, \/ OnRegister(got) \/ OnSync(got) \/ OnFile(got) \/ OnOther(got)
                    \/ Pong(got) \/ ReadHead(got) \/ ReadRows(got)
    PROVE  /\ ServerReads(server, got) /\ server \in {"idle", "pong", "head", "file"} /\ ~shut
           /\ server' \in {"idle", "accept", "ping", "head", "file"}
           /\ UNCHANGED <<down, shut, board, started, trials, led, mutex, sender, left, blinking>>
<1>1. server \in {"idle", "pong", "head", "file"} /\ ServerReads(server, got)
  BY DEF OnRegister, OnSync, OnFile, OnOther, Pong, ReadHead, ReadRows, ServerReads
<1>2. server' \in {"idle", "accept", "ping", "head", "file"}
  <2>1. CASE OnRegister(got) \/ OnSync(got) \/ OnOther(got) \/ Pong(got)
    BY <1>1, <2>1 DEF OnRegister, OnSync, OnOther, Pong, ServerReads, serverVars
  <2>2. CASE OnFile(got)
    <3>1. \/ Receiving(Lots, Rest(got, 1), TRUE)
          \/ server' = "head"
          \/ AfterHead(got[2], Rest(got, 2), TRUE)
      BY <2>2 DEF OnFile
    <3> QED BY <3>1, AfterHeadIs DEF Receiving
  <2>3. CASE ReadHead(got)
    <3>1. AfterHead(got[1], Rest(got, 1), FALSE)
      BY <2>3 DEF ReadHead
    <3> QED BY <3>1, AfterHeadIs
  <2>4. CASE ReadRows(got)
    BY <2>4 DEF ReadRows, Receiving
  <2> QED BY <2>1, <2>2, <2>3, <2>4
<1>3. UNCHANGED <<down, shut, board, started, trials, led, mutex, sender, left, blinking>>
  BY DEF OnRegister, OnSync, OnFile, OnOther, Pong, ReadHead, ReadRows, serverVars, boardVars,
     senderVars
<1> QED BY <1>1, <1>2, <1>3 DEF Roles

(* The three ways a file begins.                                           *)
LEMMA OnFileIs ==
    ASSUME TypeOK, NEW got, OnFile(got)
    PROVE  /\ server = "idle"
           /\ \/ got[1].kind # "FILE" /\ Receiving(Lots, Rest(got, 1), TRUE)
              \/ /\ Len(got) = 1 /\ got[1].kind = "FILE"
                 /\ server' = "head" /\ UNCHANGED <<expect, missed, misread>>
              \/ /\ Len(got) # 1 /\ got[1].kind = "FILE"
                 /\ AfterHead(got[2], Rest(got, 2), TRUE)
<1>1. server = "idle" /\ got \in Seq(Message) /\ "FILE" \in Kinds(got)
  BY ServerReadsIs DEF OnFile
<1>2. Len(got) = 1 => got[1].kind = "FILE"
  <2>1. PICK i \in 1 .. Len(got) : got[i].kind = "FILE"
    BY <1>1, KindsAre
  <2> QED BY <2>1
<1>3. CASE got[1].kind # "FILE"
  <2>1. Len(got) # 1
    BY <1>2, <1>3
  <2> QED BY <1>1, <1>3, <2>1 DEF OnFile
<1>4. CASE got[1].kind = "FILE"
  <2>1. CASE Len(got) = 1
    BY <1>1, <1>4, <2>1 DEF OnFile
  <2>2. CASE Len(got) # 1
    BY <1>1, <1>4, <2>2 DEF OnFile
  <2> QED BY <2>1, <2>2
<1> QED BY <1>3, <1>4

-----------------------------------------------------------------------------
(* The semaphore and the tasks.                                            *)

(* The board holds the semaphore from the command to the clock.            *)
LEMMA BoardRoles ==
    ASSUME TypeOK, Roles, \/ Register \/ Retries \/ AskSync \/ TakeToSync
                          \/ \E got : Registered(got) \/ Exchange(got) \/ Obey(got)
    PROVE  Roles'
<1>1. CASE Register \/ Retries \/ AskSync \/ TakeToSync
  <2>1. /\ shut => up' = up
        /\ \/ board = "register" /\ board' = "answer" /\ mutex' = mutex
           \/ board = "answer" /\ board' = "register" /\ mutex' = mutex
           \/ board = "ask" /\ board' = "exchange" /\ mutex' = mutex
           \/ board = "take" /\ board' = "ask" /\ mutex = "none" /\ mutex' = "main"
        /\ UNCHANGED <<shut, started, sender, server, rounds>>
    BY <1>1 DEF Register, Retries, RegisterFails, Closed, AskSync, TakeToSync, Sent, senderVars,
       serverVars
  <2> QED BY <2>1 DEF Roles
<1>2. ASSUME NEW got, Registered(got) PROVE Roles'
  BY <1>2 DEF Roles, Registered, BoardReads, senderVars, serverVars
<1>3. ASSUME NEW got, Exchange(got) PROVE Roles'
  <2>1. /\ board = "exchange" /\ (shut => up' = up)
        /\ \/ board' = "idle" /\ started' = TRUE /\ mutex' = IF started THEN "none" ELSE mutex
           \/ UNCHANGED <<board, started, mutex>>
        /\ UNCHANGED <<shut, senderVars, serverVars>>
    BY <1>3 DEF Exchange, BoardReads, Sent
  <2> QED BY <2>1 DEF Roles, TypeOK, senderVars, serverVars
<1>4. ASSUME NEW got, Obey(got) PROVE Roles'
  <2>1. board = "idle" /\ board' \in {"take", "idle"}
        /\ UNCHANGED <<up, shut, started, mutex, senderVars, serverVars>>
    BY <1>4 DEF Obey, BoardReads
  <2> QED BY <2>1 DEF Roles, senderVars, serverVars
<1> QED BY <1>1, <1>2, <1>3, <1>4

(* The sender holds it for a file.                                         *)
LEMMA SenderRoles ==
    ASSUME TypeOK, Roles, FileReady \/ TakeToSend \/ SendFile \/ SendHead \/ SendRow \/ EndUpload
    PROVE  Roles'
<1>1. CASE FileReady \/ TakeToSend \/ EndUpload
  BY <1>1 DEF Roles, FileReady, TakeToSend, EndUpload, boardVars, serverVars
<1>2. CASE SendFile \/ SendHead \/ SendRow
  <2>1. /\ sender \in {"file", "head", "rows"} /\ sender' \in {"file", "head", "rows"}
        /\ shut => up' = up
        /\ UNCHANGED <<shut, board, started, mutex, server, rounds>>
    BY <1>2 DEF SendFile, SendHead, SendRow, Writes, Sent, boardVars, serverVars
  <2> QED BY <2>1 DEF Roles
<1> QED BY <1>1, <1>2

(* The server closes the connection for good.                              *)
LEMMA ServerRoles ==
    ASSUME TypeOK, Roles,
           \/ Accept \/ Ping
           \/ \E got : \/ OnRegister(got) \/ OnSync(got) \/ OnFile(got) \/ OnOther(got)
                       \/ Pong(got) \/ ReadHead(got) \/ ReadRows(got)
           \/ \E c \in Commands : Send(c)
           \/ Close
    PROVE  Roles'
<1>1. CASE Accept \/ Ping
  <2>1. /\ server \in {"accept", "ping"} /\ server' \in {"ping", "pong", "idle"}
        /\ server' = "pong" => rounds < Pings /\ rounds' = rounds
        /\ UNCHANGED <<up, shut, board, started, mutex, sender>>
    BY <1>1 DEF Accept, Ping, boardVars, senderVars
  <2> QED BY <2>1 DEF Roles
<1>2. ASSUME NEW got,
             \/ OnRegister(got) \/ OnSync(got) \/ OnFile(got) \/ OnOther(got)
             \/ Pong(got) \/ ReadHead(got) \/ ReadRows(got)
      PROVE  Roles'
  <2>1. /\ ~shut /\ server \in {"idle", "pong", "head", "file"}
        /\ server' \in {"idle", "accept", "ping", "head", "file"}
        /\ UNCHANGED <<shut, board, started, mutex, sender>>
    BY <1>2, ServerReadIs
  <2> QED BY <2>1 DEF Roles
<1>3. ASSUME NEW c \in Commands, Send(c) PROVE Roles'
  BY <1>3 DEF Roles, Send, boardVars, senderVars
<1>4. CASE Close
  BY <1>4 DEF Roles, Close, Shuts, boardVars, senderVars
<1> QED BY <1>1, <1>2, <1>3, <1>4

-----------------------------------------------------------------------------
(* Files under way.                                                        *)

(* A header follows FILE, and nothing else does.                           *)
LEMMA FramesSent ==
    ASSUME TypeOK, Roles, Frames, NEW m \in Message, Sent(m), server' = server,
           sender = "head" <=> m.kind = "HEAD", sender' = "head" <=> m.kind = "FILE"
    PROVE  Frames'
<1>1. CASE shut
  <2>1. up' = <<>> /\ server' # "head"
    BY <1>1 DEF Sent, Roles
  <2>2. Len(up') = 0 /\ 1 .. 0 = {} /\ 2 .. 0 = {}
    BY <2>1
  <2> QED BY <2>1, <2>2 DEF Frames
<1>2. CASE ~shut
  <2> DEFINE n == Len(up)
  <2>1. /\ n \in Nat /\ Len(up') = n + 1 /\ up'[n + 1] = m
        /\ \A i \in 1 .. n : up'[i] = up[i]
    BY <1>2, Streams, AppendIs DEF Sent
  <2>2. up = <<>> <=> n = 0
    BY Streams
  <2>3. up' # <<>>
    <3>1. Len(up') # 0
      BY <2>1
    <3> QED BY <3>1
  <2>4. /\ \A i \in 1 .. n : up[i].kind = "FILE" =>
             IF i = n THEN sender = "head" ELSE up[i + 1].kind = "HEAD"
        /\ \A i \in 2 .. n : up[i].kind = "HEAD" => up[i - 1].kind = "FILE"
        /\ (sender = "head" /\ n # 0) => up[n].kind = "FILE"
        /\ server = "head" => IF n = 0 THEN sender = "head" ELSE up[1].kind = "HEAD"
    BY <2>2 DEF Frames
  <2> HIDE DEF n
  <2>5. ASSUME NEW i \in 1 .. n + 1, up'[i].kind = "FILE"
        PROVE  IF i = n + 1 THEN sender' = "head" ELSE up'[i + 1].kind = "HEAD"
    <3>1. CASE i = n + 1
      BY <2>1, <2>5, <3>1
    <3>2. CASE i \in 1 .. n /\ i # n + 1
      <4>1. i = n \/ (i # n /\ i + 1 \in 1 .. n)
        BY <2>1, <3>2
      <4> QED BY <2>1, <2>4, <2>5, <3>2, <4>1
    <3> QED BY <2>1, <3>1, <3>2
  <2>6. ASSUME NEW i \in 2 .. n + 1, up'[i].kind = "HEAD" PROVE up'[i - 1].kind = "FILE"
    <3>1. CASE i = n + 1
      <4>1. n # 0 /\ n \in 1 .. n /\ i - 1 = n
        BY <2>1, <3>1
      <4> QED BY <2>1, <2>4, <2>6, <3>1, <4>1
    <3>2. CASE i \in 2 .. n
      <4>1. i - 1 \in 1 .. n /\ i \in 1 .. n
        BY <2>1, <3>2
      <4> QED BY <2>1, <2>4, <2>6, <3>2, <4>1
    <3> QED BY <2>1, <3>1, <3>2
  <2>7. server = "head" => up'[1].kind = "HEAD"
    <3>1. n = 0 \/ 1 \in 1 .. n
      BY <2>1
    <3> QED BY <2>1, <2>4, <3>1
  <2> QED BY <2>1, <2>3, <2>5, <2>6, <2>7 DEF Frames
<1> QED BY <1>1, <1>2

(* A read of the server leaves the order of what it does not read.         *)
LEMMA FramesRead ==
    ASSUME TypeOK, Frames, NEW got, ServerReads(server, got), sender' = sender,
           server' = "head" => Len(got) = 1 /\ got[1].kind = "FILE"
    PROVE  Frames'
<1> DEFINE n == Len(up)
           k == Len(got)
           m == Len(up')
<1>1. /\ n \in Nat /\ k \in 1 .. n /\ m = n - k
      /\ \A i \in 1 .. k : got[i] = up[i]
      /\ \A i \in 1 .. m : up'[i] = up[k + i]
  BY ServerReadsIs, Streams
<1>2. up' \in Seq(Message) /\ (up' = <<>> <=> m = 0) /\ up # <<>>
  <2>1. up' \in Seq(Message)
    BY ServerReadsIs
  <2>2. n # 0
    BY <1>1
  <2> QED BY <2>1, <2>2
<1>3. /\ \A i \in 1 .. n : up[i].kind = "FILE" =>
           IF i = n THEN sender = "head" ELSE up[i + 1].kind = "HEAD"
      /\ \A i \in 2 .. n : up[i].kind = "HEAD" => up[i - 1].kind = "FILE"
      /\ sender = "head" => up[n].kind = "FILE"
  BY <1>2 DEF Frames
<1> HIDE DEF n, k, m
<1>4. ASSUME NEW i \in 1 .. m
      PROVE  /\ k + i \in 2 .. n /\ k + i \in 1 .. n /\ (i = m <=> k + i = n)
             /\ (i # m => i + 1 \in 1 .. m /\ k + (i + 1) = k + i + 1)
             /\ (i \in 2 .. m => i - 1 \in 1 .. m /\ k + (i - 1) = k + i - 1)
  BY <1>1
<1>5. ASSUME NEW i \in 1 .. m, up'[i].kind = "FILE"
      PROVE  IF i = m THEN sender' = "head" ELSE up'[i + 1].kind = "HEAD"
  BY <1>1, <1>3, <1>4, <1>5
<1>6. ASSUME NEW i \in 2 .. m, up'[i].kind = "HEAD" PROVE up'[i - 1].kind = "FILE"
  <2>1. i \in 1 .. m
    BY <1>1
  <2> QED BY <1>1, <1>3, <1>4, <1>6, <2>1
<1>7. (sender' = "head" /\ up' # <<>>) => up'[m].kind = "FILE"
  <2>1. m # 0 => m \in 1 .. m
    BY <1>1
  <2> QED BY <1>1, <1>2, <1>3, <1>4, <2>1
<1>8. server' = "head" => IF up' = <<>> THEN sender' = "head" ELSE up'[1].kind = "HEAD"
  <2> SUFFICES ASSUME server' = "head"
               PROVE  IF up' = <<>> THEN sender' = "head" ELSE up'[1].kind = "HEAD"
    OBVIOUS
  <2>1. k = 1 /\ up[1].kind = "FILE" /\ 1 \in 1 .. n
    BY <1>1 DEF k
  <2>2. CASE m = 0
    BY <1>1, <1>2, <1>3, <2>1, <2>2
  <2>3. CASE m # 0
    <3>1. 1 \in 1 .. m /\ 1 # n
      BY <1>1, <2>1, <2>3
    <3> QED BY <1>1, <1>2, <1>3, <2>1, <2>3, <3>1
  <2> QED BY <2>2, <2>3
<1> QED BY <1>5, <1>6, <1>7, <1>8 DEF Frames, m

(* A message of the board is no part of a file, and comes between files.   *)
LEMMA BoardFrames ==
    ASSUME TypeOK, Roles, Frames,
           \/ Register \/ Retries \/ AskSync \/ TakeToSync
           \/ \E got : Registered(got) \/ Exchange(got) \/ Obey(got)
    PROVE  Frames'
<1>1. CASE UNCHANGED <<up, sender, server>>
  BY <1>1 DEF Frames
<1>2. ASSUME NEW k \in {"REGISTER", "PONG", "SYNC"}, Sent(M(k)), UNCHANGED <<sender, server>>,
             sender # "head"
      PROVE  Frames'
  <2>1. M(k) \in Message /\ M(k).kind = k
    BY MessageIs, KindIs
  <2>2. /\ sender = "head" <=> M(k).kind = "HEAD"
        /\ sender' = "head" <=> M(k).kind = "FILE"
    BY <1>2, <2>1
  <2> QED BY <1>2, <2>1, <2>2, FramesSent
<1>3. CASE Register
  BY <1>2, <1>3 DEF Register, Roles, senderVars, serverVars
<1>4. CASE AskSync
  BY <1>2, <1>4 DEF AskSync, Roles, senderVars, serverVars
<1>5. ASSUME NEW got, Exchange(got) PROVE Frames'
  <2>1. board = "exchange" /\ (UNCHANGED up \/ Sent(M("PONG"))) /\ UNCHANGED <<sender, server>>
    BY <1>5 DEF Exchange, BoardReads, senderVars, serverVars
  <2>2. sender # "head"
    BY <2>1 DEF Roles
  <2> QED BY <1>1, <1>2, <2>1, <2>2
<1>6. CASE Retries \/ TakeToSync
  BY <1>1, <1>6 DEF Retries, TakeToSync, senderVars, serverVars
<1>7. ASSUME NEW got, Registered(got) \/ Obey(got) PROVE Frames'
  BY <1>1, <1>7 DEF Registered, Obey, senderVars, serverVars
<1> QED BY <1>3, <1>4, <1>5, <1>6, <1>7

(* The sender sends FILE, its header, and rows.                            *)
LEMMA SenderFrames ==
    ASSUME TypeOK, Roles, Frames,
           FileReady \/ TakeToSend \/ SendFile \/ SendHead \/ SendRow \/ EndUpload
    PROVE  Frames'
<1>1. CASE FileReady \/ TakeToSend \/ EndUpload
  <2>1. up' = up /\ server' = server /\ sender # "head" /\ sender' # "head"
    BY <1>1 DEF FileReady, TakeToSend, EndUpload, serverVars
  <2> QED BY <2>1 DEF Frames
<1>2. CASE SendFile
  <2>1. M("FILE") \in Message /\ M("FILE").kind = "FILE"
    BY MessageIs, KindIs
  <2> QED BY <1>2, <2>1, FramesSent DEF SendFile, Writes, serverVars
<1>3. CASE SendHead
  <2>1. PICK high \in BOOLEAN :
           Writes("head", "rows", [kind |-> "HEAD", size |-> left, high |-> high])
    BY <1>3 DEF SendHead
  <2> DEFINE h == [kind |-> "HEAD", size |-> left, high |-> high]
  <2>2. h \in Message /\ h.kind = "HEAD"
    BY MessageIs DEF TypeOK
  <2>3. sender = "head" /\ sender' = "rows" /\ Sent(h) /\ server' = server
    BY <2>1 DEF Writes, serverVars
  <2> HIDE DEF h
  <2> QED BY <2>2, <2>3, FramesSent
<1>4. CASE SendRow
  <2>1. M("ROW") \in Message /\ M("ROW").kind = "ROW"
    BY MessageIs, KindIs
  <2> QED BY <1>4, <2>1, FramesSent DEF SendRow, Writes, serverVars
<1> QED BY <1>1, <1>2, <1>3, <1>4

(* The server awaits a header only when FILE came alone.                   *)
LEMMA ServerFrames ==
    ASSUME TypeOK, Roles, Frames,
           \/ Accept \/ Ping
           \/ \E got : \/ OnRegister(got) \/ OnSync(got) \/ OnFile(got) \/ OnOther(got)
                       \/ Pong(got) \/ ReadHead(got) \/ ReadRows(got)
           \/ \E c \in Commands : Send(c)
           \/ Close
    PROVE  Frames'
<1>1. CASE Accept \/ Ping
  <2>1. up' = up /\ sender' = sender /\ server' # "head"
    BY <1>1 DEF Accept, Ping, senderVars
  <2> QED BY <2>1 DEF Frames
<1>2. ASSUME NEW got,
             \/ OnRegister(got) \/ OnSync(got) \/ OnFile(got) \/ OnOther(got)
             \/ Pong(got) \/ ReadHead(got) \/ ReadRows(got)
      PROVE  Frames'
  <2>1. ServerReads(server, got) /\ sender' = sender
    BY <1>2, ServerReadIs
  <2>2. server' = "head" => Len(got) = 1 /\ got[1].kind = "FILE"
    <3>1. CASE OnRegister(got) \/ OnSync(got) \/ OnOther(got) \/ Pong(got)
      BY <3>1 DEF OnRegister, OnSync, OnOther, Pong, ServerReads, serverVars
    <3>2. CASE OnFile(got)
      <4>1. \/ Receiving(Lots, Rest(got, 1), TRUE)
            \/ Len(got) = 1 /\ got[1].kind = "FILE"
            \/ AfterHead(got[2], Rest(got, 2), TRUE)
        BY <3>2, OnFileIs
      <4> QED BY <4>1, AfterHeadIs DEF Receiving
    <3>3. CASE ReadHead(got)
      <4>1. AfterHead(got[1], Rest(got, 1), FALSE)
        BY <3>3 DEF ReadHead
      <4> QED BY <4>1, AfterHeadIs
    <3>4. CASE ReadRows(got)
      BY <3>4 DEF ReadRows, Receiving
    <3> QED BY <1>2, <3>1, <3>2, <3>3, <3>4
  <2> QED BY <2>1, <2>2, FramesRead
<1>3. ASSUME NEW c \in Commands, Send(c) PROVE Frames'
  BY <1>3 DEF Frames, Send, senderVars
<1>4. CASE Close
  <2>1. up' = <<>> /\ server' = "gone" /\ Len(<<>>) = 0
    BY <1>4 DEF Close, Shuts
  <2>2. Len(up') = 0 /\ 1 .. 0 = {} /\ 2 .. 0 = {}
    BY <2>1
  <2> QED BY <2>1, <2>2 DEF Frames
<1> QED BY <1>1, <1>2, <1>3, <1>4

-----------------------------------------------------------------------------
(* Whose turn it is.                                                       *)

(* What is asked for, once something is sent to the board.                 *)
LEMMA AskedSent ==
    ASSUME TypeOK, ~shut, NEW m \in Message, Answer(m)
    PROVE  /\ None(down, Asked) /\ m.kind \notin Asked => None(down', Asked)
           /\ None(down, Asked) /\ m.kind \in Asked => Once(down', m.kind, Asked)
           /\ \A k \in Asked : Once(down, k, Asked) /\ m.kind \notin Asked => Once(down', k, Asked)
<1>1. /\ Len(down) \in Nat /\ Len(down') = Len(down) + 1 /\ down'[Len(down) + 1] = m
      /\ \A i \in 1 .. Len(down) : down'[i] = down[i]
  BY Streams, AppendIs DEF Answer
<1> DEFINE n == Len(down)
<1>2. 1 .. Len(down') = (1 .. n) \cup {n + 1} /\ n + 1 \notin 1 .. n
  BY <1>1
<1> HIDE DEF n
<1>3. None(down, Asked) /\ m.kind \notin Asked => None(down', Asked)
  BY <1>1, <1>2 DEF None, n
<1>4. None(down, Asked) /\ m.kind \in Asked => Once(down', m.kind, Asked)
  BY <1>1, <1>2 DEF None, Once, n
<1>5. ASSUME NEW k \in Asked, Once(down, k, Asked), m.kind \notin Asked PROVE Once(down', k, Asked)
  <2>1. PICK i \in 1 .. Len(down) : /\ down[i].kind = k
                                    /\ \A j \in 1 .. Len(down) : j # i => down[j].kind \notin Asked
    BY <1>5 DEF Once
  <2> QED BY <1>1, <1>2, <1>5, <2>1 DEF Once, n
<1> QED BY <1>3, <1>4, <1>5

(* And once something is read by the board.                                *)
LEMMA AskedRead ==
    ASSUME TypeOK, NEW pc, NEW got, BoardReads(pc, got)
    PROVE  /\ None(down, Asked) => None(down', Asked) /\ Kinds(got) \cap Asked = {}
           /\ \A k \in Asked : Once(down, k, Asked) =>
                 \/ Kinds(got) \cap Asked = {k} /\ None(down', Asked)
                 \/ Kinds(got) \cap Asked = {} /\ Once(down', k, Asked)
<1> DEFINE n == Len(down)
           g == Len(got)
           r == Len(down')
<1>1. /\ n \in Nat /\ g \in 1 .. n /\ r = n - g
      /\ \A i \in 1 .. g : got[i] = down[i]
      /\ \A i \in 1 .. r : down'[i] = down[g + i]
      /\ Kinds(got) = {got[i].kind : i \in 1 .. g}
  BY BoardReadsIs, Streams, KindsAre
<1> HIDE DEF n, g, r
<1>2. /\ \A i \in 1 .. g : i \in 1 .. n
      /\ \A i \in 1 .. r : g + i \in 1 .. n /\ g + i \notin 1 .. g
      /\ \A i \in 1 .. n : i \in 1 .. g \/ (i - g \in 1 .. r /\ g + (i - g) = i)
      /\ \A i, j \in 1 .. r : g + i = g + j => i = j
  BY <1>1
<1>3. ASSUME None(down, Asked) PROVE None(down', Asked) /\ Kinds(got) \cap Asked = {}
  BY <1>1, <1>2, <1>3 DEF None, n, r
<1>4. ASSUME NEW k \in Asked, Once(down, k, Asked)
      PROVE  \/ Kinds(got) \cap Asked = {k} /\ None(down', Asked)
             \/ Kinds(got) \cap Asked = {} /\ Once(down', k, Asked)
  <2>1. PICK i \in 1 .. n : /\ down[i].kind = k
                            /\ \A j \in 1 .. n : j # i => down[j].kind \notin Asked
    BY <1>4 DEF Once, n
  <2>2. CASE i \in 1 .. g
    <3>1. Kinds(got) \cap Asked = {k}
      BY <1>1, <1>2, <1>4, <2>1, <2>2
    <3>2. None(down', Asked)
      BY <1>1, <1>2, <2>1, <2>2 DEF None, r
    <3> QED BY <3>1, <3>2
  <2>3. CASE i \notin 1 .. g
    <3>1. Kinds(got) \cap Asked = {}
      BY <1>1, <1>2, <2>1, <2>3
    <3>2. /\ i - g \in 1 .. r /\ down'[i - g].kind = k
          /\ \A j \in 1 .. r : j # i - g => down'[j].kind \notin Asked
      BY <1>1, <1>2, <2>1, <2>3
    <3>3. Once(down', k, Asked)
      BY <3>2 DEF Once, r
    <3> QED BY <3>1, <3>3
  <2> QED BY <2>2, <2>3
<1> QED BY <1>3, <1>4

(* The board asks, answers, and ends an exchange with the clock.           *)
LEMMA BoardTurns ==
    ASSUME TypeOK, Roles, Turns, ~shut,
           \/ Register \/ AskSync \/ TakeToSync
           \/ \E got : Registered(got) \/ Exchange(got) \/ Obey(got)
    PROVE  Turns'
<1>1. /\ board = "register" => server = "idle" /\ up = <<>> /\ down = <<>> /\ ~known
      /\ board = "answer" => \/ Registers \/ Accepts
                             \/ (rounds = 0 /\ (Pinging \/ Pinged))
      /\ board = "exchange" => \/ Accepts \/ Pinging \/ Pinged \/ Ponged \/ Clocked
                               \/ Syncs \/ Lost
      /\ board \in {"idle", "take", "ask"} => NobodyAsks
  BY DEF Turns
<1>2. CASE Register
  <2>1. /\ board = "register" /\ board' = "answer" /\ up' = Append(up, M("REGISTER"))
        /\ UNCHANGED <<server, down, known>>
    BY <1>2 DEF Register, Sent, serverVars
  <2>2. up' = <<M("REGISTER")>>
    BY <1>1, <2>1
  <2>3. Registers'
    BY <1>1, <2>1, <2>2 DEF Registers
  <2> QED BY <2>1, <2>3 DEF Turns
<1>3. CASE TakeToSync
  <2>1. board = "take" /\ board' = "ask" /\ UNCHANGED <<server, up, down>>
    BY <1>3 DEF TakeToSync, serverVars
  <2>2. NobodyAsks'
    BY <1>1, <2>1 DEF NobodyAsks, None
  <2> QED BY <2>1, <2>2 DEF Turns
<1>4. CASE AskSync
  <2>1. /\ board = "ask" /\ board' = "exchange" /\ up' = Append(up, M("SYNC"))
        /\ UNCHANGED <<server, down, started>>
    BY <1>4 DEF AskSync, Sent, serverVars
  <2>2. NobodyAsks /\ started
    BY <1>1, <2>1 DEF Roles
  <2>3. up \in Seq(Message) /\ Len(up) \in Nat /\ M("SYNC") \in Message /\ M("SYNC").kind = "SYNC"
    BY Streams, MessageIs, KindIs
  <2>4. /\ Len(up') = Len(up) + 1 /\ \A i \in 1 .. Len(up) : up'[i] = up[i]
        /\ up'[Len(up) + 1] = M("SYNC")
    BY <2>1, <2>3, AppendIs
  <2>5. up' # <<>> /\ Len(up') - 1 = Len(up)
    <3>1. Len(up') # 0 /\ Len(up') - 1 = Len(up)
      BY <2>3, <2>4
    <3> QED BY <3>1
  <2>6. Syncs'
    BY <2>1, <2>2, <2>3, <2>4, <2>5 DEF Syncs, NobodyAsks, None
  <2> QED BY <2>1, <2>6 DEF Turns
<1>5. ASSUME NEW got, Registered(got) PROVE Turns'
  <2>1. /\ board = "answer" /\ board' = "exchange" /\ BoardReads("answer", got)
        /\ missed' = missed \cup Concerns(Kinds(got) \ {"SYNC"})
        /\ UNCHANGED <<up, shut, server, rounds, started>>
    BY <1>5 DEF Registered, BoardReads, Forgets, serverVars
  <2>2. down # <<>>
    <3>1. Len(down) # 0
      BY <2>1, BoardReadsIs, Streams
    <3> QED BY <3>1
  <2>3. CASE Accepts \/ Pinging
    <3>1. None(down', Asked)
      BY <2>1, <2>3, AskedRead DEF Accepts, Pinging
    <3>2. Accepts' \/ Pinging'
      BY <2>1, <2>3, <3>1 DEF Accepts, Pinging
    <3> QED BY <2>1, <3>2 DEF Turns
  <2>4. CASE Pinged
    <3>1. \/ Kinds(got) \cap Asked = {"PING"} /\ None(down', Asked)
          \/ Once(down', "PING", Asked)
      BY <2>1, <2>4, AskedRead DEF Pinged, Asked
    <3>2. Kinds(got) \cap Asked = {"PING"} => "exchange" \in missed'
      BY <2>1, ConcernsIs DEF Asked, Vital
    <3>3. Lost' \/ Pinged'
      BY <2>1, <2>4, <3>1, <3>2 DEF Lost, Pinged
    <3> QED BY <2>1, <3>3 DEF Turns
  <2> QED BY <1>1, <2>1, <2>2, <2>3, <2>4 DEF Registers
<1>6. ASSUME NEW got, Exchange(got) PROVE Turns'
  <2>1. /\ board = "exchange" /\ BoardReads("exchange", got)
        /\ IF "PING" \in Kinds(got) THEN up' = Append(up, M("PONG")) ELSE up' = up
        /\ missed' = missed \cup Concerns(Kinds(got) \
                            ({"PING", "SYNC"} \cup (IF Timed(got) THEN {"CLOCK"} ELSE {})))
        /\ IF Timed(got) THEN board' = "idle" ELSE board' = "exchange" /\ started' = started
        /\ UNCHANGED <<shut, server, rounds>>
    <3>1. /\ BoardReads("exchange", got)
          /\ IF "PING" \in Kinds(got) THEN Sent(M("PONG")) ELSE UNCHANGED up
          /\ Forgets(Kinds(got) \
                         ({"PING", "SYNC"} \cup (IF Timed(got) THEN {"CLOCK"} ELSE {})))
          /\ IF Timed(got) THEN board' = "idle" ELSE board' = board /\ started' = started
          /\ UNCHANGED <<shut, server, rounds>>
      BY <1>6 DEF Exchange, serverVars
    <3> QED BY <3>1 DEF BoardReads, Forgets, Sent
  <2>2. Timed(got) => "CLOCK" \in Kinds(got)
    <3>1. 1 \in 1 .. Len(got) /\ Kinds(got) = {got[i].kind : i \in 1 .. Len(got)}
      <4>1. BoardReads("exchange", got)
        BY <2>1
      <4>2. got \in Seq(Message) /\ Len(got) \in 1 .. Len(down)
        BY <4>1, BoardReadsIs
      <4> QED BY <4>2, KindsAre, Streams
    <3>2. got[1].kind \in Kinds(got)
      BY <3>1
    <3> QED BY <3>2 DEF Timed
  <2>3. CASE None(down, Asked)
    <3>1. None(down', Asked) /\ "PING" \notin Kinds(got) /\ "CLOCK" \notin Kinds(got)
      BY <2>1, <2>3, AskedRead DEF Asked
    <3>2. up' = up /\ board' = "exchange" /\ started' = started
      BY <2>1, <2>2, <3>1
    <3>3. missed \subseteq missed'
      BY <2>1
    <3>4. CASE Accepts \/ Pinging \/ Ponged \/ Syncs \/ Lost
      <4>1. Accepts' \/ Pinging' \/ Ponged' \/ Syncs' \/ Lost'
        BY <2>1, <3>1, <3>2, <3>3, <3>4 DEF Accepts, Pinging, Ponged, Syncs, Lost
      <4> QED BY <3>2, <4>1 DEF Turns
    <3>5. ~(Pinged \/ Clocked)
      BY <2>3 DEF Pinged, Clocked, None, Once, Asked
    <3> QED BY <1>1, <2>1, <3>4, <3>5
  <2>4. CASE Pinged
    <3>1. \/ Kinds(got) \cap Asked = {"PING"} /\ None(down', Asked)
          \/ Kinds(got) \cap Asked = {} /\ Once(down', "PING", Asked)
      BY <2>1, <2>4, AskedRead DEF Pinged, Asked
    <3>2. "CLOCK" \notin Kinds(got)
      BY <3>1 DEF Asked
    <3>3. board' = "exchange"
      BY <2>1, <2>2, <3>2
    <3>4. CASE Kinds(got) \cap Asked = {"PING"} /\ None(down', Asked)
      <4>1. "PING" \in Kinds(got)
        BY <3>4
      <4>2. up' = <<M("PONG")>>
        BY <2>1, <2>4, <4>1 DEF Pinged
      <4>3. Ponged'
        BY <2>1, <2>4, <3>4, <4>2 DEF Pinged, Ponged
      <4> QED BY <3>3, <4>3 DEF Turns
    <3>5. CASE Kinds(got) \cap Asked = {} /\ Once(down', "PING", Asked)
      <4>1. "PING" \notin Kinds(got)
        BY <3>5 DEF Asked
      <4>2. Pinged'
        BY <2>1, <2>4, <3>5, <4>1 DEF Pinged
      <4> QED BY <3>3, <4>2 DEF Turns
    <3> QED BY <3>1, <3>4, <3>5
  <2>5. CASE Clocked
    <3>1. \/ Kinds(got) \cap Asked = {"CLOCK"} /\ None(down', Asked)
          \/ Kinds(got) \cap Asked = {} /\ Once(down', "CLOCK", Asked)
      BY <2>1, <2>5, AskedRead DEF Clocked, Asked
    <3>2. "PING" \notin Kinds(got)
      BY <3>1 DEF Asked
    <3>3. up' = <<>> /\ server' = "idle" /\ shut' = shut
      BY <2>1, <2>5, <3>2 DEF Clocked
    <3>4. CASE Kinds(got) \cap Asked = {"CLOCK"} /\ None(down', Asked) /\ Timed(got)
      <4>1. Len(up') = 0 /\ 1 .. 0 = {}
        BY <3>3
      <4>2. NobodyAsks'
        BY <3>3, <3>4, <4>1 DEF NobodyAsks, None
      <4> QED BY <2>1, <3>4, <4>2 DEF Turns
    <3>5. CASE Kinds(got) \cap Asked = {"CLOCK"} /\ None(down', Asked) /\ ~Timed(got)
      <4>1. "exchange" \in missed'
        BY <2>1, <3>5, ConcernsIs DEF Asked, Vital
      <4>2. Lost'
        BY <3>3, <3>5, <4>1 DEF Lost
      <4> QED BY <2>1, <3>5, <4>2 DEF Turns
    <3>6. CASE Kinds(got) \cap Asked = {} /\ Once(down', "CLOCK", Asked)
      <4>1. ~Timed(got)
        BY <2>2, <3>6 DEF Asked
      <4>2. Clocked'
        BY <3>3, <3>6 DEF Clocked
      <4> QED BY <2>1, <4>1, <4>2 DEF Turns
    <3> QED BY <3>1, <3>4, <3>5, <3>6
  <2>6. Accepts \/ Pinging \/ Ponged \/ Syncs \/ Lost => None(down, Asked)
    BY DEF Accepts, Pinging, Ponged, Syncs, Lost
  <2> QED BY <1>1, <2>1, <2>3, <2>4, <2>5, <2>6
<1>7. ASSUME NEW got, Obey(got) PROVE Turns'
  <2>1. /\ board = "idle" /\ board' \in {"idle", "take"} /\ BoardReads("idle", got)
        /\ UNCHANGED <<up, server>>
    BY <1>7 DEF Obey, BoardReads, serverVars
  <2>2. NobodyAsks'
    <3>1. None(down', Asked)
      BY <1>1, <2>1, AskedRead DEF NobodyAsks
    <3> QED BY <1>1, <2>1, <3>1 DEF NobodyAsks
  <2> QED BY <2>1, <2>2 DEF Turns
<1> QED BY <1>2, <1>3, <1>4, <1>5, <1>6, <1>7

(* A file is sent when nobody asks.                                        *)
LEMMA SenderTurns ==
    ASSUME TypeOK, Roles, Turns, ~shut,
           FileReady \/ TakeToSend \/ SendFile \/ SendHead \/ SendRow \/ EndUpload
    PROVE  Turns'
<1>1. CASE FileReady \/ TakeToSend \/ EndUpload
  <2>1. UNCHANGED <<shut, board, server, up, down, known, rounds, started, missed>>
    BY <1>1 DEF FileReady, TakeToSend, EndUpload, boardVars, serverVars, past, others
  <2> QED BY <2>1 DEF Turns, Registers, Accepts, Pinging, Pinged, Ponged, Clocked, Syncs, Lost,
                      NobodyAsks, None, Once
<1>2. CASE SendFile \/ SendHead \/ SendRow
  <2>1. PICK m \in Message : m.kind \in {"FILE", "HEAD", "ROW"} /\ up' = Append(up, m)
    <3>1. CASE SendFile \/ SendRow
      <4>1. PICK k \in {"FILE", "ROW"} : up' = Append(up, M(k))
        BY <3>1 DEF SendFile, SendRow, Writes, Sent
      <4> QED BY <4>1, MessageIs, KindIs
    <3>2. CASE SendHead
      <4>1. PICK high \in BOOLEAN : up' = Append(up, [kind |-> "HEAD", size |-> left, high |-> high])
        BY <3>2 DEF SendHead, Writes, Sent
      <4>2. [kind |-> "HEAD", size |-> left, high |-> high] \in Message
        BY MessageIs DEF TypeOK
      <4> QED BY <4>1, <4>2
    <3> QED BY <1>2, <3>1, <3>2
  <2>2. /\ sender \in {"file", "head", "rows"}
        /\ UNCHANGED <<shut, board, server, down, started>>
    BY <1>2 DEF SendFile, SendHead, SendRow, Writes, boardVars, serverVars
  <2>3. board \in {"idle", "take"}
    BY <2>2 DEF Roles, TypeOK
  <2>4. NobodyAsks
    BY <2>3 DEF Turns
  <2>5. up \in Seq(Message) /\ Len(up) \in Nat
    BY Streams
  <2>6. /\ Len(up') = Len(up) + 1 /\ up'[Len(up) + 1] = m
        /\ \A i \in 1 .. Len(up) : up'[i] = up[i]
    BY <2>1, <2>5, AppendIs
  <2>7. None(up', Asking)
    <3>1. \A i \in 1 .. Len(up) + 1 : i \in 1 .. Len(up) \/ i = Len(up) + 1
      BY <2>5
    <3> QED BY <2>1, <2>4, <2>6, <3>1 DEF NobodyAsks, None, Asking
  <2>8. NobodyAsks'
    BY <2>2, <2>4, <2>7 DEF NobodyAsks, None
  <2> QED BY <2>2, <2>3, <2>8 DEF Turns
<1> QED BY <1>1, <1>2

(* The content of a file is what is forgotten.                             *)
LEMMA AfterHeadForgets ==
    ASSUME NEW head, NEW content, NEW first, AfterHead(head, content, first)
    PROVE  content # <<>> => missed' = missed \cup Concerns(Kinds(content))
  BY DEF AfterHead, Receiving, Forgets

(* A SYNC that is read with the end of a file is forgotten.                *)
LEMMA SyncForgotten ==
    ASSUME TypeOK, Frames, NEW got, OnFile(got) \/ ReadHead(got) \/ ReadRows(got),
           got[Len(got)].kind = "SYNC"
    PROVE  "exchange" \in missed' /\ server' \in {"idle", "file"}
<1>1. ServerReads(server, got)
  BY DEF OnFile, ReadHead, ReadRows, ServerReads
<1> DEFINE n == Len(got)
<1>2. /\ got \in Seq(Message) /\ n \in Nat /\ n >= 1 /\ n <= Len(up) /\ Len(up) \in Nat
      /\ \A i \in 1 .. n : got[i] = up[i]
  <2>1. got \in Seq(Message) /\ n \in 1 .. Len(up) /\ \A i \in 1 .. n : got[i] = up[i]
    BY <1>1, ServerReadsIs
  <2> QED BY <2>1, Streams
<1>3. got[n].kind = "SYNC"
  OBVIOUS
<1>4. ASSUME NEW k \in 1 .. n - 1
      PROVE  Rest(got, k) # <<>> /\ "SYNC" \in Kinds(Rest(got, k))
  <2>1. k \in 1 .. n
    BY <1>2
  <2>2. /\ Rest(got, k) \in Seq(Message) /\ Len(Rest(got, k)) = n - k
        /\ \A i \in 1 .. n - k : Rest(got, k)[i] = got[k + i]
    BY <1>2, <2>1, SplitIs
  <2>3. n - k \in 1 .. n - k /\ k + (n - k) = n /\ n - k # 0
    BY <1>2
  <2> HIDE DEF n
  <2>4. Rest(got, k)[n - k].kind = "SYNC"
    BY <1>3, <2>2, <2>3
  <2>5. "SYNC" \in Kinds(Rest(got, k))
    BY <2>2, <2>3, <2>4, KindsAre
  <2>6. Rest(got, k) # <<>>
    BY <2>2, <2>3
  <2> QED BY <2>5, <2>6
<1> HIDE DEF n
<1>5. CASE ReadRows(got)
  <2>1. "SYNC" \in Kinds(got)
    <3>1. n \in 1 .. n /\ Kinds(got) = {got[i].kind : i \in 1 .. n}
      BY <1>2, KindsAre DEF n
    <3> QED BY <1>3, <3>1
  <2>2. missed' = missed \cup Concerns(Kinds(got)) /\ server' \in {"idle", "file"}
    BY <1>5 DEF ReadRows, Receiving, Forgets
  <2> QED BY <2>1, <2>2, ConcernsIs DEF Vital
<1>6. CASE ReadHead(got)
  <2>1. AfterHead(got[1], Rest(got, 1), FALSE) /\ server = "head"
    BY <1>6 DEF ReadHead, ServerReads
  <2>2. up[1].kind = "HEAD"
    <3>1. up # <<>>
      BY <1>2
    <3> QED BY <2>1, <3>1 DEF Frames
  <2>3. n # 1 /\ 1 \in 1 .. n - 1
    <3>1. 1 \in 1 .. n
      BY <1>2
    <3>2. n # 1
      BY <1>2, <1>3, <2>2, <3>1
    <3> QED BY <1>2, <3>2
  <2>4. /\ missed' = missed \cup Concerns(Kinds(Rest(got, 1)))
    BY <1>4, <2>1, <2>3, AfterHeadForgets
  <2>5. server' \in {"idle", "file"}
    BY <2>1, AfterHeadIs
  <2> QED BY <1>4, <2>3, <2>4, <2>5, ConcernsIs DEF Vital
<1>7. CASE OnFile(got)
  <2>1. "FILE" \in Kinds(got) /\ Kinds(got) = {got[i].kind : i \in 1 .. n}
    BY <1>2, <1>7, KindsAre DEF OnFile, n
  <2>2. n # 1 /\ 1 \in 1 .. n - 1
    <3>1. PICK i \in 1 .. n : got[i].kind = "FILE"
      BY <2>1
    <3>2. i # n
      BY <1>3, <3>1
    <3> QED BY <1>2, <3>2
  <2>3. CASE got[1].kind # "FILE" /\ Receiving(Lots, Rest(got, 1), TRUE)
    <3>1. missed' = missed \cup Concerns(Kinds(Rest(got, 1))) /\ server' \in {"idle", "file"}
      BY <2>3 DEF Receiving, Forgets
    <3> QED BY <1>4, <2>2, <3>1, ConcernsIs DEF Vital
  <2>4. CASE got[1].kind = "FILE" /\ AfterHead(got[2], Rest(got, 2), TRUE)
    <3>1. up[1].kind = "FILE" /\ 1 \in 1 .. Len(up) /\ 1 # Len(up)
      BY <1>2, <2>2, <2>4
    <3>2. up[2].kind = "HEAD"
      <4>1. \A i \in 1 .. Len(up) :
               up[i].kind = "FILE" /\ i # Len(up) => up[i + 1].kind = "HEAD"
        BY DEF Frames
      <4>2. up[1 + 1].kind = "HEAD"
        BY <3>1, <4>1
      <4> QED BY <4>2
    <3>3. 2 \in 1 .. n
      BY <1>2, <2>2
    <3>4. n # 2
      BY <1>2, <1>3, <3>2, <3>3
    <3>5. 2 \in 1 .. n - 1
      BY <1>2, <2>2, <3>4
    <3>6. missed' = missed \cup Concerns(Kinds(Rest(got, 2)))
      BY <1>4, <2>4, <3>5, AfterHeadForgets
    <3>7. server' \in {"idle", "file"}
      BY <2>4, AfterHeadIs
    <3> QED BY <1>4, <3>5, <3>6, <3>7, ConcernsIs DEF Vital
  <2> QED BY <1>7, <2>2, <2>3, <2>4, OnFileIs DEF n
<1> QED BY <1>5, <1>6, <1>7

(* A step of the server takes what it waits for, and asks again, or stops. *)
LEMMA ServerTurns ==
    ASSUME TypeOK, Roles, Turns, Frames, ~shut,
           \/ Accept \/ Ping
           \/ \E got : \/ OnRegister(got) \/ OnSync(got) \/ OnFile(got) \/ OnOther(got)
                       \/ Pong(got) \/ ReadHead(got) \/ ReadRows(got)
           \/ \E c \in Commands : Send(c)
           \/ Close
    PROVE  Turns'
<1>1. /\ board = "register" => server = "idle" /\ up = <<>> /\ down = <<>> /\ ~known
      /\ board = "answer" => \/ Registers \/ Accepts
                             \/ (rounds = 0 /\ (Pinging \/ Pinged))
      /\ board = "exchange" => \/ Accepts \/ Pinging \/ Pinged \/ Ponged \/ Clocked
                               \/ Syncs \/ Lost
      /\ board \in {"idle", "take", "ask"} => NobodyAsks
      /\ board \in {"register", "answer", "exchange", "idle", "take", "ask"}
  BY DEF Turns, TypeOK
<1>2. CASE Accept
  <2>1. /\ server = "accept" /\ server' = "ping" /\ rounds' = 0 /\ Answer(M("ACCEPT"))
        /\ UNCHANGED <<up, shut, board>>
    BY <1>2 DEF Accept, boardVars
  <2>2. Accepts /\ board \in {"answer", "exchange"}
    BY <1>1, <2>1 DEF Registers, Pinging, Pinged, Ponged, Clocked, Syncs, Lost, NobodyAsks
  <2>3. None(down', Asked)
    <3>1. M("ACCEPT") \in Message /\ M("ACCEPT").kind \notin Asked
      BY MessageIs, KindIs DEF Asked
    <3> QED BY <2>1, <2>2, <3>1, AskedSent DEF Accepts
  <2>4. Pinging'
    BY <2>1, <2>2, <2>3 DEF Accepts, Pinging
  <2> QED BY <2>1, <2>2, <2>4 DEF Turns
<1>3. CASE Ping
  <2>1. /\ server = "ping" /\ rounds' = rounds /\ UNCHANGED <<up, shut, board>>
        /\ \/ server' = "pong" /\ Answer(M("PING"))
           \/ rounds >= Pings /\ server' = "idle" /\ Answer(M("CLOCK"))
    BY <1>3, Streams DEF Ping, boardVars, TypeOK
  <2>2. Pinging /\ (board = "exchange" \/ (board = "answer" /\ rounds = 0))
    BY <1>1, <2>1 DEF Registers, Accepts, Pinged, Ponged, Clocked, Syncs, Lost, NobodyAsks
  <2>3. CASE server' = "pong" /\ Answer(M("PING"))
    <3>1. M("PING") \in Message /\ M("PING").kind = "PING" /\ "PING" \in Asked
      BY MessageIs, KindIs DEF Asked
    <3>2. Once(down', "PING", Asked)
      BY <2>2, <2>3, <3>1, AskedSent DEF Pinging
    <3>3. Pinged'
      BY <2>1, <2>2, <2>3, <3>2 DEF Pinging, Pinged
    <3> QED BY <2>1, <2>2, <3>3 DEF Turns
  <2>4. CASE rounds >= Pings /\ server' = "idle" /\ Answer(M("CLOCK"))
    <3>1. M("CLOCK") \in Message /\ M("CLOCK").kind = "CLOCK" /\ "CLOCK" \in Asked
      BY MessageIs, KindIs DEF Asked
    <3>2. Once(down', "CLOCK", Asked)
      BY <2>2, <2>4, <3>1, AskedSent DEF Pinging
    <3>3. Clocked'
      BY <2>1, <2>2, <2>4, <3>2 DEF Pinging, Clocked
    <3>4. board = "exchange"
      BY <2>2, <2>4, Streams
    <3> QED BY <2>1, <3>3, <3>4 DEF Turns
  <2> QED BY <2>1, <2>3, <2>4
<1>4. ASSUME NEW got,
             \/ OnRegister(got) \/ OnSync(got) \/ OnFile(got) \/ OnOther(got)
             \/ Pong(got) \/ ReadHead(got) \/ ReadRows(got)
      PROVE  Turns'
  <2> DEFINE n == Len(up)
             k == Len(got)
             m == Len(up')
  <2>1. /\ ServerReads(server, got) /\ server \in {"idle", "pong", "head", "file"}
        /\ server' \in {"idle", "accept", "ping", "head", "file"}
        /\ UNCHANGED <<down, shut, board, started>>
    BY <1>4, ServerReadIs
  <2>2. /\ n \in Nat /\ k \in Nat /\ k >= 1 /\ k <= n /\ m = n - k
        /\ \A i \in 1 .. k : got[i] = up[i]
        /\ \A i \in 1 .. m : up'[i] = up[k + i]
        /\ Kinds(got) = {got[i].kind : i \in 1 .. k}
        /\ up' \in Seq(Message) /\ got \in Seq(Message)
    <3>1. /\ k \in 1 .. n /\ m = n - k
          /\ \A i \in 1 .. k : got[i] = up[i]
          /\ \A i \in 1 .. m : up'[i] = up[k + i]
          /\ up' \in Seq(Message) /\ got \in Seq(Message)
      BY <2>1, ServerReadsIs
    <3> QED BY <3>1, Streams, KindsAre
  <2>3. up # <<>> /\ (m = 0 => up' = <<>>) /\ (m # 0 => up' # <<>>)
    <3>1. n # 0
      BY <2>2
    <3> QED BY <2>2, <3>1
  <2>4. OnFile(got) \/ OnOther(got) \/ ReadHead(got) \/ ReadRows(got) =>
           server' \in {"idle", "head", "file"}
    <3>1. CASE OnOther(got)
      BY <3>1 DEF OnOther, ServerReads, serverVars
    <3>2. CASE OnFile(got)
      <4>1. \/ Receiving(Lots, Rest(got, 1), TRUE)
            \/ server' = "head"
            \/ AfterHead(got[2], Rest(got, 2), TRUE)
        BY <3>2 DEF OnFile
      <4> QED BY <4>1, AfterHeadIs DEF Receiving
    <3>3. CASE ReadHead(got)
      <4>1. AfterHead(got[1], Rest(got, 1), FALSE)
        BY <3>3 DEF ReadHead
      <4> QED BY <4>1, AfterHeadIs
    <3>4. CASE ReadRows(got)
      BY <3>4 DEF ReadRows, Receiving
    <3> QED BY <3>1, <3>2, <3>3, <3>4
  <2> HIDE DEF n, k, m
  <2>5. CASE Registers /\ board = "answer"
    <3>1. /\ n = 1 /\ k = 1 /\ m = 0 /\ up[1].kind = "REGISTER"
      <4>1. n = 1 /\ up[1] = M("REGISTER")
        BY <2>5 DEF Registers, n
      <4> QED BY <2>2, <4>1 DEF M
    <3>2. Kinds(got) = {"REGISTER"} /\ server = "idle"
      BY <2>2, <2>5, <3>1 DEF Registers
    <3>3. OnRegister(got)
      BY <1>4, <3>2 DEF OnSync, OnFile, OnOther, Pong, ReadHead, ReadRows, ServerReads
    <3>4. Accepts'
      <4>1. server' = "accept" /\ up' = <<>> /\ down' = <<>>
        BY <2>1, <2>3, <2>5, <3>1, <3>3 DEF OnRegister, Registers
      <4>2. Len(down') = 0 /\ 1 .. 0 = {}
        BY <4>1
      <4> QED BY <4>1, <4>2 DEF Accepts, None
    <3> QED BY <2>1, <2>5, <3>4 DEF Turns
  <2>6. CASE Ponged /\ board = "exchange"
    <3>1. n = 1 /\ k = 1 /\ m = 0 /\ up[1].kind = "PONG"
      <4>1. n = 1 /\ up[1] = M("PONG")
        BY <2>6 DEF Ponged, n
      <4> QED BY <2>2, <4>1 DEF M
    <3>2. Kinds(got) = {"PONG"} /\ server = "pong"
      BY <2>2, <2>6, <3>1 DEF Ponged
    <3>3. Pong(got)
      BY <1>4, <3>2 DEF OnSync, OnFile, OnOther, OnRegister, ReadHead, ReadRows, ServerReads
    <3>4. Pinging'
      <4>1. server' = "ping" /\ up' = <<>>
        BY <2>3, <3>1, <3>2, <3>3 DEF Pong
      <4> QED BY <2>1, <2>6, <4>1 DEF Pinging, Ponged, None
    <3> QED BY <2>1, <2>6, <3>4 DEF Turns
  <2>7. CASE NobodyAsks /\ board \in {"idle", "take", "ask"}
    <3>1. \A i \in 1 .. k : got[i].kind \notin Asking
      BY <2>2, <2>7 DEF NobodyAsks, None, n
    <3>2. Kinds(got) \cap Asking = {} /\ server # "pong"
      BY <2>2, <2>7, <3>1 DEF NobodyAsks
    <3>3. server' \in {"idle", "head", "file"}
      <4>1. OnFile(got) \/ OnOther(got) \/ ReadHead(got) \/ ReadRows(got)
        BY <1>4, <3>2 DEF OnRegister, OnSync, Pong, ServerReads, Asking
      <4> QED BY <2>4, <4>1
    <3>4. None(up', Asking)
      <4>1. \A i \in 1 .. m : k + i \in 1 .. n
        BY <2>2
      <4> QED BY <2>2, <2>7, <4>1 DEF NobodyAsks, None, n, m
    <3>5. NobodyAsks'
      BY <2>1, <2>7, <3>3, <3>4 DEF NobodyAsks, None
    <3> QED BY <2>1, <2>7, <3>5 DEF Turns
  <2>8. CASE Syncs /\ board = "exchange"
    <3>1. /\ n >= 1 /\ n \in 1 .. n /\ up[n].kind = "SYNC"
          /\ \A i \in 1 .. n - 1 : up[i].kind \notin Asking
          /\ server # "pong"
      BY <2>2, <2>8 DEF Syncs, n
    <3>2. /\ \A i \in 1 .. k : got[i].kind = up[i].kind
          /\ \A i \in 1 .. k : i = n \/ i \in 1 .. n - 1
          /\ k = n => n \in 1 .. k
      BY <2>2, <3>1
    <3>3. "REGISTER" \notin Kinds(got) /\ ("SYNC" \in Kinds(got) <=> k = n)
      <4>1. "REGISTER" \notin Kinds(got)
        BY <2>2, <3>1, <3>2 DEF Asking
      <4>2. ASSUME "SYNC" \in Kinds(got) PROVE k = n
        <5>1. PICK i \in 1 .. k : got[i].kind = "SYNC"
          BY <2>2, <4>2
        <5>2. i = n
          BY <3>1, <3>2, <5>1 DEF Asking
        <5> QED BY <2>2, <5>2
      <4>3. ASSUME k = n PROVE "SYNC" \in Kinds(got)
        BY <2>2, <3>1, <3>2, <4>3
      <4> QED BY <4>1, <4>2, <4>3
    <3>4. OnSync(got) \/ OnFile(got) \/ OnOther(got) \/ ReadHead(got) \/ ReadRows(got)
      BY <1>4, <3>1, <3>3 DEF OnRegister, Pong, ServerReads
    <3>5. CASE k = n
      <4>1. m = 0 /\ up' = <<>> /\ None(down', Asked)
        BY <2>1, <2>2, <2>3, <2>8, <3>5 DEF Syncs
      <4>2. CASE OnSync(got)
        <5>1. Pinging'
          BY <4>1, <4>2 DEF Pinging, OnSync
        <5> QED BY <2>1, <2>8, <5>1 DEF Turns
      <4>3. CASE OnFile(got) \/ ReadHead(got) \/ ReadRows(got)
        <5>1. got[Len(got)].kind = "SYNC"
          BY <2>2, <3>1, <3>2, <3>5 DEF k
        <5>2. "exchange" \in missed' /\ server' \in {"idle", "file"}
          BY <4>3, <5>1, SyncForgotten
        <5>3. Lost'
          BY <4>1, <5>2 DEF Lost
        <5> QED BY <2>1, <2>8, <5>3 DEF Turns
      <4>4. ~OnOther(got)
        BY <3>3, <3>5 DEF OnOther
      <4> QED BY <3>4, <4>2, <4>3, <4>4
    <3>6. CASE k # n
      <4>1. server' \in {"idle", "head", "file"}
        BY <2>4, <3>3, <3>4, <3>6 DEF OnSync
      <4>2. m >= 1 /\ m \in 1 .. m /\ k + m = n /\ \A i \in 1 .. m - 1 : k + i \in 1 .. n - 1 /\ i \in 1 .. m
        BY <2>2, <3>6
      <4>3. up' # <<>> /\ up'[m].kind = "SYNC" /\ \A i \in 1 .. m - 1 : up'[i].kind \notin Asking
        <5>1. up' # <<>> /\ up'[m].kind = "SYNC"
          BY <2>2, <2>3, <3>1, <4>2
        <5>2. ASSUME NEW i \in 1 .. m - 1 PROVE up'[i].kind \notin Asking
          <6>1. up'[i] = up[k + i] /\ k + i \in 1 .. n - 1
            BY <2>2, <4>2
          <6> QED BY <3>1, <6>1
        <5> QED BY <5>1, <5>2
      <4>4. Syncs'
        BY <2>1, <2>8, <4>1, <4>3 DEF Syncs, None, m
      <4> QED BY <2>1, <2>8, <4>4 DEF Turns
    <3> QED BY <3>5, <3>6
  <2>9. ~(Accepts \/ Pinging \/ Pinged \/ Clocked \/ Lost)
    BY <2>3 DEF Accepts, Pinging, Pinged, Clocked, Lost
  <2> QED BY <1>1, <2>3, <2>5, <2>6, <2>7, <2>8, <2>9
<1>5. ASSUME NEW c \in Commands, Send(c) PROVE Turns'
  <2>1. /\ known /\ Answer(M(c)) /\ missed' = missed
        /\ UNCHANGED <<up, shut, board, started, server, rounds>>
    BY <1>5 DEF Send, boardVars, past, others
  <2>2. M(c) \in Message /\ M(c).kind \notin Asked
    BY MessageIs, KindIs DEF Asked
  <2>3. /\ None(down, Asked) => None(down', Asked)
        /\ \A k \in Asked : Once(down, k, Asked) => Once(down', k, Asked)
    BY <2>1, <2>2, AskedSent
  <2>4. "PING" \in Asked /\ "CLOCK" \in Asked
    BY DEF Asked
  <2>5. /\ Accepts => Accepts'
        /\ Pinging => Pinging'
        /\ Pinged => Pinged'
        /\ Ponged => Ponged'
        /\ Clocked => Clocked'
        /\ Syncs => Syncs'
        /\ Lost => Lost'
        /\ NobodyAsks => NobodyAsks'
        /\ ~Registers
    <3>1. (Accepts => Accepts') /\ (Pinging => Pinging') /\ (Ponged => Ponged') /\ ~Registers
      BY <2>1, <2>3 DEF Accepts, Pinging, Ponged, Registers
    <3>2. (Pinged => Pinged') /\ (Clocked => Clocked')
      BY <2>1, <2>3, <2>4 DEF Pinged, Clocked
    <3>3. (Syncs => Syncs') /\ (Lost => Lost')
      BY <2>1, <2>3 DEF Syncs, Lost
    <3>4. NobodyAsks => NobodyAsks'
      BY <2>1, <2>3 DEF NobodyAsks, None
    <3> QED BY <3>1, <3>2, <3>3, <3>4
  <2> QED BY <1>1, <2>1, <2>5 DEF Turns
<1>6. CASE Close
  BY <1>6 DEF Close, Shuts, Turns
<1> QED BY <1>2, <1>3, <1>4, <1>5, <1>6

-----------------------------------------------------------------------------
(* The led.                                                                *)

(* The last command about the led, once something is sent to the board.    *)
LEMMA AboutSent ==
    ASSUME TypeOK, NEW m \in Message, Answer(m)
    PROVE  /\ m.kind \notin About =>
                 /\ None(down, About) => None(down', About)
                 /\ \A k \in About : LastOf(down, About, k) => LastOf(down', About, k)
           /\ ~shut /\ m.kind \in About => LastOf(down', About, m.kind)
<1>1. CASE shut
  BY <1>1 DEF Answer
<1>2. CASE ~shut
  <2> DEFINE n == Len(down)
  <2>1. /\ n \in Nat /\ Len(down') = n + 1 /\ down'[n + 1] = m
        /\ \A i \in 1 .. n : down'[i] = down[i]
    BY <1>2, Streams, AppendIs DEF Answer
  <2>2. 1 .. Len(down') = (1 .. n) \cup {n + 1} /\ \A i \in 1 .. n : n + 1 > i
    BY <2>1
  <2>3. \A j \in 1 .. Len(down') : ~(j > n + 1)
    BY <2>1
  <2> HIDE DEF n
  <2>4. m.kind \notin About /\ None(down, About) => None(down', About)
    BY <2>1, <2>2 DEF None, n
  <2>5. ASSUME m.kind \notin About, NEW k \in About, LastOf(down, About, k)
        PROVE  LastOf(down', About, k)
    <3>1. PICK i \in 1 .. n : /\ down[i].kind = k
                              /\ \A j \in 1 .. n : j > i => down[j].kind \notin About
      BY <2>5 DEF LastOf, n
    <3>2. i \in 1 .. Len(down') /\ down'[i].kind = k
      BY <2>1, <2>2, <3>1
    <3>3. \A j \in 1 .. Len(down') : j > i => down'[j].kind \notin About
      BY <2>1, <2>2, <2>5, <3>1
    <3> QED BY <3>2, <3>3 DEF LastOf
  <2>6. m.kind \in About => LastOf(down', About, m.kind)
    <3>1. n + 1 \in 1 .. Len(down') /\ down'[n + 1].kind = m.kind
      BY <2>1, <2>2
    <3> QED BY <2>3, <3>1 DEF LastOf
  <2> QED BY <2>4, <2>5, <2>6
<1> QED BY <1>1, <1>2

(* And once something is read by the board.                                *)
LEMMA AboutRead ==
    ASSUME TypeOK, NEW pc, NEW got, BoardReads(pc, got)
    PROVE  /\ None(down, About) => None(down', About) /\ Kinds(got) \cap About = {}
           /\ \A k \in About : LastOf(down, About, k) =>
                 \/ LastOf(down', About, k)
                 \/ k \in Kinds(got) /\ None(down', About)
<1> DEFINE n == Len(down)
           g == Len(got)
           r == Len(down')
<1>1. /\ n \in Nat /\ g \in 1 .. n /\ r = n - g
      /\ \A i \in 1 .. g : got[i] = down[i]
      /\ \A i \in 1 .. r : down'[i] = down[g + i]
      /\ Kinds(got) = {got[i].kind : i \in 1 .. g}
  <2>1. got \in Seq(Message)
    BY BoardReadsIs
  <2> QED BY <2>1, BoardReadsIs, Streams, KindsAre
<1> HIDE DEF n, g, r
<1>2. /\ \A i \in 1 .. r : g + i \in 1 .. n
      /\ \A i \in 1 .. g : i \in 1 .. n
      /\ \A i \in 1 .. n : i \in 1 .. g \/ (i - g \in 1 .. r /\ g + (i - g) = i)
  BY <1>1
<1>3. None(down, About) => None(down', About) /\ Kinds(got) \cap About = {}
  BY <1>1, <1>2 DEF None, n, r
<1>4. ASSUME NEW k \in About, LastOf(down, About, k)
      PROVE  LastOf(down', About, k) \/ (k \in Kinds(got) /\ None(down', About))
  <2>1. PICK i \in 1 .. n : /\ down[i].kind = k
                            /\ \A j \in 1 .. n : j > i => down[j].kind \notin About
    BY <1>4 DEF LastOf, n
  <2>2. CASE i \in 1 .. g
    <3>1. k \in Kinds(got)
      BY <1>1, <2>1, <2>2
    <3>2. \A j \in 1 .. r : g + j > i
      BY <1>1, <2>2
    <3>3. None(down', About)
      BY <1>1, <1>2, <2>1, <3>2 DEF None, r
    <3> QED BY <3>1, <3>3
  <2>3. CASE i - g \in 1 .. r /\ g + (i - g) = i
    <3>1. down'[i - g].kind = k
      BY <1>1, <2>1, <2>3
    <3>2. \A j \in 1 .. r : j > i - g => g + j > i
      BY <1>1
    <3>3. \A j \in 1 .. r : j > i - g => down'[j].kind \notin About
      BY <1>1, <1>2, <2>1, <3>2
    <3> QED BY <2>3, <3>1, <3>3 DEF LastOf, r
  <2> QED BY <1>2, <2>2, <2>3
<1> QED BY <1>3, <1>4

(* A read of the board that forgets what it reads about the led, but for   *)
(* the command c that it carries out.                                      *)
LEMMA LedRead ==
    ASSUME TypeOK, Led, NEW pc, NEW got, BoardReads(pc, got), blinking' = blinking,
           NEW c, missed \subseteq missed',
           "led" \notin missed' => \A k \in Kinds(got) \cap About : k = c,
           led' = IF c \in About THEN c = "BLINK" ELSE led,
           c \in About => c \in Kinds(got)
    PROVE  Led'
<1> SUFFICES ASSUME "led" \notin missed'
             PROVE  \/ None(down', About) /\ led' = blinking
                    \/ \E k \in About : LastOf(down', About, k) /\ (blinking <=> k = "BLINK")
  BY DEF Led
<1>1. "led" \notin missed /\ \A k \in Kinds(got) \cap About : k = c
  OBVIOUS
<1>2. CASE None(down, About) /\ led = blinking
  <2>1. None(down', About) /\ Kinds(got) \cap About = {}
    BY <1>2, AboutRead
  <2> QED BY <1>2, <2>1
<1>3. ASSUME NEW k \in About, LastOf(down, About, k), blinking <=> k = "BLINK"
      PROVE  \/ None(down', About) /\ led' = blinking
             \/ \E kk \in About : LastOf(down', About, kk) /\ (blinking <=> kk = "BLINK")
  <2>1. LastOf(down', About, k) \/ (k \in Kinds(got) /\ None(down', About))
    BY <1>3, AboutRead
  <2>2. CASE LastOf(down', About, k)
    BY <1>3, <2>2
  <2>3. CASE k \in Kinds(got) /\ None(down', About)
    <3>1. c = k /\ led' = (k = "BLINK") /\ blinking \in BOOLEAN
      BY <1>1, <1>3, <2>3 DEF TypeOK
    <3> QED BY <1>3, <2>3, <3>1
  <2> QED BY <2>1, <2>2, <2>3
<1> QED BY <1>1, <1>2, <1>3 DEF Led

(* The command loop carries out something that it has read.                *)
LEMMA ChosenIs == ASSUME NEW got PROVE Chosen(got) \in Kinds(got) \cup {"none"}
<1> DEFINE found == {i \in DOMAIN Order : Order[i] \in Kinds(got)}
<1>1. CASE found = {}
  BY <1>1 DEF Chosen
<1>2. CASE found # {}
  <2>1. found \in SUBSET Nat
    BY DEF Order
  <2>2. \E i \in found : \A j \in found : i <= j
    BY <1>2, <2>1, FirstOf
  <2>3. Order[CHOOSE i \in found : \A j \in found : i <= j] \in Kinds(got)
    BY <2>2
  <2> QED BY <1>2, <2>3 DEF Chosen
<1> QED BY <1>1, <1>2

(* What the board reads about the led it obeys or forgets.                 *)
LEMMA BoardLed ==
    ASSUME TypeOK, Led, \/ Register \/ Retries \/ AskSync \/ TakeToSync
                        \/ \E got : Registered(got) \/ Exchange(got) \/ Obey(got)
    PROVE  Led'
<1>1. CASE Register \/ Retries \/ AskSync \/ TakeToSync
  <2>1. UNCHANGED <<down, led, blinking, missed>>
    BY <1>1 DEF Register, Retries, AskSync, TakeToSync, serverVars, past, others
  <2> QED BY <2>1 DEF Led, None, LastOf
<1>2. ASSUME NEW got, Registered(got) PROVE Led'
  <2>1. /\ BoardReads("answer", got) /\ blinking' = blinking /\ led' = led
        /\ missed' = missed \cup Concerns(Kinds(got) \ {"SYNC"})
    BY <1>2 DEF Registered, Forgets, serverVars
  <2>2. /\ "SYNC" \notin About /\ missed \subseteq missed'
        /\ "led" \notin missed' => \A k \in Kinds(got) \cap About : k = "SYNC"
    BY <2>1, ConcernsIs DEF About
  <2> QED BY <2>1, <2>2, LedRead
<1>3. ASSUME NEW got, Exchange(got) PROVE Led'
  <2>1. /\ BoardReads("exchange", got) /\ blinking' = blinking /\ led' = led
        /\ missed' = missed \cup Concerns(Kinds(got) \
                            ({"PING", "SYNC"} \cup (IF Timed(got) THEN {"CLOCK"} ELSE {})))
    BY <1>3 DEF Exchange, Forgets, serverVars
  <2>2. /\ "SYNC" \notin About /\ missed \subseteq missed'
        /\ "led" \notin missed' => \A k \in Kinds(got) \cap About : k = "SYNC"
    BY <2>1, ConcernsIs DEF About
  <2> QED BY <2>1, <2>2, LedRead
<1>4. ASSUME NEW got, Obey(got) PROVE Led'
  <2> DEFINE c == Chosen(got)
  <2>1. /\ BoardReads("idle", got) /\ blinking' = blinking /\ led' = Lit(c)
        /\ missed' = missed \cup Concerns(Kinds(got) \ {c, "SYNC"})
    BY <1>4 DEF Obey, Forgets, serverVars
  <2>2. c \in Kinds(got) \cup {"none"}
    BY ChosenIs
  <2> HIDE DEF c
  <2>3. /\ missed \subseteq missed'
        /\ "led" \notin missed' => \A k \in Kinds(got) \cap About : k = c
    BY <2>1, ConcernsIs DEF About
  <2>4. led' = (IF c \in About THEN c = "BLINK" ELSE led) /\ (c \in About => c \in Kinds(got))
    BY <2>1, <2>2 DEF Lit, About, TypeOK
  <2> QED BY <2>1, <2>3, <2>4, LedRead
<1> QED BY <1>1, <1>2, <1>3, <1>4

(* The sender has nothing to do with the led.                              *)
LEMMA SenderLed ==
    ASSUME Led, FileReady \/ TakeToSend \/ SendFile \/ SendHead \/ SendRow \/ EndUpload
    PROVE  Led'
<1>1. UNCHANGED <<down, led, blinking, missed>>
  BY DEF FileReady, TakeToSend, SendFile, SendHead, SendRow, EndUpload, Writes, boardVars,
         serverVars, past, others
<1> QED BY <1>1 DEF Led, None, LastOf

(* A command about the led comes last.                                     *)
LEMMA ServerLed ==
    ASSUME TypeOK, Roles, Led,
           \/ Accept \/ Ping
           \/ \E got : \/ OnRegister(got) \/ OnSync(got) \/ OnFile(got) \/ OnOther(got)
                       \/ Pong(got) \/ ReadHead(got) \/ ReadRows(got)
           \/ \E c \in Commands : Send(c)
           \/ Close
    PROVE  Led'
<1>1. ASSUME NEW m \in Message, Answer(m), m.kind \notin About, UNCHANGED <<led, blinking, missed>>
      PROVE  Led'
  BY <1>1, AboutSent DEF Led
<1>2. CASE Accept \/ Ping
  <2>1. PICK k \in {"ACCEPT", "PING", "CLOCK"} : Answer(M(k))
    BY <1>2 DEF Accept, Ping
  <2>2. M(k) \in Message /\ M(k).kind \notin About
    BY MessageIs, KindIs DEF About
  <2>3. UNCHANGED <<led, blinking, missed>>
    BY <1>2 DEF Accept, Ping, boardVars, past, others
  <2> QED BY <1>1, <2>1, <2>2, <2>3
<1>3. ASSUME NEW got,
             \/ OnRegister(got) \/ OnSync(got) \/ OnFile(got) \/ OnOther(got)
             \/ Pong(got) \/ ReadHead(got) \/ ReadRows(got)
      PROVE  Led'
  <2>1. UNCHANGED <<down, led, blinking>>
    BY <1>3, ServerReadIs
  <2>2. missed \subseteq missed'
    <3>1. CASE OnRegister(got) \/ OnSync(got) \/ OnOther(got) \/ Pong(got)
      BY <3>1 DEF OnRegister, OnSync, OnOther, Pong, Forgets, past, others
    <3>2. CASE OnFile(got) \/ ReadHead(got) \/ ReadRows(got)
      <4>1. \/ \E n, content, garbled : Receiving(n, content, garbled)
            \/ \E head, content, first : AfterHead(head, content, first)
            \/ missed' = missed
        BY <3>2, OnFileIs DEF ReadHead, ReadRows
      <4>2. \A head, content, first : AfterHead(head, content, first) =>
               \E n, cc, garbled : Receiving(n, cc, garbled)
        BY DEF AfterHead
      <4>3. \A n, content, garbled : Receiving(n, content, garbled) => missed \subseteq missed'
        BY DEF Receiving, Forgets
      <4> QED BY <4>1, <4>2, <4>3
    <3> QED BY <1>3, <3>1, <3>2
  <2> QED BY <2>1, <2>2 DEF Led, None, LastOf
<1>4. ASSUME NEW c \in Commands, Send(c) PROVE Led'
  <2>1. /\ ~shut /\ Answer(M(c)) /\ UNCHANGED <<led, missed>>
        /\ blinking' = (c = "BLINK" \/ (blinking /\ c # "OKLED"))
    BY <1>4 DEF Send, Believed, boardVars, past, others
  <2>2. M(c) \in Message /\ M(c).kind = c
    BY MessageIs, KindIs
  <2>3. CASE c \in About
    <3>1. LastOf(down', About, c)
      BY <2>1, <2>2, <2>3, AboutSent
    <3>2. blinking' <=> c = "BLINK"
      BY <2>1, <2>3 DEF About
    <3> QED BY <2>3, <3>1, <3>2 DEF Led
  <2>4. CASE c \notin About
    <3>1. blinking' = blinking
      BY <2>1, <2>4 DEF About, TypeOK
    <3> QED BY <1>1, <2>1, <2>2, <2>4, <3>1
  <2> QED BY <2>3, <2>4
<1>5. CASE Close
  <2>1. UNCHANGED <<down, led, blinking, missed>>
    BY <1>5 DEF Close, boardVars, past, others
  <2> QED BY <2>1 DEF Led, None, LastOf
<1> QED BY <1>2, <1>3, <1>4, <1>5

-----------------------------------------------------------------------------
(* Rows.                                                                   *)

(* A row is sent: one less is to come.                                     *)
LEMMA RowSent ==
    ASSUME NEW s \in Seq(Message), NEW m \in Message, m.kind = "ROW", NEW i \in 0 .. Len(s),
           NEW n, NEW more \in Nat, more # 0, RowsAfter(s, i, n, more)
    PROVE  RowsAfter(Append(s, m), i, n, more - 1)
<1> DEFINE L == Len(s)
           t == Append(s, m)
<1>1. /\ L \in Nat /\ Len(t) = L + 1 /\ t[L + 1] = m
      /\ \A j \in 1 .. L : t[j] = s[j]
  BY AppendIs
<1>2. PICK c \in 0 .. L - i :
         /\ \A j \in i + 1 .. i + c : s[j].kind = "ROW"
         /\ IF i + c < L THEN n = c /\ s[i + c + 1].kind # "ROW" ELSE n = c + more
  BY DEF RowsAfter
<1>3. i \in 0 .. L
  OBVIOUS
<1> HIDE DEF L, t
<1>4. \A j \in i + 1 .. i + c : j \in 1 .. L
  BY <1>1, <1>2, <1>3
<1>5. CASE i + c < L
  <2>1. i + c + 1 \in 1 .. L /\ i + c < L + 1 /\ c \in 0 .. (L + 1) - i
    BY <1>1, <1>2, <1>3, <1>5
  <2>2. \A j \in i + 1 .. i + c : t[j].kind = "ROW"
    BY <1>1, <1>2, <1>4
  <2>3. n = c /\ t[i + c + 1].kind # "ROW"
    BY <1>1, <1>2, <1>5, <2>1
  <2>4. RowsAfter(t, i, n, more - 1)
    BY <1>1, <2>1, <2>2, <2>3 DEF RowsAfter
  <2> QED BY <2>4 DEF t
<1>6. CASE ~(i + c < L)
  <2>1. i + c = L /\ n = c + more /\ c + 1 \in 0 .. (L + 1) - i /\ ~(i + (c + 1) < L + 1)
    BY <1>1, <1>2, <1>3, <1>6
  <2>2. \A j \in i + 1 .. i + (c + 1) : j = L + 1 \/ (j \in i + 1 .. i + c /\ j \in 1 .. L)
    BY <1>1, <1>2, <1>3, <2>1
  <2>3. \A j \in i + 1 .. i + (c + 1) : t[j].kind = "ROW"
    BY <1>1, <1>2, <2>2
  <2>4. n = (c + 1) + (more - 1)
    BY <1>2, <2>1
  <2>5. RowsAfter(t, i, n, more - 1)
    BY <1>1, <2>1, <2>3, <2>4 DEF RowsAfter
  <2> QED BY <2>5 DEF t
<1> QED BY <1>5, <1>6

(* Something else is sent, behind the last row.                            *)
LEMMA OtherSent ==
    ASSUME NEW s \in Seq(Message), NEW m \in Message, m.kind # "ROW", NEW i \in 0 .. Len(s),
           NEW n, RowsAfter(s, i, n, 0), NEW more
    PROVE  RowsAfter(Append(s, m), i, n, more)
<1> DEFINE L == Len(s)
           t == Append(s, m)
<1>1. /\ L \in Nat /\ Len(t) = L + 1 /\ t[L + 1] = m
      /\ \A j \in 1 .. L : t[j] = s[j]
  BY AppendIs
<1>2. PICK c \in 0 .. L - i :
         /\ \A j \in i + 1 .. i + c : s[j].kind = "ROW"
         /\ IF i + c < L THEN n = c /\ s[i + c + 1].kind # "ROW" ELSE n = c + 0
  BY DEF RowsAfter
<1>3. i \in 0 .. L
  OBVIOUS
<1> HIDE DEF L, t
<1>4. /\ \A j \in i + 1 .. i + c : j \in 1 .. L
      /\ i + c + 1 \in 1 .. L + 1 /\ i + c < L + 1 /\ c \in 0 .. (L + 1) - i /\ n = c
      /\ i + c < L => i + c + 1 \in 1 .. L
      /\ ~(i + c < L) => i + c + 1 = L + 1
  BY <1>1, <1>2, <1>3
<1>5. \A j \in i + 1 .. i + c : t[j].kind = "ROW"
  BY <1>1, <1>2, <1>4
<1>6. t[i + c + 1].kind # "ROW"
  BY <1>1, <1>2, <1>4
<1>7. RowsAfter(t, i, n, more)
  BY <1>1, <1>4, <1>5, <1>6 DEF RowsAfter
<1> QED BY <1>7 DEF t

(* Behind the end all rows are still to be sent.                           *)
LEMMA EndRows ==
    ASSUME NEW s \in Seq(Message), NEW more \in Nat
    PROVE  /\ RowsAfter(s, Len(s), more, more)
           /\ \A n : RowsAfter(s, Len(s), n, more) => n = more
<1> DEFINE L == Len(s)
<1>1. L \in Nat
  OBVIOUS
<1> HIDE DEF L
<1>2. /\ 0 \in 0 .. L - L /\ ~(L + 0 < L) /\ more = 0 + more
      /\ \A j \in L + 1 .. L + 0 : s[j].kind = "ROW"
      /\ \A c \in 0 .. L - L : c = 0
  BY <1>1
<1>3. RowsAfter(s, L, more, more) /\ \A n : RowsAfter(s, L, n, more) => n = more
  BY <1>2 DEF RowsAfter, L
<1> QED BY <1>3 DEF L

(* What is read before a place leaves the rows behind it.                  *)
LEMMA RowsKept ==
    ASSUME NEW s \in Seq(Message), NEW k \in 1 .. Len(s),
           NEW i \in k .. Len(s), NEW n, NEW more, RowsAfter(s, i, n, more)
    PROVE  RowsAfter(Rest(s, k), i - k, n, more)
<1> DEFINE L == Len(s)
           t == Rest(s, k)
           K == Len(t)
<1>0. t \in Seq(Message) /\ K = L - k /\ \A j \in 1 .. L - k : t[j] = s[k + j]
  BY SplitIs
<1>1. L \in Nat /\ K \in Nat /\ K = L - k /\ k \in 1 .. L /\ i \in k .. L
  BY <1>0
<1>2. PICK c \in 0 .. L - i :
         /\ \A j \in i + 1 .. i + c : s[j].kind = "ROW"
         /\ IF i + c < L THEN n = c /\ s[i + c + 1].kind # "ROW" ELSE n = c + more
  BY DEF RowsAfter
<1>3. \A j \in 1 .. K : t[j] = s[k + j]
  BY <1>0
<1> HIDE DEF L, t, K
<1>4. /\ c \in 0 .. K - (i - k)
      /\ \A j \in (i - k) + 1 .. (i - k) + c : j \in 1 .. K /\ k + j \in i + 1 .. i + c
      /\ (i - k) + c < K <=> i + c < L
      /\ i + c < L => (i - k) + c + 1 \in 1 .. K /\ k + ((i - k) + c + 1) = i + c + 1
  BY <1>1, <1>2
<1>5. \A j \in (i - k) + 1 .. (i - k) + c : t[j].kind = "ROW"
  BY <1>2, <1>3, <1>4
<1>6. IF (i - k) + c < K THEN n = c /\ t[(i - k) + c + 1].kind # "ROW" ELSE n = c + more
  BY <1>2, <1>3, <1>4
<1>7. RowsAfter(t, i - k, n, more)
  BY <1>4, <1>5, <1>6 DEF RowsAfter, K
<1> QED BY <1>7 DEF t

(* What is read behind a place are rows, of which so many less follow; or  *)
(* it holds the first message behind the rows.                             *)
LEMMA RowsRead ==
    ASSUME NEW s \in Seq(Message), NEW k \in 1 .. Len(s),
           NEW i \in 0 .. k, NEW n \in Nat, NEW more \in Nat, RowsAfter(s, i, n, more)
    PROVE  \/ /\ \A j \in i + 1 .. k : s[j].kind = "ROW"
              /\ n - (k - i) \in Nat /\ RowsAfter(Rest(s, k), 0, n - (k - i), more)
           \/ /\ i + n + 1 \in i + 1 .. k /\ s[i + n + 1].kind # "ROW"
              /\ \A j \in i + 1 .. i + n : s[j].kind = "ROW"
<1> DEFINE L == Len(s)
           t == Rest(s, k)
           K == Len(t)
<1>0. t \in Seq(Message) /\ K = L - k /\ \A j \in 1 .. L - k : t[j] = s[k + j]
  BY SplitIs
<1>1. L \in Nat /\ K \in Nat /\ K = L - k /\ k \in 0 .. L /\ i \in 0 .. k
  BY <1>0
<1>2. PICK c \in 0 .. L - i :
         /\ \A j \in i + 1 .. i + c : s[j].kind = "ROW"
         /\ IF i + c < L THEN n = c /\ s[i + c + 1].kind # "ROW" ELSE n = c + more
  BY DEF RowsAfter
<1>3. \A j \in 1 .. K : t[j] = s[k + j]
  BY <1>0
<1> HIDE DEF L, t, K
<1>4. CASE i + c < k
  <2>1. i + c < L /\ n = c /\ i + n + 1 \in i + 1 .. k
    BY <1>1, <1>2, <1>4
  <2> QED BY <1>2, <2>1
<1>5. CASE ~(i + c < k)
  <2> DEFINE d == c - (k - i)
  <2>1. /\ d \in 0 .. K - 0 /\ d \in Int /\ c = d + (k - i)
        /\ \A j \in i + 1 .. k : j \in i + 1 .. i + c
        /\ \A j \in 0 + 1 .. 0 + d : j \in 1 .. K /\ k + j \in i + 1 .. i + c
        /\ 0 + d < K <=> i + c < L
        /\ i + c < L => 0 + d + 1 \in 1 .. K /\ k + (0 + d + 1) = i + c + 1
    <3>1. d \in Int /\ c = d + (k - i) /\ d \in 0 .. K - 0
      BY <1>1, <1>2, <1>5
    <3> HIDE DEF d
    <3>2. \A j \in i + 1 .. k : j \in i + 1 .. i + c
      BY <1>1, <1>2, <1>5
    <3>3. \A j \in 0 + 1 .. 0 + d : j \in 1 .. K /\ k + j \in i + 1 .. i + c
      BY <1>1, <1>2, <3>1
    <3>4. /\ 0 + d < K <=> i + c < L
          /\ i + c < L => 0 + d + 1 \in 1 .. K /\ k + (0 + d + 1) = i + c + 1
      BY <1>1, <1>2, <3>1
    <3> QED BY <3>1, <3>2, <3>3, <3>4
  <2> HIDE DEF d
  <2>2. ASSUME NEW j \in 0 + 1 .. 0 + d PROVE t[j].kind = "ROW"
    <3>1. j \in 1 .. K /\ k + j \in i + 1 .. i + c
      BY <2>1
    <3>2. t[j] = s[k + j]
      BY <1>3, <3>1
    <3>3. s[k + j].kind = "ROW"
      BY <1>2, <3>1
    <3> QED BY <3>2, <3>3
  <2>3. n - (k - i) \in Nat /\ (i + c < L => n - (k - i) = d) /\ (~(i + c < L) => n - (k - i) = d + more)
    BY <1>1, <1>2, <2>1
  <2>4. IF 0 + d < K THEN n - (k - i) = d /\ t[0 + d + 1].kind # "ROW"
                     ELSE n - (k - i) = d + more
    BY <1>2, <1>3, <2>1, <2>3
  <2>5. RowsAfter(t, 0, n - (k - i), more)
    BY <2>1, <2>2, <2>4 DEF RowsAfter, K
  <2> QED BY <1>2, <2>1, <2>3, <2>5 DEF t
<1> QED BY <1>4, <1>5

-----------------------------------------------------------------------------
(* Lengths.                                                                *)

(* Rows are sent one by one, and nothing else before the last.             *)
LEMMA LengthsSent ==
    ASSUME TypeOK, TypeOK', Roles, Lengths, NEW m \in Message, Sent(m),
           UNCHANGED <<server, expect, misread, shut>>,
           m.kind \in Asking \cup {"FILE", "HEAD", "ROW"},
           \/ m.kind = "ROW" /\ ToSend # 0 /\ ToSend' = ToSend - 1
           \/ /\ m.kind # "ROW" /\ ToSend = 0
              /\ ToSend' = IF m.kind = "HEAD" THEN m.size ELSE 0,
           m.kind = "HEAD" => sender = "head"
    PROVE  Lengths'
<1> DEFINE a == ToSend
           b == ToSend'
           n == Len(up)
<1>1. a \in Nat /\ b \in Nat
  BY Streams DEF ToSend, TypeOK
<1>2. CASE shut
  <2>1. up' = <<>> /\ shut'
    BY <1>2 DEF Sent, Roles
  <2>2. 1 .. Len(up') = {}
    BY <2>1
  <2> QED BY <2>1, <2>2 DEF Lengths
<1>3. CASE ~shut
  <2>1. /\ up' = Append(up, m) /\ up \in Seq(Message) /\ up' \in Seq(Message)
        /\ n \in Nat /\ Len(up') = n + 1 /\ up'[n + 1] = m
        /\ \A i \in 1 .. n : up'[i] = up[i]
    BY <1>3, Streams, AppendIs DEF Sent
  <2>2. ASSUME NEW i \in 0 .. n, NEW x, RowsAfter(up, i, x, a) PROVE RowsAfter(up', i, x, b)
    <3>1. CASE m.kind = "ROW" /\ a # 0 /\ b = a - 1
      <4>1. RowsAfter(Append(up, m), i, x, a - 1)
        BY <1>1, <2>1, <2>2, <3>1, RowSent
      <4> QED BY <2>1, <3>1, <4>1
    <3>2. CASE m.kind # "ROW" /\ a = 0
      <4>1. RowsAfter(up, i, x, 0)
        BY <2>2, <3>2
      <4>2. RowsAfter(Append(up, m), i, x, b)
        BY <2>1, <3>2, <4>1, OtherSent
      <4> QED BY <2>1, <4>2
    <3> QED BY <3>1, <3>2
  <2>3. m.kind = "HEAD" => RowsAfter(up', n + 1, m.size, b)
    <3>1. RowsAfter(up', Len(up'), b, b)
      BY <1>1, <2>1, EndRows
    <3>2. m.kind = "HEAD" => b = m.size
      OBVIOUS
    <3> QED BY <2>1, <3>1, <3>2
  <2>4. /\ \A i \in 1 .. n : /\ up[i].kind \in Asking \cup {"FILE", "HEAD", "ROW"}
                             /\ up[i].kind = "HEAD" => RowsAfter(up, i, up[i].size, a)
        /\ (~misread /\ ~shut) =>
              /\ server = "idle" => /\ RowsAfter(up, 0, 0, a)
                                    /\ IF up = <<>> THEN sender # "head" ELSE up[1].kind # "HEAD"
              /\ server = "file" => RowsAfter(up, 0, expect, a) /\ expect \in 1 .. MaxRows
    BY DEF Lengths, Located
  <2>5. up' # <<>> /\ (up # <<>> => n # 0)
    <3>1. Len(up') # 0
      BY <2>1
    <3> QED BY <2>1, <3>1
  <2>6. /\ 0 \in 0 .. n /\ 1 .. n + 1 = (1 .. n) \cup {n + 1} /\ \A i \in 1 .. n : i \in 0 .. n
        /\ n # 0 => 1 \in 1 .. n
        /\ n = 0 => n + 1 = 1
    BY <2>1
  <2> HIDE DEF a, b, n
  <2>7. ASSUME NEW i \in 1 .. n + 1
        PROVE  /\ up'[i].kind \in Asking \cup {"FILE", "HEAD", "ROW"}
               /\ up'[i].kind = "HEAD" => RowsAfter(up', i, up'[i].size, b)
    <3>1. CASE i = n + 1
      BY <2>1, <2>3, <3>1
    <3>2. CASE i \in 1 .. n
      <4>1. up'[i] = up[i] /\ i \in 0 .. n
        BY <2>1, <2>6, <3>2
      <4>2. /\ up[i].kind \in Asking \cup {"FILE", "HEAD", "ROW"}
            /\ up[i].kind = "HEAD" => RowsAfter(up, i, up[i].size, a)
        BY <2>4, <3>2
      <4>3. up[i].kind = "HEAD" => RowsAfter(up', i, up[i].size, b)
        BY <2>2, <4>1, <4>2
      <4> QED BY <4>1, <4>2, <4>3
    <3> QED BY <2>6, <3>1, <3>2
  <2>8. ASSUME ~misread, server = "idle" PROVE RowsAfter(up', 0, 0, b) /\ up'[1].kind # "HEAD"
    <3>1. RowsAfter(up', 0, 0, b)
      BY <1>3, <2>2, <2>4, <2>6, <2>8
    <3>2. CASE up = <<>>
      <4>1. m.kind # "HEAD" /\ n = 0
        BY <1>3, <2>4, <2>8, <3>2 DEF n
      <4> QED BY <2>1, <2>6, <3>1, <4>1
    <3>3. CASE up # <<>>
      BY <1>3, <2>1, <2>4, <2>5, <2>6, <2>8, <3>1, <3>3
    <3> QED BY <3>2, <3>3
  <2>9. ASSUME ~misread, server = "file" PROVE RowsAfter(up', 0, expect, b) /\ expect \in 1 .. MaxRows
    BY <1>3, <2>2, <2>4, <2>6, <2>9
  <2> QED BY <2>1, <2>5, <2>7, <2>8, <2>9 DEF Lengths, Located, b
<1> QED BY <1>2, <1>3

(* What stays as it is, as far as lengths are concerned.                   *)
LEMMA LengthsStay ==
    ASSUME Lengths, UNCHANGED <<up, server, expect, misread, shut>>, ToSend' = ToSend,
           sender' = "head" => sender = "head"
    PROVE  Lengths'
  BY DEF Lengths, Located

(* While the board has the semaphore, or has not started, nothing is sent  *)
(* of a file.                                                              *)
LEMMA NoFileSent ==
    ASSUME TypeOK, Roles, board \in {"register", "answer", "exchange", "ask"}
    PROVE  ToSend = 0 /\ sender \notin {"file", "head", "rows"}
  BY DEF ToSend, Roles, TypeOK

(* What the board says comes behind a file's last row.                     *)
LEMMA BoardLengths ==
    ASSUME TypeOK, TypeOK', Roles, Lengths,
           \/ Register \/ Retries \/ AskSync \/ TakeToSync
           \/ \E got : Registered(got) \/ Exchange(got) \/ Obey(got)
    PROVE  Lengths'
<1>1. ASSUME UNCHANGED up, UNCHANGED <<server, expect, misread, shut, senderVars>> PROVE Lengths'
  <2>1. ToSend' = ToSend /\ sender' = sender
    BY <1>1 DEF ToSend, senderVars
  <2> QED BY <1>1, <2>1, LengthsStay
<1>2. ASSUME NEW k \in Asking, Sent(M(k)), board \in {"register", "exchange", "ask"},
             UNCHANGED <<server, expect, misread, shut, senderVars>>
      PROVE  Lengths'
  <2>1. M(k) \in Message /\ M(k).kind = k /\ k \notin {"ROW", "HEAD"}
    BY MessageIs, KindIs DEF Asking
  <2>2. ToSend = 0 /\ ToSend' = 0
    BY <1>2, NoFileSent DEF ToSend, senderVars
  <2> HIDE DEF ToSend
  <2> QED BY <1>2, <2>1, <2>2, LengthsSent
<1>3. CASE Register
  <2>1. /\ board = "register" /\ Sent(M("REGISTER"))
        /\ UNCHANGED <<server, expect, misread, shut, senderVars>>
    BY <1>3 DEF Register, serverVars, past, others
  <2> QED BY <1>2, <2>1 DEF Asking
<1>4. CASE AskSync
  <2>1. board = "ask" /\ Sent(M("SYNC")) /\ UNCHANGED <<server, expect, misread, shut, senderVars>>
    BY <1>4 DEF AskSync, serverVars, past, others
  <2> QED BY <1>2, <2>1 DEF Asking
<1>5. CASE Retries \/ TakeToSync
  BY <1>1, <1>5 DEF Retries, TakeToSync, serverVars, past, others
<1>6. ASSUME NEW got, Exchange(got) PROVE Lengths'
  <2>1. /\ board = "exchange" /\ (UNCHANGED up \/ Sent(M("PONG")))
        /\ UNCHANGED <<server, expect, misread, shut, senderVars>>
    BY <1>6 DEF Exchange, BoardReads, serverVars
  <2> QED BY <1>1, <1>2, <2>1 DEF Asking
<1>7. ASSUME NEW got, Registered(got) \/ Obey(got) PROVE Lengths'
  BY <1>1, <1>7 DEF Registered, Obey, serverVars
<1> QED BY <1>3, <1>4, <1>5, <1>6, <1>7

(* A header says how many rows will be sent.                               *)
LEMMA SenderLengths ==
    ASSUME TypeOK, TypeOK', Roles, Lengths,
           FileReady \/ TakeToSend \/ SendFile \/ SendHead \/ SendRow \/ EndUpload
    PROVE  Lengths'
<1>1. CASE FileReady \/ TakeToSend \/ EndUpload
  <2>1. /\ UNCHANGED <<up, server, expect, misread, shut>>
        /\ sender' # "head" /\ ToSend' = ToSend
    BY <1>1 DEF FileReady, TakeToSend, EndUpload, ToSend, serverVars, past, others
  <2> QED BY <2>1, LengthsStay
<1>2. CASE SendFile
  <2>1. M("FILE") \in Message /\ M("FILE").kind = "FILE"
    BY MessageIs, KindIs
  <2>2. /\ Sent(M("FILE")) /\ UNCHANGED <<server, expect, misread, shut>>
        /\ ToSend = 0 /\ ToSend' = 0
    BY <1>2 DEF SendFile, Writes, ToSend, serverVars, past, others
  <2> QED BY <2>1, <2>2, LengthsSent
<1>3. CASE SendHead
  <2>1. PICK high \in BOOLEAN :
           Writes("head", "rows", [kind |-> "HEAD", size |-> left, high |-> high])
    BY <1>3 DEF SendHead
  <2> DEFINE h == [kind |-> "HEAD", size |-> left, high |-> high]
  <2>2. h \in Message /\ h.kind = "HEAD" /\ h.size = left
    BY MessageIs DEF TypeOK
  <2>3. /\ Sent(h) /\ UNCHANGED <<server, expect, misread, shut>>
        /\ sender = "head" /\ ToSend = 0 /\ ToSend' = left
    BY <1>3, <2>1 DEF SendHead, Writes, ToSend, serverVars, past, others
  <2> HIDE DEF h
  <2> QED BY <2>2, <2>3, LengthsSent
<1>4. CASE SendRow
  <2>1. M("ROW") \in Message /\ M("ROW").kind = "ROW"
    BY MessageIs, KindIs
  <2>2. /\ Sent(M("ROW")) /\ UNCHANGED <<server, expect, misread, shut>>
        /\ ToSend # 0 /\ ToSend' = ToSend - 1
    BY <1>4 DEF SendRow, Writes, ToSend, serverVars, past, others, TypeOK
  <2> QED BY <2>1, <2>2, LengthsSent
<1> QED BY <1>1, <1>2, <1>3, <1>4

(* Who asks, asks last, and sends no file meanwhile.                       *)
LEMMA AsksLast ==
    ASSUME TypeOK, Roles, Turns, ~shut, NEW j \in 1 .. Len(up), up[j].kind \in Asking
    PROVE  j = Len(up) /\ ToSend = 0 /\ sender \notin {"file", "head", "rows"}
<1>1. up # <<>>
  BY Streams
<1>2. /\ board = "answer" => Registers
      /\ board = "exchange" => Ponged \/ Syncs
      /\ board \in {"idle", "take", "ask"} => NobodyAsks
      /\ board # "register"
  BY <1>1 DEF Turns, Accepts, Pinging, Pinged, Clocked, Lost
<1>3. board \in {"answer", "exchange"}
  BY <1>2 DEF TypeOK, NobodyAsks, None
<1>4. Registers \/ Ponged \/ Syncs
  BY <1>2, <1>3
<1>5. j = Len(up)
  <2>1. CASE Registers \/ Ponged
    <3>1. Len(up) = 1
      BY <2>1 DEF Registers, Ponged
    <3> QED BY <3>1
  <2>2. CASE Syncs
    <3>1. \A i \in 1 .. Len(up) - 1 : up[i].kind \notin Asking
      BY <2>2 DEF Syncs
    <3>2. j = Len(up) \/ j \in 1 .. Len(up) - 1
      BY Streams
    <3> QED BY <3>1, <3>2
  <2> QED BY <1>4, <2>1, <2>2
<1> QED BY <1>3, <1>5, NoFileSent

(* What the server reads of the rows behind a place.                       *)
LEMMA UpRead ==
    ASSUME TypeOK, NEW got, ServerReads(server, got),
           NEW i \in 0 .. Len(got), NEW n \in Nat, RowsAfter(up, i, n, ToSend)
    PROVE  \/ /\ \A j \in i + 1 .. Len(got) : up[j].kind = "ROW"
              /\ n - (Len(got) - i) \in Nat /\ RowsAfter(up', 0, n - (Len(got) - i), ToSend)
           \/ /\ i + n + 1 \in i + 1 .. Len(got) /\ up[i + n + 1].kind # "ROW"
              /\ \A j \in i + 1 .. i + n : up[j].kind = "ROW"
<1>1. PICK k \in 1 .. Len(up) : got = Start(up, k) /\ up' = Rest(up, k)
  BY DEF ServerReads
<1>2. up \in Seq(Message) /\ ToSend \in Nat
  BY Streams DEF ToSend
<1>3. Len(got) = k
  BY <1>1, <1>2, SplitIs
<1>4. i \in 0 .. k
  BY <1>3
<1>5. \/ /\ \A j \in i + 1 .. k : up[j].kind = "ROW"
         /\ n - (k - i) \in Nat /\ RowsAfter(Rest(up, k), 0, n - (k - i), ToSend)
      \/ /\ i + n + 1 \in i + 1 .. k /\ up[i + n + 1].kind # "ROW"
         /\ \A j \in i + 1 .. i + n : up[j].kind = "ROW"
  <2>1. PICK more \in Nat : more = ToSend
    BY <1>2
  <2>2. RowsAfter(up, i, n, more)
    BY <2>1
  <2> HIDE <2>1
  <2>3. \/ /\ \A j \in i + 1 .. k : up[j].kind = "ROW"
           /\ n - (k - i) \in Nat /\ RowsAfter(Rest(up, k), 0, n - (k - i), more)
        \/ /\ i + n + 1 \in i + 1 .. k /\ up[i + n + 1].kind # "ROW"
           /\ \A j \in i + 1 .. i + n : up[j].kind = "ROW"
    BY <1>2, <1>4, <2>2, RowsRead
  <2> QED BY <2>1, <2>3
<1> QED BY <1>1, <1>3, <1>5

(* What a read shows of the frames.                                        *)
LEMMA UpFrames ==
    ASSUME TypeOK, Frames, NEW got, ServerReads(server, got)
    PROVE  /\ \A i \in 2 .. Len(up) : up[i].kind = "HEAD" => up[i - 1].kind = "FILE"
           /\ sender = "head" => up[Len(up)].kind = "FILE"
           /\ up' = <<>> <=> Len(up') = 0
<1>1. Len(up) \in Nat /\ Len(got) \in 1 .. Len(up) /\ up' \in Seq(Message)
  BY ServerReadsIs, Streams
<1>2. up # <<>>
  <2>1. Len(up) # 0
    BY <1>1
  <2> QED BY <2>1
<1> QED BY <1>1, <1>2 DEF Frames

(* Rows that are read count; what follows them, unless it starts a file, is*)
(* the board's SYNC, the last it sends.                                    *)
LEMMA ContentRead ==
    ASSUME TypeOK, TypeOK', Roles, Turns, Frames, Lengths, ~shut,
           NEW got, ServerReads(server, got), UNCHANGED <<sender, left>>,
           NEW p \in 0 .. Len(got), NEW content \in Seq(Message),
           Len(content) = Len(got) - p, \A j \in 1 .. Len(content) : content[j] = got[p + j],
           NEW n \in 0 .. MaxRows, RowsAfter(up, p, n, ToSend),
           p = 0 => n # 0, p # 0 => up[p].kind = "HEAD",
           NEW garbled, Receiving(n, content, garbled), ~misread'
    PROVE  Located'
<1> DEFINE L == Len(up)
           k == Len(got)
           m == Len(up')
           a == ToSend
<1>1. /\ L \in Nat /\ k \in Nat /\ k >= 1 /\ k <= L /\ m = L - k /\ p \in Nat /\ p <= k
      /\ k \in 1 .. L /\ k \in 0 .. L /\ p \in 0 .. k
      /\ \A i \in 1 .. k : got[i] = up[i]
      /\ \A i \in 1 .. m : up'[i] = up[k + i]
      /\ up \in Seq(Message) /\ up' \in Seq(Message)
  <2>1. /\ k \in 1 .. L /\ m = L - k
        /\ \A i \in 1 .. k : got[i] = up[i]
        /\ \A i \in 1 .. m : up'[i] = up[k + i]
        /\ up' \in Seq(Message)
    BY ServerReadsIs
  <2>2. L \in Nat /\ up \in Seq(Message)
    BY Streams
  <2>3. p \in 0 .. k
    OBVIOUS
  <2> HIDE DEF L, k, m
  <2>4. /\ L \in Nat /\ k \in Nat /\ k >= 1 /\ k <= L /\ p \in Nat /\ p <= k
        /\ k \in 1 .. L /\ k \in 0 .. L
    BY <2>1, <2>2, <2>3
  <2> QED BY <2>1, <2>2, <2>3, <2>4
<1>2. n \in Nat /\ n <= MaxRows /\ MaxRows \in Nat /\ n # Lots /\ a \in Nat /\ ToSend' = a
  <2>1. MaxRows \in Nat /\ Lots = MaxRows + 2 /\ left \in Nat
    BY Streams
  <2>2. a \in Nat /\ ToSend' = a
    BY <2>1 DEF ToSend
  <2>3. n \in 0 .. MaxRows
    OBVIOUS
  <2>4. n \in Nat /\ n <= MaxRows /\ n # Lots
    BY <2>1, <2>3
  <2> QED BY <2>1, <2>2, <2>4
<1>3. /\ expect' = IF n - Len(content) > 0 THEN n - Len(content) ELSE 0
      /\ server' = IF n - Len(content) > 0 THEN "file" ELSE "idle"
      /\ "FILE" \notin Kinds(content)
  BY <1>2 DEF Receiving, Missing
<1>4. Len(content) = k - p
  OBVIOUS
<1>5. \A j \in p + 1 .. k : up[j].kind # "FILE"
  <2> SUFFICES ASSUME NEW j \in p + 1 .. k, up[j].kind = "FILE" PROVE FALSE
    OBVIOUS
  <2>1. j - p \in 1 .. Len(content) /\ p + (j - p) = j /\ j \in 1 .. k
    BY <1>1, <1>4
  <2>2. content[j - p].kind = "FILE"
    BY <1>1, <2>1
  <2> QED BY <1>3, <2>1, <2>2, KindsAre
<1>6. \/ /\ \A j \in p + 1 .. k : up[j].kind = "ROW"
         /\ n - (k - p) \in Nat /\ RowsAfter(up', 0, n - (k - p), a)
      \/ /\ p + n + 1 \in p + 1 .. k /\ up[p + n + 1].kind # "ROW"
         /\ \A j \in p + 1 .. p + n : up[j].kind = "ROW"
  BY <1>2, UpRead
<1>7. /\ \A i \in 2 .. L : up[i].kind = "HEAD" => up[i - 1].kind = "FILE"
      /\ sender = "head" => up[L].kind = "FILE"
      /\ up' = <<>> <=> m = 0
  BY UpFrames
<1> HIDE DEF L, k, m, a
<1>8. CASE /\ \A j \in p + 1 .. k : up[j].kind = "ROW"
           /\ n - (k - p) \in Nat /\ RowsAfter(up', 0, n - (k - p), a)
  <2> DEFINE r == n - (k - p)
  <2>1. /\ r \in Nat /\ r <= n /\ RowsAfter(up', 0, r, a)
        /\ expect' = r /\ server' = IF r > 0 THEN "file" ELSE "idle"
    <3>1. r \in Nat /\ r = n - Len(content) /\ RowsAfter(up', 0, r, a)
      BY <1>4, <1>8
    <3>2. r <= n
      BY <1>1, <1>2, <3>1
    <3> HIDE DEF r
    <3>3. expect' = (IF r > 0 THEN r ELSE 0) /\ server' = IF r > 0 THEN "file" ELSE "idle"
      BY <1>3, <3>1
    <3> QED BY <3>1, <3>2, <3>3
  <2> HIDE DEF r
  <2>2. up[k].kind \in {"ROW", "HEAD"}
    <3>1. CASE k = p
      BY <1>1, <3>1
    <3>2. CASE k # p
      BY <1>1, <1>8, <3>2
    <3> QED BY <3>1, <3>2
  <2>3. IF up' = <<>> THEN sender' # "head" ELSE up'[1].kind # "HEAD"
    <3>1. CASE up' = <<>>
      <4>1. k = L
        BY <1>1, <1>7, <3>1
      <4> QED BY <1>7, <2>2, <3>1, <4>1
    <3>2. CASE up' # <<>>
      <4>1. 1 \in 1 .. m /\ k + 1 \in 2 .. L /\ (k + 1) - 1 = k
        BY <1>1, <1>7, <3>2
      <4>2. up'[1] = up[k + 1] /\ (up[k + 1].kind = "HEAD" => up[k].kind = "FILE")
        BY <1>1, <1>7, <4>1
      <4> QED BY <2>2, <3>2, <4>2
    <3> QED BY <3>1, <3>2
  <2>4. server' = "idle" => RowsAfter(up', 0, 0, a)
    <3>1. server' = "idle" => r = 0
      BY <2>1
    <3> QED BY <2>1, <3>1
  <2>5. server' = "file" => RowsAfter(up', 0, expect', a) /\ expect' \in 1 .. MaxRows
    BY <1>2, <2>1
  <2> QED BY <1>2, <2>3, <2>4, <2>5 DEF Located
<1>9. CASE /\ p + n + 1 \in p + 1 .. k /\ up[p + n + 1].kind # "ROW"
           /\ \A j \in p + 1 .. p + n : up[j].kind = "ROW"
  <2> DEFINE j == p + n + 1
  <2>1. j \in 1 .. L /\ j \in p + 1 .. k /\ j - 1 = p + n /\ j <= k /\ j \in Nat
    BY <1>1, <1>2, <1>9
  <2>2. up[j].kind \in Asking \cup {"FILE", "HEAD", "ROW"}
    BY <2>1 DEF Lengths, L
  <2>3. up[j].kind # "FILE" /\ up[j].kind # "ROW"
    BY <1>5, <1>9, <2>1
  <2>4. up[j].kind # "HEAD"
    <3> SUFFICES ASSUME up[j].kind = "HEAD" PROVE FALSE
      OBVIOUS
    <3>1. CASE n = 0
      <4>1. p # 0 /\ up[p].kind = "HEAD" /\ j \in 2 .. L /\ j - 1 = p
        BY <1>1, <2>1, <3>1
      <4>2. up[p].kind = "FILE"
        BY <1>7, <4>1
      <4> QED BY <4>1, <4>2
    <3>2. CASE n # 0
      <4>1. p + n \in p + 1 .. p + n /\ j \in 2 .. L
        <5>1. n >= 1 /\ p \in Nat /\ n \in Nat
          BY <1>1, <1>2, <3>2
        <5>2. j >= 2 /\ j \in 1 .. L /\ L \in Nat
          BY <1>1, <2>1, <5>1
        <5> HIDE DEF j, L
        <5> QED BY <5>1, <5>2
      <4>2. up[p + n].kind = "ROW" /\ up[j - 1].kind = "FILE"
        BY <1>7, <1>9, <4>1
      <4> QED BY <2>1, <4>2
    <3> QED BY <3>1, <3>2
  <2> HIDE DEF j
  <2>5. up[j].kind \in Asking
    BY <2>2, <2>3, <2>4
  <2>6. j = L /\ a = 0 /\ sender \notin {"file", "head", "rows"}
    BY <2>1, <2>5, AsksLast DEF L, a
  <2>7. m = 0 /\ up' = <<>> /\ n - Len(content) < 0
    <3>1. k = L /\ m = 0
      BY <1>1, <2>1, <2>6
    <3>2. n - (k - p) < 0
      BY <1>1, <1>2, <2>1, <2>6, <3>1 DEF j
    <3> QED BY <1>4, <1>7, <3>1, <3>2
  <2>8. server' = "idle"
    BY <1>1, <1>2, <1>3, <1>4, <2>7
  <2>9. RowsAfter(up', 0, 0, 0)
    <3>1. RowsAfter(up', Len(up'), 0, 0)
      BY <1>1, EndRows
    <3> QED BY <2>7, <3>1 DEF m
  <2> QED BY <1>2, <2>6, <2>7, <2>8, <2>9 DEF Located
<1> QED BY <1>6, <1>8, <1>9

(* Behind what the server reads the same rows follow.                      *)
LEMMA UpKept ==
    ASSUME TypeOK, NEW got, ServerReads(server, got), NEW i \in Len(got) .. Len(up), NEW n,
           RowsAfter(up, i, n, ToSend)
    PROVE  RowsAfter(up', i - Len(got), n, ToSend)
<1>1. PICK k \in 1 .. Len(up) : got = Start(up, k) /\ up' = Rest(up, k)
  BY DEF ServerReads
<1>2. up \in Seq(Message)
  BY Streams
<1>3. Len(got) = k
  BY <1>1, <1>2, SplitIs
<1>4. i \in k .. Len(up)
  BY <1>3
<1>5. RowsAfter(Rest(up, k), i - k, n, ToSend)
  BY <1>2, <1>4, RowsKept
<1> QED BY <1>1, <1>3, <1>5

(* Headers that are not read stay true.                                    *)
LEMMA HeadsKept ==
    ASSUME TypeOK, Lengths, NEW got, ServerReads(server, got), UNCHANGED <<sender, left>>
    PROVE  \A i \in 1 .. Len(up') :
              /\ up'[i].kind \in Asking \cup {"FILE", "HEAD", "ROW"}
              /\ up'[i].kind = "HEAD" => RowsAfter(up', i, up'[i].size, ToSend')
<1> SUFFICES ASSUME NEW i \in 1 .. Len(up')
             PROVE  /\ up'[i].kind \in Asking \cup {"FILE", "HEAD", "ROW"}
                    /\ up'[i].kind = "HEAD" => RowsAfter(up', i, up'[i].size, ToSend')
  OBVIOUS
<1> DEFINE k == Len(got)
           j == k + i
<1>1. /\ k \in 1 .. Len(up) /\ Len(up') = Len(up) - k /\ up'[i] = up[j] /\ Len(up) \in Nat
  BY ServerReadsIs, Streams
<1>2. j \in k .. Len(up) /\ j \in 1 .. Len(up) /\ j - k = i
  BY <1>1
<1>3. ToSend' = ToSend
  BY DEF ToSend
<1> HIDE DEF j
<1>4. /\ up[j].kind \in Asking \cup {"FILE", "HEAD", "ROW"}
      /\ up[j].kind = "HEAD" => RowsAfter(up, j, up[j].size, ToSend)
  BY <1>2 DEF Lengths
<1>5. up[j].kind = "HEAD" => RowsAfter(up', j - k, up[j].size, ToSend)
  BY <1>2, <1>4, UpKept
<1> QED BY <1>1, <1>2, <1>3, <1>4, <1>5

(* Behind a header that is read comes as much as it says.                  *)
LEMMA HeadRead ==
    ASSUME TypeOK, TypeOK', Roles, Turns, Frames, Lengths, ~shut,
           NEW got, ServerReads(server, got), UNCHANGED <<sender, left>>,
           NEW p \in 1 .. Len(got), up[p].kind = "HEAD",
           NEW first, AfterHead(got[p], Rest(got, p), first), ~misread'
    PROVE  Located'
<1> DEFINE content == Rest(got, p)
           head == up[p]
<1>1. /\ got \in Seq(Message) /\ Len(got) \in 1 .. Len(up) /\ got[p] = head
      /\ p \in 1 .. Len(up) /\ p # 0 /\ p \in 0 .. Len(got)
  <2>1. /\ got \in Seq(Message) /\ Len(got) \in 1 .. Len(up)
        /\ \A i \in 1 .. Len(got) : got[i] = up[i]
    BY ServerReadsIs
  <2> QED BY <2>1, Streams
<1>2. /\ content \in Seq(Message) /\ Len(content) = Len(got) - p
      /\ \A j \in 1 .. Len(content) : content[j] = got[p + j]
  BY <1>1, SplitIs
<1>3. head \in Message /\ head.size \in 0 .. MaxRows /\ RowsAfter(up, p, head.size, ToSend)
  BY <1>1, Streams, MessageIs DEF Lengths
<1> HIDE DEF content, head
<1>4. \/ Receiving(0, <<>>, head.size > 0) /\ content = <<>>
      \/ \E n : Receiving(n, content, TRUE)
      \/ Receiving(head.size, content, FALSE)
  BY <1>1, <1>3 DEF AfterHead, content
<1>5. \/ Receiving(0, <<>>, head.size > 0) /\ content = <<>> /\ ~(head.size > 0)
      \/ Receiving(head.size, content, FALSE)
  BY <1>4 DEF Receiving
<1>6. \E garbled : Receiving(head.size, content, garbled)
  <2>1. head.size > 0 \/ head.size = 0
    BY <1>3
  <2> QED BY <1>5, <2>1
<1> QED BY <1>1, <1>2, <1>3, <1>6, ContentRead DEF head

(* A read of the server leaves it where it says it is.                     *)
LEMMA ServerLengths ==
    ASSUME TypeOK, TypeOK', Roles, Turns, Frames, Lengths, ~shut,
           \/ Accept \/ Ping
           \/ \E got : \/ OnRegister(got) \/ OnSync(got) \/ OnFile(got) \/ OnOther(got)
                       \/ Pong(got) \/ ReadHead(got) \/ ReadRows(got)
           \/ \E c \in Commands : Send(c)
           \/ Close
    PROVE  Lengths'
<1>1. ASSUME server \in {"accept", "ping", "pong"}
      PROVE  ToSend = 0 /\ sender \notin {"file", "head", "rows"}
  <2>1. board \in {"answer", "exchange"}
    BY <1>1 DEF Turns, TypeOK, NobodyAsks
  <2> QED BY <2>1, NoFileSent
<1>2. CASE Accept \/ Ping
  <2>1. /\ server \in {"accept", "ping"} /\ server' \in {"ping", "pong", "idle"}
        /\ server' = "idle" => server = "ping"
        /\ UNCHANGED <<up, shut, sender, left, expect, misread>>
    BY <1>2 DEF Accept, Ping, senderVars, past, others
  <2>2. ToSend' = ToSend
    BY <2>1 DEF ToSend
  <2>3. ASSUME server' = "idle" PROVE up = <<>>
    <3>1. server = "ping"
      BY <2>1, <2>3
    <3>2. board \in {"answer", "exchange"}
      BY <3>1 DEF Turns, TypeOK, NobodyAsks
    <3>3. Registers \/ Accepts \/ Pinging \/ Pinged \/ Ponged \/ Clocked \/ Syncs \/ Lost
      BY <3>2 DEF Turns
    <3> QED BY <3>1, <3>3 DEF Registers, Accepts, Pinging, Pinged, Ponged, Clocked, Syncs, Lost
  <2>4. ASSUME server' = "idle" PROVE RowsAfter(up', 0, 0, 0)
    <3>1. up' \in Seq(Message)
      BY <2>1, Streams
    <3>2. RowsAfter(up', Len(up'), 0, 0)
      BY <3>1, EndRows
    <3>3. Len(up') = 0
      BY <2>1, <2>3, <2>4
    <3> QED BY <3>2, <3>3
  <2>5. Located'
    BY <1>1, <2>1, <2>2, <2>3, <2>4 DEF Located
  <2> QED BY <2>1, <2>2, <2>5 DEF Lengths
<1>3. ASSUME NEW got,
             \/ OnRegister(got) \/ OnSync(got) \/ OnFile(got) \/ OnOther(got)
             \/ Pong(got) \/ ReadHead(got) \/ ReadRows(got)
      PROVE  Lengths'
  <2>1. /\ ServerReads(server, got) /\ server \in {"idle", "pong", "head", "file"}
        /\ UNCHANGED <<shut, sender, left>>
    BY <1>3, ServerReadIs
  <2>2. /\ got \in Seq(Message) /\ Len(got) \in Nat /\ Len(got) >= 1 /\ 1 \in 1 .. Len(got)
        /\ \A i \in 1 .. Len(got) : got[i] = up[i] /\ got[i].kind \in Kinds(got)
        /\ up # <<>> /\ Len(got) <= Len(up) /\ Len(up) \in Nat
    <3>1. /\ got \in Seq(Message) /\ Len(got) \in 1 .. Len(up) /\ Len(up) \in Nat
          /\ \A i \in 1 .. Len(got) : got[i] = up[i]
      BY <2>1, ServerReadsIs, Streams
    <3>2. Kinds(got) = {got[i].kind : i \in 1 .. Len(got)}
      BY <3>1, KindsAre
    <3>3. up # <<>>
      BY <3>1
    <3> QED BY <3>1, <3>2, <3>3
  <2>3. ~misread' => Located'
    <3> SUFFICES ASSUME ~misread' PROVE Located'
      OBVIOUS
    <3>1. CASE OnRegister(got) \/ OnSync(got)
      BY <3>1 DEF OnRegister, OnSync, Located
    <3>2. CASE Pong(got)
      <4>1. server = "pong" /\ server' = IF "PONG" \in Kinds(got) THEN "ping" ELSE "idle"
        BY <3>2 DEF Pong, ServerReads
      <4>2. up = <<M("PONG")>>
        BY <2>2, <4>1 DEF Turns, TypeOK, NobodyAsks, Registers, Accepts, Pinging, Pinged, Ponged,
                          Clocked, Syncs, Lost
      <4>3. got[1].kind = "PONG"
        BY <2>2, <4>2 DEF M
      <4>4. server' = "ping"
        BY <2>2, <4>1, <4>3
      <4> QED BY <4>4 DEF Located
    <3>3. CASE OnOther(got)
      <4>1. /\ server = "idle" /\ misread' = misread
            /\ Kinds(got) \cap {"REGISTER", "FILE", "SYNC"} = {}
        BY <3>3 DEF OnOther, ServerReads
      <4>2. Located
        BY <4>1 DEF Lengths
      <4>3. up[1].kind \notin {"REGISTER", "FILE", "SYNC", "HEAD"} /\ 1 \in 1 .. Len(up)
        BY <2>2, <4>1, <4>2 DEF Located
      <4>4. up[1].kind # "ROW"
        <5>1. PICK c \in 0 .. Len(up) - 0 :
                 /\ \A j \in 0 + 1 .. 0 + c : up[j].kind = "ROW"
                 /\ IF 0 + c < Len(up) THEN 0 = c /\ up[0 + c + 1].kind # "ROW" ELSE 0 = c + ToSend
          BY <4>1, <4>2 DEF Located, RowsAfter
        <5>2. c = 0 /\ 0 + c < Len(up) /\ 0 + c + 1 = 1
          BY <2>2, <5>1, Streams DEF ToSend
        <5> QED BY <5>1, <5>2
      <4>5. up[1].kind = "PONG"
        BY <4>3, <4>4 DEF Lengths, Asking
      <4>6. FALSE
        <5>1. 1 = Len(up) /\ up[1].kind \in Asking
          BY <4>3, <4>5, AsksLast DEF Asking
        <5>2. Registers \/ Ponged \/ Syncs \/ NobodyAsks
          BY <2>2 DEF Turns, TypeOK, Accepts, Pinging, Pinged, Clocked, Lost
        <5>3. up[1].kind # "PONG"
          <6>1. Registers => up[1].kind = "REGISTER"
            BY DEF Registers, M
          <6>2. ~Ponged
            BY <4>1 DEF Ponged
          <6>3. Syncs => up[1].kind = "SYNC"
            BY <5>1 DEF Syncs
          <6>4. ~NobodyAsks
            BY <4>3, <5>1 DEF NobodyAsks, None
          <6> QED BY <5>2, <6>1, <6>2, <6>3, <6>4
        <5> QED BY <4>5, <5>3
      <4> QED BY <4>6
    <3>4. CASE OnFile(got)
      <4>1. /\ server = "idle"
            /\ \/ Receiving(Lots, Rest(got, 1), TRUE)
               \/ server' = "head"
               \/ /\ Len(got) # 1 /\ got[1].kind = "FILE"
                  /\ AfterHead(got[2], Rest(got, 2), TRUE)
        BY <3>4, OnFileIs
      <4>2. ~Receiving(Lots, Rest(got, 1), TRUE)
        BY DEF Receiving
      <4>3. CASE server' = "head"
        BY <4>3 DEF Located
      <4>4. CASE Len(got) # 1 /\ got[1].kind = "FILE" /\ AfterHead(got[2], Rest(got, 2), TRUE)
        <5>1. 2 \in 1 .. Len(got) /\ 1 \in 1 .. Len(up) /\ 1 # Len(up)
          <6> DEFINE k == Len(got)
                     n == Len(up)
          <6>1. k \in Nat /\ k >= 1 /\ k <= n /\ n \in Nat /\ k # 1
            BY <2>2, <4>4
          <6> HIDE DEF k, n
          <6>2. 2 \in 1 .. k /\ 1 \in 1 .. n /\ 1 # n
            BY <6>1
          <6> QED BY <6>2 DEF k, n
        <5>2. up[2].kind = "HEAD"
          <6>1. \A i \in 1 .. Len(up) :
                   up[i].kind = "FILE" /\ i # Len(up) => up[i + 1].kind = "HEAD"
            BY DEF Frames
          <6>2. up[1 + 1].kind = "HEAD"
            BY <2>2, <4>4, <5>1, <6>1
          <6> QED BY <6>2
        <5> QED BY <2>1, <4>4, <5>1, <5>2, HeadRead
      <4> QED BY <4>1, <4>2, <4>3, <4>4
    <3>5. CASE ReadHead(got)
      <4>1. server = "head" /\ AfterHead(got[1], Rest(got, 1), FALSE)
        BY <3>5 DEF ReadHead, ServerReads
      <4>2. up[1].kind = "HEAD"
        BY <2>2, <4>1 DEF Frames
      <4> QED BY <2>1, <2>2, <4>1, <4>2, HeadRead
    <3>6. CASE ReadRows(got)
      <4>1. server = "file" /\ Receiving(expect, got, FALSE)
        BY <3>6 DEF ReadRows, ServerReads
      <4>2. Located
        BY <4>1 DEF Receiving, Lengths
      <4>3. RowsAfter(up, 0, expect, ToSend) /\ expect \in 1 .. MaxRows
        BY <4>1, <4>2 DEF Located
      <4>4. /\ expect \in 0 .. MaxRows /\ expect # 0 /\ 0 \in 0 .. Len(got)
            /\ Len(got) = Len(got) - 0 /\ \A j \in 1 .. Len(got) : got[j] = got[0 + j]
        BY <2>2, <4>3
      <4> QED BY <2>1, <2>2, <4>1, <4>3, <4>4, ContentRead
    <3> QED BY <1>3, <3>1, <3>2, <3>3, <3>4, <3>5, <3>6
  <2>4. \A i \in 1 .. Len(up') :
              /\ up'[i].kind \in Asking \cup {"FILE", "HEAD", "ROW"}
              /\ up'[i].kind = "HEAD" => RowsAfter(up', i, up'[i].size, ToSend')
    BY <2>1, HeadsKept
  <2> QED BY <2>3, <2>4 DEF Lengths
<1>4. ASSUME NEW c \in Commands, Send(c) PROVE Lengths'
  <2>1. UNCHANGED <<up, server, expect, misread, shut, sender, left>>
    BY <1>4 DEF Send, senderVars, past, others
  <2> QED BY <2>1, LengthsStay DEF ToSend
<1>5. CASE Close
  <2>1. shut' /\ up' = <<>> /\ Len(<<>>) = 0
    BY <1>5 DEF Close, Shuts
  <2>2. 1 .. Len(up') = {}
    BY <2>1
  <2> QED BY <2>1, <2>2 DEF Lengths
<1> QED BY <1>2, <1>3, <1>4, <1>5

-----------------------------------------------------------------------------
(* The inductive invariant.                                                *)

(* A connection begins with nothing under way.                             *)
LEMMA StartHolds == Init => IInv
<1> SUFFICES ASSUME Init PROVE IInv
  OBVIOUS
<1>1. TypeOK
  <2>1. trials \in 1 .. Trials /\ rounds \in 0 .. Pings /\ left \in 0 .. MaxRows /\ expect \in 0 .. Lots
    BY LinkAssumption DEF Init, Lots
  <2>2. up \in Seq(Message) /\ down \in Seq(Message)
    BY DEF Init
  <2>3. missed \subseteq {"exchange", "led"}
    BY DEF Init
  <2> QED BY <2>1, <2>2, <2>3 DEF Init, TypeOK
<1>2. Roles
  BY DEF Init, Roles
<1>3. Turns
  BY DEF Init, Turns
<1>4. /\ up = <<>> /\ down = <<>> /\ Len(up) = 0 /\ 1 .. Len(up) = {} /\ 2 .. Len(up) = {}
      /\ 1 .. Len(down) = {} /\ up \in Seq(Message)
  BY DEF Init
<1>5. Frames
  BY <1>4 DEF Init, Frames
<1>6. Lengths
  <2>1. up \in Seq(Message)
    BY <1>4
  <2>2. RowsAfter(up, Len(up), 0, 0)
    BY <2>1, EndRows
  <2>3. Len(up) = 0 /\ ToSend = 0
    BY <1>4 DEF Init, ToSend
  <2>4. RowsAfter(up, 0, 0, ToSend)
    BY <2>2, <2>3
  <2> QED BY <1>4, <2>4 DEF Init, Lengths, Located
<1>7. Led
  BY <1>4 DEF Init, Led, None
<1> QED BY <1>1, <1>2, <1>3, <1>5, <1>6, <1>7 DEF IInv

(* So does the connection of a board that restarts.                        *)
LEMMA RestartHolds == Restart => IInv'
<1>1. Restart => Init'
  BY DEF Restart, Init
<1>2. (Init => IInv)'
  BY StartHolds, PTL
<1> QED BY <1>1, <1>2

(* The server does nothing once the connection is closed.                  *)
LEMMA ServerOpen ==
    ASSUME TypeOK, Roles,
           \/ Accept \/ Ping
           \/ \E got : \/ OnRegister(got) \/ OnSync(got) \/ OnFile(got) \/ OnOther(got)
                       \/ Pong(got) \/ ReadHead(got) \/ ReadRows(got)
           \/ \E c \in Commands : Send(c)
           \/ Close
    PROVE  ~shut
<1>1. CASE Accept \/ Ping
  BY <1>1 DEF Accept, Ping, Roles
<1>2. ASSUME NEW got,
             \/ OnRegister(got) \/ OnSync(got) \/ OnFile(got) \/ OnOther(got)
             \/ Pong(got) \/ ReadHead(got) \/ ReadRows(got)
      PROVE  ~shut
  BY <1>2, ServerReadIs
<1>3. CASE (\E c \in Commands : Send(c)) \/ Close
  BY <1>3 DEF Send, Close
<1> QED BY <1>1, <1>2, <1>3

(* A command that fails ends the connection, and the led is given up.      *)
LEMMA FailsHolds ==
    ASSUME TypeOK, Roles, Frames, NEW c, SendCommandFails(c)
    PROVE  IInv'
<1>1. /\ shut' = TRUE /\ server' = "gone" /\ up' = <<>> /\ blinking' \in BOOLEAN
      /\ missed' = missed \cup {"led"}
      /\ UNCHANGED <<down, board, started, trials, led, mutex, sender, left, known, rounds, expect>>
      /\ UNCHANGED <<misread, kept, emptied>>
  BY DEF SendCommandFails, Shuts, Believed, TypeOK, boardVars, senderVars, others
<1>2. TypeOK'
  BY <1>1 DEF TypeOK
<1>3. Roles'
  BY <1>1 DEF Roles
<1>4. Turns' /\ Led'
  BY <1>1 DEF Turns, Led
<1>5. Len(up') = 0 /\ 1 .. Len(up') = {} /\ 2 .. Len(up') = {}
  <2>1. Len(<<>>) = 0 /\ 1 .. 0 = {} /\ 2 .. 0 = {}
    OBVIOUS
  <2> QED BY <1>1, <2>1
<1>6. Frames' /\ Lengths'
  BY <1>1, <1>5 DEF Frames, Lengths
<1> QED BY <1>2, <1>3, <1>4, <1>6 DEF IInv

(* Every step keeps the invariant.                                         *)
LEMMA StepHolds == IInv /\ [Next]_vars => IInv'
<1> SUFFICES ASSUME IInv, [Next]_vars PROVE IInv'
  OBVIOUS
<1>1. TypeOK /\ Roles /\ Turns /\ Frames /\ Lengths /\ Led
  BY DEF IInv
<1>2. CASE Restart
  BY <1>2, RestartHolds
<1>3. CASE \/ Register \/ Retries \/ AskSync \/ TakeToSync
           \/ \E got : Registered(got) \/ Exchange(got) \/ Obey(got)
  <2>1. TypeOK'
    BY <1>1, <1>3, BoardTyped
  <2>2. Roles'
    BY <1>1, <1>3, BoardRoles
  <2>3. Turns'
    <3>1. shut' = shut
      BY <1>3 DEF Register, Retries, AskSync, TakeToSync, Registered, Exchange, Obey
    <3>2. Retries => shut
      BY DEF Retries, RegisterFails, Closed
    <3>3. CASE shut
      BY <3>1, <3>3 DEF Turns
    <3>4. CASE ~shut
      <4>1. \/ Register \/ AskSync \/ TakeToSync
            \/ \E got : Registered(got) \/ Exchange(got) \/ Obey(got)
        BY <1>3, <3>2, <3>4
      <4> QED BY <1>1, <3>4, <4>1, BoardTurns
    <3> QED BY <3>3, <3>4
  <2>4. Frames'
    BY <1>1, <1>3, BoardFrames
  <2>5. Lengths'
    BY <1>1, <1>3, <2>1, BoardLengths
  <2>6. Led'
    BY <1>1, <1>3, BoardLed
  <2> QED BY <2>1, <2>2, <2>3, <2>4, <2>5, <2>6 DEF IInv
<1>4. CASE FileReady \/ TakeToSend \/ SendFile \/ SendHead \/ SendRow \/ EndUpload
  <2>1. TypeOK'
    BY <1>1, <1>4, SenderTyped
  <2>2. Roles'
    BY <1>1, <1>4, SenderRoles
  <2>3. Turns'
    <3>1. shut' = shut
      BY <1>4 DEF FileReady, TakeToSend, SendFile, SendHead, SendRow, EndUpload, Writes
    <3>2. CASE shut
      BY <3>1, <3>2 DEF Turns
    <3>3. CASE ~shut
      BY <1>1, <1>4, <3>3, SenderTurns
    <3> QED BY <3>2, <3>3
  <2>4. Frames'
    BY <1>1, <1>4, SenderFrames
  <2>5. Lengths'
    BY <1>1, <1>4, <2>1, SenderLengths
  <2>6. Led'
    BY <1>1, <1>4, SenderLed
  <2> QED BY <2>1, <2>2, <2>3, <2>4, <2>5, <2>6 DEF IInv
<1>5. CASE \/ Accept \/ Ping
           \/ \E got : \/ OnRegister(got) \/ OnSync(got) \/ OnFile(got) \/ OnOther(got)
                       \/ Pong(got) \/ ReadHead(got) \/ ReadRows(got)
           \/ \E c \in Commands : Send(c)
           \/ Close
  <2>1. ~shut
    BY <1>1, <1>5, ServerOpen
  <2>2. TypeOK'
    BY <1>1, <1>5, ServerTyped
  <2>3. Roles'
    BY <1>1, <1>5, ServerRoles
  <2>4. Turns'
    BY <1>1, <1>5, <2>1, ServerTurns
  <2>5. Frames'
    BY <1>1, <1>5, ServerFrames
  <2>6. Lengths'
    BY <1>1, <1>5, <2>1, <2>2, ServerLengths
  <2>7. Led'
    BY <1>1, <1>5, ServerLed
  <2> QED BY <2>2, <2>3, <2>4, <2>5, <2>6, <2>7 DEF IInv
<1>6. CASE UNCHANGED vars \/ EmptyFile \/ FillFile
  <2>1. /\ UNCHANGED <<up, down, shut, board, started, trials, led, mutex, sender, left>>
        /\ UNCHANGED <<server, known, rounds, expect, blinking, missed, misread, kept>>
    BY <1>6 DEF EmptyFile, FillFile, vars, boardVars, senderVars, serverVars, past, others
  <2>2. Roles' /\ Frames'
    BY <1>1, <2>1 DEF Roles, Frames
  <2>6. emptied' \in BOOLEAN
    BY <1>1, <1>6 DEF EmptyFile, FillFile, vars, others, TypeOK
  <2>7. TypeOK'
    BY <1>1, <2>1, <2>6 DEF TypeOK
  <2>3. Turns'
    BY <1>1, <2>1 DEF Turns, Registers, Accepts, Pinging, Pinged, Ponged, Clocked, Syncs, Lost,
                      NobodyAsks, None, Once
  <2>4. Lengths'
    BY <1>1, <2>1, LengthsStay DEF ToSend
  <2>5. Led'
    BY <1>1, <2>1 DEF Led, None, LastOf
  <2> QED BY <2>2, <2>3, <2>4, <2>5, <2>7 DEF IInv
<1>7. \/ Restart
      \/ Register \/ Retries \/ AskSync \/ TakeToSync
      \/ \E got : Registered(got) \/ Exchange(got) \/ Obey(got)
      \/ FileReady \/ TakeToSend \/ SendFile \/ SendHead \/ SendRow \/ EndUpload
      \/ Accept \/ Ping
      \/ \E got : \/ OnRegister(got) \/ OnSync(got) \/ OnFile(got) \/ OnOther(got)
                  \/ Pong(got) \/ ReadHead(got) \/ ReadRows(got)
      \/ \E c \in Commands : Send(c)
      \/ Close \/ \E c \in About : SendCommandFails(c)
      \/ EmptyFile \/ FillFile
      \/ UNCHANGED vars
  BY Steps
<1>8. ASSUME NEW c \in About, SendCommandFails(c) PROVE IInv'
  BY <1>1, <1>8, FailsHolds DEF IInv
<1> QED BY <1>2, <1>3, <1>4, <1>5, <1>6, <1>7, <1>8

(* The invariant holds throughout.                                         *)
THEOREM AlwaysHolds == Spec => []IInv
  BY StartHolds, StepHolds, PTL DEF Spec

-----------------------------------------------------------------------------
(* The properties.                                                         *)

(* Type correctness: streams of messages, a place for each task and for the*)
(* callback, and numbers within their bounds.                              *)
THEOREM TypeCorrect == Spec => []TypeOK
<1>1. IInv => TypeOK
  BY DEF IInv
<1> QED BY <1>1, AlwaysHolds, PTL

(* As many rows are to come as the stream and the sender hold.             *)
LEMMA ToComeIs ==
    ASSUME TypeOK, NEW n, RowsAfter(up, 0, n, ToSend)
    PROVE  ToCome = n
<1> DEFINE L == Len(up)
           ends == {i \in 1 .. L : up[i].kind # "ROW"}
           first == CHOOSE i \in ends : \A j \in ends : i <= j
<1>1. up \in Seq(Message) /\ L \in Nat /\ DOMAIN up = 1 .. L /\ left \in Nat
  BY Streams
<1>2. PICK c \in 0 .. L - 0 :
         /\ \A j \in 0 + 1 .. 0 + c : up[j].kind = "ROW"
         /\ IF 0 + c < L THEN n = c /\ up[0 + c + 1].kind # "ROW" ELSE n = c + ToSend
  BY DEF RowsAfter
<1>3. Leading = IF ends = {} THEN L ELSE first - 1
  BY <1>1 DEF Leading
<1> HIDE DEF L
<1>4. Leading = c
  <2>1. CASE c < L
    <3>1. c + 1 \in ends
      BY <1>1, <1>2, <2>1
    <3>2. \A j \in ends : c + 1 <= j
      BY <1>1, <1>2
    <3>3. \A i \in ends : (\A j \in ends : i <= j) => i = c + 1
      BY <1>1, <1>2, <3>1, <3>2
    <3> HIDE DEF ends
    <3>4. first = c + 1
      BY <3>1, <3>2, <3>3
    <3> HIDE DEF first
    <3>5. Leading = (c + 1) - 1 /\ c \in Int
      BY <1>1, <1>2, <1>3, <3>1, <3>4
    <3> QED BY <3>5
  <2>2. CASE ~(c < L)
    <3>1. c = L /\ \A j \in 1 .. L : up[j].kind = "ROW"
      BY <1>1, <1>2, <2>2
    <3> QED BY <1>3, <3>1
  <2> QED BY <2>1, <2>2
<1>5. ToCome = c + (IF c = L /\ sender = "rows" THEN left ELSE 0)
  BY <1>4 DEF ToCome, L
<1> QED BY <1>1, <1>2, <1>5 DEF ToSend

(* The server is in step with the stream, for files of any length that are *)
(* read in any pieces: it awaits exactly the rows that are still to come,  *)
(* and stands before a request or at a header otherwise, unless it misread *)
(* a length or the start of a file (Protocol.cs:59-178).                   *)
THEOREM ServerInStep == Spec => []InStep
<1>1. IInv => InStep
  <2> SUFFICES ASSUME IInv, ~misread, ~shut
               PROVE  /\ server = "idle" => /\ ToCome = 0
                                            /\ up # <<>> => up[1].kind # "HEAD"
                      /\ server = "head" => IF up = <<>> THEN sender = "head"
                                                         ELSE up[1].kind = "HEAD"
                      /\ server = "file" => expect = ToCome
    BY DEF InStep
  <2>1. TypeOK /\ Frames /\ Located
    BY DEF IInv, Lengths
  <2>2. server = "idle" => /\ ToCome = 0
                           /\ up # <<>> => up[1].kind # "HEAD"
    <3>1. RowsAfter(up, 0, 0, ToSend) => ToCome = 0
      BY <2>1, ToComeIs
    <3> QED BY <2>1, <3>1 DEF Located
  <2>3. server = "file" => expect = ToCome
    <3>1. RowsAfter(up, 0, expect, ToSend) => ToCome = expect
      BY <2>1, ToComeIs
    <3> QED BY <2>1, <3>1 DEF Located
  <2> QED BY <2>1, <2>2, <2>3 DEF Frames
<1> QED BY <1>1, AlwaysHolds, PTL

(* Board and server never wait for one another with nothing under way,     *)
(* unless a message was forgotten that the exchange needs                  *)
(* (cmd_socket.c:133-179, Protocol.cs:180-232).                            *)
THEOREM NeverBothWait == Spec => []NoMutualWait
<1>1. IInv => NoMutualWait
  <2> SUFFICES ASSUME IInv, up = <<>>, down = <<>>, ~shut, board \in {"answer", "exchange"},
                      server \in {"idle", "pong", "head", "file"}
               PROVE  "exchange" \in missed
    BY DEF NoMutualWait
  <2>1. Turns
    BY DEF IInv
  <2>2. \A k : ~Once(down, k, Asked)
    BY DEF Once
  <2>3. Lost
    BY <2>1, <2>2 DEF Turns, Registers, Accepts, Pinging, Pinged, Ponged, Clocked, Syncs
  <2> QED BY <2>3 DEF Lost
<1> QED BY <1>1, AlwaysHolds, PTL

(* Once everything has arrived the led does what the server believes,      *)
(* however many commands are under way, unless one about it was forgotten, *)
(* or could not be sent, after which the server believes what it asked for *)
(* (main.c:426-470, Protocol.cs:243-331, StationHandler.cs:22-34).         *)
THEOREM LedAgrees == Spec => []LedFollows
<1>1. IInv => LedFollows
  <2> SUFFICES ASSUME IInv, Kinds(down) \cap About = {}, "led" \notin missed
               PROVE  led = blinking
    BY DEF LedFollows, About
  <2>1. Led /\ down \in Seq(Message)
    BY Streams DEF IInv
  <2>2. \A i \in 1 .. Len(down) : down[i].kind \notin About
    BY <2>1, KindsAre
  <2>3. \A k \in About : ~LastOf(down, About, k)
    BY <2>2 DEF LastOf
  <2> QED BY <2>1, <2>3 DEF Led
<1> QED BY <1>1, AlwaysHolds, PTL

=============================================================================
