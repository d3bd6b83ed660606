------------------------------ MODULE BoardLink ------------------------------
(***************************************************************************)
(* The socket between a board and the server: registration, the exchange   *)
(* of the clock, uploads and commands (src/ESP32/main/cmd_socket.c and     *)
(* main.c on the board; Protocol.cs and Connection.cs on the server).      *)
(*                                                                         *)
(* TCP delivers a stream: a read returns any part of what has arrived, so  *)
(* that messages written one by one may be read together.  Both ends look  *)
(* for a word in what they have read and forget the rest.  A message is a  *)
(* record [kind, size, high]; size and high belong to the header of a file *)
(* (HEAD): its length in rows, and whether a byte of the length has its top*)
(* bit set, which does not survive the conversion to text.                 *)
(*                                                                         *)
(* A board that restarts connects anew: the state is that of one           *)
(* connection.  The sniffer, the other user of xMutex and of the files, is *)
(* in SnifferFiles: here it may be suspended with a lock the other tasks    *)
(* wait for, and may empty the file under an upload.                       *)
(***************************************************************************)
EXTENDS Integers, Sequences, FiniteSets

CONSTANTS
    Trials,      \* attempts to register
    Pings,       \* rounds of an exchange
    Commands,    \* commands a user or the hourly timer sends
    MaxRows,     \* bound on the rows of a file
    MaxFlight,   \* bound on the messages of a file under way
    MaxPending   \* bound on the messages under way to the board when a command is sent

ASSUME LinkAssumption ==
    /\ {Trials, Pings, MaxRows, MaxFlight, MaxPending} \subseteq Nat \ {0}
    /\ Commands \subseteq {"BLINK", "OKLED", "REBOOT", "SYNC", "STANDBY", "RESUME"}

VARIABLES
    up, down,    \* what is under way to the server, to the board
    shut,        \* has the server closed the connection?
    board,       \* where app_main is
    started,     \* do the sniffer and the sender run?
    trials,      \* attempts to register that are left
    mutex,       \* who holds xMutex
    sender,      \* where filesend_task is
    left,        \* rows it has to send
    kept,        \* does the sniffer keep a lock while it is suspended?
    emptied,     \* has the file under upload been emptied?
    led,         \* does the led blink (BLINK_TIME is 200)?
    server,      \* where the connection's callback is
    known,       \* has the board registered?
    rounds,      \* rounds of the exchange done
    expect,      \* toReceive, in rows
    blinking,    \* isBlinking
    missed,      \* history: what messages were about that were read with others and
                 \* forgotten, or could not be sent: an "exchange", the "led"
    misread      \* history: a length was misread, or the start of a file missed

boardVars == <<board, started, trials, led>>
senderVars == <<sender, left>>
serverVars == <<server, known, rounds, expect, blinking>>
past == <<missed, misread>>
others == <<kept, emptied>>
vars == <<up, down, shut, boardVars, mutex, senderVars, serverVars, past, others>>

M(kind) == [kind |-> kind, size |-> 0, high |-> FALSE]
Kinds(got) == {got[i].kind : i \in DOMAIN got}
Rest(stream, k) == SubSeq(stream, k + 1, Len(stream))
Start(stream, k) == SubSeq(stream, 1, k)

\* The messages an exchange cannot go on without (the server's SYNC is none: the
\* timer sends another), and those about the led.
Vital == {"PING", "CLOCK", "SYNC"}
About == {"BLINK", "OKLED"}
Concerns(kinds) == {x \in {"exchange", "led"} :
                       kinds \cap (IF x = "led" THEN About ELSE Vital) # {}}
Forgets(kinds) == missed' = missed \cup Concerns(kinds)

Sent(m) == up' = IF shut THEN up ELSE Append(up, m)
Answer(m) == down' = IF shut THEN down ELSE Append(down, m)

\* app_main up to the registration; what a new connection starts with.
Init ==
    /\ up = <<>> /\ down = <<>> /\ shut = FALSE
    /\ board = "register" /\ started = FALSE /\ trials = Trials /\ led = FALSE
    /\ mutex = "none" /\ sender = "wait" /\ left = 0 /\ kept = FALSE /\ emptied = FALSE
    /\ server = "idle" /\ known = FALSE /\ rounds = 0 /\ expect = 0 /\ blinking = FALSE
    /\ missed = {} /\ misread = FALSE

\* esp_restart: the access point lost, a write that failed or timed out, REBOOT.
Restart ==
    /\ up' = <<>> /\ down' = <<>> /\ shut' = FALSE
    /\ board' = "register" /\ started' = FALSE /\ trials' = Trials /\ led' = FALSE
    /\ mutex' = "none" /\ sender' = "wait" /\ left' = 0 /\ kept' = FALSE /\ emptied' = FALSE
    /\ server' = "idle" /\ known' = FALSE /\ rounds' = 0 /\ expect' = 0 /\ blinking' = FALSE
    /\ missed' = {} /\ misread' = FALSE

-----------------------------------------------------------------------------
\* The board: app_main.

\* A read: all of them block until something has arrived.
BoardReads(pc, got) == /\ board = pc
                       /\ \E k \in 1 .. Len(down) : got = Start(down, k) /\ down' = Rest(down, k)
Parts(stream) == {Start(stream, k) : k \in 1 .. Len(stream)}
Closed(pc) == board = pc /\ shut /\ down = <<>>

\* client_register takes whatever it reads for the answer.
Register == /\ board = "register"
            /\ board' = "answer"
            /\ Sent(M("REGISTER"))
            /\ UNCHANGED <<down, shut, started, trials, led, mutex, senderVars, serverVars, past, others>>

Registered(got) ==
    /\ BoardReads("answer", got)
    /\ board' = "exchange"
    /\ Forgets(Kinds(got) \ {"SYNC"})
    /\ UNCHANGED <<up, shut, started, trials, led, mutex, senderVars, serverVars, misread, others>>

\* A mutant: the attempts are not limited.
RetryForEver ==
    /\ Closed("answer")
    /\ board' = "register" /\ trials' = trials - 1
    /\ UNCHANGED <<up, down, shut, started, led, mutex, senderVars, serverVars, past, others>>

RegisterFails ==
    /\ Closed("answer")
    /\ IF trials = 1 THEN Restart
       ELSE /\ board' = "register" /\ trials' = trials - 1
            /\ UNCHANGED <<up, down, shut, started, led, mutex, senderVars, serverVars, past, others>>

\* client_timesync: a PING is answered, a CLOCK ends the exchange, all else is lost.
\* The time is only found in a CLOCK that the read begins with.  The first exchange
\* leads to the command loop and starts the tasks; a later one returns the semaphore.
Timed(got) == got[1].kind = "CLOCK"
Untimed(got) == "CLOCK" \in Kinds(got) /\ ~Timed(got)

Exchange(got) ==
    /\ BoardReads("exchange", got)
    /\ ~(started /\ Untimed(got))
    /\ IF "PING" \in Kinds(got) THEN Sent(M("PONG")) ELSE UNCHANGED up
    /\ Forgets(Kinds(got) \ ({"PING", "SYNC"} \cup (IF Timed(got) THEN {"CLOCK"} ELSE {})))
    /\ IF Timed(got)
       THEN /\ board' = "idle" /\ started' = TRUE
            /\ mutex' = IF started THEN "none" ELSE mutex
       ELSE UNCHANGED <<board, started, mutex>>
    /\ UNCHANGED <<shut, trials, led, senderVars, serverVars, misread, others>>

\* A later exchange without a time restarts the board.  The first one tests for -1,
\* which client_timesync never returns, finds the clock still unset and tries again.
ExchangeFails ==
    /\ started
    /\ Closed("exchange") \/ (board = "exchange" /\ \E got \in Parts(down) : Untimed(got))
    /\ Restart

\* The command loop carries out one command of a read, the first of these.
Order == <<"BLINK", "OKLED", "REBOOT", "SYNC", "STANDBY", "RESUME">>
Chosen(got) == LET found == {i \in DOMAIN Order : Order[i] \in Kinds(got)}
               IN IF found = {} THEN "none" ELSE Order[CHOOSE i \in found : \A j \in found : i <= j]

\* A mutant: OKLED is not told from other commands.
LitOn(c) == c = "BLINK" \/ led

Lit(c) == c = "BLINK" \/ (led /\ c # "OKLED")

\* STANDBY suspends the sniffer wherever it is: it may hold xMutex, or the lock of
\* the file system.  (Where it holds none, its files stay as they are, which it may
\* leave them anyhow.)
Suspended(c) == kept' \in CASE c = "STANDBY" -> {kept, TRUE}
                            [] c = "RESUME" -> {FALSE}
                            [] OTHER -> {kept}

Obey(got) ==
    LET c == Chosen(got) IN
    /\ BoardReads("idle", got)
    /\ c # "REBOOT"
    /\ board' = IF c = "SYNC" THEN "take" ELSE "idle"
    /\ led' = Lit(c) /\ Suspended(c)
    /\ Forgets(Kinds(got) \ {c, "SYNC"})
    /\ UNCHANGED <<up, shut, started, trials, mutex, senderVars, serverVars, misread, emptied>>
ObeyReboot == board = "idle" /\ (\E got \in Parts(down) : Chosen(got) = "REBOOT") /\ Restart
CommandsEnd == Closed("idle") /\ Restart

\* A mutant: the semaphore is not waited for.
TakeAnyway ==
    /\ board = "take"
    /\ board' = "ask" /\ mutex' = "main"
    /\ UNCHANGED <<up, down, shut, started, trials, led, senderVars, serverVars, past, others>>

TakeToSync ==
    /\ board = "take" /\ mutex = "none"
    /\ board' = "ask" /\ mutex' = "main"
    /\ UNCHANGED <<up, down, shut, started, trials, led, senderVars, serverVars, past, others>>

AskSync == /\ board = "ask"
           /\ board' = "exchange"
           /\ Sent(M("SYNC"))
           /\ UNCHANGED <<down, shut, started, trials, led, mutex, senderVars, serverVars, past, others>>

-----------------------------------------------------------------------------
\* The board: filesend_task, and send_sniffed_packages.

FileReady == /\ started /\ sender = "wait"
             /\ sender' = "take"
             /\ UNCHANGED <<up, down, shut, boardVars, mutex, left, serverVars, past, others>>

TakeToSend == /\ sender = "take" /\ mutex = "none"
              /\ sender' = "file" /\ mutex' = "sender"
              /\ UNCHANGED <<up, down, shut, boardVars, left, serverVars, past, others>>

\* A write waits while the stream is full.
Writes(pc, next, m) == /\ sender = pc /\ Len(up) < MaxFlight
                       /\ sender' = next
                       /\ Sent(m)
                       /\ UNCHANGED <<down, shut, boardVars, mutex, serverVars, past, others>>

SendFile == /\ Writes("file", "head", M("FILE"))
            /\ left' \in 0 .. MaxRows
SendHead == /\ \E high \in BOOLEAN : /\ left > 0 \/ ~high
                                     /\ Writes("head", "rows", [kind |-> "HEAD", size |-> left, high |-> high])
            /\ UNCHANGED left
\* The sniffer opens the file under upload to fill it again.  fread then returns
\* nothing, and the loop goes on and on, until there are rows in the file again.
EmptyFile == /\ sender = "rows" /\ left > 0 /\ ~emptied /\ ~kept
             /\ emptied' = TRUE
             /\ UNCHANGED <<up, down, shut, boardVars, mutex, senderVars, serverVars, past, kept>>
FillFile == /\ emptied /\ ~kept
            /\ emptied' = FALSE
            /\ UNCHANGED <<up, down, shut, boardVars, mutex, senderVars, serverVars, past, kept>>

SendRow == /\ left > 0 /\ ~emptied
           /\ Writes("rows", "rows", M("ROW"))
           /\ left' = left - 1

\* A mutant: the semaphore stays taken.
KeepMutex == /\ sender = "rows" /\ left = 0
             /\ sender' = "wait"
             /\ UNCHANGED <<up, down, shut, boardVars, mutex, left, serverVars, past, others>>

EndUpload == /\ sender = "rows" /\ left = 0
             /\ sender' = "wait" /\ mutex' = "none"
             /\ UNCHANGED <<up, down, shut, boardVars, left, serverVars, past, others>>

SendFails == sender \in {"file", "head", "rows"} /\ shut /\ Restart

-----------------------------------------------------------------------------
\* The server: ReceiveCallback and Command.

ServerReads(pc, got) == /\ server = pc
                        /\ \E k \in 1 .. Len(up) : got = Start(up, k) /\ up' = Rest(up, k)

\* REGISTER: a window for the board opens, ACCEPT is sent, and an exchange starts.
OnRegister(got) ==
    /\ ServerReads("idle", got) /\ "REGISTER" \in Kinds(got)
    /\ server' = "accept" /\ known' = TRUE
    /\ UNCHANGED <<down, shut, boardVars, mutex, senderVars, rounds, expect, blinking, past, others>>

Accept == /\ server = "accept"
          /\ server' = "ping" /\ rounds' = 0
          /\ Answer(M("ACCEPT"))
          /\ UNCHANGED <<up, shut, boardVars, mutex, senderVars, known, expect, blinking, past, others>>

OnSync(got) ==
    /\ ServerReads("idle", got)
    /\ "SYNC" \in Kinds(got) /\ Kinds(got) \cap {"REGISTER", "FILE"} = {}
    /\ server' = "ping" /\ rounds' = 0
    /\ UNCHANGED <<down, shut, boardVars, mutex, senderVars, known, expect, blinking, past, others>>

\* ESP_SyncClock: rounds of PING and PONG, then the clock; anything but a PONG ends it.
Ping == /\ server = "ping"
        /\ IF rounds < Pings THEN Answer(M("PING")) /\ server' = "pong"
                             ELSE Answer(M("CLOCK")) /\ server' = "idle"
        /\ UNCHANGED <<up, shut, boardVars, mutex, senderVars, known, rounds, expect, blinking, past, others>>

Pong(got) ==
    /\ ServerReads("pong", got)
    /\ IF "PONG" \in Kinds(got) THEN server' = "ping" /\ rounds' = rounds + 1
                                ELSE server' = "idle" /\ UNCHANGED rounds
    /\ Forgets(Kinds(got))
    /\ UNCHANGED <<down, shut, boardVars, mutex, senderVars, known, expect, blinking, misread, others>>

\* No request: nothing happens.
OnOther(got) ==
    /\ ServerReads("idle", got)
    /\ Kinds(got) \cap {"REGISTER", "FILE", "SYNC"} = {}
    /\ Forgets(Kinds(got))
    /\ UNCHANGED <<down, shut, boardVars, mutex, senderVars, serverVars, misread, others>>

\* Half a billion bytes or more: no board ever sends so many.
Lots == MaxRows + 2

\* A mutant: one message of the content is still waited for.
OneMore(n, content) == n - Len(content) + 1

Missing(n, content) == IF n = Lots THEN Lots ELSE n - Len(content)

\* A file of which content was read so far, and n rows announced.  What was read
\* behind its end is taken for content.
Receiving(n, content, garbled) ==
    LET missing == Missing(n, content) IN
    /\ expect' = IF missing > 0 THEN missing ELSE 0
    /\ server' = IF missing > 0 THEN "file" ELSE "idle"
    /\ Forgets(Kinds(content))
    /\ misread' = (misread \/ garbled \/ "FILE" \in Kinds(content))

\* FILE: the length is in the 14 bytes of the header, whose text must come first:
\* else other bytes, of a row, are taken for it (Lots).  Header bytes of the first
\* read have gone through a text, which turns one with its top bit into three
\* others; a read that ends with the header leaves the length at 0.
AfterHead(head, content, first) ==
    IF content = <<>> THEN Receiving(0, <<>>, head.size > 0)
    ELSE IF first /\ head.high
         THEN \E n \in {head.size - 1, head.size + 1} : Receiving(n, content, TRUE)
         ELSE Receiving(head.size, content, FALSE)

OnFile(got) ==
    /\ ServerReads("idle", got)
    /\ "FILE" \in Kinds(got) /\ "REGISTER" \notin Kinds(got)
    /\ CASE got[1].kind # "FILE" -> Receiving(Lots, Rest(got, 1), TRUE)
         [] Len(got) = 1 -> server' = "head" /\ UNCHANGED <<expect, missed, misread>>
         [] OTHER -> AfterHead(got[2], Rest(got, 2), TRUE)
    /\ UNCHANGED <<down, shut, boardVars, mutex, senderVars, known, rounds, blinking, others>>

ReadHead(got) ==
    /\ ServerReads("head", got)
    /\ AfterHead(got[1], Rest(got, 1), FALSE)
    /\ UNCHANGED <<down, shut, boardVars, mutex, senderVars, known, rounds, blinking, others>>

ReadRows(got) ==
    /\ ServerReads("file", got)
    /\ Receiving(expect, got, FALSE)
    /\ UNCHANGED <<down, shut, boardVars, mutex, senderVars, known, rounds, blinking, others>>

\* The window, the user or the hourly timer sends a command, on a thread of its own.
Believed(c) == blinking' = (c = "BLINK" \/ (blinking /\ c # "OKLED"))

Send(c) == /\ known /\ ~shut /\ Len(down) < MaxPending
           /\ Answer(M(c))
           /\ Believed(c)
           /\ UNCHANGED <<up, shut, boardVars, mutex, senderVars, server, known, rounds, expect, past, others>>

\* A handler that fails, or the end of the program, closes the connection.
Shuts == shut' = TRUE /\ server' = "gone" /\ up' = <<>>

Close == /\ ~shut /\ Shuts
         /\ UNCHANGED <<down, boardVars, mutex, senderVars, known, rounds, expect, blinking, past, others>>

\* So does a command that cannot be sent.  isBlinking is set all the same.  (Of other
\* commands that fail, Close is all there is to see.)
SendCommandFails(c) ==
    /\ known /\ Shuts
    /\ Believed(c)
    /\ missed' = missed \cup {"led"}
    /\ UNCHANGED <<down, boardVars, mutex, senderVars, known, rounds, expect, misread, others>>

-----------------------------------------------------------------------------
BoardStep == \/ Register \/ RegisterFails \/ ExchangeFails \/ CommandsEnd \/ AskSync
             \/ \E got \in Parts(down) : Registered(got) \/ Exchange(got) \/ Obey(got)
             \/ ObeyReboot
SenderStep == SendFile \/ SendHead \/ SendRow \/ EndUpload \/ SendFails
ServerStep == \/ Ping
              \/ \E got \in Parts(up) : \/ OnRegister(got) \/ OnSync(got) \/ OnFile(got)
                                        \/ OnOther(got) \/ Pong(got)
                                        \/ ReadHead(got) \/ ReadRows(got)

Next == \/ BoardStep \/ TakeToSync
        \/ SenderStep \/ TakeToSend \/ FileReady
        \/ EmptyFile \/ FillFile
        \/ ServerStep \/ Accept \/ Close
        \/ \E c \in Commands : Send(c)
        \/ \E c \in Commands \cap About : SendCommandFails(c)
        \/ Restart

Spec == Init /\ [][Next]_vars

\* The callback goes on whenever it can, and so does each task of the board, which
\* gets the semaphore it waits for if it becomes free again and again, but for what a
\* suspended sniffer keeps.  Nothing is owed by users, by the sniffer, by the UI
\* thread, which the callback waits for in Accept, and by the program's end.
Fairness == /\ WF_vars(ServerStep)
            /\ SF_vars(BoardStep \/ (TakeToSync /\ ~kept))
            /\ SF_vars((SenderStep \/ TakeToSend) /\ ~kept)

FairSpec == Spec /\ Fairness

-----------------------------------------------------------------------------
Kind == {"REGISTER", "ACCEPT", "PING", "PONG", "CLOCK", "FILE", "HEAD", "ROW"} \cup
        {Order[i] : i \in DOMAIN Order}
Message == [kind : Kind, size : 0 .. MaxRows, high : BOOLEAN]

TypeOK ==
    /\ up \in Seq(Message) /\ down \in Seq(Message) /\ shut \in BOOLEAN
    /\ board \in {"register", "answer", "exchange", "idle", "take", "ask"}
    /\ started \in BOOLEAN /\ trials \in 1 .. Trials /\ led \in BOOLEAN
    /\ mutex \in {"none", "main", "sender"}
    /\ sender \in {"wait", "take", "file", "head", "rows"} /\ left \in 0 .. MaxRows
    /\ server \in {"idle", "accept", "ping", "pong", "head", "file", "gone"}
    /\ known \in BOOLEAN /\ rounds \in 0 .. Pings /\ expect \in 0 .. Lots
    /\ kept \in BOOLEAN /\ emptied \in BOOLEAN
    /\ blinking \in BOOLEAN /\ missed \subseteq {"exchange", "led"} /\ misread \in BOOLEAN

\* The server is in step with the stream: between requests it stands before a
\* request, in a file it waits for exactly the rows that are still to come, unless
\* it has misread a length (a header that ends a read, or whose length has a top
\* bit set) or taken the start of a file for content.
Leading == LET ends == {i \in DOMAIN up : up[i].kind # "ROW"}
           IN IF ends = {} THEN Len(up) ELSE (CHOOSE i \in ends : \A j \in ends : i <= j) - 1
ToCome == Leading + (IF Leading = Len(up) /\ sender = "rows" THEN left ELSE 0)
InStep == (~misread /\ ~shut) =>
    /\ server = "idle" => /\ ToCome = 0
                          /\ up # <<>> => up[1].kind # "HEAD"
    /\ server = "head" => IF up = <<>> THEN sender = "head" ELSE up[1].kind = "HEAD"
    /\ server = "file" => expect = ToCome

\* Board and server never wait for one another with nothing under way, unless a
\* PING, a CLOCK or the board's SYNC was read together with something else and
\* forgotten (ACCEPT and the first PING; a command and the CLOCK; the end of a file
\* and a SYNC), however commands, uploads and exchanges interleave.
NoMutualWait ==
    (up = <<>> /\ down = <<>> /\ ~shut /\ board \in {"answer", "exchange"}
     /\ server \in {"idle", "pong", "head", "file"})
    => "exchange" \in missed

\* Once everything has arrived the led does what the server believes it does,
\* unless a command about it was forgotten or could not be sent.
LedFollows ==
    (started /\ Kinds(down) \cap About = {} /\ "led" \notin missed) => led = blinking

\* Every registration and exchange ends, with the command loop or a restart, but
\* for the messages NoMutualWait names, a first exchange whose connection is closed,
\* a registration that waits for the UI thread, and an exchange that waits for the
\* semaphore while a suspended sniffer keeps a lock or the upload before it reads
\* from an emptied file.  It includes waiting for the semaphore behind uploads.
ExchangesEnd ==
    board \in {"answer", "take", "ask", "exchange"} ~>
        \/ board \in {"idle", "register"}
        \/ "exchange" \in missed
        \/ board = "exchange" /\ ~started /\ shut
        \/ server = "accept"
        \/ board = "take" /\ (kept \/ emptied)

\* cmd_socket.c:135 says of client_timesync that it returns 0 when it fails, and
\* main.c:455 answers a failed exchange with a restart: "Sync Fail... RETRYING!".
FailedExchangeEnds == (board = "exchange" /\ shut) ~> board # "exchange"
=============================================================================
