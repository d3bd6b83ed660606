------------------------------ MODULE FileStore ------------------------------
(***************************************************************************)
(* What a caller of the file system may rely on: names and the bytes filed *)
(* under them.  A call that is done has made of its file exactly what it   *)
(* was asked to; one that is refused has changed nothing; one that breaks, *)
(* half way or without power, has done a part.  Every other file keeps its *)
(* bytes.  What a broken call leaves behind may make a file unclear - its  *)
(* pages no longer say what it holds - then or in a later call.            *)
(***************************************************************************)
EXTENDS Integers, Sequences

CONSTANTS Names, Missing, Unclear

VARIABLES
    files,    \* what is filed under each name
    open,     \* is the store mounted?
    last,     \* the last call and what came of it
    scarred,  \* has any call broken?
    marred    \* does a page in use hold a mixture of two writes?

fsVars == <<files, open, last, scarred, marred>>

Put(bytes, offset, data) ==
    LET at == IF offset > Len(bytes) THEN Len(bytes) ELSE offset
    IN [i \in 1 .. (IF at + Len(data) > Len(bytes) THEN at + Len(data) ELSE Len(bytes)) |->
           IF i - at \in 1 .. Len(data) THEN data[i - at] ELSE bytes[i]]
Prefixes(bytes) == {SubSeq(bytes, 1, k) : k \in 0 .. Len(bytes)}

\* What a call that is done makes of its file, and what one that breaks may.
Done(call, file) ==
    CASE call.op = "write"  -> IF file = Missing THEN file ELSE Put(file, call.at, call.data)
      [] call.op = "open"   -> IF file = Missing THEN <<>> ELSE file
      [] call.op = "empty"  -> <<>>
      [] call.op = "remove" -> Missing
Parts(call, file) ==
    CASE file = Missing    -> {Missing, <<>>}
      [] call.op = "write" -> {Put(file, call.at, data) : data \in Prefixes(call.data)}
      [] call.op = "open"  -> {file}
      [] OTHER             -> Prefixes(file) \cup {Done(call, file)}
Outcomes(call, file, answer) ==
    IF answer = "done" THEN {Done(call, file)} ELSE Parts(call, file)

\* With two writes in one page a file may be lost, but never has other bytes.
Lost(is) == (marred \/ marred') /\ is \in {Unclear, Missing}

\* A file outside the call keeps its bytes, or a call that breaks makes it unclear.
Kept(was, is) == \/ was = Unclear \/ is = was
                 \/ (last'.answer = "broken" /\ is = Unclear) \/ Lost(is)

\* A file of the call may also be unclear for what an earlier one has left behind.
Became(is, outcomes) == is \in outcomes \/ (scarred' /\ is = Unclear) \/ Lost(is)

OnOne(call, was, is) ==
    LET n == call.name IN
    /\ call.op \in {"write", "open", "empty", "remove"}
    /\ n \notin Names \/ was[n] = Unclear \/ Became(is[n], Outcomes(call, was[n], last'.answer))
    /\ \A m \in Names \ {n} : Kept(was[m], is[m])

Renamed(call, was, is) ==
    /\ call.op = "rename"
    /\ was[call.new] \in {Missing, Unclear}
    /\ \/ was[call.name] = Unclear
       \/ Became(is[call.name], {Missing}) /\ Became(is[call.new], {was[call.name]})
    /\ \A m \in Names \ {call.name, call.new} : Kept(was[m], is[m])

FileStoreInit == /\ open = FALSE /\ files = [n \in Names |-> Missing]
                 /\ scarred = FALSE /\ marred = FALSE

FileStoreNext == LET was == files IN LET is == files' IN
    /\ scarred' = (scarred \/ last'.answer = "broken")
    /\ \/ /\ last'.call.op = "nothing" \/ last'.answer # "done"
          /\ \A n \in Names : Kept(was[n], is[n])
       \/ /\ open /\ last'.answer # "refused"
          /\ OnOne(last'.call, was, is) \/ Renamed(last'.call, was, is)

FileStoreSpec == FileStoreInit /\ [][FileStoreNext]_fsVars
=============================================================================
