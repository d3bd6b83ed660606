---------------------------- MODULE RecencyQueue ----------------------------
(***************************************************************************)
(* What ConcurrentDictionaryStack promises its callers: a dictionary that  *)
(* remembers in which order its keys were last inserted or updated, and    *)
(* hands them back oldest first ("elements are sorted under the insertion  *)
(* and update order in FIFO fashion", ConcurrentDictionaryStack.cs:13).    *)
(* Packets waiting for their other receptions and the devices being        *)
(* tracked both live in one.                                               *)
(*                                                                         *)
(* The order is kept as a function, see Recency: older[k] is the set of    *)
(* the keys whose last insertion or update came before the one of k.       *)
(***************************************************************************)
EXTENDS Recency

CONSTANTS Keys,      \* what elements are stored under
          Data,      \* what an element may be
          Nothing    \* the null a call returns when it has no element to return

VARIABLES older,     \* for each stored key, the stored keys older than it
          content,   \* for each stored key, its element
          out        \* what the last call returned: [what, key, data]

queueVars == <<older, content, out>>

Result(w, k, d) == [what |-> w, key |-> k, data |-> d]
NoResult(w)     == Result(w, Nothing, Nothing)

-----------------------------------------------------------------------------
Init ==
    /\ older = [k \in {} |-> {}]
    /\ content = [k \in {} |-> Nothing]
    /\ out = NoResult("start")

(* An insertion or an update makes the key the newest one.                 *)
Put(k, d) ==
    /\ older' = Touched(older, k)
    /\ content' = Stored(content, k, d)
    /\ out' = Result("stored", k, d)

(* An update that completes its element takes it out at once.              *)
Complete(k, d) ==
    /\ older' = Dropped(older, k)
    /\ content' = Forgotten(content, k)
    /\ out' = Result("completed", k, d)

Remove(k) ==
    /\ k \in DOMAIN older
    /\ older' = Dropped(older, k)
    /\ content' = Forgotten(content, k)
    /\ out' = Result("removed", k, content[k])

(* A pop takes the oldest element and no other.                            *)
Pop(k) ==
    /\ IsOldest(older, k)
    /\ older' = Dropped(older, k)
    /\ content' = Forgotten(content, k)
    /\ out' = Result("popped", k, content[k])

(* A look at the head shows the oldest element and leaves it there.        *)
Peek(k) ==
    /\ IsOldest(older, k)
    /\ out' = Result("peeked", k, content[k])
    /\ UNCHANGED <<older, content>>

Get(k) ==
    /\ k \in DOMAIN older
    /\ out' = Result("found", k, content[k])
    /\ UNCHANGED <<older, content>>

(* A lookup or a removal of a key that is not stored finds nothing.        *)
Miss(k) ==
    /\ k \notin DOMAIN older
    /\ out' = NoResult("missing")
    /\ UNCHANGED <<older, content>>

(* The head of the queue is absent only when nothing is stored.            *)
Empty ==
    /\ DOMAIN older = {}
    /\ out' = NoResult("empty")
    /\ UNCHANGED <<older, content>>

Next ==
    \/ \E k \in Keys, d \in Data : Put(k, d) \/ Complete(k, d)
    \/ \E k \in Keys : Remove(k) \/ Pop(k) \/ Peek(k) \/ Get(k) \/ Miss(k)
    \/ Empty

Spec == Init /\ [][Next]_queueVars
=============================================================================
