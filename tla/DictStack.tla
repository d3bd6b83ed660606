------------------------------ MODULE DictStack ------------------------------
(***************************************************************************)
(* ConcurrentDictionaryStack (src/Server/ConcurrentDictionaryStack.cs): a  *)
(* dictionary whose nodes are also chained in a doubly linked list, from   *)
(* the oldest inserted or updated element (first) to the newest (last).    *)
(*                                                                         *)
(* Every method that changes the structure runs under the write lock of a  *)
(* ReaderWriterLockSlim, so one method is one step; pop is the exception:  *)
(* on an empty structure it returns without releasing the lock.  A node    *)
(* is identified by its key: when a key is removed its node becomes        *)
(* garbage, and a later insertion starts a new node with null pointers.    *)
(* Callers' functions are abstract: an updater yields any element, a       *)
(* condition either answer, and the key extractor the key of the node,     *)
(* which is how both users of the class call it (Packet.Hash,              *)
(* Device.identifier).                                                     *)
(*                                                                         *)
(* older is a history variable: the code does not keep it.  It records in  *)
(* which order the keys were last inserted or updated, so that what the    *)
(* pointers say can be compared with what happened.                        *)
(***************************************************************************)
EXTENDS Naturals

CONSTANTS Keys, Data, Null

ASSUME NullAssumption == Null \notin Keys

VARIABLES mapper,    \* the dictionary: key -> value of its node
          first,     \* the head of the chain, the oldest node
          last,      \* the tail of the chain, the newest node
          next,      \* per node, the node after it
          prec,      \* per node, the node before it
          locker,    \* TRUE while no method holds the write lock
          out,       \* what the last call returned
          older      \* history: for each stored key, the keys older than it

chain == <<first, last, next, prec>>
vars  == <<mapper, first, last, next, prec, locker, out, older>>

Q == INSTANCE RecencyQueue WITH content <- mapper, Nothing <- Null

Mapped == DOMAIN mapper

Init ==
    /\ mapper = [k \in {} |-> Null]
    /\ first = Null
    /\ last = Null
    /\ next = [k \in Keys |-> Null]
    /\ prec = [k \in Keys |-> Null]
    /\ locker = TRUE
    /\ out = Q!NoResult("start")
    /\ older = [k \in {} |-> {}]

-----------------------------------------------------------------------------
(* The pointers of the node of k: those it has, or null in a new node.     *)
NodePtr(ptr, k) == IF k \in Mapped THEN ptr ELSE [ptr EXCEPT ![k] = Null]

(* shiftPositionInternal: the node of k becomes the last one.  nx and pr   *)
(* are the pointers of the nodes, the node of k included.                  *)
NewFirst_NotMoved(k, nx) == IF first = Null THEN k ELSE first   \* mutant

NewFirst(k, nx) ==
    IF first = Null THEN k
    ELSE IF first = k /\ nx[k] # Null THEN nx[k] ELSE first

SetIf(ptr, n, v) == IF n = Null THEN ptr ELSE [ptr EXCEPT ![n] = v]

ShiftPosition(k, nx, pr) ==
    /\ first' = NewFirst(k, nx)
    /\ last' = k
    /\ \/ /\ pr[k] = Null /\ nx[k] = Null /\ last # k     \* a new node
          /\ next' = SetIf(nx, last, k)
          /\ prec' = [pr EXCEPT ![k] = last]
       \/ /\ last = k                                     \* already last
          /\ next' = nx
          /\ prec' = pr
       \/ /\ ~(pr[k] = Null /\ nx[k] = Null) /\ last # k  \* unlink, append
          /\ next' = SetIf([SetIf(nx, pr[k], nx[k]) EXCEPT ![k] = Null], last, k)
          /\ prec' = [SetIf(pr, nx[k], pr[k]) EXCEPT ![k] = last]

(* removeInternal: the node of k leaves the chain, if it was in it.        *)
Unlink(k, nx, pr) ==
    IF pr[k] # Null \/ nx[k] # Null
    THEN /\ first' = IF pr[k] = Null THEN nx[k] ELSE first
         /\ last' = IF nx[k] = Null THEN pr[k] ELSE last
         /\ next' = SetIf(nx, pr[k], nx[k])
         /\ prec' = SetIf(pr, nx[k], pr[k])
    ELSE /\ IF first = k /\ last = k
            THEN first' = Null /\ last' = Null
            ELSE UNCHANGED <<first, last>>
         /\ next' = nx
         /\ prec' = pr

RemoveInternal(k, nx, pr) ==
    /\ mapper' = Q!Forgotten(mapper, k)
    /\ Unlink(k, nx, pr)
    /\ older' = Q!Dropped(older, k)

-----------------------------------------------------------------------------
(* Mutants of Upsert: a new node whose value is never set, an update that  *)
(* leaves the node where it is.                                            *)
Upsert_NoValue(k, d) ==
    /\ locker
    /\ mapper' = Q!Stored(mapper, k, IF k \in Mapped THEN d ELSE Null)
    /\ ShiftPosition(k, NodePtr(next, k), NodePtr(prec, k))
    /\ older' = Q!Touched(older, k)
    /\ out' = Q!Result("stored", k, d)
    /\ UNCHANGED locker

Upsert_InPlace(k, d) ==
    /\ locker
    /\ mapper' = Q!Stored(mapper, k, d)
    /\ IF k \in Mapped THEN UNCHANGED chain
       ELSE ShiftPosition(k, NodePtr(next, k), NodePtr(prec, k))
    /\ older' = Q!Touched(older, k)
    /\ out' = Q!Result("stored", k, d)
    /\ UNCHANGED locker

(* d is the value of the node after the call: the given one for a new key, *)
(* whatever the updater makes of both for a stored one.                    *)
Upsert(k, d) ==
    /\ locker
    /\ mapper' = Q!Stored(mapper, k, d)
    /\ ShiftPosition(k, NodePtr(next, k), NodePtr(prec, k))
    /\ older' = Q!Touched(older, k)
    /\ out' = Q!Result("stored", k, d)
    /\ UNCHANGED locker

(* The condition holds of the updated value: the element leaves again.     *)
UpsertAndRemove(k, d) ==
    /\ locker
    /\ RemoveInternal(k, NodePtr(next, k), NodePtr(prec, k))
    /\ out' = Q!Result("completed", k, d)
    /\ UNCHANGED locker

UpsertAndConditionallyRemove(k, d) == Upsert(k, d) \/ UpsertAndRemove(k, d)

Remove(k) ==
    /\ locker
    /\ IF k \in Mapped
       THEN /\ RemoveInternal(k, next, prec)
            /\ out' = Q!Result("removed", k, mapper[k])
       ELSE /\ out' = Q!NoResult("missing")
            /\ UNCHANGED <<mapper, chain, older>>
    /\ UNCHANGED locker

(* pop of an empty structure returns null with the write lock held.        *)
PopEmpty ==
    /\ locker
    /\ first = Null
    /\ locker' = FALSE
    /\ out' = Q!NoResult("empty")
    /\ UNCHANGED <<mapper, chain, older>>

(* Mutant: every way out of pop keeps the lock.                            *)
PopFirst_KeepsLock ==
    /\ locker
    /\ first # Null
    /\ RemoveInternal(first, next, prec)
    /\ out' = Q!Result("popped", first, mapper[first])
    /\ locker' = FALSE

PopFirst ==
    /\ locker
    /\ first # Null
    /\ RemoveInternal(first, next, prec)
    /\ out' = Q!Result("popped", first, mapper[first])
    /\ UNCHANGED locker

Pop == PopEmpty \/ PopFirst

PopConditional(holds) ==
    /\ locker
    /\ \/ /\ first = Null
          /\ out' = Q!NoResult("empty")
          /\ UNCHANGED <<mapper, chain, older>>
       \/ /\ first # Null /\ holds
          /\ RemoveInternal(first, next, prec)
          /\ out' = Q!Result("popped", first, mapper[first])
       \/ /\ first # Null /\ ~holds
          /\ out' = Q!Result("peeked", first, mapper[first])
          /\ UNCHANGED <<mapper, chain, older>>
    /\ UNCHANGED locker

Peek ==
    /\ locker
    /\ out' = IF first = Null THEN Q!NoResult("empty")
              ELSE Q!Result("peeked", first, mapper[first])
    /\ UNCHANGED <<mapper, chain, locker, older>>

(* getKey takes no lock: it answers even after one has been lost.          *)
GetKey(k) ==
    /\ out' = IF k \in Mapped THEN Q!Result("found", k, mapper[k])
              ELSE Q!NoResult("missing")
    /\ UNCHANGED <<mapper, chain, locker, older>>

Next ==
    \/ \E k \in Keys, d \in Data : UpsertAndConditionallyRemove(k, d)
    \/ \E k \in Keys : Remove(k) \/ GetKey(k)
    \/ \E holds \in BOOLEAN : PopConditional(holds)
    \/ Pop
    \/ Peek

Spec == Init /\ [][Next]_vars

-----------------------------------------------------------------------------
TypeOK ==
    /\ Mapped \subseteq Keys
    /\ mapper \in [Mapped -> Data]
    /\ first \in Keys \cup {Null}
    /\ last \in Keys \cup {Null}
    /\ next \in [Keys -> Keys \cup {Null}]
    /\ prec \in [Keys -> Keys \cup {Null}]
    /\ locker \in BOOLEAN

(* older is a strict total order of the stored keys.                       *)
AgeOrder ==
    /\ DOMAIN older = Mapped
    /\ \A k \in Mapped : older[k] \subseteq Mapped \ {k}
    /\ \A j, k \in Mapped : j # k => (j \in older[k] <=> k \notin older[j])
    /\ \A j, k \in Mapped : j \in older[k] => older[j] \subseteq older[k]

(* The head of the chain is the oldest stored key, its tail the newest,    *)
(* and both are null exactly when nothing is stored.                       *)
EndsOfChain ==
    /\ first = Null <=> Mapped = {}
    /\ last = Null <=> Mapped = {}
    /\ first # Null => first \in Mapped /\ older[first] = {}
    /\ last # Null => last \in Mapped /\ \A k \in Mapped : last \notin older[k]

(* next leads from a key to the one inserted or updated right after it.    *)
NextIsNewer ==
    \A k \in Mapped :
        IF k = last THEN next[k] = Null
        ELSE next[k] \in Mapped /\ older[next[k]] = older[k] \cup {k}

(* prec is the inverse of next.                                            *)
PrecIsInverse ==
    \A k \in Mapped :
        IF k = first THEN prec[k] = Null
        ELSE prec[k] \in Mapped /\ next[prec[k]] = k

(* The chain represents the order of the last insertions and updates: the  *)
(* pointers of every stored node, however it came to its place, agree with *)
(* what the class comment promises (ConcurrentDictionaryStack.cs:13).      *)
Linked ==
    /\ AgeOrder
    /\ EndsOfChain
    /\ NextIsNewer
    /\ PrecIsInverse

(* The lock that pop leaves held on an empty structure (lines 181-184)     *)
(* never hides an element: from then on the structure stays empty.         *)
LeakFreezesOnlyEmpty == ~locker => Mapped = {} /\ first = Null

(* Calls return what an age-ordered queue returns: pop, popConditional and *)
(* peek the element untouched for the longest, the other calls the element *)
(* of their key.                                                           *)
ImplementsQueue == Q!Spec
=============================================================================
