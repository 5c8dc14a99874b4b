--------------------------- MODULE CollectionSetup ---------------------------
(***************************************************************************)
(* QdrantVectorStore._ensure_collection for one collection: several store  *)
(* objects (every service builds its own, in every process), each with its *)
(* own ready flag and lock, set up one collection in Qdrant.  A caller is  *)
(* an upsert, search, delete, exists or retrieve; every one of them calls  *)
(* _ensure_collection first and is called again after an error (a retried  *)
(* job, the next request).                                                 *)
(***************************************************************************)
EXTENDS Naturals, FiniteSets

CONSTANTS
    Callers,
    Stores,
    StoreOf,     \* the store object each caller uses
    None,
    Fields,      \* payload fields to index
    MaxFaults    \* requests to Qdrant that fail

\* What the values of the constants must satisfy.
ConstantsOK ==
    /\ StoreOf \in [Callers -> Stores]
    /\ None \notin Callers
    /\ IsFiniteSet(Fields)
    /\ MaxFaults \in Nat

VARIABLES
    exists,    \* the collection exists in Qdrant
    indexed,   \* fields with a payload index
    ready,     \* _collection_ready of each store
    lock,      \* _collection_locks of each store
    pc,
    faults

vars == <<exists, indexed, ready, lock, pc, faults>>

Inside == {"recheck", "check", "create", "index", "flag", "leave"}
Labels == Inside \cup {"idle", "acquire", "operate", "raised"}

Init ==
    /\ exists \in BOOLEAN
    /\ indexed = IF exists THEN Fields ELSE {}
    /\ ready = [s \in Stores |-> FALSE]
    /\ lock = [s \in Stores |-> None]
    /\ pc = [c \in Callers |-> "idle"]
    /\ faults = 0

At(c, l) == pc[c] = l
GoTo(c, l) == pc' = [pc EXCEPT ![c] = l]
Release(c) == lock' = [lock EXCEPT ![StoreOf[c]] = None]

Begin(c) ==
    /\ At(c, "idle")
    /\ GoTo(c, IF ready[StoreOf[c]] THEN "operate" ELSE "acquire")
    /\ UNCHANGED <<exists, indexed, ready, lock, faults>>

Acquire(c) ==
    /\ At(c, "acquire") /\ lock[StoreOf[c]] = None
    /\ lock' = [lock EXCEPT ![StoreOf[c]] = c]
    /\ GoTo(c, "recheck")
    /\ UNCHANGED <<exists, indexed, ready, faults>>

Recheck(c) ==
    /\ At(c, "recheck")
    /\ GoTo(c, IF ready[StoreOf[c]] THEN "leave" ELSE "check")
    /\ UNCHANGED <<exists, indexed, ready, lock, faults>>

\* collection_exists
CheckExists(c) ==
    /\ At(c, "check")
    /\ GoTo(c, IF exists THEN "index" ELSE "create")
    /\ UNCHANGED <<exists, indexed, ready, lock, faults>>

\* create_collection: Qdrant refuses a name that exists by now.
Create(c) ==
    /\ At(c, "create")
    /\ exists' = TRUE
    /\ IF exists THEN GoTo(c, "raised") /\ Release(c)
                 ELSE GoTo(c, "index") /\ UNCHANGED lock
    /\ UNCHANGED <<indexed, ready, faults>>

\* Errors of create_payload_index are swallowed, whatever they are.
EnsureFacetIndexes(c) ==
    /\ At(c, "index")
    /\ \E lost \in SUBSET Fields :
         /\ faults + Cardinality(lost) <= MaxFaults
         /\ faults' = faults + Cardinality(lost)
         /\ indexed' = indexed \cup (Fields \ lost)
    /\ GoTo(c, "flag")
    /\ UNCHANGED <<exists, ready, lock>>

SetReady(c) ==
    /\ At(c, "flag")
    /\ ready' = [ready EXCEPT ![StoreOf[c]] = TRUE]
    /\ GoTo(c, "leave")
    /\ UNCHANGED <<exists, indexed, lock, faults>>

Leave(c) ==
    /\ At(c, "leave")
    /\ Release(c)
    /\ GoTo(c, "operate")
    /\ UNCHANGED <<exists, indexed, ready, faults>>

\* Mutant: the flag is raised in a finally clause.
RequestFails_Finally(c) ==
    /\ pc[c] \in {"check", "create"} /\ faults < MaxFaults
    /\ faults' = faults + 1
    /\ ready' = [ready EXCEPT ![StoreOf[c]] = TRUE]
    /\ Release(c)
    /\ GoTo(c, "raised")
    /\ UNCHANGED <<exists, indexed>>

\* Mutant: the lock is not released on the way out.
RequestFails_KeepsLock(c) ==
    /\ pc[c] \in {"check", "create"} /\ faults < MaxFaults
    /\ faults' = faults + 1
    /\ GoTo(c, "raised")
    /\ UNCHANGED <<exists, indexed, ready, lock>>

\* The first two requests raise VectorStoreException; a creation may have
\* had its effect all the same.
RequestFails(c) ==
    /\ pc[c] \in {"check", "create"} /\ faults < MaxFaults
    /\ faults' = faults + 1
    /\ exists' \in {exists, exists \/ At(c, "create")}
    /\ Release(c)
    /\ GoTo(c, "raised")
    /\ UNCHANGED <<indexed, ready>>

\* The caller's own request, or the handling of its error.
Finish(c) ==
    /\ pc[c] \in {"operate", "raised"}
    /\ GoTo(c, "idle")
    /\ UNCHANGED <<exists, indexed, ready, lock, faults>>

-----------------------------------------------------------------------------
Ensure(c) ==
    \/ Begin(c)
    \/ Acquire(c)
    \/ Recheck(c)
    \/ CheckExists(c)
    \/ Create(c)
    \/ EnsureFacetIndexes(c)
    \/ SetReady(c)
    \/ Leave(c)
    \/ RequestFails(c)
    \/ Finish(c)

Next == \E c \in Callers : Ensure(c)

Spec == Init /\ [][Next]_vars

\* Requests and jobs keep coming, and threads run.
Fairness == \A c \in Callers : WF_vars(Ensure(c))

FairSpec == Spec /\ Fairness

-----------------------------------------------------------------------------
TypeOK ==
    /\ exists \in BOOLEAN
    /\ indexed \subseteq Fields
    /\ ready \in [Stores -> BOOLEAN]
    /\ lock \in [Stores -> Callers \cup {None}]
    /\ pc \in [Callers -> Labels]
    /\ faults \in 0..MaxFaults

LockInside ==
    \A c \in Callers, s \in Stores : lock[s] = c <=> pc[c] \in Inside /\ StoreOf[c] = s

\* No request is sent to a collection that does not exist, whatever failed or
\* raced while it was set up.
OperatesOnExisting == \A c \in Callers : pc[c] = "operate" => exists

\* A set-up that failed is made again by a later call, and succeeds: the flag
\* stays down and the lock is free.
SetUpRecovers == \A c \in Callers : pc[c] = "raised" ~> ready[StoreOf[c]]

-----------------------------------------------------------------------------
\* A caller that is past the check, or may skip it, has a collection to go to.
Reached ==
    /\ \A c \in Callers : pc[c] \in {"index", "flag", "leave", "operate"} => exists
    /\ \A s \in Stores : ready[s] => exists

\* What every step keeps.
SetUp == TypeOK /\ LockInside /\ Reached

=============================================================================
