----------------------------- MODULE ModelLoading -----------------------------
(***************************************************************************)
(* The three model managers of one process: ModelManager (image),          *)
(* TextModelManager and ModelManagerCrossEncoder.  Each loads its model on *)
(* first use with double-checked locking; callers are thread-pool threads  *)
(* that then run inference with what get_model returned.  A manager is     *)
(* asked for one name, the one its embedding service was built with.       *)
(***************************************************************************)
EXTENDS Naturals

CONSTANTS
    Threads,
    Managers,   \* subset of {"image", "text", "reranker"}
    None,
    MaxFails    \* how many loads may fail

\* What the values of the constants must satisfy.
ConstantsOK ==
    /\ Managers \subseteq {"image", "text", "reranker"}
    /\ None \notin Threads
    /\ MaxFails \in Nat

VARIABLES
    lock,    \* _lock of each manager: the thread that holds it
    cache,   \* _models of each manager: which load it holds, 0 for none
    loads,   \* history: how often the manager's loader returned a model
    pc,      \* where each thread is
    asks,    \* the manager it calls
    model,   \* the model it got or is loading
    fails

vars == <<lock, cache, loads, pc, asks, model, fails>>

Loading == {"load", "processor", "publish"}
Inside == Loading \cup {"recheck", "warmup", "leave"}
Labels == Inside \cup {"idle", "acquire", "using"}

Init ==
    /\ lock = [m \in Managers |-> None]
    /\ cache = [m \in Managers |-> 0]
    /\ loads = [m \in Managers |-> 0]
    /\ pc = [t \in Threads |-> "idle"]
    /\ asks \in [Threads -> Managers]
    /\ model = [t \in Threads |-> 0]
    /\ fails = 0

At(t, l) == pc[t] = l
GoTo(t, l) == pc' = [pc EXCEPT ![t] = l]
Holds(t, n) == model' = [model EXCEPT ![t] = n]

\* The look without the lock.
Lookup(t, m) ==
    /\ At(t, "idle")
    /\ asks' = [asks EXCEPT ![t] = m]
    /\ IF cache[m] # 0
         THEN GoTo(t, "using") /\ Holds(t, cache[m])
         ELSE GoTo(t, "acquire") /\ UNCHANGED model
    /\ UNCHANGED <<lock, cache, loads, fails>>

Acquire(t) ==
    /\ At(t, "acquire") /\ lock[asks[t]] = None
    /\ lock' = [lock EXCEPT ![asks[t]] = t]
    /\ GoTo(t, "recheck")
    /\ UNCHANGED <<cache, loads, asks, model, fails>>

\* Mutant: the second look is left out.
Recheck_Skipped(t) ==
    /\ At(t, "recheck")
    /\ GoTo(t, "load")
    /\ UNCHANGED <<lock, cache, loads, asks, model, fails>>

Recheck(t) ==
    /\ At(t, "recheck")
    /\ IF cache[asks[t]] # 0
         THEN GoTo(t, "leave") /\ Holds(t, cache[asks[t]])
         ELSE GoTo(t, "load") /\ UNCHANGED model
    /\ UNCHANGED <<lock, cache, loads, asks, fails>>

\* The loader returns; only the image manager loads a processor as well.
Load(t) ==
    /\ At(t, "load")
    /\ loads' = [loads EXCEPT ![asks[t]] = @ + 1]
    /\ Holds(t, loads[asks[t]] + 1)
    /\ GoTo(t, IF asks[t] = "image" THEN "processor" ELSE "publish")
    /\ UNCHANGED <<lock, cache, asks, fails>>

LoadProcessor(t) ==
    /\ At(t, "processor")
    /\ GoTo(t, "publish")
    /\ UNCHANGED <<lock, cache, loads, asks, model, fails>>

\* From here the look without the lock finds the model.
Publish(t) ==
    /\ At(t, "publish")
    /\ cache' = [cache EXCEPT ![asks[t]] = model[t]]
    /\ GoTo(t, IF asks[t] = "reranker" THEN "warmup" ELSE "leave")
    /\ UNCHANGED <<lock, loads, asks, model, fails>>

\* A warm-up that fails is ignored.
Warmup(t) ==
    /\ At(t, "warmup")
    /\ GoTo(t, "leave")
    /\ UNCHANGED <<lock, cache, loads, asks, model, fails>>

Leave(t) ==
    /\ At(t, "leave")
    /\ lock' = [lock EXCEPT ![asks[t]] = None]
    /\ GoTo(t, "using")
    /\ UNCHANGED <<cache, loads, asks, model, fails>>

\* Mutant: acquire and release without "with": an exception keeps the lock.
LoadFails_KeepsLock(t) ==
    /\ pc[t] \in {"load", "processor"} /\ fails < MaxFails
    /\ fails' = fails + 1
    /\ GoTo(t, "idle")
    /\ UNCHANGED <<lock, cache, loads, asks, model>>

\* A loader raises: the exception leaves the with block and reaches the caller.
LoadFails(t) ==
    /\ pc[t] \in {"load", "processor"} /\ fails < MaxFails
    /\ fails' = fails + 1
    /\ lock' = [lock EXCEPT ![asks[t]] = None]
    /\ GoTo(t, "idle")
    /\ UNCHANGED <<cache, loads, asks, model>>

\* Inference ends, with a result or an error.
Predict(t) ==
    /\ At(t, "using")
    /\ GoTo(t, "idle")
    /\ UNCHANGED <<lock, cache, loads, asks, model, fails>>

-----------------------------------------------------------------------------
Working(t) ==
    \/ Acquire(t)
    \/ Recheck(t)
    \/ Load(t)
    \/ LoadProcessor(t)
    \/ Publish(t)
    \/ Warmup(t)
    \/ Leave(t)
    \/ LoadFails(t)
    \/ Predict(t)

Next == \E t \in Threads : Working(t) \/ \E m \in Managers : Lookup(t, m)

Spec == Init /\ [][Next]_vars

\* The operating system runs every thread that can run.
Fairness == \A t \in Threads : WF_vars(Working(t))

FairSpec == Spec /\ Fairness

-----------------------------------------------------------------------------
TypeOK ==
    /\ lock \in [Managers -> Threads \cup {None}]
    /\ cache \in [Managers -> Nat]
    /\ loads \in [Managers -> Nat]
    /\ pc \in [Threads -> Labels]
    /\ asks \in [Threads -> Managers]
    /\ model \in [Threads -> Nat]
    /\ fails \in 0..MaxFails

\* A thread holds a manager's lock exactly while it is between acquire and
\* release of that manager.
LockInside ==
    \A t \in Threads, m \in Managers : lock[m] = t <=> pc[t] \in Inside /\ asks[t] = m

\* A model that is loaded is never loaded a second time, however many threads
\* missed it before ("concurrent callers requesting the same not-yet-loaded
\* model only trigger one real load").
NoSecondLoad == \A t \in Threads : pc[t] \in Loading => cache[asks[t]] = 0

\* All callers of a manager run inference on one and the same model.
OneModelForAll ==
    \A t \in Threads : pc[t] = "using" => model[t] # 0 /\ model[t] = cache[asks[t]]

\* A caller is never stuck behind the lock: it gets the model or the error of
\* its own load, although loads before it may have failed.
CallersReturn == \A t \in Threads : pc[t] = "acquire" ~> pc[t] \in {"using", "idle"}

\* The inductive strengthening: what a loader or a reader inside holds.
HandsOff ==
    /\ \A m \in Managers : cache[m] <= loads[m]
    /\ \A t \in Threads :
         /\ pc[t] \in {"processor", "publish"} => model[t] = loads[asks[t]] /\ model[t] # 0
         /\ pc[t] \in {"warmup", "leave"} => model[t] = cache[asks[t]] /\ model[t] # 0

IInv == TypeOK /\ LockInside /\ NoSecondLoad /\ OneModelForAll /\ HandsOff

=============================================================================
