----------------------------- MODULE WorkerPool -----------------------------
(***************************************************************************)
(* The workers of backend/app/workers: each worker process runs one        *)
(* WorkerManager, which runs some ProductWorker loops and one recovery     *)
(* loop against the shared RedisQueue.  A worker takes one job, reports    *)
(* progress, runs ProductService.process_upload (which ends in two upserts *)
(* to the vector store), and completes or fails the attempt.               *)
(*                                                                         *)
(* Spec is a calm system: processing may fail or take longer than the job  *)
(* timeout and processes may be stopped and started, but Redis answers and *)
(* no process dies.  OutageSpec adds Redis errors and crashes.  Every      *)
(* fault has a budget.                                                     *)
(*                                                                         *)
(* Abstracted: the poll and recovery intervals (a loop may always look     *)
(* again), metrics and analytics, and the warm-up of the recommendation    *)
(* cache, which touches no state of this module and whose failure is       *)
(* swallowed.                                                              *)
(***************************************************************************)
EXTENDS RedisQueue

CONSTANTS
    Procs,   \* worker processes
    Home,    \* the process each loop runs in
    Budget   \* how many times each kind of fault may happen

Faults == {"late", "stop", "crash", "error"}

ASSUME HomeAssumption == Home \in [Actors -> Procs]
ASSUME BudgetAssumption == Budget \in [Faults -> Nat]

VARIABLES
    proc,     \* is the process up, stopping (stop_event set) or down
    product,  \* which of the product's vectors are in the vector store
    spilled,  \* history: jobs an outage caught between two lists
    used      \* faults so far

vars == <<queueVars, proc, product, spilled, used>>

\* A worker has claimed the job it holds, as far as it knows.
Claimed == {"mark"} \cup AttemptLabels \cup CompleteLabels \cup {"failing"}

\* The job is on no list and under no claim: only the actor's memory has it.
HandOff == {"repush", "load", "claim", "rescheduling", "delaying", "burying",
            "entombing"}

Init ==
    /\ QueueInit
    /\ proc = [p \in Procs |-> "up"]
    /\ product = [j \in Jobs |-> "absent"]
    /\ spilled = {}
    /\ used = [f \in Faults |-> 0]

Spend(f) ==
    /\ used[f] < Budget[f]
    /\ used' = [used EXCEPT ![f] = @ + 1]

-----------------------------------------------------------------------------
(* One attempt (ProductWorker.process_one after the dequeue).              *)

\* _report_progress saves the worker's own copy of the job, status RUNNING.
Report(c, here, next) ==
    /\ pc[c] = here
    /\ Save(hand[c], "RUNNING", count[c])
    /\ Goto(c, next)
    /\ UNCHANGED <<pending, processing, delayed, dead, upload, hand, count, todo>>
    /\ UNCHANGED <<proc, product, spilled, used>>

\* process_upload up to and including upsert_image: the stages before it
\* (checksum, image processing, embeddings, enrichment, duplicate check,
\* normalization) touch no state of this module.  Then upsert_text.
IndexImage(c) ==
    /\ pc[c] = "pipeline"
    /\ product' = [product EXCEPT ![hand[c]] = IF @ = "absent" THEN "image" ELSE @]
    /\ Goto(c, "indexing")
    /\ UNCHANGED <<store, upload, hand, count, todo, proc, spilled, used>>

IndexText(c) ==
    /\ pc[c] = "indexing"
    /\ product' = [product EXCEPT ![hand[c]] = "both"]
    /\ Goto(c, "caching")
    /\ UNCHANGED <<store, upload, hand, count, todo, proc, spilled, used>>

\* Mutant: the exception is swallowed.
PipelineFails_Swallowed(c) ==
    /\ pc[c] \in {"pipeline", "indexing"}
    /\ Goto(c, "caching")
    /\ UNCHANGED <<store, upload, hand, count, todo, proc, product, spilled, used>>

\* process_upload raises, before the first upsert or in between the two.
PipelineFails(c) ==
    /\ pc[c] \in {"pipeline", "indexing"}
    /\ Goto(c, "failing")
    /\ UNCHANGED <<store, upload, hand, count, todo, proc, product, spilled, used>>

\* The operations of the queue leave the state of this module alone.
QueueOp(A) == A /\ UNCHANGED <<proc, product, spilled, used>>

-----------------------------------------------------------------------------
(* WorkerManager: the loops look at stop_event between two jobs or sweeps. *)

Running(c) == proc[Home[c]] = "up"

\* Mutant: stop() cancels the loops instead of waiting for them.
LeaveLoop_Cancelled(c) ==
    /\ pc[c] # "exited" /\ ~Running(c)
    /\ Release(c, "exited")
    /\ UNCHANGED <<store, upload, count, todo, proc, product, spilled, used>>

LeaveLoop(c) ==
    /\ pc[c] = "idle" /\ ~Running(c)
    /\ Goto(c, "exited")
    /\ UNCHANGED <<store, upload, hand, count, todo, proc, product, spilled, used>>

\* SIGTERM sets the event.
Stop(p) ==
    /\ proc[p] = "up"
    /\ Spend("stop")
    /\ proc' = [proc EXCEPT ![p] = "stopping"]
    /\ UNCHANGED <<queueVars, product, spilled>>

\* stop() has gathered every loop and the process ends.
Exit(p) ==
    /\ proc[p] = "stopping"
    /\ \A c \in Actors : Home[c] = p => pc[c] = "exited"
    /\ proc' = [proc EXCEPT ![p] = "down"]
    /\ UNCHANGED <<queueVars, product, spilled, used>>

\* Started again: the loops are created afresh.
Start(p) ==
    /\ proc[p] = "down"
    /\ proc' = [proc EXCEPT ![p] = "up"]
    /\ pc' = [c \in Actors |-> IF Home[c] = p THEN "idle" ELSE pc[c]]
    /\ UNCHANGED <<store, upload, hand, count, todo, product, spilled, used>>

\* A claim passes the job timeout.  A worker may still be at work on the job
\* (Overrun, a "late" fault) or be gone (Expire).
Attended(j) == \E w \in Workers : hand[w] = j /\ pc[w] \in Claimed

Age(j) ==
    /\ processing[j] = "fresh"
    /\ processing' = [processing EXCEPT ![j] = "stale"]
    /\ UNCHANGED <<pending, delayed, dead, rec, upload, callers, proc, product, spilled>>

Overrun(j) == Attended(j) /\ Spend("late") /\ Age(j)
Expire(j) == ~Attended(j) /\ Age(j) /\ UNCHANGED used

-----------------------------------------------------------------------------
(* Outages.                                                                *)

\* A Redis error in one of _report_progress's saves is caught like any other
\* failure of the attempt, and counts as one.
ErrorInAttempt(c) ==
    /\ pc[c] \in {"validating", "processing", "caching"}
    /\ Spend("error")
    /\ Goto(c, "failing")
    /\ UNCHANGED <<store, upload, hand, count, todo, proc, product, spilled>>

\* Anywhere else it escapes to the loop, which logs it and goes on; whatever
\* job the actor was working on is forgotten.
ErrorOutside(c) ==
    /\ pc[c] \notin {"idle", "exited"} \cup AttemptLabels
    /\ Spend("error")
    /\ spilled' = IF pc[c] \in HandOff THEN spilled \cup {hand[c]} ELSE spilled
    /\ todo' = [todo EXCEPT ![c] = {}]
    /\ Release(c, "idle")
    /\ UNCHANGED <<store, upload, count, proc, product>>

\* The RPUSH of enqueue fails, or the API process dies before it: the client
\* gets an error, the record stays.
RefuseUpload(j) ==
    /\ upload[j] = "recorded"
    /\ Spend("error")
    /\ upload' = [upload EXCEPT ![j] = "refused"]
    /\ UNCHANGED <<store, callers, proc, product, spilled>>

\* The process is killed: every loop in it is gone.
Crash(p) ==
    /\ proc[p] # "down"
    /\ Spend("crash")
    /\ proc' = [proc EXCEPT ![p] = "down"]
    /\ spilled' = spilled \cup
         {hand[c] : c \in {d \in Actors : Home[d] = p /\ pc[d] \in HandOff}}
    /\ pc' = [c \in Actors |-> IF Home[c] = p THEN "exited" ELSE pc[c]]
    /\ hand' = [c \in Actors |-> IF Home[c] = p THEN None ELSE hand[c]]
    /\ todo' = [c \in Actors |-> IF Home[c] = p THEN {} ELSE todo[c]]
    /\ UNCHANGED <<store, upload, count, product>>

-----------------------------------------------------------------------------
WorkerStep(w) ==
    \/ Running(w) /\ QueueOp(ScanDue(w))
    \/ QueueOp(RemoveDue(w))
    \/ QueueOp(PushDue(w))
    \/ QueueOp(PopEmpty(w))
    \/ QueueOp(PopJob(w))
    \/ QueueOp(Load(w))
    \/ QueueOp(Claim(w))
    \/ QueueOp(MarkRunning(w))
    \/ Report(w, "validating", "processing")
    \/ Report(w, "processing", "pipeline")
    \/ Report(w, "caching", "completing")
    \/ IndexImage(w)
    \/ IndexText(w)
    \/ PipelineFails(w)
    \/ QueueOp(SaveComplete(w))
    \/ QueueOp(Ack(w))

RecovererStep(r) ==
    \/ Running(r) /\ QueueOp(ScanClaims(r))
    \/ QueueOp(SweepNext(r))
    \/ QueueOp(SweepDone(r))

\* retry is called by both kinds of loop.
RetryStep(c) ==
    \/ QueueOp(Unclaim(c))
    \/ QueueOp(SaveRetrying(c))
    \/ QueueOp(Delay(c))
    \/ QueueOp(SaveFailed(c))
    \/ QueueOp(Bury(c))

ActorStep(c) ==
    \/ c \in Workers /\ WorkerStep(c)
    \/ c \in Recoverers /\ RecovererStep(c)
    \/ RetryStep(c)
    \/ LeaveLoop(c)

JobStep(j) ==
    \/ QueueOp(SaveUpload(j))
    \/ QueueOp(PushUpload(j))
    \/ QueueOp(BecomeDue(j))
    \/ Overrun(j)
    \/ Expire(j)

ProcStep(p) == Stop(p) \/ Exit(p) \/ Start(p)

Next ==
    \/ \E c \in Actors : ActorStep(c)
    \/ \E j \in Jobs : JobStep(j)
    \/ \E p \in Procs : ProcStep(p)

Outage ==
    \/ \E c \in Actors : ErrorInAttempt(c) \/ ErrorOutside(c)
    \/ \E j \in Jobs : RefuseUpload(j)
    \/ \E p \in Procs : Crash(p)

Spec == Init /\ [][Next]_vars
OutageSpec == Init /\ [][Next \/ Outage]_vars

\* A loop that can take a step is scheduled, clocks run, an upload request
\* goes on, and a process that is down is started again.
Fairness ==
    /\ \A c \in Actors : WF_vars(ActorStep(c))
    /\ \A j \in Jobs : WF_vars(QueueOp(PushUpload(j))) /\ WF_vars(QueueOp(BecomeDue(j)))
                         /\ WF_vars(Expire(j))
    /\ \A p \in Procs : WF_vars(Exit(p)) /\ WF_vars(Start(p))

FairSpec == Spec /\ Fairness
FairOutageSpec == OutageSpec /\ Fairness

-----------------------------------------------------------------------------
(* Properties.                                                             *)

\* Every variable has its type.
TypeOK ==
    /\ QueueTypeOK
    /\ proc \in [Procs -> {"up", "stopping", "down"}]
    /\ product \in [Jobs -> {"absent", "image", "both"}]
    /\ spilled \in SUBSET Jobs
    /\ used \in [Faults -> Nat]

Finished(j) == rec[j].status \in {"COMPLETED", "FAILED"}

\* An actor that will still put the job somewhere or save its outcome.
Responsible(c, j) == hand[c] = j /\ pc[c] \notin {"acking", "entombing"}

Entombing(c, j) == hand[c] = j /\ pc[c] = "entombing"

\* The job is done, or something in Redis or in a live actor leads to it.
Accounted(j) ==
    \/ rec[j].status = "COMPLETED"
    \/ rec[j].status = "FAILED" /\ (InDead(j) \/ \E c \in Actors : Entombing(c, j))
    \/ InPending(j)
    \/ delayed[j] # "absent"
    \/ processing[j] # "absent"
    \/ \E c \in Actors : Responsible(c, j)

\* "Never lose a job" (redis_queue.py:20), in a calm system: a job whose
\* upload got its 202 is done or is still on its way to be, however the
\* workers and recoverers interleave and however late some of them are.
NoJobLost == \A j \in Jobs : upload[j] = "accepted" => Accounted(j)

\* With outages, only a job that was between two lists when they struck can
\* be unaccounted for; a job under a claim is always recoverable.
LossOnlyInHandOff ==
    \A j \in Jobs : upload[j] = "accepted" /\ j \notin spilled => Accounted(j)

\* No list, claim or actor ever names a job without a record, so dequeue and
\* the recovery sweep never meet their "had no record" branches.
RecordBeforeQueue ==
    \A j \in Jobs :
        InPending(j) \/ InDead(j) \/ delayed[j] # "absent" \/ processing[j] # "absent"
          \/ (\E c \in Actors : hand[c] = j)
        => rec[j].status # "absent"

\* In a calm system a claim always has a worker that will clear it.
ClaimHasHolder == \A j \in Jobs : processing[j] # "absent" => Attended(j)

\* A pool that was stopped gracefully has finished what it took: no claim
\* survives it, no job is left RUNNING.
StopDrains ==
    (\A p \in Procs : proc[p] = "down") =>
        \A j \in Jobs : processing[j] = "absent" /\ rec[j].status # "RUNNING"

\* A COMPLETED product has both of its vectors, even when its attempts
\* overlapped or some of them failed half-way.
CompletedMeansIndexed ==
    \A j \in Jobs : rec[j].status = "COMPLETED" => product[j] = "both"

\* No job is worked on by two actors at once.
OneHolder ==
    \A c, d \in Actors : c # d /\ hand[c] # None => hand[c] # hand[d]

\* A job is in one place: once on one list, or claimed, or between two lists.
Places(j) ==
    Cardinality({i \in 1..Len(pending) : pending[i] = j})
    + Cardinality({i \in 1..Len(dead) : dead[i] = j})
    + (IF delayed[j] = "absent" THEN 0 ELSE 1)
    + (IF processing[j] = "absent" THEN 0 ELSE 1)
    + Cardinality({c \in Actors : hand[c] = j /\ pc[c] \in HandOff})

OnePlace == \A j \in Jobs : Places(j) <= 1

\* A dead-lettered job is FAILED after exactly max_retries retries, and no
\* job is ever tried more often.
RetryBudget ==
    \A j \in Jobs :
        /\ rec[j].count <= MaxRetries + 1
        /\ InDead(j) => rec[j] = [status |-> "FAILED", count |-> MaxRetries + 1]

\* No step forgets an attempt that was counted.
CountMonotone == [][\A j \in Jobs : rec'[j].count >= rec[j].count]_vars

\* Every accepted job comes to rest COMPLETED or FAILED.
Settles == \A j \in Jobs : <>[](upload[j] = "accepted" => Finished(j))

\* A late attempt loses its claim to the recovery sweep, so an outage after
\* it finds the job under no claim.
LateThenOutage == used["late"] > 0 /\ used["crash"] + used["error"] > 0

\* ... even through outages, unless one caught the job between two lists or
\* met an attempt that was late.
SettlesUnlessSpilled ==
    \A j \in Jobs : <>[](upload[j] = "accepted" =>
        Finished(j) \/ j \in spilled \/ LateThenOutage)

\* What the status endpoints show is the life of a job in JobLifecycle: one
\* attempt at a time, at most MaxRetries + 1 of them, and nothing after the
\* last.
Lifecycle == INSTANCE JobLifecycle WITH
    status <- [j \in Jobs |-> rec[j].status],
    tries <- [j \in Jobs |-> rec[j].count]

FollowsLifecycle == Lifecycle!Spec

-----------------------------------------------------------------------------
(* Inductive invariants, from which the properties above are proved.       *)

\* An actor works on a job exactly when it is not between two of them.
HandsMatchLabels ==
    \A c \in Actors : hand[c] = None <=> pc[c] \in {"idle", "promote", "sweep", "exited"}

\* RecordBeforeQueue, with the ids of a scan and the uploads added.
RecordsKept ==
    \A j \in Jobs :
        InPending(j) \/ InDead(j) \/ delayed[j] # "absent" \/ processing[j] # "absent"
          \/ upload[j] # "new" \/ (\E c \in Actors : hand[c] = j \/ j \in todo[c])
        => rec[j].status # "absent"

IndexedBeforeComplete ==
    \A c \in Actors : pc[c] \in {"caching"} \cup CompleteLabels => product[hand[c]] = "both"

\* The loops of a process that is down have ended.
DownMeansExited ==
    \A c \in Actors : proc[Home[c]] = "down" => pc[c] = "exited"

\* Kept by every step, outages included: each save, push and claim of a job
\* comes after the steps that make it meaningful.
BasicInv ==
    /\ TypeOK
    /\ HandsMatchLabels
    /\ RecordsKept
    /\ IndexedBeforeComplete
    /\ CompletedMeansIndexed
    /\ DownMeansExited

\* Accounted without its disjunct on claims: in a calm system a claim is not
\* needed to find a job again, since whoever made it still works on the job.
\* (With it the formula would not be inductive: ack removes any claim.)
InGoodHands(j) ==
    \/ rec[j].status = "COMPLETED"
    \/ rec[j].status = "FAILED" /\ (InDead(j) \/ \E c \in Actors : Entombing(c, j))
    \/ InPending(j)
    \/ delayed[j] # "absent"
    \/ \E c \in Actors : Responsible(c, j)

\* Where an actor has yet to save how the attempt on its job ended.
Undecided == AttemptLabels \cup {"completing", "failing", "rescheduling", "burying"}

\* Someone will overwrite a RUNNING status with the outcome.
RunningHasHolder ==
    \A j \in Jobs : rec[j].status = "RUNNING" =>
        \E c \in Actors : hand[c] = j /\ pc[c] \in Undecided

\* Kept by every step of a calm system.
CalmInv ==
    /\ \A j \in Jobs : upload[j] = "accepted" => InGoodHands(j)
    /\ ClaimHasHolder
    /\ RunningHasHolder

-----------------------------------------------------------------------------
(* One worker and one recovery loop, no attempt longer than the job timeout: *)
(* what the single-worker deployment adds to BasicInv, outages included.     *)

OneWorker == \A v, w \in Workers : v = w
OneRecoverer == \A q, r \in Recoverers : q = r
NeverLate == Budget["late"] = 0

\* Only the memory of c has the job.
Carries(c, j) == hand[c] = j /\ pc[c] \in HandOff

NoRepeats(list) == \A i, k \in 1..Len(list) : list[i] = list[k] => i = k

\* OnePlace, without counting.
Apart ==
    /\ NoRepeats(pending)
    /\ NoRepeats(dead)
    /\ \A j \in Jobs :
         /\ InPending(j) => ~InDead(j) /\ delayed[j] = "absent"
         /\ InPending(j) \/ InDead(j) \/ delayed[j] # "absent" => processing[j] = "absent"
         /\ InDead(j) => delayed[j] = "absent"
         /\ \A c \in Actors : Carries(c, j) =>
              /\ ~InPending(j) /\ ~InDead(j)
              /\ delayed[j] = "absent" /\ processing[j] = "absent"
         /\ \A c, d \in Actors : Carries(c, j) /\ Carries(d, j) => c = d

\* Where each kind of loop can be.
LabelsOfKind ==
    /\ \A w \in Workers : pc[w] # "sweep"
    /\ \A r \in Recoverers : pc[r] \in {"idle", "sweep", "exited"} \cup RetryLabels

\* The claim of a job at work is fresh, the claim of one being recovered is
\* stale: so nobody works on a job that is being recovered.
ClaimsTellApart ==
    /\ \A w \in Workers : pc[w] \in Claimed => processing[hand[w]] = "fresh"
    /\ \A r \in Recoverers : pc[r] = "failing" => processing[hand[r]] = "stale"

\* What a scan returned still holds of every id it has not come to.
ScansCurrent ==
    /\ \A w \in Workers : \A j \in todo[w] : delayed[j] = "due"
    /\ \A r \in Recoverers : \A j \in todo[r] : processing[j] = "stale" /\ hand[r] # j

\* A job is nowhere before its push.
NowhereBeforePush ==
    \A j \in Jobs : upload[j] # "accepted" =>
        /\ ~InPending(j) /\ ~InDead(j) /\ delayed[j] = "absent" /\ processing[j] = "absent"
        /\ \A c \in Actors : hand[c] # j
        /\ rec[j].count = 0

\* An actor's copy of a job is the record, or one attempt ahead of it.
CopyCurrent(c) ==
    /\ pc[c] \in {"claim", "delaying", "entombing"} \cup Claimed =>
         count[c] = rec[hand[c]].count
    /\ pc[c] \in {"rescheduling", "burying"} => count[c] = rec[hand[c]].count + 1
    /\ pc[c] \in {"rescheduling", "delaying"} => count[c] <= MaxRetries
    /\ pc[c] \in {"burying", "entombing"} => count[c] = MaxRetries + 1
    /\ pc[c] = "acking" => rec[hand[c]].status = "COMPLETED"
    /\ pc[c] = "entombing" => rec[hand[c]].status = "FAILED"

CopiesCurrent == \A c \in Actors : CopyCurrent(c)

\* RetryBudget, and that a job whose budget is used up is on its way to the
\* dead-letter list, on it, or spilled from there.
WithinBudget(j) ==
    /\ rec[j].status = "absent" => rec[j].count = 0
    /\ rec[j].count <= MaxRetries + 1
    /\ InDead(j) => rec[j] = [status |-> "FAILED", count |-> MaxRetries + 1]
    /\ rec[j].count = MaxRetries + 1 =>
         /\ ~InPending(j) /\ delayed[j] = "absent" /\ processing[j] = "absent"
         /\ \A c \in Actors : hand[c] = j => pc[c] = "entombing"

BudgetKept == \A j \in Jobs : WithinBudget(j)

\* Kept by every step of one worker and one recovery loop.
SoloInv ==
    /\ Apart
    /\ LabelsOfKind
    /\ ClaimsTellApart
    /\ ScansCurrent
    /\ NowhereBeforePush
    /\ CopiesCurrent
    /\ BudgetKept
    /\ LossOnlyInHandOff

\* Where a job is says what its record shows, as long as no claim is ever
\* recovered: this is what makes the record follow JobLifecycle.
StatusByPlace ==
    /\ \A j \in Jobs :
         /\ upload[j] = "new" => rec[j].status = "absent"
         /\ upload[j] = "recorded" => rec[j].status = "PENDING"
         /\ InPending(j) => rec[j].status \in {"PENDING", "RETRYING"}
         /\ delayed[j] # "absent" => rec[j].status = "RETRYING"
    /\ \A w \in Workers :
         /\ pc[w] \in {"repush", "load", "claim", "mark"} =>
              rec[hand[w]].status \in {"PENDING", "RETRYING"}
         /\ pc[w] \in Undecided => rec[hand[w]].status = "RUNNING"
         /\ pc[w] = "delaying" => rec[hand[w]].status = "RETRYING"

\* No claim grows old, so the recovery loops find nothing.
NothingToRecover ==
    /\ \A j \in Jobs : processing[j] # "stale"
    /\ \A r \in Recoverers : todo[r] = {} /\ hand[r] = None

\* Kept by every step of a calm system with one worker and one recovery loop.
LifeInv == StatusByPlace /\ NothingToRecover

=============================================================================
