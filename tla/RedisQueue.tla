----------------------------- MODULE RedisQueue -----------------------------
(***************************************************************************)
(* The job queue of backend/app/queue/redis_queue.py: one Redis server     *)
(* shared by every API process and worker process.  A Redis command is     *)
(* atomic; an operation of RedisQueue is several commands with an await    *)
(* between each two, so every command is an action and the operations of   *)
(* different callers interleave between them.                              *)
(*                                                                         *)
(* Callers ("actors") are the worker loops and the recovery loops of       *)
(* WorkerManager.  A call in progress is a program counter (pc), the job   *)
(* it works on (hand), the retry_count of its in-memory Job copy (count)   *)
(* and what is left of the reply it iterates over (todo).                  *)
(*                                                                         *)
(* Abstracted: payload, error text, progress, timestamps and retry_history *)
(* of a Job; the product index written by _save (each job keeps the one    *)
(* product it was created with, so the second SET never changes a value);  *)
(* the order of two due jobs (their scores).  Clocks: a delayed job        *)
(* becomes due and a claim becomes stale by steps of their own.            *)
(***************************************************************************)
EXTENDS Naturals, Sequences, FiniteSets

CONSTANTS
    Jobs,        \* job ids; each is created by one upload
    Workers,     \* worker loops (they call dequeue, update, ack, retry)
    Recoverers,  \* recovery loops (they call requeue_stale_jobs)
    MaxRetries,  \* Job.max_retries
    None         \* no job

ASSUME ActorsAssumption == Workers \cap Recoverers = {}
ASSUME MaxRetriesAssumption == MaxRetries \in Nat
ASSUME NoneAssumption == None \notin Jobs

VARIABLES
    pending,     \* {queue}:pending, LIST of job ids
    processing,  \* {queue}:processing, HASH: is there a claim, and how old
    delayed,     \* {queue}:delayed, ZSET: is the job there, and is it due
    dead,        \* {queue}:dead_letter, LIST of job ids
    rec,         \* job:{id}: the status and retry_count last saved
    upload,      \* how far the upload that creates the job has come
    pc,          \* where each actor is
    hand,        \* the job each actor works on
    count,       \* retry_count in each actor's copy of that job
    todo         \* rest of the ids an actor's scan returned

store == <<pending, processing, delayed, dead, rec>>
callers == <<pc, hand, count, todo>>
queueVars == <<store, upload, callers>>

Actors == Workers \cup Recoverers

Statuses == {"absent", "PENDING", "RUNNING", "COMPLETED", "FAILED", "RETRYING"}

\* The await points of one attempt, in the order the calls are made.
DequeueLabels == {"promote", "repush", "load", "claim", "mark"}
AttemptLabels == {"validating", "processing", "pipeline", "indexing", "caching"}
CompleteLabels == {"completing", "acking"}
RetryLabels == {"failing", "rescheduling", "delaying", "burying", "entombing"}
Labels == {"idle", "sweep", "exited"} \cup DequeueLabels \cup AttemptLabels
             \cup CompleteLabels \cup RetryLabels

In(list, j) == \E i \in 1..Len(list) : list[i] = j
InPending(j) == In(pending, j)
InDead(j) == In(dead, j)

QueueInit ==
    /\ pending = <<>>
    /\ processing = [j \in Jobs |-> "absent"]
    /\ delayed = [j \in Jobs |-> "absent"]
    /\ dead = <<>>
    /\ rec = [j \in Jobs |-> [status |-> "absent", count |-> 0]]
    /\ upload = [j \in Jobs |-> "new"]
    /\ pc = [c \in Actors |-> "idle"]
    /\ hand = [c \in Actors |-> None]
    /\ count = [c \in Actors |-> 0]
    /\ todo = [c \in Actors |-> {}]

-----------------------------------------------------------------------------
(* What the operations are made of.                                        *)

Goto(c, l) == pc' = [pc EXCEPT ![c] = l]

\* The call returns or raises: the actor no longer works on a job.
Release(c, l) ==
    /\ pc' = [pc EXCEPT ![c] = l]
    /\ hand' = [hand EXCEPT ![c] = None]

\* _save: SET the whole record, overwriting whatever another actor saved.
Save(j, s, n) == rec' = [rec EXCEPT ![j] = [status |-> s, count |-> n]]

\* Where a finished retry returns to: a worker's loop or the recovery sweep.
After(c) == IF c \in Workers THEN "idle" ELSE "sweep"

-----------------------------------------------------------------------------
(* enqueue, called by POST /products/upload.                               *)

\* Mutant: the id is pushed before its record is saved.
SaveUpload_PushFirst(j) ==
    /\ upload[j] = "new"
    /\ upload' = [upload EXCEPT ![j] = "recorded"]
    /\ pending' = Append(pending, j)
    /\ UNCHANGED <<processing, delayed, dead, rec, callers>>

SaveUpload(j) ==
    /\ upload[j] = "new"
    /\ upload' = [upload EXCEPT ![j] = "recorded"]
    /\ Save(j, "PENDING", 0)
    /\ UNCHANGED <<pending, processing, delayed, dead, callers>>

\* After the RPUSH the client gets its 202.
PushUpload(j) ==
    /\ upload[j] = "recorded"
    /\ upload' = [upload EXCEPT ![j] = "accepted"]
    /\ pending' = Append(pending, j)
    /\ UNCHANGED <<processing, delayed, dead, rec, callers>>

-----------------------------------------------------------------------------
(* dequeue: promote the due jobs, pop one id, load, claim and mark it.     *)

\* ZRANGEBYSCORE: a snapshot, iterated over after further awaits.
ScanDue(c) ==
    /\ pc[c] = "idle"
    /\ todo' = [todo EXCEPT ![c] = {j \in Jobs : delayed[j] = "due"}]
    /\ Goto(c, "promote")
    /\ UNCHANGED <<store, upload, hand, count>>

\* ZREM; its reply (was the id still there?) is not looked at.
RemoveDue(c) ==
    /\ pc[c] = "promote"
    /\ \E j \in todo[c] :
         /\ todo' = [todo EXCEPT ![c] = @ \ {j}]
         /\ delayed' = [delayed EXCEPT ![j] = "absent"]
         /\ hand' = [hand EXCEPT ![c] = j]
    /\ Goto(c, "repush")
    /\ UNCHANGED <<pending, processing, dead, rec, upload, count>>

\* Mutant: the loop variable is cleared before it is pushed.
PushDue_Cleared(c) ==
    /\ pc[c] = "repush"
    /\ Release(c, "promote")
    /\ pending' = Append(pending, hand'[c])
    /\ UNCHANGED <<processing, delayed, dead, rec, upload, count, todo>>

PushDue(c) ==
    /\ pc[c] = "repush"
    /\ pending' = Append(pending, hand[c])
    /\ Release(c, "promote")
    /\ UNCHANGED <<processing, delayed, dead, rec, upload, count, todo>>

PopEmpty(c) ==
    /\ pc[c] = "promote" /\ todo[c] = {} /\ pending = <<>>
    /\ Goto(c, "idle")
    /\ UNCHANGED <<store, upload, hand, count, todo>>

PopJob(c) ==
    /\ pc[c] = "promote" /\ todo[c] = {} /\ pending # <<>>
    /\ hand' = [hand EXCEPT ![c] = Head(pending)]
    /\ pending' = Tail(pending)
    /\ Goto(c, "load")
    /\ UNCHANGED <<processing, delayed, dead, rec, upload, count, todo>>

\* Mutant: retry_count is not read back from the record.
Load_ZeroCount(c) ==
    /\ pc[c] = "load"
    /\ count' = [count EXCEPT ![c] = 0]
    /\ Goto(c, "claim")
    /\ UNCHANGED <<store, upload, hand, todo>>

\* GET job:{id}; an id without a record is dropped.
Load(c) ==
    /\ pc[c] = "load"
    /\ IF rec[hand[c]].status = "absent"
         THEN Release(c, "idle") /\ UNCHANGED count
         ELSE /\ count' = [count EXCEPT ![c] = rec[hand[c]].count]
              /\ Goto(c, "claim")
              /\ UNCHANGED hand
    /\ UNCHANGED <<store, upload, todo>>

\* Mutant: no HSET.
Claim_Skipped(c) ==
    /\ pc[c] = "claim"
    /\ Goto(c, "mark")
    /\ UNCHANGED <<store, upload, hand, count, todo>>

Claim(c) ==
    /\ pc[c] = "claim"
    /\ processing' = [processing EXCEPT ![hand[c]] = "fresh"]
    /\ Goto(c, "mark")
    /\ UNCHANGED <<pending, delayed, dead, rec, upload, hand, count, todo>>

MarkRunning(c) ==
    /\ pc[c] = "mark"
    /\ Save(hand[c], "RUNNING", count[c])
    /\ Goto(c, "validating")
    /\ UNCHANGED <<pending, processing, delayed, dead, upload, hand, count, todo>>

-----------------------------------------------------------------------------
(* ack, and update as _complete calls it just before.                      *)

SaveComplete(c) ==
    /\ pc[c] = "completing"
    /\ Save(hand[c], "COMPLETED", count[c])
    /\ Goto(c, "acking")
    /\ UNCHANGED <<pending, processing, delayed, dead, upload, hand, count, todo>>

\* Mutant: no HDEL.
Ack_Skipped(c) ==
    /\ pc[c] = "acking"
    /\ Release(c, "idle")
    /\ UNCHANGED <<store, upload, count, todo>>

\* HDEL by job id: it removes the claim whoever made it.
Ack(c) ==
    /\ pc[c] = "acking"
    /\ processing' = [processing EXCEPT ![hand[c]] = "absent"]
    /\ Release(c, "idle")
    /\ UNCHANGED <<pending, delayed, dead, rec, upload, count, todo>>

-----------------------------------------------------------------------------
(* retry: unclaim, count the attempt, then either schedule it again or     *)
(* dead-letter the job.                                                    *)

\* Mutant: the budget is compared with the count before the increment.
Unclaim_OffByOne(c) ==
    /\ pc[c] = "failing"
    /\ processing' = [processing EXCEPT ![hand[c]] = "absent"]
    /\ count' = [count EXCEPT ![c] = @ + 1]
    /\ Goto(c, IF count[c] > MaxRetries THEN "burying" ELSE "rescheduling")
    /\ UNCHANGED <<pending, delayed, dead, rec, upload, hand, todo>>

\* Mutant: the claim is not cleared.
Unclaim_KeepsClaim(c) ==
    /\ pc[c] = "failing"
    /\ count' = [count EXCEPT ![c] = @ + 1]
    /\ Goto(c, IF count[c] + 1 > MaxRetries THEN "burying" ELSE "rescheduling")
    /\ UNCHANGED <<store, upload, hand, todo>>

Unclaim(c) ==
    /\ pc[c] = "failing"
    /\ processing' = [processing EXCEPT ![hand[c]] = "absent"]
    /\ count' = [count EXCEPT ![c] = @ + 1]
    /\ Goto(c, IF count[c] + 1 > MaxRetries THEN "burying" ELSE "rescheduling")
    /\ UNCHANGED <<pending, delayed, dead, rec, upload, hand, todo>>

SaveRetrying(c) ==
    /\ pc[c] = "rescheduling"
    /\ Save(hand[c], "RETRYING", count[c])
    /\ Goto(c, "delaying")
    /\ UNCHANGED <<pending, processing, delayed, dead, upload, hand, count, todo>>

\* Mutant: a recovered job is not put on the delayed set.
Delay_WorkersOnly(c) ==
    /\ pc[c] = "delaying"
    /\ IF c \in Workers THEN delayed' = [delayed EXCEPT ![hand[c]] = "waiting"]
                        ELSE UNCHANGED delayed
    /\ Release(c, After(c))
    /\ UNCHANGED <<pending, processing, dead, rec, upload, count, todo>>

Delay(c) ==
    /\ pc[c] = "delaying"
    /\ delayed' = [delayed EXCEPT ![hand[c]] = "waiting"]
    /\ Release(c, After(c))
    /\ UNCHANGED <<pending, processing, dead, rec, upload, count, todo>>

SaveFailed(c) ==
    /\ pc[c] = "burying"
    /\ Save(hand[c], "FAILED", count[c])
    /\ Goto(c, "entombing")
    /\ UNCHANGED <<pending, processing, delayed, dead, upload, hand, count, todo>>

Bury(c) ==
    /\ pc[c] = "entombing"
    /\ dead' = Append(dead, hand[c])
    /\ Release(c, After(c))
    /\ UNCHANGED <<pending, processing, delayed, rec, upload, count, todo>>

-----------------------------------------------------------------------------
(* requeue_stale_jobs: the claims that were stale when HGETALL was called. *)

\* Mutant: no claim is old enough.
ScanClaims_Nothing(c) ==
    /\ pc[c] = "idle"
    /\ todo' = [todo EXCEPT ![c] = {}]
    /\ Goto(c, "sweep")
    /\ UNCHANGED <<store, upload, hand, count>>

ScanClaims(c) ==
    /\ pc[c] = "idle"
    /\ todo' = [todo EXCEPT ![c] = {j \in Jobs : processing[j] = "stale"}]
    /\ Goto(c, "sweep")
    /\ UNCHANGED <<store, upload, hand, count>>

\* GET the record; a claim without a record is removed (in the same step: no
\* claim is without one, see RecordBeforeQueue), any other retried.
SweepNext(c) ==
    /\ pc[c] = "sweep"
    /\ \E j \in todo[c] :
         /\ todo' = [todo EXCEPT ![c] = @ \ {j}]
         /\ IF rec[j].status = "absent"
              THEN /\ processing' = [processing EXCEPT ![j] = "absent"]
                   /\ UNCHANGED <<pc, hand, count>>
              ELSE /\ hand' = [hand EXCEPT ![c] = j]
                   /\ count' = [count EXCEPT ![c] = rec[j].count]
                   /\ Goto(c, "failing")
                   /\ UNCHANGED processing
    /\ UNCHANGED <<pending, delayed, dead, rec, upload>>

SweepDone(c) ==
    /\ pc[c] = "sweep" /\ todo[c] = {}
    /\ Goto(c, "idle")
    /\ UNCHANGED <<store, upload, hand, count, todo>>

-----------------------------------------------------------------------------
(* The clock: the backoff delay of a job runs out.                         *)

BecomeDue(j) ==
    /\ delayed[j] = "waiting"
    /\ delayed' = [delayed EXCEPT ![j] = "due"]
    /\ UNCHANGED <<pending, processing, dead, rec, upload, callers>>

QueueTypeOK ==
    /\ pending \in Seq(Jobs)
    /\ processing \in [Jobs -> {"absent", "fresh", "stale"}]
    /\ delayed \in [Jobs -> {"absent", "waiting", "due"}]
    /\ dead \in Seq(Jobs)
    /\ rec \in [Jobs -> [status : Statuses, count : Nat]]
    /\ upload \in [Jobs -> {"new", "recorded", "accepted", "refused"}]
    /\ pc \in [Actors -> Labels]
    /\ hand \in [Actors -> Jobs \cup {None}]
    /\ count \in [Actors -> Nat]
    /\ todo \in [Actors -> SUBSET Jobs]

=============================================================================
