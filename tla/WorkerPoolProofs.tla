-------------------------- MODULE WorkerPoolProofs --------------------------
(***************************************************************************)
(* Theorems about WorkerPool and their proofs: what holds whatever fails   *)
(* (BasicInv), what holds in a calm system (CalmInv), for any number of    *)
(* jobs, workers, recovery loops and processes and any MaxRetries; then    *)
(* what one worker and one recovery loop keep whatever fails (SoloInv),    *)
(* and that in a calm system they implement JobLifecycle (LifeInv).        *)
(***************************************************************************)
EXTENDS WorkerPool, TLAPS, FiniteSetTheorems

-----------------------------------------------------------------------------
(* Lists.                                                                  *)

\* A pushed list contains what it held before and the pushed id (RPUSH).
LEMMA InAppend ==
    ASSUME NEW S, NEW s \in Seq(S), NEW x \in S, NEW y
    PROVE  In(Append(s, x), y) <=> In(s, y) \/ x = y
  BY DEF In

\* What is left after a pop was on the list, and only its head is gone (LPOP).
LEMMA InTail ==
    ASSUME NEW S, NEW s \in Seq(S), s # <<>>
    PROVE  /\ Head(s) \in S
           /\ Tail(s) \in Seq(S)
           /\ In(s, Head(s))
           /\ \A y : In(s, y) <=> y = Head(s) \/ In(Tail(s), y)
  BY SMTT(30) DEF In

-----------------------------------------------------------------------------
(* Small facts the steps below rest on.                                    *)

\* An actor that is not between two jobs works on one of Jobs.
LEMMA HandIsJob ==
    ASSUME TypeOK, HandsMatchLabels, NEW c \in Actors,
           pc[c] \notin {"idle", "promote", "sweep", "exited"}
    PROVE  hand[c] \in Jobs
  BY DEF TypeOK, QueueTypeOK, HandsMatchLabels

\* Spending a fault keeps the budget counters natural numbers.
LEMMA SpendType ==
    ASSUME used \in [Faults -> Nat], NEW f \in Faults, Spend(f)
    PROVE  used' \in [Faults -> Nat]
  BY BudgetAssumption DEF Spend

\* Every Redis command of dequeue keeps the basic invariant.
LEMMA DequeueBasic ==
    ASSUME BasicInv, NEW c \in Workers,
           \/ QueueOp(ScanDue(c))
           \/ QueueOp(RemoveDue(c))
           \/ QueueOp(PushDue(c))
           \/ QueueOp(PopEmpty(c))
           \/ QueueOp(PopJob(c))
           \/ QueueOp(Load(c))
           \/ QueueOp(Claim(c))
           \/ QueueOp(MarkRunning(c))
    PROVE  BasicInv'
  <1> USE NoneAssumption DEF QueueOp, Goto, Release, Save, After, store, callers, queueVars,
        Actors, Statuses, DequeueLabels, AttemptLabels, CompleteLabels, RetryLabels,
        Labels, InPending, InDead, BasicInv, TypeOK, QueueTypeOK
  <1>1. CASE QueueOp(ScanDue(c))
    BY <1>1, HomeAssumption
       DEF HandsMatchLabels, RecordsKept, IndexedBeforeComplete,
           CompletedMeansIndexed, DownMeansExited, ScanDue
  <1>2. CASE QueueOp(RemoveDue(c))
    BY <1>2, HomeAssumption
       DEF HandsMatchLabels, RecordsKept, IndexedBeforeComplete,
           CompletedMeansIndexed, DownMeansExited, RemoveDue
  <1>3. CASE QueueOp(PushDue(c))
    <2>1. TypeOK'
      <3>1. hand[c] \in Jobs
        BY <1>3, HandIsJob DEF PushDue
      <3> QED BY <1>3, <3>1 DEF PushDue
    <2>2. HandsMatchLabels'
      BY <1>3, HandIsJob, InAppend DEF HandsMatchLabels, DownMeansExited, PushDue
    <2>3. RecordsKept'
      <3>1. hand[c] \in Jobs
        BY <1>3, HandIsJob DEF PushDue
      <3>2. \A j : In(pending', j) <=> In(pending, j) \/ hand[c] = j
        BY <1>3, <3>1, InAppend DEF PushDue
      <3> QED BY <1>3, <3>1, <3>2 DEF RecordsKept, PushDue
    <2>4. IndexedBeforeComplete' /\ CompletedMeansIndexed'
      BY <1>3, HandIsJob, InAppend DEF HandsMatchLabels, IndexedBeforeComplete,
            CompletedMeansIndexed, PushDue
    <2>5. DownMeansExited'
      BY <1>3, HandIsJob, InAppend, HomeAssumption DEF DownMeansExited, PushDue
    <2> QED BY <2>1, <2>2, <2>3, <2>4, <2>5
  <1>4. CASE QueueOp(PopEmpty(c))
    BY <1>4, HomeAssumption
       DEF HandsMatchLabels, RecordsKept, IndexedBeforeComplete,
           CompletedMeansIndexed, DownMeansExited, PopEmpty
  <1>5. CASE QueueOp(PopJob(c))
    BY <1>5, InTail, HomeAssumption
       DEF HandsMatchLabels, RecordsKept, IndexedBeforeComplete,
           CompletedMeansIndexed, DownMeansExited, PopJob
  <1>6. CASE QueueOp(Load(c))
    <2>1. hand[c] \in Jobs /\ rec[hand[c]].status # "absent"
      BY <1>6, HandIsJob DEF RecordsKept, Load
    <2>2. rec[hand[c]].count \in Nat
      BY <2>1
    <2>3. /\ pc[c] = "load"
          /\ pc' = [pc EXCEPT ![c] = "claim"]
          /\ count' = [count EXCEPT ![c] = rec[hand[c]].count]
          /\ UNCHANGED <<store, upload, hand, todo, proc, product, spilled, used>>
      BY <1>6, <2>1 DEF Load
    <2>4. TypeOK'
      BY <2>1, <2>2, <2>3
    <2>5. HandsMatchLabels'
      BY <2>1, <2>2, <2>3 DEF HandsMatchLabels
    <2>6. RecordsKept'
      BY <2>1, <2>2, <2>3 DEF RecordsKept, HandsMatchLabels
    <2>7. IndexedBeforeComplete' /\ CompletedMeansIndexed'
      BY <2>1, <2>2, <2>3 DEF IndexedBeforeComplete, CompletedMeansIndexed
    <2>8. DownMeansExited'
      BY <2>1, <2>2, <2>3, HomeAssumption DEF DownMeansExited
    <2> QED BY <2>4, <2>5, <2>6, <2>7, <2>8
  <1>7. CASE QueueOp(Claim(c))
    <2>1. TypeOK'
      BY <1>7 DEF Claim
    <2>2. HandsMatchLabels'
      BY <1>7 DEF HandsMatchLabels, DownMeansExited, Claim
    <2>3. RecordsKept'
      BY <1>7 DEF HandsMatchLabels, RecordsKept, Claim
    <2>4. IndexedBeforeComplete' /\ CompletedMeansIndexed'
      BY <1>7 DEF HandsMatchLabels, IndexedBeforeComplete,
            CompletedMeansIndexed, Claim
    <2>5. DownMeansExited'
      BY <1>7, HomeAssumption DEF DownMeansExited, Claim
    <2> QED BY <2>1, <2>2, <2>3, <2>4, <2>5
  <1>8. CASE QueueOp(MarkRunning(c))
    <2>1. TypeOK'
      BY <1>8 DEF MarkRunning
    <2>2. HandsMatchLabels'
      BY <1>8 DEF HandsMatchLabels, DownMeansExited, MarkRunning
    <2>3. RecordsKept'
      BY <1>8 DEF HandsMatchLabels, RecordsKept, MarkRunning
    <2>4. IndexedBeforeComplete' /\ CompletedMeansIndexed'
      BY <1>8 DEF HandsMatchLabels, IndexedBeforeComplete,
            CompletedMeansIndexed, MarkRunning
    <2>5. DownMeansExited'
      BY <1>8, HomeAssumption DEF DownMeansExited, MarkRunning
    <2> QED BY <2>1, <2>2, <2>3, <2>4, <2>5
  <1> QED BY <1>1, <1>2, <1>3, <1>4, <1>5, <1>6, <1>7, <1>8

\* So does the rest of process_one: progress reports, upserts, failure,
\* completion and ack.
LEMMA AttemptBasic ==
    ASSUME BasicInv, NEW c \in Workers,
           \/ Report(c, "validating", "processing")
           \/ Report(c, "processing", "pipeline")
           \/ Report(c, "caching", "completing")
           \/ IndexImage(c)
           \/ IndexText(c)
           \/ PipelineFails(c)
           \/ QueueOp(SaveComplete(c))
           \/ QueueOp(Ack(c))
    PROVE  BasicInv'
  <1> USE NoneAssumption DEF QueueOp, Goto, Release, Save, After, store, callers, queueVars,
        Actors, Statuses, DequeueLabels, AttemptLabels, CompleteLabels, RetryLabels,
        Labels, InPending, InDead, BasicInv, TypeOK, QueueTypeOK
  <1>1. CASE Report(c, "validating", "processing")
    <2>1. TypeOK'
      BY <1>1, HandIsJob DEF Report
    <2>2. HandsMatchLabels'
      BY <1>1, HandIsJob DEF HandsMatchLabels, DownMeansExited, Report
    <2>3. RecordsKept'
      BY <1>1, HandIsJob DEF HandsMatchLabels, RecordsKept, Report
    <2>4. IndexedBeforeComplete' /\ CompletedMeansIndexed'
      BY <1>1, HandIsJob DEF HandsMatchLabels, IndexedBeforeComplete,
            CompletedMeansIndexed, Report
    <2>5. DownMeansExited'
      BY <1>1, HandIsJob, HomeAssumption DEF DownMeansExited, Report
    <2> QED BY <2>1, <2>2, <2>3, <2>4, <2>5
  <1>2. CASE Report(c, "processing", "pipeline")
    <2>1. TypeOK'
      BY <1>2, HandIsJob DEF Report
    <2>2. HandsMatchLabels'
      BY <1>2, HandIsJob DEF HandsMatchLabels, DownMeansExited, Report
    <2>3. RecordsKept'
      BY <1>2, HandIsJob DEF HandsMatchLabels, RecordsKept, Report
    <2>4. IndexedBeforeComplete' /\ CompletedMeansIndexed'
      BY <1>2, HandIsJob DEF HandsMatchLabels, IndexedBeforeComplete,
            CompletedMeansIndexed, Report
    <2>5. DownMeansExited'
      BY <1>2, HandIsJob, HomeAssumption DEF DownMeansExited, Report
    <2> QED BY <2>1, <2>2, <2>3, <2>4, <2>5
  <1>3. CASE Report(c, "caching", "completing")
    <2>1. TypeOK'
      BY <1>3, HandIsJob DEF Report
    <2>2. HandsMatchLabels'
      BY <1>3, HandIsJob DEF HandsMatchLabels, DownMeansExited, Report
    <2>3. RecordsKept'
      BY <1>3, HandIsJob DEF HandsMatchLabels, RecordsKept, Report
    <2>4. IndexedBeforeComplete' /\ CompletedMeansIndexed'
      BY <1>3, HandIsJob DEF HandsMatchLabels, IndexedBeforeComplete,
            CompletedMeansIndexed, Report
    <2>5. DownMeansExited'
      BY <1>3, HandIsJob, HomeAssumption DEF DownMeansExited, Report
    <2> QED BY <2>1, <2>2, <2>3, <2>4, <2>5
  <1>4. CASE IndexImage(c)
    <2>1. TypeOK'
      BY <1>4 DEF IndexImage
    <2>2. HandsMatchLabels'
      BY <1>4 DEF HandsMatchLabels, DownMeansExited, IndexImage
    <2>3. RecordsKept'
      BY <1>4 DEF HandsMatchLabels, RecordsKept, IndexImage
    <2>4. IndexedBeforeComplete' /\ CompletedMeansIndexed'
      BY <1>4 DEF HandsMatchLabels, IndexedBeforeComplete,
            CompletedMeansIndexed, IndexImage
    <2>5. DownMeansExited'
      BY <1>4, HomeAssumption DEF DownMeansExited, IndexImage
    <2> QED BY <2>1, <2>2, <2>3, <2>4, <2>5
  <1>5. CASE IndexText(c)
    <2>1. TypeOK'
      BY <1>5, HandIsJob DEF IndexText
    <2>2. HandsMatchLabels'
      BY <1>5, HandIsJob DEF HandsMatchLabels, DownMeansExited, IndexText
    <2>3. RecordsKept'
      BY <1>5, HandIsJob DEF HandsMatchLabels, RecordsKept, IndexText
    <2>4. IndexedBeforeComplete' /\ CompletedMeansIndexed'
      BY <1>5, HandIsJob DEF HandsMatchLabels, IndexedBeforeComplete,
            CompletedMeansIndexed, IndexText
    <2>5. DownMeansExited'
      BY <1>5, HandIsJob, HomeAssumption DEF DownMeansExited, IndexText
    <2> QED BY <2>1, <2>2, <2>3, <2>4, <2>5
  <1>6. CASE PipelineFails(c)
    BY <1>6, HomeAssumption
       DEF HandsMatchLabels, RecordsKept, IndexedBeforeComplete,
           CompletedMeansIndexed, DownMeansExited, PipelineFails
  <1>7. CASE QueueOp(SaveComplete(c))
    <2>1. TypeOK'
      BY <1>7, HandIsJob DEF SaveComplete
    <2>2. HandsMatchLabels'
      BY <1>7, HandIsJob DEF HandsMatchLabels, DownMeansExited, SaveComplete
    <2>3. RecordsKept'
      BY <1>7, HandIsJob DEF HandsMatchLabels, RecordsKept, SaveComplete
    <2>4. IndexedBeforeComplete' /\ CompletedMeansIndexed'
      BY <1>7, HandIsJob DEF HandsMatchLabels, IndexedBeforeComplete,
            CompletedMeansIndexed, SaveComplete
    <2>5. DownMeansExited'
      BY <1>7, HandIsJob, HomeAssumption DEF DownMeansExited, SaveComplete
    <2> QED BY <2>1, <2>2, <2>3, <2>4, <2>5
  <1>8. CASE QueueOp(Ack(c))
    <2>1. TypeOK'
      BY <1>8 DEF Ack
    <2>2. HandsMatchLabels'
      BY <1>8 DEF HandsMatchLabels, DownMeansExited, Ack
    <2>3. RecordsKept'
      BY <1>8 DEF HandsMatchLabels, RecordsKept, Ack
    <2>4. IndexedBeforeComplete' /\ CompletedMeansIndexed'
      BY <1>8 DEF HandsMatchLabels, IndexedBeforeComplete,
            CompletedMeansIndexed, Ack
    <2>5. DownMeansExited'
      BY <1>8, HomeAssumption DEF DownMeansExited, Ack
    <2> QED BY <2>1, <2>2, <2>3, <2>4, <2>5
  <1> QED BY <1>1, <1>2, <1>3, <1>4, <1>5, <1>6, <1>7, <1>8

\* So does every command of requeue_stale_jobs up to its call of retry.
LEMMA SweepBasic ==
    ASSUME BasicInv, NEW c \in Recoverers,
           \/ QueueOp(ScanClaims(c))
           \/ QueueOp(SweepNext(c))
           \/ QueueOp(SweepDone(c))
    PROVE  BasicInv'
  <1> USE NoneAssumption DEF QueueOp, Goto, Release, Save, After, store, callers, queueVars,
        Actors, Statuses, DequeueLabels, AttemptLabels, CompleteLabels, RetryLabels,
        Labels, InPending, InDead, BasicInv, TypeOK, QueueTypeOK
  <1>1. CASE QueueOp(ScanClaims(c))
    BY <1>1, HomeAssumption
       DEF HandsMatchLabels, RecordsKept, IndexedBeforeComplete,
           CompletedMeansIndexed, DownMeansExited, ScanClaims
  <1>2. CASE QueueOp(SweepNext(c))
    <2>1. PICK j \in todo[c] :
            /\ todo' = [todo EXCEPT ![c] = @ \ {j}]
            /\ hand' = [hand EXCEPT ![c] = j]
            /\ count' = [count EXCEPT ![c] = rec[j].count]
      BY <1>2 DEF RecordsKept, SweepNext
    <2>2. /\ pc[c] = "sweep"
          /\ pc' = [pc EXCEPT ![c] = "failing"]
          /\ UNCHANGED <<store, upload, proc, product, spilled, used>>
      BY <1>2 DEF RecordsKept, SweepNext
    <2>3. j \in Jobs /\ rec[j].status # "absent" /\ rec[j].count \in Nat
      <3>1. j \in Jobs
        BY <2>1
      <3> QED BY <3>1, <2>1 DEF RecordsKept
    <2>4. TypeOK'
      BY <2>1, <2>2, <2>3
    <2>5. HandsMatchLabels'
      BY <2>1, <2>2, <2>3 DEF HandsMatchLabels
    <2>6. RecordsKept'
      BY <2>1, <2>2, <2>3 DEF RecordsKept, HandsMatchLabels
    <2>7. IndexedBeforeComplete' /\ CompletedMeansIndexed'
      BY <2>1, <2>2, <2>3 DEF IndexedBeforeComplete, CompletedMeansIndexed
    <2>8. DownMeansExited'
      BY <2>1, <2>2, <2>3, HomeAssumption DEF DownMeansExited
    <2> QED BY <2>4, <2>5, <2>6, <2>7, <2>8
  <1>3. CASE QueueOp(SweepDone(c))
    BY <1>3, HomeAssumption
       DEF HandsMatchLabels, RecordsKept, IndexedBeforeComplete,
           CompletedMeansIndexed, DownMeansExited, SweepDone
  <1> QED BY <1>1, <1>2, <1>3

\* So does every command of retry, and a loop that ends.
LEMMA RetryBasic ==
    ASSUME BasicInv, NEW c \in Actors,
           \/ QueueOp(Unclaim(c))
           \/ QueueOp(SaveRetrying(c))
           \/ QueueOp(Delay(c))
           \/ QueueOp(SaveFailed(c))
           \/ QueueOp(Bury(c))
           \/ LeaveLoop(c)
    PROVE  BasicInv'
  <1> USE NoneAssumption DEF QueueOp, Goto, Release, Save, After, store, callers, queueVars,
        Actors, Statuses, DequeueLabels, AttemptLabels, CompleteLabels, RetryLabels,
        Labels, InPending, InDead, BasicInv, TypeOK, QueueTypeOK
  <1>1. CASE QueueOp(Unclaim(c))
    <2>1. TypeOK'
      <3>1. count' \in [Actors -> Nat]
        BY <1>1 DEF Unclaim
      <3>2. pc' \in [Actors -> Labels]
        BY <1>1 DEF Unclaim
      <3> QED BY <1>1, <3>1, <3>2 DEF Unclaim
    <2>2. HandsMatchLabels'
      BY <1>1, HandIsJob DEF HandsMatchLabels, DownMeansExited, Unclaim
    <2>3. RecordsKept'
      BY <1>1, HandIsJob DEF HandsMatchLabels, RecordsKept, Unclaim
    <2>4. IndexedBeforeComplete' /\ CompletedMeansIndexed'
      BY <1>1, HandIsJob DEF HandsMatchLabels, IndexedBeforeComplete,
            CompletedMeansIndexed, Unclaim
    <2>5. DownMeansExited'
      BY <1>1, HandIsJob, HomeAssumption DEF DownMeansExited, Unclaim
    <2> QED BY <2>1, <2>2, <2>3, <2>4, <2>5
  <1>2. CASE QueueOp(SaveRetrying(c))
    <2>1. TypeOK'
      BY <1>2 DEF SaveRetrying
    <2>2. HandsMatchLabels'
      BY <1>2 DEF HandsMatchLabels, DownMeansExited, SaveRetrying
    <2>3. RecordsKept'
      BY <1>2 DEF HandsMatchLabels, RecordsKept, SaveRetrying
    <2>4. IndexedBeforeComplete' /\ CompletedMeansIndexed'
      BY <1>2 DEF HandsMatchLabels, IndexedBeforeComplete,
            CompletedMeansIndexed, SaveRetrying
    <2>5. DownMeansExited'
      BY <1>2, HomeAssumption DEF DownMeansExited, SaveRetrying
    <2> QED BY <2>1, <2>2, <2>3, <2>4, <2>5
  <1>3. CASE QueueOp(Delay(c))
    <2>1. TypeOK'
      BY <1>3 DEF Delay
    <2>2. HandsMatchLabels'
      BY <1>3 DEF HandsMatchLabels, DownMeansExited, Delay
    <2>3. RecordsKept'
      BY <1>3 DEF HandsMatchLabels, RecordsKept, Delay
    <2>4. IndexedBeforeComplete' /\ CompletedMeansIndexed'
      BY <1>3 DEF HandsMatchLabels, IndexedBeforeComplete,
            CompletedMeansIndexed, Delay
    <2>5. DownMeansExited'
      BY <1>3, HomeAssumption DEF DownMeansExited, Delay
    <2> QED BY <2>1, <2>2, <2>3, <2>4, <2>5
  <1>4. CASE QueueOp(SaveFailed(c))
    <2>1. TypeOK'
      BY <1>4 DEF SaveFailed
    <2>2. HandsMatchLabels'
      BY <1>4 DEF HandsMatchLabels, DownMeansExited, SaveFailed
    <2>3. RecordsKept'
      BY <1>4 DEF HandsMatchLabels, RecordsKept, SaveFailed
    <2>4. IndexedBeforeComplete' /\ CompletedMeansIndexed'
      BY <1>4 DEF HandsMatchLabels, IndexedBeforeComplete,
            CompletedMeansIndexed, SaveFailed
    <2>5. DownMeansExited'
      BY <1>4, HomeAssumption DEF DownMeansExited, SaveFailed
    <2> QED BY <2>1, <2>2, <2>3, <2>4, <2>5
  <1>5. CASE QueueOp(Bury(c))
    <2>1. TypeOK'
      <3>1. hand[c] \in Jobs
        BY <1>5, HandIsJob DEF Bury
      <3> QED BY <1>5, <3>1 DEF Bury
    <2>2. HandsMatchLabels'
      BY <1>5, HandIsJob, InAppend DEF HandsMatchLabels, DownMeansExited, Bury
    <2>3. RecordsKept'
      <3>1. hand[c] \in Jobs
        BY <1>5, HandIsJob DEF Bury
      <3>2. \A j : In(dead', j) <=> In(dead, j) \/ hand[c] = j
        BY <1>5, <3>1, InAppend DEF Bury
      <3> QED BY <1>5, <3>1, <3>2 DEF RecordsKept, Bury
    <2>4. IndexedBeforeComplete' /\ CompletedMeansIndexed'
      BY <1>5, HandIsJob, InAppend DEF HandsMatchLabels, IndexedBeforeComplete,
            CompletedMeansIndexed, Bury
    <2>5. DownMeansExited'
      BY <1>5, HandIsJob, InAppend, HomeAssumption DEF DownMeansExited, Bury
    <2> QED BY <2>1, <2>2, <2>3, <2>4, <2>5
  <1>6. CASE LeaveLoop(c)
    BY <1>6, HomeAssumption
       DEF HandsMatchLabels, RecordsKept, IndexedBeforeComplete,
           CompletedMeansIndexed, DownMeansExited, LeaveLoop, Running
  <1> QED BY <1>1, <1>2, <1>3, <1>4, <1>5, <1>6

\* So do the commands of enqueue, and the clocks of delays and claims.
LEMMA JobBasic ==
    ASSUME BasicInv, NEW j \in Jobs,
           \/ QueueOp(SaveUpload(j))
           \/ QueueOp(PushUpload(j))
           \/ QueueOp(BecomeDue(j))
           \/ Overrun(j)
           \/ Expire(j)
    PROVE  BasicInv'
  <1> USE NoneAssumption DEF QueueOp, Goto, Release, Save, After, store, callers, queueVars,
        Actors, Statuses, DequeueLabels, AttemptLabels, CompleteLabels, RetryLabels,
        Labels, InPending, InDead, BasicInv, TypeOK, QueueTypeOK
  <1>1. CASE QueueOp(SaveUpload(j))
    BY <1>1, HomeAssumption
       DEF HandsMatchLabels, RecordsKept, IndexedBeforeComplete,
           CompletedMeansIndexed, DownMeansExited, SaveUpload
  <1>2. CASE QueueOp(PushUpload(j))
    BY <1>2, InAppend, HomeAssumption
       DEF HandsMatchLabels, RecordsKept, IndexedBeforeComplete,
           CompletedMeansIndexed, DownMeansExited, PushUpload
  <1>3. CASE QueueOp(BecomeDue(j))
    BY <1>3, HomeAssumption
       DEF HandsMatchLabels, RecordsKept, IndexedBeforeComplete,
           CompletedMeansIndexed, DownMeansExited, BecomeDue
  <1>4. CASE Overrun(j)
    BY <1>4, SpendType, HomeAssumption
       DEF HandsMatchLabels, RecordsKept, IndexedBeforeComplete,
           CompletedMeansIndexed, DownMeansExited, Overrun, Age, Faults
  <1>5. CASE Expire(j)
    BY <1>5, HomeAssumption
       DEF HandsMatchLabels, RecordsKept, IndexedBeforeComplete,
           CompletedMeansIndexed, DownMeansExited, Expire, Age
  <1> QED BY <1>1, <1>2, <1>3, <1>4, <1>5

\* So do stopping, ending and starting a worker process.
LEMMA ProcBasic ==
    ASSUME BasicInv, NEW p \in Procs,
           \/ Stop(p)
           \/ Exit(p)
           \/ Start(p)
    PROVE  BasicInv'
  <1> USE NoneAssumption DEF QueueOp, Goto, Release, Save, After, store, callers, queueVars,
        Actors, Statuses, DequeueLabels, AttemptLabels, CompleteLabels, RetryLabels,
        Labels, InPending, InDead, BasicInv, TypeOK, QueueTypeOK
  <1>1. CASE Stop(p)
    BY <1>1, SpendType, HomeAssumption
       DEF HandsMatchLabels, RecordsKept, IndexedBeforeComplete,
           CompletedMeansIndexed, DownMeansExited, Stop, Faults
  <1>2. CASE Exit(p)
    BY <1>2, HomeAssumption
       DEF HandsMatchLabels, RecordsKept, IndexedBeforeComplete,
           CompletedMeansIndexed, DownMeansExited, Exit
  <1>3. CASE Start(p)
    BY <1>3, HomeAssumption
       DEF HandsMatchLabels, RecordsKept, IndexedBeforeComplete,
           CompletedMeansIndexed, DownMeansExited, Start
  <1> QED BY <1>1, <1>2, <1>3

\* So does a Redis error, wherever it strikes an actor.
LEMMA ErrorBasic ==
    ASSUME BasicInv, NEW c \in Actors,
           \/ ErrorInAttempt(c)
           \/ ErrorOutside(c)
    PROVE  BasicInv'
  <1> USE NoneAssumption DEF QueueOp, Goto, Release, Save, After, store, callers, queueVars,
        Actors, Statuses, DequeueLabels, AttemptLabels, CompleteLabels, RetryLabels,
        Labels, InPending, InDead, BasicInv, TypeOK, QueueTypeOK
  <1>1. CASE ErrorInAttempt(c)
    <2>1. TypeOK'
      BY <1>1, SpendType, HandIsJob DEF ErrorInAttempt, Faults, Spend
    <2>2. HandsMatchLabels'
      BY <1>1, SpendType, HandIsJob DEF HandsMatchLabels, DownMeansExited, ErrorInAttempt, Faults, Spend
    <2>3. RecordsKept'
      BY <1>1, SpendType, HandIsJob DEF HandsMatchLabels, RecordsKept, ErrorInAttempt, Faults, Spend
    <2>4. IndexedBeforeComplete' /\ CompletedMeansIndexed'
      BY <1>1, SpendType, HandIsJob DEF HandsMatchLabels, IndexedBeforeComplete,
            CompletedMeansIndexed, ErrorInAttempt, Faults, Spend
    <2>5. DownMeansExited'
      BY <1>1, SpendType, HandIsJob, HomeAssumption DEF DownMeansExited, ErrorInAttempt, Faults, Spend
    <2> QED BY <2>1, <2>2, <2>3, <2>4, <2>5
  <1>2. CASE ErrorOutside(c)
    <2>1. TypeOK'
      <3>1. used' \in [Faults -> Nat]
        BY <1>2, SpendType DEF ErrorOutside, Faults
      <3>2. spilled' \in SUBSET Jobs
        BY ZenonT(60), <1>2, HandIsJob DEF ErrorOutside, HandOff
      <3> QED BY <1>2, <3>1, <3>2 DEF ErrorOutside
    <2>2. HandsMatchLabels'
      BY <1>2, SpendType, HandIsJob DEF HandsMatchLabels, DownMeansExited, ErrorOutside, HandOff, Faults
    <2>3. RecordsKept'
      BY <1>2, SpendType, HandIsJob DEF HandsMatchLabels, RecordsKept, ErrorOutside, HandOff, Faults
    <2>4. IndexedBeforeComplete' /\ CompletedMeansIndexed'
      BY <1>2, SpendType, HandIsJob DEF HandsMatchLabels, IndexedBeforeComplete,
            CompletedMeansIndexed, ErrorOutside, HandOff, Faults
    <2>5. DownMeansExited'
      BY <1>2, SpendType, HandIsJob, HomeAssumption DEF DownMeansExited, ErrorOutside, HandOff, Faults
    <2> QED BY <2>1, <2>2, <2>3, <2>4, <2>5
  <1> QED BY <1>1, <1>2

\* So does an upload that fails after its record was saved.
LEMMA RefuseBasic ==
    ASSUME BasicInv, NEW j \in Jobs,
           \/ RefuseUpload(j)
    PROVE  BasicInv'
  <1> USE NoneAssumption DEF QueueOp, Goto, Release, Save, After, store, callers, queueVars,
        Actors, Statuses, DequeueLabels, AttemptLabels, CompleteLabels, RetryLabels,
        Labels, InPending, InDead, BasicInv, TypeOK, QueueTypeOK
  <1>1. CASE RefuseUpload(j)
    BY <1>1, SpendType, HomeAssumption
       DEF HandsMatchLabels, RecordsKept, IndexedBeforeComplete,
           CompletedMeansIndexed, DownMeansExited, RefuseUpload, Faults
  <1> QED BY <1>1

\* So does the death of a worker process.
LEMMA CrashBasic ==
    ASSUME BasicInv, NEW p \in Procs,
           \/ Crash(p)
    PROVE  BasicInv'
  <1> USE NoneAssumption DEF QueueOp, Goto, Release, Save, After, store, callers, queueVars,
        Actors, Statuses, DequeueLabels, AttemptLabels, CompleteLabels, RetryLabels,
        Labels, InPending, InDead, BasicInv, TypeOK, QueueTypeOK
  <1>1. CASE Crash(p)
    <2>1. TypeOK'
      <3>1. used' \in [Faults -> Nat]
        BY <1>1, SpendType DEF Crash, Faults
      <3>2. spilled' \in SUBSET Jobs
        <4>1. \A d \in Actors : pc[d] \in HandOff => hand[d] \in Jobs
          BY HandIsJob DEF HandOff
        <4> QED BY <1>1, <4>1 DEF Crash
      <3> QED BY <1>1, <3>1, <3>2 DEF Crash
    <2>2. HandsMatchLabels'
      BY <1>1, SpendType, HandIsJob DEF HandsMatchLabels, DownMeansExited, Crash, HandOff, Faults
    <2>3. RecordsKept'
      BY ZenonT(60), <1>1, SpendType, HandIsJob DEF HandsMatchLabels, RecordsKept, Crash, HandOff, Faults
    <2>4. IndexedBeforeComplete' /\ CompletedMeansIndexed'
      BY <1>1, SpendType, HandIsJob DEF HandsMatchLabels, IndexedBeforeComplete,
            CompletedMeansIndexed, Crash, HandOff, Faults
    <2>5. DownMeansExited'
      BY <1>1, SpendType, HandIsJob, HomeAssumption DEF DownMeansExited, Crash, HandOff, Faults
    <2> QED BY <2>1, <2>2, <2>3, <2>4, <2>5
  <1> QED BY <1>1

-----------------------------------------------------------------------------
(* What holds whatever fails.                                              *)

\* The basic invariant holds of an empty queue and idle loops.
LEMMA BasicInit == Init => BasicInv
  <1> SUFFICES ASSUME Init PROVE BasicInv
    OBVIOUS
  <1> USE DEF Init, QueueInit
  <1>1. TypeOK
    BY DEF TypeOK, QueueTypeOK, Statuses, Labels, Faults
  <1>2. HandsMatchLabels /\ DownMeansExited
    BY HomeAssumption DEF HandsMatchLabels, DownMeansExited
  <1>3. \A j \in Jobs : ~InPending(j) /\ ~InDead(j)
    BY DEF InPending, InDead, In
  <1>4. RecordsKept
    BY <1>3, NoneAssumption DEF RecordsKept
  <1>5. IndexedBeforeComplete /\ CompletedMeansIndexed
    BY DEF IndexedBeforeComplete, CompletedMeansIndexed, CompleteLabels
  <1> QED BY <1>1, <1>2, <1>4, <1>5 DEF BasicInv

\* Every step, outages included, keeps the basic invariant.
LEMMA BasicStep == BasicInv /\ [Next \/ Outage]_vars => BasicInv'
  <1> SUFFICES ASSUME BasicInv, [Next \/ Outage]_vars PROVE BasicInv'
    OBVIOUS
  <1>1. ASSUME NEW c \in Actors, ActorStep(c) PROVE BasicInv'
    BY <1>1, DequeueBasic, AttemptBasic, SweepBasic, RetryBasic
       DEF ActorStep, WorkerStep, RecovererStep, RetryStep
  <1>2. ASSUME NEW j \in Jobs, JobStep(j) PROVE BasicInv'
    BY <1>2, JobBasic DEF JobStep
  <1>3. ASSUME NEW p \in Procs, ProcStep(p) PROVE BasicInv'
    BY <1>3, ProcBasic DEF ProcStep
  <1>4. CASE Outage
    BY <1>4, ErrorBasic, RefuseBasic, CrashBasic DEF Outage
  <1>5. CASE UNCHANGED vars
    BY <1>5 DEF vars, queueVars, store, callers, BasicInv, TypeOK, QueueTypeOK,
         HandsMatchLabels, RecordsKept, IndexedBeforeComplete, CompletedMeansIndexed,
         DownMeansExited, InPending, InDead
  <1> QED BY <1>1, <1>2, <1>3, <1>4, <1>5 DEF Next

\* Every step of every actor, failed or not, keeps the basic invariant.
THEOREM BasicInvariant == OutageSpec => []BasicInv
  BY BasicInit, BasicStep, PTL DEF OutageSpec

\* Type correctness, outages included.
THEOREM TypeCorrect == OutageSpec => []TypeOK
  <1>1. BasicInv => TypeOK
    BY DEF BasicInv
  <1> QED BY <1>1, BasicInvariant, PTL

\* The "had no record" branches of dequeue and of the sweep are never taken.
THEOREM RecordsFirst == OutageSpec => []RecordBeforeQueue
  <1>1. BasicInv => RecordBeforeQueue
    BY DEF BasicInv, RecordsKept, RecordBeforeQueue
  <1> QED BY <1>1, BasicInvariant, PTL

\* No interleaving, error or crash makes a product COMPLETED with a vector
\* missing.
THEOREM CompletedIsIndexed == OutageSpec => []CompletedMeansIndexed
  <1>1. BasicInv => CompletedMeansIndexed
    BY DEF BasicInv
  <1> QED BY <1>1, BasicInvariant, PTL

-----------------------------------------------------------------------------
(* What holds in a calm system.                                            *)

\* A step of one actor leaves the holders of RUNNING jobs in place when it
\* decides the job that actor holds, or none.
LEMMA OthersStillHold ==
    ASSUME RunningHasHolder, NEW c \in Actors,
           \A d \in Actors \ {c} : pc'[d] = pc[d] /\ hand'[d] = hand[d],
           \A i \in Jobs : rec'[i].status = "RUNNING" =>
             rec[i].status = "RUNNING" /\ ~(hand[c] = i /\ pc[c] \in Undecided)
    PROVE  RunningHasHolder'
  BY DEF RunningHasHolder

\* Every command of dequeue keeps the calm invariant.
LEMMA DequeueCalm ==
    ASSUME BasicInv, CalmInv, NEW c \in Workers,
           \/ QueueOp(ScanDue(c))
           \/ QueueOp(RemoveDue(c))
           \/ QueueOp(PushDue(c))
           \/ QueueOp(PopEmpty(c))
           \/ QueueOp(PopJob(c))
           \/ QueueOp(Load(c))
           \/ QueueOp(Claim(c))
           \/ QueueOp(MarkRunning(c))
    PROVE  CalmInv'
  <1> USE NoneAssumption DEF QueueOp, Goto, Release, Save, After, store, callers, queueVars,
        Actors, Statuses, DequeueLabels, AttemptLabels, CompleteLabels, RetryLabels,
        Labels, InPending, InDead, Claimed, BasicInv, TypeOK, QueueTypeOK
  <1>1. CASE QueueOp(ScanDue(c))
    BY <1>1, HandIsJob
       DEF CalmInv, InGoodHands, Responsible, Entombing, ClaimHasHolder, Attended,
           RunningHasHolder, Undecided, HandsMatchLabels, DownMeansExited, ScanDue
  <1>2. CASE QueueOp(RemoveDue(c))
    BY <1>2, HandIsJob
       DEF CalmInv, InGoodHands, Responsible, Entombing, ClaimHasHolder, Attended,
           RunningHasHolder, Undecided, HandsMatchLabels, DownMeansExited, RemoveDue
  <1>3. CASE QueueOp(PushDue(c))
    <2>1. hand[c] \in Jobs
      BY <1>3, HandIsJob DEF PushDue
    <2>2. \A i : In(pending', i) <=> In(pending, i) \/ hand[c] = i
      BY <1>3, <2>1, InAppend DEF PushDue
    <2>3. /\ pc[c] = "repush"
          /\ pc' = [pc EXCEPT ![c] = "promote"]
          /\ hand' = [hand EXCEPT ![c] = None]
          /\ UNCHANGED <<processing, delayed, dead, rec, upload>>
      BY <1>3 DEF PushDue
    <2>4. ASSUME NEW i \in Jobs, upload'[i] = "accepted" PROVE InGoodHands(i)'
      BY <2>1, <2>2, <2>3, <2>4
         DEF CalmInv, InGoodHands, Responsible, Entombing, HandsMatchLabels
    <2>5. ClaimHasHolder'
      BY ZenonT(60), <2>1, <2>2, <2>3 DEF CalmInv, ClaimHasHolder, Attended, HandsMatchLabels
    <2>6. RunningHasHolder'
      <3>1. \A d \in Actors \ {c} : pc'[d] = pc[d] /\ hand'[d] = hand[d]
        BY <2>1, <2>2, <2>3
      <3>2. \A i \in Jobs : rec'[i].status = "RUNNING" =>
              rec[i].status = "RUNNING" /\ ~(hand[c] = i /\ pc[c] \in Undecided)
        BY <2>1, <2>2, <2>3, HandIsJob DEF Undecided
      <3> QED BY <3>1, <3>2, OthersStillHold DEF CalmInv
    <2> QED BY <2>4, <2>5, <2>6 DEF CalmInv
  <1>4. CASE QueueOp(PopEmpty(c))
    BY <1>4, HandIsJob
       DEF CalmInv, InGoodHands, Responsible, Entombing, ClaimHasHolder, Attended,
           RunningHasHolder, Undecided, HandsMatchLabels, DownMeansExited, PopEmpty
  <1>5. CASE QueueOp(PopJob(c))
    BY <1>5, HandIsJob, InTail
       DEF CalmInv, InGoodHands, Responsible, Entombing, ClaimHasHolder, Attended,
           RunningHasHolder, Undecided, HandsMatchLabels, DownMeansExited, PopJob
  <1>6. CASE QueueOp(Load(c))
    <2>1. hand[c] \in Jobs /\ rec[hand[c]].status # "absent"
      BY <1>6, HandIsJob DEF RecordsKept, Load
    <2>2. /\ pc[c] = "load"
          /\ pc' = [pc EXCEPT ![c] = "claim"]
          /\ UNCHANGED <<store, upload, hand>>
      BY <1>6, <2>1 DEF Load
    <2>3. ASSUME NEW i \in Jobs, upload'[i] = "accepted" PROVE InGoodHands(i)'
      BY <2>1, <2>2, <2>3
         DEF CalmInv, InGoodHands, Responsible, Entombing, HandsMatchLabels
    <2>4. ClaimHasHolder'
      BY ZenonT(60), <2>1, <2>2 DEF CalmInv, ClaimHasHolder, Attended, HandsMatchLabels
    <2>5. RunningHasHolder'
      <3>1. \A d \in Actors \ {c} : pc'[d] = pc[d] /\ hand'[d] = hand[d]
        BY <2>1, <2>2
      <3>2. \A i \in Jobs : rec'[i].status = "RUNNING" =>
              rec[i].status = "RUNNING" /\ ~(hand[c] = i /\ pc[c] \in Undecided)
        BY <2>1, <2>2, HandIsJob DEF Undecided
      <3> QED BY <3>1, <3>2, OthersStillHold DEF CalmInv
    <2> QED BY <2>3, <2>4, <2>5 DEF CalmInv
  <1>7. CASE QueueOp(Claim(c))
    <2>1. ASSUME NEW i \in Jobs, upload'[i] = "accepted" PROVE InGoodHands(i)'
      BY <1>7, HandIsJob, <2>1
         DEF CalmInv, InGoodHands, Responsible, Entombing, HandsMatchLabels, Claim
    <2>2. ClaimHasHolder'
      BY <1>7, HandIsJob DEF CalmInv, ClaimHasHolder, Attended, HandsMatchLabels, Claim
    <2>3. RunningHasHolder'
      <3>1. \A d \in Actors \ {c} : pc'[d] = pc[d] /\ hand'[d] = hand[d]
        BY <1>7 DEF Claim
      <3>2. \A i \in Jobs : rec'[i].status = "RUNNING" =>
              rec[i].status = "RUNNING" /\ ~(hand[c] = i /\ pc[c] \in Undecided)
        BY <1>7, HandIsJob DEF Undecided, Claim
      <3> QED BY <3>1, <3>2, OthersStillHold DEF CalmInv
    <2> QED BY <2>1, <2>2, <2>3 DEF CalmInv
  <1>8. CASE QueueOp(MarkRunning(c))
    BY <1>8, HandIsJob
       DEF CalmInv, InGoodHands, Responsible, Entombing, ClaimHasHolder, Attended,
           RunningHasHolder, Undecided, HandsMatchLabels, DownMeansExited, MarkRunning
  <1> QED BY <1>1, <1>2, <1>3, <1>4, <1>5, <1>6, <1>7, <1>8

\* So does the rest of process_one.
LEMMA AttemptCalm ==
    ASSUME BasicInv, CalmInv, NEW c \in Workers,
           \/ Report(c, "validating", "processing")
           \/ Report(c, "processing", "pipeline")
           \/ Report(c, "caching", "completing")
           \/ IndexImage(c)
           \/ IndexText(c)
           \/ PipelineFails(c)
           \/ QueueOp(SaveComplete(c))
           \/ QueueOp(Ack(c))
    PROVE  CalmInv'
  <1> USE NoneAssumption DEF QueueOp, Goto, Release, Save, After, store, callers, queueVars,
        Actors, Statuses, DequeueLabels, AttemptLabels, CompleteLabels, RetryLabels,
        Labels, InPending, InDead, Claimed, BasicInv, TypeOK, QueueTypeOK
  <1>1. CASE Report(c, "validating", "processing")
    BY <1>1, HandIsJob
       DEF CalmInv, InGoodHands, Responsible, Entombing, ClaimHasHolder, Attended,
           RunningHasHolder, Undecided, HandsMatchLabels, DownMeansExited, Report
  <1>2. CASE Report(c, "processing", "pipeline")
    BY <1>2, HandIsJob
       DEF CalmInv, InGoodHands, Responsible, Entombing, ClaimHasHolder, Attended,
           RunningHasHolder, Undecided, HandsMatchLabels, DownMeansExited, Report
  <1>3. CASE Report(c, "caching", "completing")
    BY <1>3, HandIsJob
       DEF CalmInv, InGoodHands, Responsible, Entombing, ClaimHasHolder, Attended,
           RunningHasHolder, Undecided, HandsMatchLabels, DownMeansExited, Report
  <1>4. CASE IndexImage(c)
    BY <1>4, HandIsJob
       DEF CalmInv, InGoodHands, Responsible, Entombing, ClaimHasHolder, Attended,
           RunningHasHolder, Undecided, HandsMatchLabels, DownMeansExited, IndexImage
  <1>5. CASE IndexText(c)
    BY <1>5, HandIsJob
       DEF CalmInv, InGoodHands, Responsible, Entombing, ClaimHasHolder, Attended,
           RunningHasHolder, Undecided, HandsMatchLabels, DownMeansExited, IndexText
  <1>6. CASE PipelineFails(c)
    BY <1>6, HandIsJob
       DEF CalmInv, InGoodHands, Responsible, Entombing, ClaimHasHolder, Attended,
           RunningHasHolder, Undecided, HandsMatchLabels, DownMeansExited, PipelineFails
  <1>7. CASE QueueOp(SaveComplete(c))
    BY <1>7, HandIsJob
       DEF CalmInv, InGoodHands, Responsible, Entombing, ClaimHasHolder, Attended,
           RunningHasHolder, Undecided, HandsMatchLabels, DownMeansExited, SaveComplete
  <1>8. CASE QueueOp(Ack(c))
    <2>1. ASSUME NEW i \in Jobs, upload'[i] = "accepted" PROVE InGoodHands(i)'
      BY <1>8, HandIsJob, <2>1
         DEF CalmInv, InGoodHands, Responsible, Entombing, HandsMatchLabels, Ack
    <2>2. ClaimHasHolder'
      BY <1>8, HandIsJob DEF CalmInv, ClaimHasHolder, Attended, HandsMatchLabels, Ack
    <2>3. RunningHasHolder'
      <3>1. \A d \in Actors \ {c} : pc'[d] = pc[d] /\ hand'[d] = hand[d]
        BY <1>8 DEF Ack
      <3>2. \A i \in Jobs : rec'[i].status = "RUNNING" =>
              rec[i].status = "RUNNING" /\ ~(hand[c] = i /\ pc[c] \in Undecided)
        BY <1>8, HandIsJob DEF Undecided, Ack
      <3> QED BY <3>1, <3>2, OthersStillHold DEF CalmInv
    <2> QED BY <2>1, <2>2, <2>3 DEF CalmInv
  <1> QED BY <1>1, <1>2, <1>3, <1>4, <1>5, <1>6, <1>7, <1>8

\* So does requeue_stale_jobs up to its call of retry.
LEMMA SweepCalm ==
    ASSUME BasicInv, CalmInv, NEW c \in Recoverers,
           \/ QueueOp(ScanClaims(c))
           \/ QueueOp(SweepNext(c))
           \/ QueueOp(SweepDone(c))
    PROVE  CalmInv'
  <1> USE NoneAssumption DEF QueueOp, Goto, Release, Save, After, store, callers, queueVars,
        Actors, Statuses, DequeueLabels, AttemptLabels, CompleteLabels, RetryLabels,
        Labels, InPending, InDead, Claimed, BasicInv, TypeOK, QueueTypeOK
  <1>1. CASE QueueOp(ScanClaims(c))
    BY <1>1, HandIsJob
       DEF CalmInv, InGoodHands, Responsible, Entombing, ClaimHasHolder, Attended,
           RunningHasHolder, Undecided, HandsMatchLabels, DownMeansExited, ScanClaims
  <1>2. CASE QueueOp(SweepNext(c))
    <2>1. /\ pc[c] = "sweep"
          /\ pc' = [pc EXCEPT ![c] = "failing"]
          /\ UNCHANGED <<store, upload>>
      BY <1>2 DEF RecordsKept, SweepNext
    <2>2. PICK k \in Jobs : hand' = [hand EXCEPT ![c] = k]
      BY <1>2 DEF RecordsKept, SweepNext
    <2>3. ASSUME NEW i \in Jobs, upload'[i] = "accepted" PROVE InGoodHands(i)'
      BY <2>1, <2>2, <2>3
         DEF CalmInv, InGoodHands, Responsible, Entombing, HandsMatchLabels
    <2>4. ClaimHasHolder'
      BY <2>1, <2>2 DEF CalmInv, ClaimHasHolder, Attended, HandsMatchLabels
    <2>5. RunningHasHolder'
      BY <2>1, <2>2 DEF CalmInv, RunningHasHolder, Undecided, HandsMatchLabels
    <2> QED BY <2>3, <2>4, <2>5 DEF CalmInv
  <1>3. CASE QueueOp(SweepDone(c))
    BY <1>3, HandIsJob
       DEF CalmInv, InGoodHands, Responsible, Entombing, ClaimHasHolder, Attended,
           RunningHasHolder, Undecided, HandsMatchLabels, DownMeansExited, SweepDone
  <1> QED BY <1>1, <1>2, <1>3

\* So does every command of retry, and a loop that ends.
LEMMA RetryCalm ==
    ASSUME BasicInv, CalmInv, NEW c \in Actors,
           \/ QueueOp(Unclaim(c))
           \/ QueueOp(SaveRetrying(c))
           \/ QueueOp(Delay(c))
           \/ QueueOp(SaveFailed(c))
           \/ QueueOp(Bury(c))
           \/ LeaveLoop(c)
    PROVE  CalmInv'
  <1> USE NoneAssumption DEF QueueOp, Goto, Release, Save, After, store, callers, queueVars,
        Actors, Statuses, DequeueLabels, AttemptLabels, CompleteLabels, RetryLabels,
        Labels, InPending, InDead, Claimed, BasicInv, TypeOK, QueueTypeOK
  <1>1. CASE QueueOp(Unclaim(c))
    BY <1>1, HandIsJob
       DEF CalmInv, InGoodHands, Responsible, Entombing, ClaimHasHolder, Attended,
           RunningHasHolder, Undecided, HandsMatchLabels, DownMeansExited, Unclaim
  <1>2. CASE QueueOp(SaveRetrying(c))
    <2>1. ASSUME NEW i \in Jobs, upload'[i] = "accepted" PROVE InGoodHands(i)'
      BY <1>2, HandIsJob, <2>1
         DEF CalmInv, InGoodHands, Responsible, Entombing, HandsMatchLabels, SaveRetrying
    <2>2. ClaimHasHolder'
      BY ZenonT(60), <1>2, HandIsJob DEF CalmInv, ClaimHasHolder, Attended, HandsMatchLabels, SaveRetrying
    <2>3. RunningHasHolder'
      <3>1. \A d \in Actors \ {c} : pc'[d] = pc[d] /\ hand'[d] = hand[d]
        BY <1>2 DEF SaveRetrying
      <3>2. \A i \in Jobs : rec'[i].status = "RUNNING" =>
              rec[i].status = "RUNNING" /\ ~(hand[c] = i /\ pc[c] \in Undecided)
        BY <1>2, HandIsJob DEF Undecided, SaveRetrying
      <3> QED BY <3>1, <3>2, OthersStillHold DEF CalmInv
    <2> QED BY <2>1, <2>2, <2>3 DEF CalmInv
  <1>3. CASE QueueOp(Delay(c))
    <2>1. ASSUME NEW i \in Jobs, upload'[i] = "accepted" PROVE InGoodHands(i)'
      BY <1>3, HandIsJob, <2>1
         DEF CalmInv, InGoodHands, Responsible, Entombing, HandsMatchLabels, Delay
    <2>2. ClaimHasHolder'
      BY ZenonT(60), <1>3, HandIsJob DEF CalmInv, ClaimHasHolder, Attended, HandsMatchLabels, Delay
    <2>3. RunningHasHolder'
      <3>1. \A d \in Actors \ {c} : pc'[d] = pc[d] /\ hand'[d] = hand[d]
        BY <1>3 DEF Delay
      <3>2. \A i \in Jobs : rec'[i].status = "RUNNING" =>
              rec[i].status = "RUNNING" /\ ~(hand[c] = i /\ pc[c] \in Undecided)
        BY <1>3, HandIsJob DEF Undecided, Delay
      <3> QED BY <3>1, <3>2, OthersStillHold DEF CalmInv
    <2> QED BY <2>1, <2>2, <2>3 DEF CalmInv
  <1>4. CASE QueueOp(SaveFailed(c))
    <2>1. ASSUME NEW i \in Jobs, upload'[i] = "accepted" PROVE InGoodHands(i)'
      BY <1>4, HandIsJob, <2>1
         DEF CalmInv, InGoodHands, Responsible, Entombing, HandsMatchLabels, SaveFailed
    <2>2. ClaimHasHolder'
      BY ZenonT(60), <1>4, HandIsJob DEF CalmInv, ClaimHasHolder, Attended, HandsMatchLabels, SaveFailed
    <2>3. RunningHasHolder'
      <3>1. \A d \in Actors \ {c} : pc'[d] = pc[d] /\ hand'[d] = hand[d]
        BY <1>4 DEF SaveFailed
      <3>2. \A i \in Jobs : rec'[i].status = "RUNNING" =>
              rec[i].status = "RUNNING" /\ ~(hand[c] = i /\ pc[c] \in Undecided)
        BY <1>4, HandIsJob DEF Undecided, SaveFailed
      <3> QED BY <3>1, <3>2, OthersStillHold DEF CalmInv
    <2> QED BY <2>1, <2>2, <2>3 DEF CalmInv
  <1>5. CASE QueueOp(Bury(c))
    <2>1. hand[c] \in Jobs
      BY <1>5, HandIsJob DEF Bury
    <2>2. \A i : In(dead', i) <=> In(dead, i) \/ hand[c] = i
      BY <1>5, <2>1, InAppend DEF Bury
    <2>3. /\ pc[c] = "entombing"
          /\ pc' = [pc EXCEPT ![c] = After(c)]
          /\ hand' = [hand EXCEPT ![c] = None]
          /\ UNCHANGED <<pending, processing, delayed, rec, upload>>
      BY <1>5 DEF Bury
    <2>4. ASSUME NEW i \in Jobs, upload'[i] = "accepted" PROVE InGoodHands(i)'
      BY <2>1, <2>2, <2>3, <2>4
         DEF CalmInv, InGoodHands, Responsible, Entombing, HandsMatchLabels
    <2>5. ClaimHasHolder'
      BY ZenonT(60), <2>1, <2>2, <2>3 DEF CalmInv, ClaimHasHolder, Attended, HandsMatchLabels
    <2>6. RunningHasHolder'
      <3>1. \A d \in Actors \ {c} : pc'[d] = pc[d] /\ hand'[d] = hand[d]
        BY <2>1, <2>2, <2>3
      <3>2. \A i \in Jobs : rec'[i].status = "RUNNING" =>
              rec[i].status = "RUNNING" /\ ~(hand[c] = i /\ pc[c] \in Undecided)
        BY <2>1, <2>2, <2>3, HandIsJob DEF Undecided
      <3> QED BY <3>1, <3>2, OthersStillHold DEF CalmInv
    <2> QED BY <2>4, <2>5, <2>6 DEF CalmInv
  <1>6. CASE LeaveLoop(c)
    BY <1>6, HandIsJob
       DEF CalmInv, InGoodHands, Responsible, Entombing, ClaimHasHolder, Attended,
           RunningHasHolder, Undecided, HandsMatchLabels, DownMeansExited, LeaveLoop, Running
  <1> QED BY <1>1, <1>2, <1>3, <1>4, <1>5, <1>6

\* So do the commands of enqueue, and the clocks, late workers included.
LEMMA JobCalm ==
    ASSUME BasicInv, CalmInv, NEW j \in Jobs,
           \/ QueueOp(SaveUpload(j))
           \/ QueueOp(PushUpload(j))
           \/ QueueOp(BecomeDue(j))
           \/ Overrun(j)
           \/ Expire(j)
    PROVE  CalmInv'
  <1> USE NoneAssumption DEF QueueOp, Goto, Release, Save, After, store, callers, queueVars,
        Actors, Statuses, DequeueLabels, AttemptLabels, CompleteLabels, RetryLabels,
        Labels, InPending, InDead, Claimed, BasicInv, TypeOK, QueueTypeOK
  <1>1. CASE QueueOp(SaveUpload(j))
    BY <1>1, HandIsJob
       DEF CalmInv, InGoodHands, Responsible, Entombing, ClaimHasHolder, Attended,
           RunningHasHolder, Undecided, HandsMatchLabels, DownMeansExited, SaveUpload
  <1>2. CASE QueueOp(PushUpload(j))
    BY <1>2, HandIsJob, InAppend
       DEF CalmInv, InGoodHands, Responsible, Entombing, ClaimHasHolder, Attended,
           RunningHasHolder, Undecided, HandsMatchLabels, DownMeansExited, PushUpload
  <1>3. CASE QueueOp(BecomeDue(j))
    <2>1. ASSUME NEW i \in Jobs, upload'[i] = "accepted" PROVE InGoodHands(i)'
      BY <1>3, HandIsJob, <2>1
         DEF CalmInv, InGoodHands, Responsible, Entombing, HandsMatchLabels, BecomeDue
    <2>2. ClaimHasHolder'
      BY <1>3, HandIsJob DEF CalmInv, ClaimHasHolder, Attended, HandsMatchLabels, BecomeDue
    <2>3. RunningHasHolder'
      BY <1>3, HandIsJob DEF CalmInv, RunningHasHolder, Undecided, HandsMatchLabels, BecomeDue
    <2> QED BY <2>1, <2>2, <2>3 DEF CalmInv
  <1>4. CASE Overrun(j)
    BY <1>4, HandIsJob
       DEF CalmInv, InGoodHands, Responsible, Entombing, ClaimHasHolder, Attended,
           RunningHasHolder, Undecided, HandsMatchLabels, DownMeansExited, Overrun, Age, Spend
  <1>5. CASE Expire(j)
    BY <1>5, HandIsJob
       DEF CalmInv, InGoodHands, Responsible, Entombing, ClaimHasHolder, Attended,
           RunningHasHolder, Undecided, HandsMatchLabels, DownMeansExited, Expire, Age
  <1> QED BY <1>1, <1>2, <1>3, <1>4, <1>5

\* So do stopping, ending and starting a worker process.
LEMMA ProcCalm ==
    ASSUME BasicInv, CalmInv, NEW p \in Procs,
           \/ Stop(p)
           \/ Exit(p)
           \/ Start(p)
    PROVE  CalmInv'
  <1> USE NoneAssumption DEF QueueOp, Goto, Release, Save, After, store, callers, queueVars,
        Actors, Statuses, DequeueLabels, AttemptLabels, CompleteLabels, RetryLabels,
        Labels, InPending, InDead, Claimed, BasicInv, TypeOK, QueueTypeOK
  <1>1. CASE Stop(p)
    BY <1>1, HandIsJob
       DEF CalmInv, InGoodHands, Responsible, Entombing, ClaimHasHolder, Attended,
           RunningHasHolder, Undecided, HandsMatchLabels, DownMeansExited, Stop, Spend
  <1>2. CASE Exit(p)
    BY <1>2, HandIsJob
       DEF CalmInv, InGoodHands, Responsible, Entombing, ClaimHasHolder, Attended,
           RunningHasHolder, Undecided, HandsMatchLabels, DownMeansExited, Exit
  <1>3. CASE Start(p)
    <2>1. \A i \in Actors : pc[i] # "exited" => pc'[i] = pc[i]
      BY <1>3 DEF DownMeansExited, Start
    <2>2. \A i \in Actors, k \in Jobs : hand[i] = k => pc'[i] = pc[i] /\ hand'[i] = k
      <3>1. \A i \in Actors, k \in Jobs : hand[i] = k => pc[i] # "exited"
        BY DEF HandsMatchLabels
      <3>2. hand' = hand
        BY <1>3 DEF Start
      <3> QED BY <2>1, <3>1, <3>2
    <2>3. UNCHANGED <<pending, processing, delayed, dead, rec, upload>>
      BY <1>3 DEF Start
    <2> HIDE DEF Actors, TypeOK, Labels
    <2>4. ASSUME NEW i \in Jobs, upload'[i] = "accepted" PROVE InGoodHands(i)'
      BY <2>2, <2>3, <2>4 DEF CalmInv, InGoodHands, Responsible, Entombing
    <2>5. ClaimHasHolder'
      BY <2>2, <2>3 DEF CalmInv, ClaimHasHolder, Attended, Actors
    <2>6. RunningHasHolder'
      BY <2>2, <2>3 DEF CalmInv, RunningHasHolder
    <2> QED BY <2>4, <2>5, <2>6 DEF CalmInv
  <1> QED BY <1>1, <1>2, <1>3

\* The calm invariant holds of an empty queue and idle loops.
LEMMA CalmInit == Init => CalmInv
  BY DEF Init, QueueInit, CalmInv, ClaimHasHolder, RunningHasHolder

\* Every step of a calm system keeps the calm invariant.
LEMMA CalmStep == BasicInv /\ CalmInv /\ [Next]_vars => CalmInv'
  <1> SUFFICES ASSUME BasicInv, CalmInv, [Next]_vars PROVE CalmInv'
    OBVIOUS
  <1>1. ASSUME NEW c \in Actors, ActorStep(c) PROVE CalmInv'
    BY <1>1, DequeueCalm, AttemptCalm, SweepCalm, RetryCalm
       DEF ActorStep, WorkerStep, RecovererStep, RetryStep
  <1>2. ASSUME NEW j \in Jobs, JobStep(j) PROVE CalmInv'
    BY <1>2, JobCalm DEF JobStep
  <1>3. ASSUME NEW p \in Procs, ProcStep(p) PROVE CalmInv'
    BY <1>3, ProcCalm DEF ProcStep
  <1>4. CASE UNCHANGED vars
    BY <1>4 DEF vars, queueVars, store, callers, CalmInv, InGoodHands, Responsible,
         Entombing, ClaimHasHolder, Attended, RunningHasHolder, InPending, InDead
  <1> QED BY <1>1, <1>2, <1>3, <1>4 DEF Next

\* A calm system keeps both invariants.
THEOREM CalmInvariant == Spec => [](BasicInv /\ CalmInv)
  <1>1. BasicInv /\ CalmInv /\ [Next]_vars => (BasicInv /\ CalmInv)'
    BY BasicStep, CalmStep
  <1> QED BY <1>1, BasicInit, CalmInit, PTL DEF Spec

\* "Never lose a job" holds as long as Redis answers and no process dies, for
\* any number of workers, recovery loops, stops and late jobs.
THEOREM CalmLosesNoJob == Spec => []NoJobLost
  <1>1. CalmInv => NoJobLost
    BY DEF CalmInv, InGoodHands, NoJobLost, Accounted
  <1> QED BY <1>1, CalmInvariant, PTL

\* In a calm system every claim has its worker, so recovery is for late jobs
\* only.
THEOREM ClaimsAreHeld == Spec => []ClaimHasHolder
  <1>1. CalmInv => ClaimHasHolder
    BY DEF CalmInv
  <1> QED BY <1>1, CalmInvariant, PTL

\* A graceful stop of the whole pool leaves nothing half-done behind.
THEOREM StopsDrain == Spec => []StopDrains
  <1>1. ASSUME BasicInv, CalmInv PROVE StopDrains
    <2> SUFFICES ASSUME \A p \in Procs : proc[p] = "down", NEW j \in Jobs
                 PROVE  processing[j] = "absent" /\ rec[j].status # "RUNNING"
      BY DEF StopDrains
    <2>1. \A c \in Actors : pc[c] = "exited"
      BY <1>1, HomeAssumption DEF BasicInv, DownMeansExited
    <2>2. processing[j] = "absent"
      BY <1>1, <2>1 DEF CalmInv, ClaimHasHolder, Attended, Claimed, AttemptLabels,
           CompleteLabels, Actors
    <2>3. rec[j].status # "RUNNING"
      BY <1>1, <2>1 DEF CalmInv, RunningHasHolder, Undecided, AttemptLabels
    <2> QED BY <2>2, <2>3
  <1> QED BY <1>1, CalmInvariant, PTL

-----------------------------------------------------------------------------
(* One worker and one recovery loop, at any number of processes, and claims *)
(* that do not expire under a live attempt (OneWorker, OneRecoverer,        *)
(* NeverLate): a claim or its absence then tells who has a job, whatever is *)
(* stopped, raises or crashes.  SoloInv of module WorkerPool says where     *)
(* each job is, and with which count.                                       *)

\* A list without repetitions stays so when an id that is not on it is pushed.
LEMMA NoRepeatsAppend ==
    ASSUME NEW S, NEW s \in Seq(S), NEW x \in S, NoRepeats(s), ~In(s, x)
    PROVE  NoRepeats(Append(s, x))
  BY DEF NoRepeats, In

\* ... and when its head is popped, which is then no longer on it.
LEMMA NoRepeatsTail ==
    ASSUME NEW S, NEW s \in Seq(S), s # <<>>, NoRepeats(s)
    PROVE  NoRepeats(Tail(s)) /\ ~In(Tail(s), Head(s))
  BY DEF NoRepeats, In

\* A worker with a job has it in its memory only, or has a fresh claim on it.
LEMMA WorkerClaims ==
    ASSUME BasicInv, SoloInv, NEW w \in Workers, hand[w] # None
    PROVE  hand[w] \in Jobs /\ (pc[w] \in HandOff \/ processing[hand[w]] = "fresh")
  <1> USE DEF BasicInv, SoloInv, TypeOK, QueueTypeOK, Actors
  <1>1. hand[w] \in Jobs
    OBVIOUS
  <1>2. pc[w] \in HandOff \cup Claimed
    BY DEF HandsMatchLabels, LabelsOfKind, Labels, HandOff, Claimed, DequeueLabels,
         AttemptLabels, CompleteLabels, RetryLabels
  <1> QED BY <1>1, <1>2 DEF ClaimsTellApart

\* A recovery loop with a job has it in its memory only, or there is a stale
\* claim on it.
LEMMA RecovererClaims ==
    ASSUME BasicInv, SoloInv, NEW r \in Recoverers, hand[r] # None
    PROVE  hand[r] \in Jobs /\ (pc[r] \in HandOff \/ processing[hand[r]] = "stale")
  <1> USE DEF BasicInv, SoloInv, TypeOK, QueueTypeOK, Actors
  <1>1. hand[r] \in Jobs
    OBVIOUS
  <1>2. pc[r] \in HandOff \cup {"failing"}
    BY DEF HandsMatchLabels, LabelsOfKind, HandOff, RetryLabels
  <1> QED BY <1>1, <1>2 DEF ClaimsTellApart

\* So a job someone holds is under a claim unless only that actor has it.
LEMMA HeldIsClaimed ==
    ASSUME BasicInv, SoloInv, NEW c \in Actors, NEW j \in Jobs,
           hand[c] = j, pc[c] \notin HandOff
    PROVE  processing[j] # "absent"
  BY WorkerClaims, RecovererClaims, NoneAssumption DEF Actors

\* No two actors hold the same job.
LEMMA SoloHolders ==
    ASSUME BasicInv, SoloInv, OneWorker, OneRecoverer,
           NEW c \in Actors, NEW d \in Actors, hand[c] # None, hand[c] = hand[d]
    PROVE  c = d
  <1>1. ASSUME hand[c] \in Jobs, pc[c] \in HandOff, pc[d] \in HandOff PROVE c = d
    BY <1>1 DEF SoloInv, Apart, Carries
  <1>2. ASSUME hand[c] \in Jobs, pc[c] \in HandOff \/ pc[d] \in HandOff
        PROVE  processing[hand[c]] = "absent"
    BY <1>2 DEF SoloInv, Apart, Carries
  <1>3. CASE c \in Workers /\ d \in Workers
    BY <1>3 DEF OneWorker
  <1>4. CASE c \in Recoverers /\ d \in Recoverers
    BY <1>4 DEF OneRecoverer
  <1>5. CASE c \in Workers /\ d \in Recoverers
    BY <1>1, <1>2, <1>5, WorkerClaims, RecovererClaims
  <1>6. CASE c \in Recoverers /\ d \in Workers
    BY <1>1, <1>2, <1>6, WorkerClaims, RecovererClaims
  <1> QED BY <1>3, <1>4, <1>5, <1>6 DEF Actors

\* Every command of dequeue keeps the invariant of the one worker.
LEMMA DequeueSolo ==
    ASSUME BasicInv, SoloInv, OneWorker, OneRecoverer, NeverLate, NEW c \in Workers,
           \/ QueueOp(ScanDue(c))
           \/ QueueOp(RemoveDue(c))
           \/ QueueOp(PushDue(c))
           \/ QueueOp(PopEmpty(c))
           \/ QueueOp(PopJob(c))
           \/ QueueOp(Load(c))
           \/ QueueOp(Claim(c))
           \/ QueueOp(MarkRunning(c))
    PROVE  SoloInv'
  <1> USE NoneAssumption, ActorsAssumption, MaxRetriesAssumption
      DEF QueueOp, Goto, Release, Save, After, store, callers, queueVars, Actors, Statuses,
          DequeueLabels, AttemptLabels, CompleteLabels, RetryLabels, Labels, InPending, InDead,
          Claimed, BasicInv, TypeOK, QueueTypeOK, SoloInv
  <1>1. CASE QueueOp(ScanDue(c))
    BY <1>1
       DEF Apart, Carries, HandOff, ScanDue, LabelsOfKind, ClaimsTellApart, ScansCurrent,
           NowhereBeforePush, CopiesCurrent, CopyCurrent, BudgetKept, WithinBudget,
           LossOnlyInHandOff, Accounted, Responsible, Entombing
  <1>2. CASE QueueOp(RemoveDue(c))
    BY <1>2
       DEF Apart, ScansCurrent, Carries, RemoveDue, LabelsOfKind, ClaimsTellApart, OneWorker,
           OneRecoverer, NowhereBeforePush, CopiesCurrent, CopyCurrent, BudgetKept, WithinBudget,
           LossOnlyInHandOff, Accounted, Responsible, Entombing, HandsMatchLabels
  <1>3. CASE QueueOp(PushDue(c))
    <2>1. hand[c] \in Jobs /\ ~In(pending, hand[c])
      BY <1>3, HandIsJob DEF PushDue, Apart, Carries, HandOff
    <2>2. \A x : In(pending', x) <=> In(pending, x) \/ hand[c] = x
      BY <1>3, <2>1, InAppend DEF PushDue
    <2>3. NoRepeats(pending')
      BY <1>3, <2>1, NoRepeatsAppend DEF PushDue, Apart
    <2>4. Apart'
      BY <1>3, <2>2, <2>3 DEF Apart, Carries, HandOff, PushDue
    <2>5. LabelsOfKind' /\ ClaimsTellApart' /\ ScansCurrent'
      BY <1>3 DEF LabelsOfKind, ClaimsTellApart, ScansCurrent, PushDue
    <2>6. NowhereBeforePush' /\ CopiesCurrent' /\ BudgetKept'
      BY <1>3, <2>2
         DEF NowhereBeforePush, CopiesCurrent, CopyCurrent, BudgetKept,
             WithinBudget, PushDue
    <2>7. LossOnlyInHandOff'
      BY <1>3, <2>2 DEF LossOnlyInHandOff, Accounted, Responsible, Entombing, PushDue
    <2> QED BY <2>4, <2>5, <2>6, <2>7 DEF SoloInv
  <1>4. CASE QueueOp(PopEmpty(c))
    BY <1>4
       DEF Apart, Carries, HandOff, PopEmpty, LabelsOfKind, ClaimsTellApart, ScansCurrent,
           NowhereBeforePush, CopiesCurrent, CopyCurrent, BudgetKept, WithinBudget,
           LossOnlyInHandOff, Accounted, Responsible, Entombing
  <1>5. CASE QueueOp(PopJob(c))
    <2>1. hand'[c] \in Jobs /\ In(pending, hand'[c]) /\ ~In(pending', hand'[c])
      BY <1>5, InTail, NoRepeatsTail DEF PopJob, Apart
    <2>2. \A x : In(pending, x) <=> hand'[c] = x \/ In(pending', x)
      BY <1>5, InTail DEF PopJob
    <2>3. NoRepeats(pending')
      BY <1>5, NoRepeatsTail DEF PopJob, Apart
    <2>4. Apart'
      BY <1>5, <2>1, <2>2, <2>3 DEF Apart, Carries, PopJob
    <2>5. LabelsOfKind' /\ ClaimsTellApart' /\ ScansCurrent'
      BY <1>5 DEF LabelsOfKind, ClaimsTellApart, ScansCurrent, PopJob
    <2>6. NowhereBeforePush' /\ CopiesCurrent' /\ BudgetKept'
      BY <1>5, <2>2
         DEF NowhereBeforePush, CopiesCurrent, CopyCurrent, BudgetKept,
             WithinBudget, PopJob
    <2>7. LossOnlyInHandOff'
      BY <1>5, <2>2
         DEF LossOnlyInHandOff, Accounted, Responsible, Entombing, HandsMatchLabels,
             PopJob
    <2> QED BY <2>4, <2>5, <2>6, <2>7 DEF SoloInv
  <1>6. CASE QueueOp(Load(c))
    <2>1. hand[c] \in Jobs /\ rec[hand[c]].status # "absent"
      BY <1>6, HandIsJob DEF Load, RecordsKept
    <2>2. /\ pc[c] = "load" /\ pc' = [pc EXCEPT ![c] = "claim"]
          /\ count' = [count EXCEPT ![c] = rec[hand[c]].count]
          /\ UNCHANGED <<store, upload, hand, todo, proc, product, spilled, used>>
      BY <1>6, <2>1 DEF Load
    <2>3. Apart'
      BY <2>2 DEF Apart, Carries, HandOff
    <2>4. LabelsOfKind' /\ ClaimsTellApart' /\ ScansCurrent'
      BY <2>2 DEF LabelsOfKind, ClaimsTellApart, ScansCurrent
    <2>5. NowhereBeforePush' /\ CopiesCurrent' /\ BudgetKept'
      BY <2>2
         DEF NowhereBeforePush, CopiesCurrent, CopyCurrent, BudgetKept, WithinBudget
    <2>6. LossOnlyInHandOff'
      BY <2>2 DEF LossOnlyInHandOff, Accounted, Responsible, Entombing
    <2> QED BY <2>3, <2>4, <2>5, <2>6 DEF SoloInv
  <1>7. CASE QueueOp(Claim(c))
    <2>1. \A c1, d1 \in Actors : hand[c1] # None /\ hand[c1] = hand[d1] => c1 = d1
      BY SoloHolders
    <2>2. Apart'
      BY <1>7 DEF Apart, Carries, HandOff, Claim
    <2>3. LabelsOfKind'
      BY <1>7 DEF LabelsOfKind, Claim
    <2>4. ClaimsTellApart'
      <3>1. hand[c] \in Jobs
        BY <1>7, HandIsJob DEF Claim
      <3>2. \A d \in Actors \ {c} : hand[d] # hand[c]
        BY <3>1, <2>1
      <3>3. \A w \in Workers : pc'[w] \in Claimed => processing'[hand'[w]] = "fresh"
        BY <1>7, <3>1, OneWorker DEF Claim, OneWorker
      <3>4. \A r \in Recoverers : pc'[r] = "failing" => processing'[hand'[r]] = "stale"
        <4>1. \A r \in Recoverers : r # c /\ r \in Actors
          OBVIOUS
        <4>2. \A r \in Recoverers : pc'[r] = "failing" =>
                pc[r] = "failing" /\ hand'[r] = hand[r] /\ hand[r] # hand[c]
          BY <1>7, <4>1, <3>2 DEF Claim
        <4> QED BY <1>7, <4>2, <3>1 DEF Claim, ClaimsTellApart
      <3> QED BY <3>3, <3>4 DEF ClaimsTellApart
    <2>5. ScansCurrent'
      BY <1>7 DEF ScansCurrent, Apart, Carries, HandOff, Claim
    <2>6. NowhereBeforePush' /\ CopiesCurrent' /\ BudgetKept'
      BY <1>7
         DEF NowhereBeforePush, CopiesCurrent, CopyCurrent, BudgetKept,
             WithinBudget, Claim
    <2>7. LossOnlyInHandOff'
      BY <1>7 DEF LossOnlyInHandOff, Accounted, Responsible, Entombing, Claim
    <2> QED BY <2>2, <2>3, <2>4, <2>5, <2>6, <2>7 DEF SoloInv
  <1>8. CASE QueueOp(MarkRunning(c))
    <2>1. \A c1, d1 \in Actors : hand[c1] # None /\ hand[c1] = hand[d1] => c1 = d1
      BY SoloHolders
    <2>2. Apart'
      BY <1>8 DEF Apart, Carries, HandOff, MarkRunning
    <2>3. LabelsOfKind' /\ ClaimsTellApart' /\ ScansCurrent'
      BY <1>8 DEF LabelsOfKind, ClaimsTellApart, ScansCurrent, MarkRunning
    <2>4. NowhereBeforePush' /\ CopiesCurrent' /\ BudgetKept'
      BY <1>8, <2>1
         DEF NowhereBeforePush, CopiesCurrent, CopyCurrent, BudgetKept,
             WithinBudget, MarkRunning
    <2>5. LossOnlyInHandOff'
      BY <1>8 DEF LossOnlyInHandOff, Accounted, Responsible, Entombing, MarkRunning
    <2> QED BY <2>2, <2>3, <2>4, <2>5 DEF SoloInv
  <1> QED BY <1>1, <1>2, <1>3, <1>4, <1>5, <1>6, <1>7, <1>8

\* ... every step of an attempt and of complete ...
LEMMA AttemptSolo ==
    ASSUME BasicInv, SoloInv, OneWorker, OneRecoverer, NeverLate, NEW c \in Workers,
           \/ Report(c, "validating", "processing")
           \/ Report(c, "processing", "pipeline")
           \/ Report(c, "caching", "completing")
           \/ IndexImage(c)
           \/ IndexText(c)
           \/ PipelineFails(c)
           \/ QueueOp(SaveComplete(c))
           \/ QueueOp(Ack(c))
    PROVE  SoloInv'
  <1> USE NoneAssumption, ActorsAssumption, MaxRetriesAssumption
      DEF QueueOp, Goto, Release, Save, After, store, callers, queueVars, Actors, Statuses,
          DequeueLabels, AttemptLabels, CompleteLabels, RetryLabels, Labels, InPending, InDead,
          Claimed, BasicInv, TypeOK, QueueTypeOK, SoloInv
  <1>1. CASE Report(c, "validating", "processing")
    BY <1>1, SoloHolders
       DEF Apart, Carries, HandOff, Report, LabelsOfKind, ClaimsTellApart, ScansCurrent,
           NowhereBeforePush, CopiesCurrent, CopyCurrent, BudgetKept, WithinBudget,
           LossOnlyInHandOff, Accounted, Responsible, Entombing
  <1>2. CASE Report(c, "processing", "pipeline")
    <2>1. \A c1, d1 \in Actors : hand[c1] # None /\ hand[c1] = hand[d1] => c1 = d1
      BY SoloHolders
    <2>2. Apart'
      BY <1>2 DEF Apart, Carries, HandOff, Report
    <2>3. LabelsOfKind' /\ ClaimsTellApart' /\ ScansCurrent'
      BY <1>2 DEF LabelsOfKind, ClaimsTellApart, ScansCurrent, Report
    <2>4. NowhereBeforePush' /\ CopiesCurrent' /\ BudgetKept'
      BY <1>2, <2>1
         DEF NowhereBeforePush, CopiesCurrent, CopyCurrent, BudgetKept,
             WithinBudget, Report
    <2>5. LossOnlyInHandOff'
      BY <1>2 DEF LossOnlyInHandOff, Accounted, Responsible, Entombing, Report
    <2> QED BY <2>2, <2>3, <2>4, <2>5 DEF SoloInv
  <1>3. CASE Report(c, "caching", "completing")
    BY SMTT(30), <1>3, SoloHolders
       DEF Apart, Carries, HandOff, Report, LabelsOfKind, ClaimsTellApart, ScansCurrent,
           NowhereBeforePush, CopiesCurrent, CopyCurrent, BudgetKept, WithinBudget,
           LossOnlyInHandOff, Accounted, Responsible, Entombing
  <1>4. CASE IndexImage(c)
    BY <1>4
       DEF Apart, Carries, HandOff, IndexImage, LabelsOfKind, ClaimsTellApart, ScansCurrent,
           NowhereBeforePush, CopiesCurrent, CopyCurrent, BudgetKept, WithinBudget,
           LossOnlyInHandOff, Accounted, Responsible, Entombing
  <1>5. CASE IndexText(c)
    BY <1>5
       DEF Apart, Carries, HandOff, IndexText, LabelsOfKind, ClaimsTellApart, ScansCurrent,
           NowhereBeforePush, CopiesCurrent, CopyCurrent, BudgetKept, WithinBudget,
           LossOnlyInHandOff, Accounted, Responsible, Entombing
  <1>6. CASE PipelineFails(c)
    BY <1>6
       DEF Apart, Carries, HandOff, PipelineFails, LabelsOfKind, ClaimsTellApart, ScansCurrent,
           NowhereBeforePush, CopiesCurrent, CopyCurrent, BudgetKept, WithinBudget,
           LossOnlyInHandOff, Accounted, Responsible, Entombing
  <1>7. CASE QueueOp(SaveComplete(c))
    <2>1. \A c1, d1 \in Actors : hand[c1] # None /\ hand[c1] = hand[d1] => c1 = d1
      BY SoloHolders
    <2>2. Apart'
      BY <1>7 DEF Apart, Carries, HandOff, SaveComplete
    <2>3. LabelsOfKind' /\ ClaimsTellApart' /\ ScansCurrent'
      BY <1>7 DEF LabelsOfKind, ClaimsTellApart, ScansCurrent, SaveComplete
    <2>4. NowhereBeforePush'
      BY <1>7 DEF NowhereBeforePush, SaveComplete
    <2>5. CopiesCurrent'
      <3>1. CopyCurrent(c)'
        BY <1>7, HandIsJob DEF SaveComplete, CopiesCurrent, CopyCurrent
      <3>2. ASSUME NEW d \in Actors, d # c PROVE CopyCurrent(d)'
        BY <1>7, <2>1, HandIsJob, <3>2 DEF SaveComplete, CopiesCurrent, CopyCurrent, HandsMatchLabels
      <3> QED BY <3>1, <3>2 DEF CopiesCurrent
    <2>6. BudgetKept'
      BY <1>7 DEF BudgetKept, WithinBudget, CopiesCurrent, CopyCurrent, SaveComplete
    <2>7. LossOnlyInHandOff'
      BY <1>7 DEF LossOnlyInHandOff, Accounted, Responsible, Entombing, SaveComplete
    <2> QED BY <2>2, <2>3, <2>4, <2>5, <2>6, <2>7 DEF SoloInv
  <1>8. CASE QueueOp(Ack(c))
    BY SMTT(30), <1>8, SoloHolders
       DEF Apart, Carries, Ack, LabelsOfKind, ClaimsTellApart, ScansCurrent, NowhereBeforePush,
           CopiesCurrent, CopyCurrent, BudgetKept, WithinBudget, LossOnlyInHandOff, Accounted,
           Responsible, Entombing
  <1> QED BY <1>1, <1>2, <1>3, <1>4, <1>5, <1>6, <1>7, <1>8

\* ... the recovery loop, which the worker has no claim against ...
LEMMA SweepSolo ==
    ASSUME BasicInv, SoloInv, OneWorker, OneRecoverer, NeverLate, NEW c \in Recoverers,
           \/ QueueOp(ScanClaims(c))
           \/ QueueOp(SweepNext(c))
           \/ QueueOp(SweepDone(c))
    PROVE  SoloInv'
  <1> USE NoneAssumption, ActorsAssumption, MaxRetriesAssumption
      DEF QueueOp, Goto, Release, Save, After, store, callers, queueVars, Actors, Statuses,
          DequeueLabels, AttemptLabels, CompleteLabels, RetryLabels, Labels, InPending, InDead,
          Claimed, BasicInv, TypeOK, QueueTypeOK, SoloInv
  <1>1. CASE QueueOp(ScanClaims(c))
    BY <1>1
       DEF Apart, Carries, HandOff, ScanClaims, LabelsOfKind, ClaimsTellApart, ScansCurrent,
           HandsMatchLabels, NowhereBeforePush, CopiesCurrent, CopyCurrent, BudgetKept,
           WithinBudget, LossOnlyInHandOff, Accounted, Responsible, Entombing
  <1>2. CASE QueueOp(SweepNext(c))
    <2>1. PICK k \in todo[c] :
            /\ todo' = [todo EXCEPT ![c] = @ \ {k}]
            /\ hand' = [hand EXCEPT ![c] = k]
            /\ count' = [count EXCEPT ![c] = rec[k].count]
      BY <1>2 DEF SweepNext, RecordsKept
    <2>2. /\ pc[c] = "sweep" /\ pc' = [pc EXCEPT ![c] = "failing"]
          /\ UNCHANGED <<store, upload, proc, product, spilled, used>>
      BY <1>2 DEF SweepNext, RecordsKept
    <2>3. k \in Jobs
      BY <2>1
    <2>4. Apart'
      BY <2>1, <2>2 DEF Apart, Carries, HandOff
    <2>5. LabelsOfKind' /\ ClaimsTellApart' /\ ScansCurrent'
      BY <2>1, <2>2 DEF LabelsOfKind, ClaimsTellApart, ScansCurrent
    <2>6. NowhereBeforePush' /\ CopiesCurrent' /\ BudgetKept'
      BY <2>1, <2>2
         DEF NowhereBeforePush, ScansCurrent, CopiesCurrent, CopyCurrent,
             BudgetKept, WithinBudget
    <2>7. LossOnlyInHandOff'
      BY <2>1, <2>2
         DEF LossOnlyInHandOff, Accounted, Responsible, Entombing, HandsMatchLabels
    <2> QED BY <2>4, <2>5, <2>6, <2>7 DEF SoloInv
  <1>3. CASE QueueOp(SweepDone(c))
    <2>1. Apart'
      BY <1>3 DEF Apart, Carries, HandOff, SweepDone
    <2>2. LabelsOfKind' /\ ClaimsTellApart' /\ ScansCurrent'
      BY <1>3 DEF LabelsOfKind, ClaimsTellApart, ScansCurrent, SweepDone
    <2>3. NowhereBeforePush' /\ CopiesCurrent' /\ BudgetKept'
      BY <1>3
         DEF NowhereBeforePush, CopiesCurrent, CopyCurrent, BudgetKept,
             WithinBudget, SweepDone
    <2>4. LossOnlyInHandOff'
      BY <1>3 DEF LossOnlyInHandOff, Accounted, Responsible, Entombing, SweepDone
    <2> QED BY <2>1, <2>2, <2>3, <2>4 DEF SoloInv
  <1> QED BY <1>1, <1>2, <1>3

\* ... every command of retry_or_fail, whoever calls it ...
LEMMA RetrySolo ==
    ASSUME BasicInv, SoloInv, OneWorker, OneRecoverer, NeverLate, NEW c \in Actors,
           \/ QueueOp(Unclaim(c))
           \/ QueueOp(SaveRetrying(c))
           \/ QueueOp(Delay(c))
           \/ QueueOp(SaveFailed(c))
           \/ QueueOp(Bury(c))
           \/ LeaveLoop(c)
    PROVE  SoloInv'
  <1> USE NoneAssumption, ActorsAssumption, MaxRetriesAssumption
      DEF QueueOp, Goto, Release, Save, After, store, callers, queueVars, Actors, Statuses,
          DequeueLabels, AttemptLabels, CompleteLabels, RetryLabels, Labels, InPending, InDead,
          Claimed, BasicInv, TypeOK, QueueTypeOK, SoloInv
  <1>1. CASE QueueOp(Unclaim(c))
    <2>1. Apart'
      BY <1>1 DEF Apart, ClaimsTellApart, Carries, Unclaim
    <2>2. LabelsOfKind' /\ ClaimsTellApart' /\ ScansCurrent'
      BY <1>1
         DEF LabelsOfKind, ClaimsTellApart, ScansCurrent, OneWorker, OneRecoverer,
             Unclaim
    <2>3. NowhereBeforePush'
      BY <1>1 DEF NowhereBeforePush, Unclaim
    <2>4. CopiesCurrent'
      <3>1. CopyCurrent(c)'
        <4>1. hand[c] \in Jobs
          BY <1>1, HandIsJob DEF Unclaim
        <4>2. rec[hand[c]].count \in Nat /\ rec[hand[c]].count = count[c] /\ pc[c] = "failing"
          BY <1>1, <4>1 DEF Unclaim, CopiesCurrent, CopyCurrent
        <4>3. rec[hand[c]].count <= MaxRetries
          BY <4>1, <4>2 DEF BudgetKept, WithinBudget
        <4>4. /\ UNCHANGED <<hand, rec>> /\ count'[c] = count[c] + 1
              /\ pc'[c] = IF count[c] + 1 > MaxRetries THEN "burying" ELSE "rescheduling"
          BY <1>1 DEF Unclaim
        <4> QED BY <4>2, <4>3, <4>4 DEF CopyCurrent
      <3>2. ASSUME NEW d \in Actors, d # c PROVE CopyCurrent(d)'
        BY <1>1, <3>2 DEF Unclaim, CopiesCurrent, CopyCurrent
      <3> QED BY <3>1, <3>2 DEF CopiesCurrent
    <2>5. BudgetKept'
      BY <1>1 DEF BudgetKept, WithinBudget, Unclaim
    <2>6. LossOnlyInHandOff'
      BY <1>1 DEF LossOnlyInHandOff, Accounted, Responsible, Entombing, Unclaim
    <2> QED BY <2>1, <2>2, <2>3, <2>4, <2>5, <2>6 DEF SoloInv
  <1>2. CASE QueueOp(SaveRetrying(c))
    <2>1. \A c1, d1 \in Actors : hand[c1] # None /\ hand[c1] = hand[d1] => c1 = d1
      BY SoloHolders
    <2>2. Apart'
      BY <1>2 DEF Apart, Carries, HandOff, SaveRetrying
    <2>3. LabelsOfKind' /\ ClaimsTellApart' /\ ScansCurrent'
      BY <1>2 DEF LabelsOfKind, ClaimsTellApart, ScansCurrent, SaveRetrying
    <2>4. NowhereBeforePush'
      BY <1>2 DEF NowhereBeforePush, SaveRetrying
    <2>5. CopiesCurrent'
      BY <1>2, <2>1, HandIsJob
         DEF CopiesCurrent, CopyCurrent, HandsMatchLabels, NowhereBeforePush,
             SaveRetrying
    <2>6. BudgetKept'
      BY <1>2 DEF BudgetKept, WithinBudget, CopiesCurrent, CopyCurrent, SaveRetrying
    <2>7. LossOnlyInHandOff'
      BY <1>2 DEF LossOnlyInHandOff, Accounted, Responsible, Entombing, SaveRetrying
    <2> QED BY <2>2, <2>3, <2>4, <2>5, <2>6, <2>7 DEF SoloInv
  <1>3. CASE QueueOp(Delay(c))
    BY <1>3
       DEF Apart, Carries, HandOff, Delay, LabelsOfKind, ClaimsTellApart, ScansCurrent,
           NowhereBeforePush, CopiesCurrent, CopyCurrent, BudgetKept, WithinBudget,
           LossOnlyInHandOff, Accounted, Responsible, Entombing
  <1>4. CASE QueueOp(SaveFailed(c))
    <2>1. \A c1, d1 \in Actors : hand[c1] # None /\ hand[c1] = hand[d1] => c1 = d1
      BY SoloHolders
    <2>2. Apart'
      BY <1>4 DEF Apart, Carries, HandOff, SaveFailed
    <2>3. LabelsOfKind' /\ ClaimsTellApart' /\ ScansCurrent'
      BY <1>4 DEF LabelsOfKind, ClaimsTellApart, ScansCurrent, SaveFailed
    <2>4. NowhereBeforePush' /\ CopiesCurrent' /\ BudgetKept'
      BY <1>4, <2>1
         DEF NowhereBeforePush, HandsMatchLabels, CopiesCurrent, CopyCurrent,
             BudgetKept, WithinBudget, Apart, Carries, HandOff, SaveFailed
    <2>5. LossOnlyInHandOff'
      BY <1>4 DEF LossOnlyInHandOff, Accounted, Responsible, Entombing, SaveFailed
    <2> QED BY <2>2, <2>3, <2>4, <2>5 DEF SoloInv
  <1>5. CASE QueueOp(Bury(c))
    <2>1. hand[c] \in Jobs /\ ~In(dead, hand[c])
      BY <1>5, HandIsJob DEF Bury, Apart, Carries, HandOff
    <2>2. \A x : In(dead', x) <=> In(dead, x) \/ hand[c] = x
      BY <1>5, <2>1, InAppend DEF Bury
    <2>3. NoRepeats(dead')
      BY <1>5, <2>1, NoRepeatsAppend DEF Bury, Apart
    <2>4. Apart'
      BY <1>5, <2>2, <2>3 DEF Apart, Carries, HandOff, Bury
    <2>5. LabelsOfKind' /\ ClaimsTellApart' /\ ScansCurrent'
      BY <1>5 DEF LabelsOfKind, ClaimsTellApart, ScansCurrent, Bury
    <2>6. NowhereBeforePush' /\ CopiesCurrent' /\ BudgetKept'
      BY <1>5, <2>2
         DEF NowhereBeforePush, CopiesCurrent, CopyCurrent, BudgetKept,
             WithinBudget, Bury
    <2>7. LossOnlyInHandOff'
      BY <1>5, <2>2 DEF LossOnlyInHandOff, Accounted, Responsible, Entombing, Bury
    <2> QED BY <2>4, <2>5, <2>6, <2>7 DEF SoloInv
  <1>6. CASE LeaveLoop(c)
    BY <1>6
       DEF Apart, Carries, HandOff, LeaveLoop, Running, LabelsOfKind, ClaimsTellApart, ScansCurrent,
           NowhereBeforePush, CopiesCurrent, CopyCurrent, BudgetKept, WithinBudget,
           LossOnlyInHandOff, Accounted, Responsible, Entombing
  <1> QED BY <1>1, <1>2, <1>3, <1>4, <1>5, <1>6

\* ... the clients and the clocks ...
LEMMA JobSolo ==
    ASSUME BasicInv, SoloInv, OneWorker, OneRecoverer, NeverLate, NEW j \in Jobs,
           \/ QueueOp(SaveUpload(j))
           \/ QueueOp(PushUpload(j))
           \/ QueueOp(BecomeDue(j))
           \/ Overrun(j)
           \/ Expire(j)
    PROVE  SoloInv'
  <1> USE NoneAssumption, ActorsAssumption, MaxRetriesAssumption
      DEF QueueOp, Goto, Release, Save, After, store, callers, queueVars, Actors, Statuses,
          DequeueLabels, AttemptLabels, CompleteLabels, RetryLabels, Labels, InPending, InDead,
          Claimed, BasicInv, TypeOK, QueueTypeOK, SoloInv
  <1>1. CASE QueueOp(SaveUpload(j))
    <2>1. Apart'
      BY <1>1 DEF Apart, Carries, SaveUpload
    <2>2. LabelsOfKind' /\ ClaimsTellApart' /\ ScansCurrent'
      BY <1>1 DEF LabelsOfKind, ClaimsTellApart, ScansCurrent, SaveUpload
    <2>3. NowhereBeforePush' /\ CopiesCurrent' /\ BudgetKept'
      BY <1>1
         DEF NowhereBeforePush, CopiesCurrent, CopyCurrent, BudgetKept,
             WithinBudget, SaveUpload
    <2>4. LossOnlyInHandOff'
      BY <1>1 DEF LossOnlyInHandOff, Accounted, Responsible, Entombing, SaveUpload
    <2> QED BY <2>1, <2>2, <2>3, <2>4 DEF SoloInv
  <1>2. CASE QueueOp(PushUpload(j))
    <2>1. ~In(pending, j)
      BY <1>2 DEF PushUpload, NowhereBeforePush
    <2>2. \A x : In(pending', x) <=> In(pending, x) \/ j = x
      BY <1>2, <2>1, InAppend DEF PushUpload
    <2>3. NoRepeats(pending')
      BY <1>2, <2>1, NoRepeatsAppend DEF PushUpload, Apart
    <2>4. Apart'
      <3>1. /\ ~InDead(j) /\ delayed[j] = "absent" /\ processing[j] = "absent"
            /\ \A c \in Actors : hand[c] # j
        BY <1>2 DEF PushUpload, NowhereBeforePush
      <3>2. UNCHANGED <<processing, delayed, dead, pc, hand>>
        BY <1>2 DEF PushUpload
      <3> QED BY <2>2, <2>3, <3>1, <3>2 DEF Apart, Carries
    <2>5. LabelsOfKind' /\ ClaimsTellApart' /\ ScansCurrent'
      BY <1>2 DEF LabelsOfKind, ClaimsTellApart, ScansCurrent, PushUpload
    <2>6. NowhereBeforePush'
      BY <1>2, <2>2 DEF NowhereBeforePush, PushUpload
    <2>7. CopiesCurrent'
      BY <1>2 DEF CopiesCurrent, CopyCurrent, PushUpload
    <2>8. BudgetKept'
      <3>1. rec[j].count = 0
        BY <1>2 DEF PushUpload, NowhereBeforePush
      <3>2. UNCHANGED <<processing, delayed, dead, rec, pc, hand>>
        BY <1>2 DEF PushUpload
      <3> QED BY <2>2, <3>1, <3>2 DEF BudgetKept, WithinBudget
    <2>9. LossOnlyInHandOff'
      BY <1>2, <2>2 DEF LossOnlyInHandOff, Accounted, Responsible, Entombing, PushUpload
    <2> QED BY <2>4, <2>5, <2>6, <2>7, <2>8, <2>9 DEF SoloInv
  <1>3. CASE QueueOp(BecomeDue(j))
    BY <1>3
       DEF Apart, Carries, BecomeDue, LabelsOfKind, ClaimsTellApart, ScansCurrent,
           NowhereBeforePush, CopiesCurrent, CopyCurrent, BudgetKept, WithinBudget,
           LossOnlyInHandOff, Accounted, Responsible, Entombing
  <1>4. CASE Overrun(j)
    BY <1>4
       DEF Apart, Overrun, Age, Spend, NeverLate, Faults, LabelsOfKind, ClaimsTellApart,
           ScansCurrent, NowhereBeforePush, CopiesCurrent, BudgetKept, LossOnlyInHandOff, Accounted
  <1>5. CASE Expire(j)
    BY <1>5
       DEF Apart, Carries, Expire, Age, Attended, LabelsOfKind, ClaimsTellApart, ScansCurrent,
           NowhereBeforePush, CopiesCurrent, CopyCurrent, BudgetKept, WithinBudget,
           LossOnlyInHandOff, Accounted, Responsible, Entombing
  <1> QED BY <1>1, <1>2, <1>3, <1>4, <1>5

\* ... a process that stops, exits or starts ...
LEMMA ProcSolo ==
    ASSUME BasicInv, SoloInv, OneWorker, OneRecoverer, NeverLate, NEW p \in Procs,
           \/ Stop(p)
           \/ Exit(p)
           \/ Start(p)
    PROVE  SoloInv'
  <1> USE NoneAssumption, ActorsAssumption, MaxRetriesAssumption
      DEF QueueOp, Goto, Release, Save, After, store, callers, queueVars, Actors, Statuses,
          DequeueLabels, AttemptLabels, CompleteLabels, RetryLabels, Labels, InPending, InDead,
          Claimed, BasicInv, TypeOK, QueueTypeOK, SoloInv
  <1>1. CASE Stop(p)
    BY <1>1
       DEF Apart, Carries, Stop, LabelsOfKind, ClaimsTellApart, ScansCurrent, NowhereBeforePush,
           CopiesCurrent, CopyCurrent, BudgetKept, WithinBudget, LossOnlyInHandOff, Accounted,
           Responsible, Entombing
  <1>2. CASE Exit(p)
    BY <1>2
       DEF Apart, Carries, Exit, LabelsOfKind, ClaimsTellApart, ScansCurrent, NowhereBeforePush,
           CopiesCurrent, CopyCurrent, BudgetKept, WithinBudget, LossOnlyInHandOff, Accounted,
           Responsible, Entombing
  <1>3. CASE Start(p)
    <2>1. Apart'
      BY <1>3 DEF Apart, Carries, HandOff, Start
    <2>2. LabelsOfKind' /\ ClaimsTellApart' /\ ScansCurrent'
      BY <1>3 DEF LabelsOfKind, ClaimsTellApart, ScansCurrent, Start
    <2>3. NowhereBeforePush'
      BY <1>3 DEF NowhereBeforePush, Start
    <2>4. CopiesCurrent'
      BY <1>3 DEF CopiesCurrent, CopyCurrent, Start
    <2>5. BudgetKept'
      <3>1. \A d \in Actors, i \in Jobs : hand[d] = i => pc'[d] = pc[d]
        <4>1. \A d \in Actors, i \in Jobs : hand[d] = i => pc[d] # "exited"
          BY DEF HandsMatchLabels
        <4> QED BY <1>3, <4>1 DEF Start, DownMeansExited
      <3>2. UNCHANGED <<pending, processing, delayed, dead, rec, hand>>
        BY <1>3 DEF Start
      <3> HIDE DEF Actors, TypeOK, Labels
      <3> QED BY <3>1, <3>2 DEF BudgetKept, WithinBudget
    <2>6. LossOnlyInHandOff'
      BY <1>3 DEF LossOnlyInHandOff, Accounted, Responsible, Entombing, Start
    <2> QED BY <2>1, <2>2, <2>3, <2>4, <2>5, <2>6 DEF SoloInv
  <1> QED BY <1>1, <1>2, <1>3

\* ... a Redis error wherever it is raised: what it drops is spilled, or it is
\* under a claim ...
LEMMA ErrorSolo ==
    ASSUME BasicInv, SoloInv, OneWorker, OneRecoverer, NeverLate, NEW c \in Actors,
           \/ ErrorInAttempt(c)
           \/ ErrorOutside(c)
    PROVE  SoloInv'
  <1> USE NoneAssumption, ActorsAssumption, MaxRetriesAssumption
      DEF QueueOp, Goto, Release, Save, After, store, callers, queueVars, Actors, Statuses,
          DequeueLabels, AttemptLabels, CompleteLabels, RetryLabels, Labels, InPending, InDead,
          Claimed, BasicInv, TypeOK, QueueTypeOK, SoloInv
  <1>1. CASE ErrorInAttempt(c)
    <2>1. Apart'
      BY <1>1 DEF Apart, Carries, HandOff, ErrorInAttempt
    <2>2. LabelsOfKind'
      BY <1>1 DEF LabelsOfKind, ErrorInAttempt
    <2>3. ClaimsTellApart'
      <3>1. c \in Workers
        BY <1>1 DEF ErrorInAttempt, LabelsOfKind
      <3>2. \A r \in Recoverers : r # c
        BY <3>1
      <3> QED BY <1>1, <3>1, <3>2 DEF ErrorInAttempt, ClaimsTellApart, LabelsOfKind
    <2>4. ScansCurrent'
      BY <1>1 DEF ScansCurrent, ErrorInAttempt
    <2>5. NowhereBeforePush' /\ CopiesCurrent' /\ BudgetKept'
      BY <1>1
         DEF NowhereBeforePush, CopiesCurrent, CopyCurrent, BudgetKept,
             WithinBudget, ErrorInAttempt
    <2>6. LossOnlyInHandOff'
      BY <1>1 DEF LossOnlyInHandOff, Accounted, Responsible, Entombing, ErrorInAttempt
    <2> QED BY <2>1, <2>2, <2>3, <2>4, <2>5, <2>6 DEF SoloInv
  <1>2. CASE ErrorOutside(c)
    <2>1. Apart'
      BY <1>2 DEF Apart, Carries, ErrorOutside
    <2>2. LabelsOfKind' /\ ClaimsTellApart' /\ ScansCurrent'
      BY <1>2 DEF LabelsOfKind, ClaimsTellApart, ScansCurrent, ErrorOutside
    <2>3. NowhereBeforePush' /\ CopiesCurrent' /\ BudgetKept'
      BY <1>2
         DEF NowhereBeforePush, CopiesCurrent, CopyCurrent, BudgetKept,
             WithinBudget, ErrorOutside
    <2>4. LossOnlyInHandOff'
      <3>1. \A i \in Jobs : hand[c] = i /\ pc[c] \notin HandOff => processing[i] # "absent"
        BY HeldIsClaimed
      <3>2. /\ spilled' = IF pc[c] \in HandOff THEN spilled \cup {hand[c]} ELSE spilled
            /\ UNCHANGED <<store, upload>>
            /\ \A d \in Actors : d # c => pc'[d] = pc[d] /\ hand'[d] = hand[d]
        BY <1>2 DEF ErrorOutside
      <3>3. ASSUME NEW i \in Jobs, upload[i] = "accepted", i \notin spilled' PROVE Accounted(i)'
        <4>1. Accounted(i) /\ ~Entombing(c, i)
          BY <3>2, <3>3 DEF LossOnlyInHandOff, Entombing, HandOff
        <4>2. Responsible(c, i) => processing[i] # "absent"
          BY <3>1, <3>2, <3>3 DEF Responsible
        <4> HIDE DEF HandOff, TypeOK
        <4> QED BY <3>2, <4>1, <4>2 DEF Accounted, Responsible, Entombing
      <3> QED BY <3>2, <3>3 DEF LossOnlyInHandOff
    <2> QED BY <2>1, <2>2, <2>3, <2>4 DEF SoloInv
  <1> QED BY <1>1, <1>2

\* ... an upload that is refused ...
LEMMA RefuseSolo ==
    ASSUME BasicInv, SoloInv, OneWorker, OneRecoverer, NeverLate, NEW j \in Jobs,
           \/ RefuseUpload(j)
    PROVE  SoloInv'
  <1> USE NoneAssumption, ActorsAssumption, MaxRetriesAssumption
      DEF QueueOp, Goto, Release, Save, After, store, callers, queueVars, Actors, Statuses,
          DequeueLabels, AttemptLabels, CompleteLabels, RetryLabels, Labels, InPending, InDead,
          Claimed, BasicInv, TypeOK, QueueTypeOK, SoloInv
  <1>1. CASE RefuseUpload(j)
    BY <1>1
       DEF Apart, Carries, RefuseUpload, LabelsOfKind, ClaimsTellApart, ScansCurrent,
           NowhereBeforePush, CopiesCurrent, CopyCurrent, BudgetKept, WithinBudget,
           LossOnlyInHandOff, Accounted, Responsible, Entombing
  <1> QED BY <1>1

\* ... and a crash, which drops what its actors had in memory only.
LEMMA CrashSolo ==
    ASSUME BasicInv, SoloInv, OneWorker, OneRecoverer, NeverLate, NEW p \in Procs,
           \/ Crash(p)
    PROVE  SoloInv'
  <1> USE NoneAssumption, ActorsAssumption, MaxRetriesAssumption
      DEF QueueOp, Goto, Release, Save, After, store, callers, queueVars, Actors, Statuses,
          DequeueLabels, AttemptLabels, CompleteLabels, RetryLabels, Labels, InPending, InDead,
          Claimed, BasicInv, TypeOK, QueueTypeOK, SoloInv
  <1>1. CASE Crash(p)
    <2>1. Apart'
      BY <1>1 DEF Apart, Carries, Crash
    <2>2. LabelsOfKind' /\ ClaimsTellApart' /\ ScansCurrent'
      BY <1>1 DEF LabelsOfKind, ClaimsTellApart, ScansCurrent, Crash
    <2>3. NowhereBeforePush' /\ CopiesCurrent' /\ BudgetKept'
      BY <1>1
         DEF NowhereBeforePush, CopiesCurrent, CopyCurrent, BudgetKept,
             WithinBudget, Crash
    <2>4. LossOnlyInHandOff'
      <3>1. \A d \in Actors, i \in Jobs : hand[d] = i /\ pc[d] \notin HandOff => processing[i] # "absent"
        BY HeldIsClaimed
      <3>2. /\ spilled \subseteq spilled'
            /\ \A d \in Actors : Home[d] = p /\ pc[d] \in HandOff => hand[d] \in spilled'
            /\ UNCHANGED <<store, upload>>
            /\ \A d \in Actors : Home[d] # p => pc'[d] = pc[d] /\ hand'[d] = hand[d]
        BY <1>1 DEF Crash
      <3>3. ASSUME NEW i \in Jobs, upload[i] = "accepted", i \notin spilled' PROVE Accounted(i)'
        <4>1. Accounted(i)
          BY <3>2, <3>3 DEF LossOnlyInHandOff
        <4>2. ASSUME NEW d \in Actors, Home[d] = p
              PROVE  ~Entombing(d, i) /\ (Responsible(d, i) => processing[i] # "absent")
          <5>1. hand[d] = i => pc[d] \notin HandOff
            BY <3>2, <3>3, <4>2
          <5>2. pc[d] \notin HandOff => ~Entombing(d, i)
            BY DEF Entombing, HandOff
          <5> QED BY <3>1, <5>1, <5>2 DEF Responsible, Entombing
        <4> HIDE DEF HandOff, TypeOK
        <4> QED BY <3>2, <4>1, <4>2 DEF Accounted, Responsible, Entombing
      <3> QED BY <3>2, <3>3 DEF LossOnlyInHandOff
    <2> QED BY <2>1, <2>2, <2>3, <2>4 DEF SoloInv
  <1> QED BY <1>1

\* It holds of an empty queue and idle loops.
LEMMA SoloInit == Init => SoloInv
  <1> SUFFICES ASSUME Init PROVE SoloInv
    OBVIOUS
  <1> USE DEF Init, QueueInit, Actors
  <1>1. \A j \in Jobs : ~InPending(j) /\ ~InDead(j)
    BY DEF InPending, InDead, In
  <1>2. Apart
    BY <1>1, NoneAssumption DEF Apart, NoRepeats, Carries
  <1>3. LabelsOfKind /\ ClaimsTellApart
    BY DEF LabelsOfKind, ClaimsTellApart, Claimed, AttemptLabels, CompleteLabels
  <1>4. ScansCurrent /\ NowhereBeforePush
    BY <1>1, NoneAssumption DEF ScansCurrent, NowhereBeforePush
  <1>5. CopiesCurrent
    BY DEF CopiesCurrent, CopyCurrent, Claimed, AttemptLabels, CompleteLabels
  <1>6. BudgetKept
    BY <1>1, MaxRetriesAssumption DEF BudgetKept, WithinBudget
  <1>7. LossOnlyInHandOff
    BY DEF LossOnlyInHandOff
  <1> QED BY <1>2, <1>3, <1>4, <1>5, <1>6, <1>7 DEF SoloInv

\* Every step, outages included, keeps it.
LEMMA SoloStep ==
    ASSUME OneWorker, OneRecoverer, NeverLate
    PROVE  BasicInv /\ SoloInv /\ [Next \/ Outage]_vars => SoloInv'
  <1> SUFFICES ASSUME BasicInv, SoloInv, [Next \/ Outage]_vars PROVE SoloInv'
    OBVIOUS
  <1>1. ASSUME NEW c \in Actors, ActorStep(c) PROVE SoloInv'
    BY <1>1, DequeueSolo, AttemptSolo, SweepSolo, RetrySolo
       DEF ActorStep, WorkerStep, RecovererStep, RetryStep
  <1>2. ASSUME NEW j \in Jobs, JobStep(j) PROVE SoloInv'
    BY <1>2, JobSolo DEF JobStep
  <1>3. ASSUME NEW p \in Procs, ProcStep(p) PROVE SoloInv'
    BY <1>3, ProcSolo DEF ProcStep
  <1>4. CASE Outage
    BY <1>4, ErrorSolo, RefuseSolo, CrashSolo DEF Outage
  <1>5. CASE UNCHANGED vars
    BY <1>5 DEF vars, queueVars, store, callers, SoloInv, Apart, Carries, LabelsOfKind,
         ClaimsTellApart, ScansCurrent, NowhereBeforePush, CopiesCurrent, CopyCurrent,
         BudgetKept, WithinBudget, LossOnlyInHandOff, Accounted, Responsible, Entombing,
         InPending, InDead
  <1> QED BY <1>1, <1>2, <1>3, <1>4, <1>5 DEF Next

\* One worker and one recovery loop keep it whatever fails, for any number of
\* jobs, processes, retries, stops, errors and crashes.
THEOREM SoloInvariant ==
    ASSUME OneWorker, OneRecoverer, NeverLate
    PROVE  OutageSpec => [](BasicInv /\ SoloInv)
  <1>1. BasicInv /\ SoloInv /\ [Next \/ Outage]_vars => (BasicInv /\ SoloInv)'
    BY BasicStep, SoloStep
  <1> QED BY <1>1, BasicInit, SoloInit, PTL DEF OutageSpec

\* With one worker, an outage loses no job but those it caught between two
\* lists: a job under a claim is always recoverable.
THEOREM OnlyHandOffsLose ==
    ASSUME OneWorker, OneRecoverer, NeverLate
    PROVE  OutageSpec => []LossOnlyInHandOff
  <1>1. SoloInv => LossOnlyInHandOff
    BY DEF SoloInv
  <1> QED BY <1>1, SoloInvariant, PTL

\* With one worker, no job is worked on by two actors, crashes and recovery
\* included.
THEOREM HoldersDiffer ==
    ASSUME OneWorker, OneRecoverer, NeverLate
    PROVE  OutageSpec => []OneHolder
  <1>1. BasicInv /\ SoloInv => OneHolder
    BY SoloHolders DEF OneHolder
  <1> QED BY <1>1, SoloInvariant, PTL

\* With one worker, no job is tried more than MaxRetries + 1 times, and none
\* is dead-lettered before.
THEOREM BudgetRespected ==
    ASSUME OneWorker, OneRecoverer, NeverLate
    PROVE  OutageSpec => []RetryBudget
  <1>1. SoloInv => RetryBudget
    BY DEF SoloInv, BudgetKept, WithinBudget, RetryBudget
  <1> QED BY <1>1, SoloInvariant, PTL

\* The positions of an id on a list without repetitions: one or none.
LEMMA OncePositions ==
    ASSUME NEW S, NEW s \in Seq(S), NoRepeats(s), NEW j
    PROVE  Cardinality({i \in 1..Len(s) : s[i] = j}) = IF In(s, j) THEN 1 ELSE 0
  <1>1. CASE In(s, j)
    <2>1. PICK k \in 1..Len(s) : s[k] = j
      BY <1>1 DEF In
    <2>2. {i \in 1..Len(s) : s[i] = j} = {k}
      BY <2>1 DEF NoRepeats
    <2> QED BY <1>1, <2>2, FS_Singleton
  <1>2. CASE ~In(s, j)
    <2>1. {i \in 1..Len(s) : s[i] = j} = {}
      BY <1>2 DEF In
    <2> QED BY <1>2, <2>1, FS_EmptySet
  <1> QED BY <1>1, <1>2

\* A job between two lists is in the memory of one actor.
LEMMA OnceCarried ==
    ASSUME Apart, NEW j \in Jobs
    PROVE  Cardinality({c \in Actors : hand[c] = j /\ pc[c] \in HandOff})
             = IF \E c \in Actors : Carries(c, j) THEN 1 ELSE 0
  <1>1. CASE \E c \in Actors : Carries(c, j)
    <2>1. PICK d \in Actors : Carries(d, j)
      BY <1>1
    <2>2. {c \in Actors : hand[c] = j /\ pc[c] \in HandOff} = {d}
      BY <2>1 DEF Apart, Carries
    <2> QED BY <1>1, <2>2, FS_Singleton
  <1>2. CASE ~\E c \in Actors : Carries(c, j)
    <2>1. {c \in Actors : hand[c] = j /\ pc[c] \in HandOff} = {}
      BY <1>2 DEF Carries
    <2> QED BY <1>2, <2>1, FS_EmptySet
  <1> QED BY <1>1, <1>2

\* With one worker, a job is always in one place at most.
THEOREM PlacesDiffer ==
    ASSUME OneWorker, OneRecoverer, NeverLate
    PROVE  OutageSpec => []OnePlace
  <1>1. ASSUME BasicInv, SoloInv PROVE OnePlace
    <2> SUFFICES ASSUME NEW j \in Jobs PROVE Places(j) <= 1
      BY DEF OnePlace
    <2> DEFINE carried == \E c \in Actors : Carries(c, j)
    <2>1. Apart /\ NoRepeats(pending) /\ NoRepeats(dead)
          /\ pending \in Seq(Jobs) /\ dead \in Seq(Jobs)
      BY <1>1 DEF SoloInv, Apart, BasicInv, TypeOK, QueueTypeOK
    <2>2. Places(j) = (IF InPending(j) THEN 1 ELSE 0) + (IF InDead(j) THEN 1 ELSE 0)
                      + (IF delayed[j] = "absent" THEN 0 ELSE 1)
                      + (IF processing[j] = "absent" THEN 0 ELSE 1)
                      + (IF carried THEN 1 ELSE 0)
      BY <2>1, OncePositions, OnceCarried DEF Places, InPending, InDead
    <2>3. /\ InPending(j) => ~InDead(j) /\ delayed[j] = "absent"
          /\ InPending(j) \/ InDead(j) \/ delayed[j] # "absent" => processing[j] = "absent"
          /\ InDead(j) => delayed[j] = "absent"
          /\ carried => /\ ~InPending(j) /\ ~InDead(j)
                        /\ delayed[j] = "absent" /\ processing[j] = "absent"
      BY <2>1 DEF Apart
    <2> HIDE DEF carried
    <2> QED BY <2>2, <2>3
  <1> QED BY <1>1, SoloInvariant, PTL

\* The only steps that write a record (_save).
LEMMA WhoSaves ==
    ASSUME Next \/ Outage
    PROVE  \/ rec' = rec
           \/ \E j \in Jobs : SaveUpload(j)
           \/ \E w \in Workers :
                \/ MarkRunning(w)
                \/ Report(w, "validating", "processing")
                \/ Report(w, "processing", "pipeline")
                \/ Report(w, "caching", "completing")
                \/ SaveComplete(w)
           \/ \E c \in Actors : SaveRetrying(c) \/ SaveFailed(c)
  <1> USE DEF QueueOp, Goto, Release, store, queueVars
  <1>1. ASSUME NEW w \in Workers, WorkerStep(w)
        PROVE  \/ rec' = rec
               \/ MarkRunning(w)
               \/ Report(w, "validating", "processing")
               \/ Report(w, "processing", "pipeline")
               \/ Report(w, "caching", "completing")
               \/ SaveComplete(w)
    BY <1>1 DEF WorkerStep, ScanDue, RemoveDue, PushDue, PopEmpty, PopJob, Load, Claim,
         IndexImage, IndexText, PipelineFails, Ack
  <1>2. ASSUME NEW r \in Recoverers, RecovererStep(r) PROVE rec' = rec
    BY <1>2 DEF RecovererStep, ScanClaims, SweepNext, SweepDone
  <1>3. ASSUME NEW c \in Actors, RetryStep(c) \/ LeaveLoop(c)
        PROVE  rec' = rec \/ SaveRetrying(c) \/ SaveFailed(c)
    BY <1>3 DEF RetryStep, Unclaim, Delay, Bury, LeaveLoop
  <1>4. ASSUME NEW j \in Jobs, JobStep(j) PROVE rec' = rec \/ SaveUpload(j)
    BY <1>4 DEF JobStep, PushUpload, BecomeDue, Overrun, Expire, Age
  <1>5. ASSUME NEW p \in Procs, ProcStep(p) PROVE rec' = rec
    BY <1>5 DEF ProcStep, Stop, Exit, Start
  <1>6. ASSUME Outage PROVE rec' = rec
    BY <1>6 DEF Outage, ErrorInAttempt, ErrorOutside, RefuseUpload, Crash
  <1> QED BY <1>1, <1>2, <1>3, <1>4, <1>5, <1>6 DEF Next, ActorStep

\* With one worker, no step forgets an attempt that was counted.
THEOREM CountsNeverDrop ==
    ASSUME OneWorker, OneRecoverer, NeverLate
    PROVE  OutageSpec => CountMonotone
  <1>1. ASSUME BasicInv, SoloInv, [Next \/ Outage]_vars
        PROVE  [\A j \in Jobs : rec'[j].count >= rec[j].count]_vars
    <2> SUFFICES ASSUME Next \/ Outage, NEW j \in Jobs
                 PROVE  rec'[j].count >= rec[j].count
      BY <1>1
    <2>1. rec \in [Jobs -> [status : Statuses, count : Nat]] /\ count \in [Actors -> Nat]
      BY <1>1 DEF BasicInv, TypeOK, QueueTypeOK
    <2>2. ASSUME NEW c \in Actors, NEW s, Save(hand[c], s, count[c]),
                 hand[c] \in Jobs, count[c] >= rec[hand[c]].count
          PROVE  rec'[j].count >= rec[j].count
      BY <2>1, <2>2 DEF Save
    <2>3. ASSUME NEW i \in Jobs, SaveUpload(i) PROVE rec'[j].count >= rec[j].count
      BY <1>1, <2>1, <2>3 DEF SaveUpload, Save, SoloInv, NowhereBeforePush
    <2>4. ASSUME NEW w \in Workers,
                 \/ MarkRunning(w)
                 \/ Report(w, "validating", "processing")
                 \/ Report(w, "processing", "pipeline")
                 \/ Report(w, "caching", "completing")
                 \/ SaveComplete(w)
          PROVE  rec'[j].count >= rec[j].count
      <3>1. pc[w] \in Claimed /\ \E s : Save(hand[w], s, count[w])
        BY <2>4 DEF MarkRunning, Report, SaveComplete, Claimed, AttemptLabels, CompleteLabels
      <3>2. w \in Actors /\ hand[w] \in Jobs
        BY <1>1, <3>1, HandIsJob DEF Actors, BasicInv, Claimed, AttemptLabels, CompleteLabels
      <3>3. count[w] >= rec[hand[w]].count
        BY <1>1, <2>1, <3>1, <3>2 DEF SoloInv, CopiesCurrent, CopyCurrent
      <3> QED BY <2>2, <3>1, <3>2, <3>3
    <2>5. ASSUME NEW c \in Actors, SaveRetrying(c) \/ SaveFailed(c)
          PROVE  rec'[j].count >= rec[j].count
      <3>1. pc[c] \in {"rescheduling", "burying"} /\ \E s : Save(hand[c], s, count[c])
        BY <2>5 DEF SaveRetrying, SaveFailed
      <3>2. hand[c] \in Jobs
        BY <1>1, <3>1, HandIsJob DEF BasicInv
      <3>3. count[c] >= rec[hand[c]].count
        BY <1>1, <2>1, <3>1, <3>2 DEF SoloInv, CopiesCurrent, CopyCurrent
      <3> QED BY <2>2, <3>1, <3>2, <3>3
    <2> QED BY <2>1, <2>3, <2>4, <2>5, WhoSaves
  <1> QED BY <1>1, SoloInvariant, PTL DEF OutageSpec, CountMonotone

-----------------------------------------------------------------------------
(* The same system when nothing fails implements JobLifecycle: no claim goes *)
(* stale under its worker, so the recovery loop finds nothing to recover,   *)
(* and a status says where its job is (LifeInv of module WorkerPool).       *)

\* Every command of dequeue keeps the statuses with the places.
LEMMA DequeueLife ==
    ASSUME BasicInv, CalmInv, SoloInv, LifeInv, OneWorker, OneRecoverer, NeverLate,
           NEW c \in Workers,
           \/ QueueOp(ScanDue(c))
           \/ QueueOp(RemoveDue(c))
           \/ QueueOp(PushDue(c))
           \/ QueueOp(PopEmpty(c))
           \/ QueueOp(PopJob(c))
           \/ QueueOp(Load(c))
           \/ QueueOp(Claim(c))
           \/ QueueOp(MarkRunning(c))
    PROVE  LifeInv'
  <1> USE NoneAssumption, ActorsAssumption
      DEF QueueOp, Goto, Release, Save, After, store, callers, queueVars, Actors, Statuses,
          DequeueLabels, AttemptLabels, CompleteLabels, RetryLabels, Labels, InPending, InDead,
          Claimed, Undecided, BasicInv, TypeOK, QueueTypeOK, SoloInv, LifeInv
  <1>1. CASE QueueOp(ScanDue(c))
    BY <1>1 DEF StatusByPlace, NothingToRecover, ScanDue
  <1>2. CASE QueueOp(RemoveDue(c))
    BY <1>2 DEF StatusByPlace, NothingToRecover, ScansCurrent, RemoveDue
  <1>3. CASE QueueOp(PushDue(c))
    <2>1. hand[c] \in Jobs
      BY <1>3, HandIsJob DEF PushDue
    <2>2. \A x : In(pending', x) <=> In(pending, x) \/ hand[c] = x
      BY <1>3, <2>1, InAppend DEF PushDue
    <2>3. StatusByPlace'
      BY <1>3, <2>1, <2>2 DEF StatusByPlace, PushDue
    <2>4. NothingToRecover'
      BY <1>3, <2>1, <2>2 DEF StatusByPlace, NothingToRecover, PushDue
    <2> QED BY <2>3, <2>4 DEF LifeInv
  <1>4. CASE QueueOp(PopEmpty(c))
    BY <1>4 DEF StatusByPlace, NothingToRecover, PopEmpty
  <1>5. CASE QueueOp(PopJob(c))
    <2>1. hand'[c] \in Jobs /\ In(pending, hand'[c]) /\ ~In(pending', hand'[c])
      BY <1>5, InTail, NoRepeatsTail DEF PopJob, Apart
    <2>2. \A x : In(pending, x) <=> hand'[c] = x \/ In(pending', x)
      BY <1>5, InTail DEF PopJob
    <2>3. StatusByPlace'
      BY <1>5, <2>1, <2>2 DEF StatusByPlace, PopJob
    <2>4. NothingToRecover'
      BY <1>5, <2>1, <2>2 DEF StatusByPlace, NothingToRecover, PopJob
    <2> QED BY <2>3, <2>4 DEF LifeInv
  <1>6. CASE QueueOp(Load(c))
    BY <1>6 DEF StatusByPlace, NothingToRecover, Load
  <1>7. CASE QueueOp(Claim(c))
    BY <1>7 DEF StatusByPlace, NothingToRecover, Claim
  <1>8. CASE QueueOp(MarkRunning(c))
    <2>1. StatusByPlace'
      <3>1. hand[c] \in Jobs /\ processing[hand[c]] = "fresh"
        BY <1>8, HandIsJob DEF MarkRunning, ClaimsTellApart
      <3>2. ~InPending(hand[c]) /\ delayed[hand[c]] = "absent" /\ upload[hand[c]] = "accepted"
        BY <3>1 DEF Apart, NowhereBeforePush
      <3>3. rec' = [rec EXCEPT ![hand[c]] = [status |-> "RUNNING", count |-> count[c]]]
        BY <1>8 DEF MarkRunning
      <3>4. \A w \in Workers : w = c
        BY DEF OneWorker
      <3>5. UNCHANGED <<pending, delayed, upload, hand>> /\ pc' = [pc EXCEPT ![c] = "validating"]
        BY <1>8 DEF MarkRunning
      <3> QED BY <3>1, <3>2, <3>3, <3>4, <3>5 DEF StatusByPlace
    <2>2. NothingToRecover'
      BY <1>8 DEF MarkRunning, NothingToRecover
    <2> QED BY <2>1, <2>2 DEF LifeInv
  <1> QED BY <1>1, <1>2, <1>3, <1>4, <1>5, <1>6, <1>7, <1>8

\* ... every step of an attempt and of complete ...
LEMMA AttemptLife ==
    ASSUME BasicInv, CalmInv, SoloInv, LifeInv, OneWorker, OneRecoverer, NeverLate,
           NEW c \in Workers,
           \/ Report(c, "validating", "processing")
           \/ Report(c, "processing", "pipeline")
           \/ Report(c, "caching", "completing")
           \/ IndexImage(c)
           \/ IndexText(c)
           \/ PipelineFails(c)
           \/ QueueOp(SaveComplete(c))
           \/ QueueOp(Ack(c))
    PROVE  LifeInv'
  <1> USE NoneAssumption, ActorsAssumption
      DEF QueueOp, Goto, Release, Save, After, store, callers, queueVars, Actors, Statuses,
          DequeueLabels, AttemptLabels, CompleteLabels, RetryLabels, Labels, InPending, InDead,
          Claimed, Undecided, BasicInv, TypeOK, QueueTypeOK, SoloInv, LifeInv
  <1>1. CASE Report(c, "validating", "processing")
    BY <1>1 DEF StatusByPlace, NothingToRecover, Report
  <1>2. CASE Report(c, "processing", "pipeline")
    BY <1>2 DEF StatusByPlace, NothingToRecover, Report
  <1>3. CASE Report(c, "caching", "completing")
    BY <1>3 DEF StatusByPlace, NothingToRecover, Report
  <1>4. CASE IndexImage(c)
    BY <1>4 DEF StatusByPlace, NothingToRecover, IndexImage
  <1>5. CASE IndexText(c)
    BY <1>5 DEF StatusByPlace, NothingToRecover, IndexText
  <1>6. CASE PipelineFails(c)
    BY <1>6 DEF StatusByPlace, NothingToRecover, PipelineFails
  <1>7. CASE QueueOp(SaveComplete(c))
    BY <1>7, SoloHolders DEF StatusByPlace, NothingToRecover, SaveComplete
  <1>8. CASE QueueOp(Ack(c))
    BY <1>8 DEF StatusByPlace, NothingToRecover, Ack
  <1> QED BY <1>1, <1>2, <1>3, <1>4, <1>5, <1>6, <1>7, <1>8

\* ... the recovery loop, which finds nothing to recover ...
LEMMA SweepLife ==
    ASSUME BasicInv, CalmInv, SoloInv, LifeInv, OneWorker, OneRecoverer, NeverLate,
           NEW c \in Recoverers,
           \/ QueueOp(ScanClaims(c))
           \/ QueueOp(SweepNext(c))
           \/ QueueOp(SweepDone(c))
    PROVE  LifeInv'
  <1> USE NoneAssumption, ActorsAssumption
      DEF QueueOp, Goto, Release, Save, After, store, callers, queueVars, Actors, Statuses,
          DequeueLabels, AttemptLabels, CompleteLabels, RetryLabels, Labels, InPending, InDead,
          Claimed, Undecided, BasicInv, TypeOK, QueueTypeOK, SoloInv, LifeInv
  <1>1. CASE QueueOp(ScanClaims(c))
    BY <1>1 DEF StatusByPlace, NothingToRecover, ScanClaims
  <1>2. CASE QueueOp(SweepNext(c))
    BY <1>2 DEF StatusByPlace, NothingToRecover, SweepNext
  <1>3. CASE QueueOp(SweepDone(c))
    BY <1>3 DEF StatusByPlace, NothingToRecover, SweepDone
  <1> QED BY <1>1, <1>2, <1>3

\* ... every command of retry_or_fail ...
LEMMA RetryLife ==
    ASSUME BasicInv, CalmInv, SoloInv, LifeInv, OneWorker, OneRecoverer, NeverLate,
           NEW c \in Actors,
           \/ QueueOp(Unclaim(c))
           \/ QueueOp(SaveRetrying(c))
           \/ QueueOp(Delay(c))
           \/ QueueOp(SaveFailed(c))
           \/ QueueOp(Bury(c))
           \/ LeaveLoop(c)
    PROVE  LifeInv'
  <1> USE NoneAssumption, ActorsAssumption
      DEF QueueOp, Goto, Release, Save, After, store, callers, queueVars, Actors, Statuses,
          DequeueLabels, AttemptLabels, CompleteLabels, RetryLabels, Labels, InPending, InDead,
          Claimed, Undecided, BasicInv, TypeOK, QueueTypeOK, SoloInv, LifeInv
  <1>1. CASE QueueOp(Unclaim(c))
    BY <1>1 DEF StatusByPlace, NothingToRecover, Unclaim
  <1>2. CASE QueueOp(SaveRetrying(c))
    <2>1. \A c1, d1 \in Actors : hand[c1] # None /\ hand[c1] = hand[d1] => c1 = d1
      BY SoloHolders
    <2>2. StatusByPlace'
      BY <1>2, <2>1, HandIsJob
         DEF StatusByPlace, NothingToRecover, HandsMatchLabels, Apart, Carries, HandOff,
             ScansCurrent, ClaimsTellApart, SaveRetrying
    <2>3. NothingToRecover'
      BY <1>2 DEF StatusByPlace, NothingToRecover, SaveRetrying
    <2> QED BY <2>2, <2>3 DEF LifeInv
  <1>3. CASE QueueOp(Delay(c))
    BY <1>3 DEF StatusByPlace, NothingToRecover, Delay
  <1>4. CASE QueueOp(SaveFailed(c))
    BY <1>4
       DEF StatusByPlace, NothingToRecover, Apart, Carries, HandOff, ClaimsTellApart, SaveFailed
  <1>5. CASE QueueOp(Bury(c))
    <2>1. hand[c] \in Jobs
      BY <1>5, HandIsJob DEF Bury
    <2>2. \A x : In(dead', x) <=> In(dead, x) \/ hand[c] = x
      BY <1>5, <2>1, InAppend DEF Bury
    <2>3. StatusByPlace'
      BY <1>5, <2>1, <2>2 DEF StatusByPlace, Bury
    <2>4. NothingToRecover'
      BY <1>5, <2>1, <2>2 DEF StatusByPlace, NothingToRecover, Bury
    <2> QED BY <2>3, <2>4 DEF LifeInv
  <1>6. CASE LeaveLoop(c)
    BY <1>6 DEF StatusByPlace, NothingToRecover, LeaveLoop, Running
  <1> QED BY <1>1, <1>2, <1>3, <1>4, <1>5, <1>6

\* ... the clients and the clocks: a claim does not expire under its worker ...
LEMMA JobLife ==
    ASSUME BasicInv, CalmInv, SoloInv, LifeInv, OneWorker, OneRecoverer, NeverLate,
           NEW j \in Jobs,
           \/ QueueOp(SaveUpload(j))
           \/ QueueOp(PushUpload(j))
           \/ QueueOp(BecomeDue(j))
           \/ Overrun(j)
           \/ Expire(j)
    PROVE  LifeInv'
  <1> USE NoneAssumption, ActorsAssumption
      DEF QueueOp, Goto, Release, Save, After, store, callers, queueVars, Actors, Statuses,
          DequeueLabels, AttemptLabels, CompleteLabels, RetryLabels, Labels, InPending, InDead,
          Claimed, Undecided, BasicInv, TypeOK, QueueTypeOK, SoloInv, LifeInv
  <1>1. CASE QueueOp(SaveUpload(j))
    BY <1>1 DEF StatusByPlace, NothingToRecover, SaveUpload
  <1>2. CASE QueueOp(PushUpload(j))
    <2>1. \A x : In(pending', x) <=> In(pending, x) \/ j = x
      BY <1>2, InAppend DEF PushUpload
    <2>2. StatusByPlace'
      BY <1>2, <2>1 DEF StatusByPlace, PushUpload
    <2>3. NothingToRecover'
      BY <1>2, <2>1 DEF StatusByPlace, NothingToRecover, PushUpload
    <2> QED BY <2>2, <2>3 DEF LifeInv
  <1>3. CASE QueueOp(BecomeDue(j))
    BY <1>3 DEF StatusByPlace, NothingToRecover, BecomeDue
  <1>4. CASE Overrun(j)
    BY <1>4 DEF StatusByPlace, Overrun, Age, Spend, NeverLate, Faults
  <1>5. CASE Expire(j)
    BY <1>5 DEF StatusByPlace, Expire, Age, CalmInv, ClaimHasHolder
  <1> QED BY <1>1, <1>2, <1>3, <1>4, <1>5

\* ... a process that stops, exits or starts.
LEMMA ProcLife ==
    ASSUME BasicInv, CalmInv, SoloInv, LifeInv, OneWorker, OneRecoverer, NeverLate,
           NEW p \in Procs,
           \/ Stop(p)
           \/ Exit(p)
           \/ Start(p)
    PROVE  LifeInv'
  <1> USE NoneAssumption, ActorsAssumption
      DEF QueueOp, Goto, Release, Save, After, store, callers, queueVars, Actors, Statuses,
          DequeueLabels, AttemptLabels, CompleteLabels, RetryLabels, Labels, InPending, InDead,
          Claimed, Undecided, BasicInv, TypeOK, QueueTypeOK, SoloInv, LifeInv
  <1>1. CASE Stop(p)
    BY <1>1 DEF StatusByPlace, NothingToRecover, Stop, Spend
  <1>2. CASE Exit(p)
    BY <1>2 DEF StatusByPlace, NothingToRecover, Exit
  <1>3. CASE Start(p)
    BY <1>3 DEF StatusByPlace, NothingToRecover, Start, DownMeansExited
  <1> QED BY <1>1, <1>2, <1>3

\* It holds of an empty queue and idle loops.
LEMMA LifeInit == Init => LifeInv
  <1> SUFFICES ASSUME Init PROVE LifeInv
    OBVIOUS
  <1>1. \A j \in Jobs : ~InPending(j)
    BY DEF Init, QueueInit, InPending, In
  <1> QED BY <1>1
          DEF Init, QueueInit, LifeInv, StatusByPlace, NothingToRecover, Actors, Undecided,
              AttemptLabels

\* Every step of a calm system keeps it.
LEMMA LifeStep ==
    ASSUME OneWorker, OneRecoverer, NeverLate
    PROVE  BasicInv /\ CalmInv /\ SoloInv /\ LifeInv /\ [Next]_vars => LifeInv'
  <1> SUFFICES ASSUME BasicInv, CalmInv, SoloInv, LifeInv, [Next]_vars PROVE LifeInv'
    OBVIOUS
  <1>1. ASSUME NEW c \in Actors, ActorStep(c) PROVE LifeInv'
    BY <1>1, DequeueLife, AttemptLife, SweepLife, RetryLife
       DEF ActorStep, WorkerStep, RecovererStep, RetryStep
  <1>2. ASSUME NEW j \in Jobs, JobStep(j) PROVE LifeInv'
    BY <1>2, JobLife DEF JobStep
  <1>3. ASSUME NEW p \in Procs, ProcStep(p) PROVE LifeInv'
    BY <1>3, ProcLife DEF ProcStep
  <1>4. CASE UNCHANGED vars
    BY <1>4 DEF vars, queueVars, store, callers, LifeInv, StatusByPlace, NothingToRecover, InPending
  <1> QED BY <1>1, <1>2, <1>3, <1>4 DEF Next

\* What a step does to the status and the count of a job is what one step of
\* JobLifecycle does, or nothing.
LEMMA LifecycleStep ==
    ASSUME BasicInv, SoloInv, LifeInv, Next
    PROVE  Lifecycle!Next \/ UNCHANGED Lifecycle!vars
  <1>1. rec \in [Jobs -> [status : Statuses, count : Nat]] /\ count \in [Actors -> Nat]
    BY DEF BasicInv, TypeOK, QueueTypeOK
  <1>2. ASSUME NEW c \in Actors, NEW s \in Statuses, hand[c] \in Jobs, Save(hand[c], s, count[c])
        PROVE  /\ [j \in Jobs |-> rec'[j].status] =
                    [[j \in Jobs |-> rec[j].status] EXCEPT ![hand[c]] = s]
               /\ [j \in Jobs |-> rec'[j].count] =
                    [[j \in Jobs |-> rec[j].count] EXCEPT ![hand[c]] = count[c]]
    BY <1>1, <1>2 DEF Save
  <1>3. CASE rec' = rec
    BY <1>3 DEF Lifecycle!vars
  <1>4. ASSUME NEW j \in Jobs, SaveUpload(j) PROVE Lifecycle!Next
    <2>1. rec' = [rec EXCEPT ![j] = [status |-> "PENDING", count |-> 0]]
      BY <1>4 DEF SaveUpload, Save
    <2>2. rec[j].status = "absent" /\ rec[j].count = 0
      BY <1>4 DEF SaveUpload, SoloInv, LifeInv, StatusByPlace, NowhereBeforePush
    <2> QED BY <1>1, <2>1, <2>2 DEF Lifecycle!Next, Lifecycle!Submit, Lifecycle!Move
  <1>5. ASSUME NEW w \in Workers,
               \/ MarkRunning(w)
               \/ Report(w, "validating", "processing")
               \/ Report(w, "processing", "pipeline")
               \/ Report(w, "caching", "completing")
               \/ SaveComplete(w)
        PROVE  Lifecycle!Next \/ UNCHANGED Lifecycle!vars
    <2>1. w \in Actors /\ pc[w] \in Claimed
      BY <1>5 DEF MarkRunning, Report, SaveComplete, Claimed, AttemptLabels, CompleteLabels, Actors
    <2>2. hand[w] \in Jobs
      BY <2>1, HandIsJob DEF BasicInv, Claimed, AttemptLabels, CompleteLabels
    <2>3. count[w] = rec[hand[w]].count
      BY <2>1 DEF SoloInv, CopiesCurrent, CopyCurrent
    <2>4. CASE MarkRunning(w)
      <3>1. Save(hand[w], "RUNNING", count[w]) /\ rec[hand[w]].status \in {"PENDING", "RETRYING"}
        BY <2>4 DEF MarkRunning, LifeInv, StatusByPlace
      <3> QED BY <1>1, <1>2, <2>1, <2>2, <2>3, <3>1
             DEF Lifecycle!Next, Lifecycle!Begin, Lifecycle!Move, Statuses
    <2>5. CASE \E here, next : Report(w, here, next) /\ here \in AttemptLabels
      <3>1. Save(hand[w], "RUNNING", count[w]) /\ rec[hand[w]].status = "RUNNING"
        BY <2>5 DEF Report, LifeInv, StatusByPlace, Undecided
      <3> QED BY ZenonT(60), <1>1, <1>2, <2>1, <2>2, <2>3, <3>1 DEF Lifecycle!vars, Statuses
    <2>6. CASE SaveComplete(w)
      <3>1. Save(hand[w], "COMPLETED", count[w]) /\ rec[hand[w]].status = "RUNNING"
        BY <2>6 DEF SaveComplete, LifeInv, StatusByPlace, Undecided
      <3> QED BY <1>1, <1>2, <2>1, <2>2, <2>3, <3>1
             DEF Lifecycle!Next, Lifecycle!Complete, Lifecycle!Move, Statuses
    <2> QED BY <1>5, <2>4, <2>5, <2>6 DEF AttemptLabels
  <1>6. ASSUME NEW c \in Actors, SaveRetrying(c) \/ SaveFailed(c)
        PROVE  Lifecycle!Next
    <2>1. pc[c] \in {"rescheduling", "burying"}
      BY <1>6 DEF SaveRetrying, SaveFailed
    <2>2. PICK j \in Jobs : hand[c] = j
      BY <2>1, HandIsJob DEF BasicInv
    <2>3. c \in Workers
      BY <2>2, NoneAssumption DEF LifeInv, NothingToRecover, Actors
    <2>4. rec[j].status = "RUNNING" /\ count[c] = rec[j].count + 1 /\ rec[j].count \in Nat
      BY <1>1, <2>1, <2>2, <2>3
         DEF LifeInv, StatusByPlace, Undecided, SoloInv, CopiesCurrent, CopyCurrent
    <2>5. CASE SaveRetrying(c)
      <3>1. Save(hand[c], "RETRYING", count[c]) /\ count[c] <= MaxRetries
        BY <2>5 DEF SaveRetrying, SoloInv, CopiesCurrent, CopyCurrent
      <3>2. rec[j].count < MaxRetries
        BY <2>4, <3>1, MaxRetriesAssumption
      <3>3. Lifecycle!Move(j, {"RUNNING"}, "RETRYING")
        BY <1>2, <2>2, <2>4, <3>1 DEF Lifecycle!Move, Statuses
      <3>4. Lifecycle!CountAttempt(j)
        BY <1>2, <2>2, <2>4, <3>1 DEF Lifecycle!CountAttempt, Statuses
      <3>5. Lifecycle!TryAgain(j)
        BY <2>2, <3>2, <3>3, <3>4 DEF Lifecycle!TryAgain
      <3> QED BY <2>2, <3>5 DEF Lifecycle!Next
    <2>6. CASE SaveFailed(c)
      <3>1. Save(hand[c], "FAILED", count[c]) /\ count[c] = MaxRetries + 1
        BY <2>6 DEF SaveFailed, SoloInv, CopiesCurrent, CopyCurrent
      <3>2. rec[j].count = MaxRetries
        BY <2>4, <3>1, MaxRetriesAssumption
      <3>3. Lifecycle!Move(j, {"RUNNING"}, "FAILED")
        BY <1>2, <2>2, <2>4, <3>1 DEF Lifecycle!Move, Statuses
      <3>4. Lifecycle!CountAttempt(j)
        BY <1>2, <2>2, <2>4, <3>1 DEF Lifecycle!CountAttempt, Statuses
      <3>5. Lifecycle!GiveUp(j)
        BY <2>2, <3>2, <3>3, <3>4 DEF Lifecycle!GiveUp
      <3> QED BY <2>2, <3>5 DEF Lifecycle!Next
    <2> QED BY <1>6, <2>5, <2>6
  <1> QED BY <1>3, <1>4, <1>5, <1>6, WhoSaves

\* What the status endpoints show of every job is a behaviour of JobLifecycle,
\* however the worker, the recovery loop, the clients and the clocks interleave.
THEOREM ImplementsLifecycle ==
    ASSUME OneWorker, OneRecoverer, NeverLate
    PROVE  Spec => FollowsLifecycle
  <1> DEFINE Inv == BasicInv /\ CalmInv /\ SoloInv /\ LifeInv
  <1>1. Init => Inv /\ Lifecycle!Init
    <2>1. Init => Lifecycle!Init
      BY DEF Init, QueueInit, Lifecycle!Init
    <2> QED BY <2>1, BasicInit, CalmInit, SoloInit, LifeInit
  <1>2. Inv /\ [Next]_vars => Inv'
    BY BasicStep, CalmStep, SoloStep, LifeStep
  <1>3. Inv /\ [Next]_vars => [Lifecycle!Next]_(Lifecycle!vars)
    <2>1. UNCHANGED vars => UNCHANGED Lifecycle!vars
      BY DEF vars, queueVars, store, Lifecycle!vars
    <2> QED BY <2>1, LifecycleStep
  <1> HIDE DEF Inv
  <1> QED BY <1>1, <1>2, <1>3, PTL DEF Spec, FollowsLifecycle, Lifecycle!Spec
=============================================================================
