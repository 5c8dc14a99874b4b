---------------------------- MODULE JobLifecycle ----------------------------
(***************************************************************************)
(* What the status endpoints promise about a job, in the terms of          *)
(* backend/app/jobs/job_status.py: it is queued, runs, and either completes *)
(* or is tried again until its retries are used up; a job that completed   *)
(* or failed stays as it is.  The queue, the workers and the clock are     *)
(* hidden; WorkerPool implements this module when one worker consumes the  *)
(* queue and nothing is late or lost.                                      *)
(***************************************************************************)
EXTENDS Naturals

CONSTANTS Jobs, MaxRetries

VARIABLES
    status,  \* Job.status, "absent" before the upload
    tries    \* Job.retry_count

vars == <<status, tries>>

Init ==
    /\ status = [j \in Jobs |-> "absent"]
    /\ tries = [j \in Jobs |-> 0]

Move(j, from, to) ==
    /\ status[j] \in from
    /\ status' = [status EXCEPT ![j] = to]

Submit(j) == Move(j, {"absent"}, "PENDING") /\ UNCHANGED tries
Begin(j) == Move(j, {"PENDING", "RETRYING"}, "RUNNING") /\ UNCHANGED tries
Complete(j) == Move(j, {"RUNNING"}, "COMPLETED") /\ UNCHANGED tries

CountAttempt(j) == tries' = [tries EXCEPT ![j] = @ + 1]

TryAgain(j) ==
    /\ tries[j] < MaxRetries
    /\ Move(j, {"RUNNING"}, "RETRYING")
    /\ CountAttempt(j)

GiveUp(j) ==
    /\ tries[j] = MaxRetries
    /\ Move(j, {"RUNNING"}, "FAILED")
    /\ CountAttempt(j)

Next == \E j \in Jobs :
    Submit(j) \/ Begin(j) \/ Complete(j) \/ TryAgain(j) \/ GiveUp(j)

Spec == Init /\ [][Next]_vars
=============================================================================
