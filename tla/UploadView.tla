------------------------------ MODULE UploadView ------------------------------
(***************************************************************************)
(* The upload page of the frontend (features/upload/upload-view.tsx and    *)
(* queries.ts) against the upload and status routes.  A submission is sent *)
(* once and never retried (query-client.ts, mutations); it can be          *)
(* cancelled or time out while the server goes on with it.  An accepted    *)
(* one is polled until its status is terminal.  The job behind it moves as *)
(* WorkerPool lets it: it may be retried, and a worker that was thought    *)
(* dead may report over FAILED and even over COMPLETED.                    *)
(***************************************************************************)
EXTENDS Integers, FiniteSets

CONSTANTS
    Uploads,    \* the submissions of one visit, in any order
    None,       \* no upload
    MaxTries,   \* attempts of a job
    MaxLate,    \* reports over a terminal record
    MaxFaults   \* polls that fail

ConstantsOK ==
    /\ IsFiniteSet(Uploads) /\ None \notin Uploads
    /\ MaxTries \in Nat \ {0} /\ MaxLate \in Nat /\ MaxFaults \in Nat

VARIABLES
    phase,      \* phase of the view; "away" once it navigated
    watched,    \* the submission whose callbacks the view listens to (productId, once accepted)
    message,    \* whether errorMessage is set
    went,       \* the product it navigated to
    flight,     \* flight[u]: where the request of u is
    job,        \* job[u]: the status route's answer for u
    tries,      \* tries[u]: attempts of u's job
    shown,      \* shown[u]: the terminal statuses u's record has had
    gaveUp,     \* submissions the user cancelled
    poll,       \* the status that a poll under way will bring, if any
    late, faults

vars == <<phase, watched, message, went, flight, job, tries, shown, gaveUp, poll, late, faults>>
serverVars == <<job, tries, shown, late>>
viewVars == <<phase, watched, message, went, gaveUp, poll, faults>>

Terminal == {"completed", "failed"}
Statuses == {"pending", "running"} \cup Terminal

Init ==
    /\ phase = "idle" /\ watched = None /\ message = FALSE /\ went = None
    /\ flight = [u \in Uploads |-> "unsent"] /\ job = [u \in Uploads |-> "none"]
    /\ tries = [u \in Uploads |-> 0] /\ shown = [u \in Uploads |-> {}]
    /\ gaveUp = {} /\ poll = "none" /\ late = 0 /\ faults = 0

-----------------------------------------------------------------------------
(* The view.                                                                *)

Submit(u) ==
    /\ phase = "idle" /\ flight[u] = "unsent"
    /\ phase' = "uploading" /\ watched' = u /\ message' = FALSE
    /\ flight' = [flight EXCEPT ![u] = "sent"]
    /\ UNCHANGED <<went, gaveUp, poll, faults, serverVars>>

\* The abort reaches the server, or it does not.
Cancel ==
    /\ phase = "uploading"
    /\ phase' = "idle" /\ watched' = None /\ message' = FALSE
    /\ gaveUp' = gaveUp \cup {watched}
    /\ \/ UNCHANGED flight
       \/ flight[watched] = "sent" /\ flight' = [flight EXCEPT ![watched] = "over"]
    /\ UNCHANGED <<went, poll, faults, serverVars>>

Navigate(u) == phase' = "away" /\ went' = u

\* What mutate's callbacks do; they are those of the last submission only.
Settle(u, how) ==
    CASE how = "accepted" -> phase' = "processing" /\ UNCHANGED <<message, went>>
      [] how = "stored" -> Navigate(u) /\ UNCHANGED message
      [] how = "failed" -> phase' = "failed" /\ message' = TRUE /\ UNCHANGED went

\* Mutant: the callbacks given to useMutation, which every submission calls.
Answer_AnyView(u) ==
    /\ flight[u] \in {"accepted", "stored", "failed"}
    /\ flight' = [flight EXCEPT ![u] = "over"]
    /\ IF phase = "uploading"
         THEN Settle(u, flight[u])
         ELSE UNCHANGED <<phase, message, went>>
    /\ UNCHANGED <<watched, gaveUp, poll, faults, serverVars>>

Answer(u) ==
    /\ flight[u] \in {"accepted", "stored", "failed"}
    /\ flight' = [flight EXCEPT ![u] = "over"]
    /\ IF watched = u /\ phase = "uploading"
         THEN Settle(u, flight[u])
         ELSE UNCHANGED <<phase, message, went>>
    /\ UNCHANGED <<watched, gaveUp, poll, faults, serverVars>>

\* No answer within the client's 30 s; the server may have the request yet.
TimeOut(u) ==
    /\ watched = u /\ phase = "uploading" /\ flight[u] \in {"sent", "accepted", "stored"}
    /\ Settle(u, "failed")
    /\ \/ flight' = [flight EXCEPT ![u] = "over"]
       \/ UNCHANGED flight
    /\ UNCHANGED <<watched, gaveUp, poll, faults, serverVars>>

Polling == phase = "processing"

PollStarts ==
    /\ Polling /\ poll = "none" /\ poll' = job[watched]
    /\ UNCHANGED <<phase, watched, message, went, gaveUp, faults, flight, serverVars>>

\* Mutant: an interval that reads the query's error stops at the first one.
PollFails_Stops ==
    /\ poll # "none" /\ faults < MaxFaults
    /\ faults' = faults + 1 /\ poll' = "error"
    /\ UNCHANGED <<phase, watched, message, went, gaveUp, flight, serverVars>>

\* The next poll comes after its interval all the same.
PollFails ==
    /\ poll # "none" /\ faults < MaxFaults
    /\ faults' = faults + 1 /\ poll' = "none"
    /\ UNCHANGED <<phase, watched, message, went, gaveUp, flight, serverVars>>

PollEnds ==
    /\ poll \in Statuses /\ poll' = "none"
    /\ IF poll = "completed" THEN Navigate(watched)
       ELSE phase' = (IF poll = "failed" THEN "failed" ELSE phase) /\ UNCHANGED went
    /\ UNCHANGED <<watched, message, gaveUp, faults, flight, serverVars>>

\* "Upload another".
Reset ==
    /\ phase = "failed"
    /\ phase' = "idle" /\ watched' = None /\ message' = FALSE
    /\ UNCHANGED <<went, gaveUp, poll, faults, flight, serverVars>>

View == PollStarts \/ PollEnds \/ \E u \in Uploads : Answer(u) \/ TimeOut(u)

-----------------------------------------------------------------------------
(* The server.                                                              *)

Become(u, status) ==
    /\ job' = [job EXCEPT ![u] = status]
    /\ shown' = [shown EXCEPT ![u] = @ \cup ({status} \cap Terminal)]

\* The asynchronous route, the synchronous one, a refusal.
Receive(u) ==
    /\ flight[u] = "sent"
    /\ \/ flight' = [flight EXCEPT ![u] = "accepted"] /\ Become(u, "pending")
       \/ flight' = [flight EXCEPT ![u] = "stored"] /\ UNCHANGED <<job, shown>>
       \/ flight' = [flight EXCEPT ![u] = "failed"] /\ UNCHANGED <<job, shown>>
    /\ UNCHANGED <<tries, late, viewVars>>

Begin(u) ==
    /\ job[u] = "pending" /\ Become(u, "running") /\ tries' = [tries EXCEPT ![u] = @ + 1]
    /\ UNCHANGED <<late, flight, viewVars>>

End(u) ==
    /\ job[u] = "running"
    /\ \/ Become(u, "completed")
       \/ Become(u, IF tries[u] < MaxTries THEN "pending" ELSE "failed")
    /\ UNCHANGED <<tries, late, flight, viewVars>>

\* A worker that outlived the job timeout saves its own copy of the record.
LateReport(u) ==
    /\ job[u] \in Terminal /\ late < MaxLate /\ late' = late + 1
    /\ Become(u, "running")
    /\ UNCHANGED <<tries, flight, viewVars>>

JobStep(u) == Begin(u) \/ End(u)

Next ==
    \/ Cancel \/ PollStarts \/ PollFails \/ PollEnds \/ Reset
    \/ \E u \in Uploads : \/ Submit(u) \/ Answer(u) \/ TimeOut(u)
                          \/ Receive(u) \/ Begin(u) \/ End(u) \/ LateReport(u)

\* The view polls on, its requests are answered or time out, and the workers
\* bring every job to rest (WorkerPool, SettlesUnlessSpilled).
Fairness == WF_vars(View) /\ \A u \in Uploads : WF_vars(JobStep(u))

Spec == Init /\ [][Next]_vars
FairSpec == Spec /\ Fairness

-----------------------------------------------------------------------------
TypeOK ==
    /\ phase \in {"idle", "uploading", "processing", "failed", "away"}
    /\ watched \in Uploads \cup {None} /\ went \in Uploads \cup {None} /\ message \in BOOLEAN
    /\ flight \in [Uploads -> {"unsent", "sent", "accepted", "stored", "failed", "over"}]
    /\ job \in [Uploads -> Statuses \cup {"none"}]
    /\ tries \in [Uploads -> 0..MaxTries] /\ shown \in [Uploads -> SUBSET Terminal]
    /\ gaveUp \subseteq Uploads /\ poll \in Statuses \cup {"none"}
    /\ late \in 0..MaxLate /\ faults \in 0..MaxFaults

\* The page shows what became of the submission it was left with, though
\* answers of others arrive late: it goes to a product that was stored and is
\* never one that was cancelled, polls a job that exists, and reports a
\* failure without a message only of a job that had failed.
ShowsItsOwn ==
    /\ phase = "away" =>
         /\ went = watched /\ went \notin gaveUp
         /\ job[went] = "none" \/ "completed" \in shown[went]
    /\ phase = "processing" => job[watched] # "none" /\ watched \notin gaveUp
    /\ phase = "failed" /\ ~message => "failed" \in shown[watched]

\* The page does not stay at a progress bar, although polls fail and the
\* record of the job goes back and forth for a while.
NeverHangs == []<>(phase \notin {"uploading", "processing"})

-----------------------------------------------------------------------------
(* The inductive invariant of the theorems about the page.                  *)

\* A submission the view is past "idle" with was sent and not cancelled.
SentInv ==
    /\ phase # "idle" => watched \in Uploads /\ watched \notin gaveUp /\ flight[watched] # "unsent"
    /\ \A u \in gaveUp : flight[u] # "unsent"

\* An accepted submission has a job; one under way or stored has none.
JobInv ==
    \A u \in Uploads :
        /\ flight[u] = "accepted" => job[u] # "none"
        /\ flight[u] \in {"unsent", "sent", "stored"} => job[u] = "none"
        /\ job[u] \in Terminal => job[u] \in shown[u]
        /\ job[u] = "none" => tries[u] = 0
        /\ job[u] = "pending" => tries[u] < MaxTries

\* What a poll brings was shown; what the view shows still holds.
ShownInv ==
    /\ poll # "none" => phase = "processing"
    /\ poll \in Terminal => poll \in shown[watched]
    /\ phase \in {"processing", "away"} => flight[watched] # "sent"
    /\ phase = "away" => went = watched
    /\ ShowsItsOwn

IInv == TypeOK /\ SentInv /\ JobInv /\ ShownInv
=============================================================================
