------------------------------- MODULE Seeding -------------------------------
(***************************************************************************)
(* The two clients that fill a deployment with a demo catalog through the  *)
(* upload API: seed_catalog.py and the smoke suite.  Each looks for a      *)
(* product before it uploads it, and then waits for the pipeline: the one  *)
(* for an empty queue, the other for its own jobs.  Of the deployment only *)
(* what these clients can see is here, a job with its product.             *)
(***************************************************************************)
EXTENDS Naturals, Sequences, FiniteSets

CONSTANTS
    Catalog,     \* the products, a sequence of names
    Requests,    \* what --only may ask for
    MaxJobs,     \* uploads in all
    MaxRetries,
    MaxRuns,     \* of a client, one after the other
    MaxFaults

Stages == {"health", "catalog", "pipeline", "ai", "ops"}
Names == {Catalog[i] : i \in 1..Len(Catalog)}

\* What the values of the constants must satisfy.
ConstantsOK ==
    /\ Catalog \in Seq(Names) /\ Len(Catalog) > 0 /\ Cardinality(Names) = Len(Catalog)
    /\ \A asked \in Requests : asked # {} /\ asked \subseteq Stages
    /\ {MaxJobs, MaxRetries, MaxRuns, MaxFaults} \subseteq Nat

VARIABLES
    jobs,     \* every job that was accepted: its product, state and attempts
    stored,   \* the jobs whose product the search finds
    tool,     \* the client that runs
    opts,     \* its --force and --no-wait
    asked,    \* the stages that were asked for
    stages,   \* those that are run
    pc,       \* where the client is
    place,    \* of the catalog, that it has come to
    seeded,   \* the job whose product stands for each product, 0: none
    created,  \* the jobs of this run
    failed,   \* did anything fail?
    exit,
    blind,    \* history: was a queue depth reported that could not be read?
    runs,
    faults

deployment == <<jobs, stored>>
client == <<tool, opts, asked, stages, pc, place, seeded, created, failed, exit, blind>>
vars == <<deployment, client, runs, faults>>

NoOpts == [reuse |-> TRUE, wait |-> TRUE]

Init ==
    /\ jobs = <<>> /\ stored = {}
    /\ tool = "none" /\ opts = NoOpts /\ asked = {} /\ stages = {}
    /\ pc = "idle" /\ place = 1
    /\ seeded = [p \in Names |-> 0] /\ created = {}
    /\ failed = FALSE /\ exit = "none" /\ blind = FALSE
    /\ runs = 0 /\ faults = 0

-----------------------------------------------------------------------------
(* The deployment: the workers and the delayed set.                        *)

Work(j, from, to) == jobs[j].state = from /\ jobs' = [jobs EXCEPT ![j].state = to]

\* LPOP; from here on the job is no part of the queue's depth.
Take(j) ==
    /\ jobs[j].state = "pending"
    /\ jobs' = [jobs EXCEPT ![j].state = "running", ![j].taken = @ + 1]
    /\ UNCHANGED <<stored, client, runs, faults>>

Index(j) ==
    /\ jobs[j].state = "running"
    /\ stored' = stored \cup {j}
    /\ UNCHANGED <<jobs, client, runs, faults>>

Complete(j) ==
    /\ j \in stored /\ Work(j, "running", "completed")
    /\ UNCHANGED <<stored, client, runs, faults>>

AttemptFails(j) ==
    /\ faults < MaxFaults /\ faults' = faults + 1
    /\ Work(j, "running", IF jobs[j].taken > MaxRetries THEN "failed" ELSE "delayed")
    /\ UNCHANGED <<stored, client, runs>>

BecomeDue(j) ==
    /\ Work(j, "delayed", "pending")
    /\ UNCHANGED <<stored, client, runs, faults>>

-----------------------------------------------------------------------------
(* A run of a client.                                                      *)

Closed(s) ==
    s \cup UNION {CASE st \in {"pipeline", "ai"} -> {"health", "catalog"}
                    [] st \in {"catalog", "ops"} -> {"health"}
                    [] OTHER -> {} : st \in s}

\* Mutant: what was asked for is run, and nothing else.
Resolve_AsAsked(s) == s

\* resolve_stages, over STAGE_DEPENDENCIES; the graph is two levels deep.
Resolve(s) == Closed(Closed(s))

\* The stages in the order of build_groups.
FirstOf(s) ==
    CASE "health" \in s -> "health"
      [] "health" \notin s /\ "catalog" \in s -> "lookup"
      [] s \cap {"health", "catalog"} = {} /\ "pipeline" \in s -> "poll"
      [] s \cap {"health", "catalog", "pipeline"} = {} /\ "ai" \in s -> "ai"
      [] s = {"ops"} -> "ops"
      [] OTHER -> "exit"

Start(name) ==
    /\ tool = "none" /\ runs < MaxRuns
    /\ tool' = name /\ runs' = runs + 1
    /\ place' = 1 /\ seeded' = [p \in Names |-> 0] /\ created' = {}
    /\ failed' = FALSE /\ exit' = "none" /\ blind' = FALSE
    /\ UNCHANGED <<deployment, faults>>

StartSeed(reuse, wait) ==
    /\ Start("seed")
    /\ opts' = [reuse |-> reuse, wait |-> wait] /\ asked' = {} /\ stages' = {}
    /\ pc' = "lookup"

StartSmoke(reuse, requested) ==
    /\ Start("smoke")
    /\ opts' = [reuse |-> reuse, wait |-> TRUE]
    /\ asked' = requested /\ stages' = Resolve(requested)
    /\ pc' = FirstOf(Resolve(requested))

\* The stage is over: a critical one that failed ends the run.
Leave(stage, bad) ==
    LET rest == IF bad /\ stage \in {"health", "catalog", "pipeline"} THEN {} ELSE stages \ {stage} IN
    /\ failed' = bad
    /\ stages' = rest
    /\ pc' = FirstOf(rest)

\* A stage of which nothing else is here: its checks hold or do not; those of
\* "ai" ask for the products by name.
OtherStage(stage) ==
    /\ pc = stage /\ stage \in {"health", "ai", "ops"}
    /\ \E bad \in BOOLEAN :
         /\ bad \/ (stage = "ai" => \A p \in Names : seeded[p] # 0)
         /\ Leave(stage, failed \/ bad)
    /\ UNCHANGED <<deployment, tool, opts, asked, place, seeded, created, exit, blind, runs, faults>>

-----------------------------------------------------------------------------
(* seed and seed_catalog.                                                  *)

Here == Catalog[place]
Copies(p) == {j \in stored : jobs[j].product = p}

\* Where the client goes when product place is settled, or was given up.
GoOn(bad) ==
    IF place < Len(Catalog)
      THEN place' = place + 1 /\ pc' = "lookup" /\ failed' = bad /\ UNCHANGED stages
      ELSE /\ UNCHANGED place
           /\ IF tool = "smoke" THEN Leave("catalog", bad)
              ELSE /\ failed' = bad /\ UNCHANGED stages
                   /\ pc' = IF created' # {} /\ opts.wait THEN "wait" ELSE "exit"

\* Mutant: the first result will do.
Find_AnyMatch ==
    /\ pc = "lookup" /\ opts.reuse
    /\ \E j \in stored : seeded' = [seeded EXCEPT ![Here] = j]
    /\ UNCHANGED created
    /\ GoOn(failed)
    /\ UNCHANGED <<deployment, tool, opts, asked, exit, blind, runs, faults>>

\* _existing, find_existing: exactly this name and brand.
Find ==
    /\ pc = "lookup" /\ opts.reuse
    /\ \E j \in Copies(Here) : seeded' = [seeded EXCEPT ![Here] = j]
    /\ UNCHANGED created
    /\ GoOn(failed)
    /\ UNCHANGED <<deployment, tool, opts, asked, exit, blind, runs, faults>>

\* Not asked for, not indexed yet, below the others, or no answer.
Miss ==
    /\ pc = "lookup"
    /\ pc' = "upload"
    /\ UNCHANGED <<deployment, tool, opts, asked, stages, place, seeded, created, failed, exit,
                   blind, runs, faults>>

Accepted == jobs' = Append(jobs, [product |-> Here, state |-> "pending", taken |-> 0])

\* 202
Upload ==
    /\ pc = "upload" /\ Len(jobs) < MaxJobs
    /\ Accepted
    /\ seeded' = [seeded EXCEPT ![Here] = Len(jobs) + 1]
    /\ created' = created \cup {Len(jobs) + 1}
    /\ GoOn(failed)
    /\ UNCHANGED <<stored, tool, opts, asked, exit, blind, runs, faults>>

\* Another status: seed_catalog.py counts an error and goes on, the smoke
\* suite gives up.
UploadRefused ==
    /\ pc = "upload" /\ faults < MaxFaults /\ faults' = faults + 1
    /\ UNCHANGED <<deployment, seeded, created>>
    /\ IF tool = "seed" THEN GoOn(TRUE) ELSE Leave("catalog", TRUE) /\ UNCHANGED place
    /\ UNCHANGED <<tool, opts, asked, exit, blind, runs>>

\* SmokeError: no answer, whether or not the upload was accepted.
UploadUnanswered ==
    /\ pc = "upload" /\ faults < MaxFaults /\ faults' = faults + 1
    /\ \/ UNCHANGED jobs
       \/ Len(jobs) < MaxJobs /\ Accepted
    /\ failed' = TRUE /\ stages' = {} /\ pc' = "exit"
    /\ UNCHANGED <<stored, tool, opts, asked, place, seeded, created, exit, blind, runs>>

-----------------------------------------------------------------------------
(* wait_for_processing, and the checks of the pipeline stage.              *)

Pending == {j \in 1..Len(jobs) : jobs[j].state = "pending"}

\* Mutant: an empty queue is not waited for.
WaitOver_AtOnce ==
    /\ pc = "wait" /\ pc' = "exit"
    /\ UNCHANGED <<deployment, tool, opts, asked, stages, place, seeded, created, failed, exit,
                   blind, runs, faults>>

\* queue_depth is the length of the list of pending jobs.
WaitOver ==
    /\ pc = "wait" /\ Pending = {} /\ pc' = "exit"
    /\ UNCHANGED <<deployment, tool, opts, asked, stages, place, seeded, created, failed, exit,
                   blind, runs, faults>>

\* ... and 0 when Redis does not answer.
WaitBlind ==
    /\ pc = "wait" /\ pc' = "exit" /\ blind' = TRUE
    /\ faults < MaxFaults /\ faults' = faults + 1
    /\ UNCHANGED <<deployment, tool, opts, asked, stages, place, seeded, created, failed, exit, runs>>

WaitTimesOut ==
    /\ pc = "wait" /\ pc' = "exit" /\ failed' = TRUE
    /\ UNCHANGED <<deployment, tool, opts, asked, stages, place, seeded, created, exit, blind,
                   runs, faults>>

Checks == <<"poll", "records", "deadLetters", "searchable">>

\* check_pipeline_completes ends when each job of the run was seen completed,
\* check_job_records looks at them again, check_no_dead_letters at the jobs
\* of the products it has, and check_products_searchable for any copy.
Holds(check) ==
    CASE check \in {"poll", "records"} -> \A j \in created : jobs[j].state = "completed"
      [] check = "deadLetters" -> \A p \in Names : seeded[p] # 0 => jobs[seeded[p]].state # "failed"
      [] check = "searchable" -> \A p \in Names : seeded[p] # 0 => Copies(p) # {}

\* A check that does not hold, or gets no answer, fails; the others of the
\* stage are still made.  Only the first is waited for.
Check(i) ==
    /\ pc = Checks[i]
    /\ \E bad \in BOOLEAN :
         /\ bad \/ Holds(pc)
         /\ IF i < Len(Checks)
              THEN pc' = Checks[i + 1] /\ failed' = (failed \/ bad) /\ UNCHANGED stages
              ELSE Leave("pipeline", failed \/ bad)
    /\ UNCHANGED <<deployment, tool, opts, asked, place, seeded, created, exit, blind, runs, faults>>

Exit ==
    /\ pc = "exit" /\ exit = "none"
    /\ exit' = IF failed THEN "1" ELSE "0"
    /\ UNCHANGED <<deployment, tool, opts, asked, stages, pc, place, seeded, created, failed, blind,
                   runs, faults>>

\* The next client may run.
Forget ==
    /\ exit # "none" /\ runs < MaxRuns
    /\ tool' = "none" /\ pc' = "idle" /\ exit' = "none"
    /\ UNCHANGED <<deployment, opts, asked, stages, place, seeded, created, failed, blind, runs, faults>>

-----------------------------------------------------------------------------
Next ==
    \/ \E j \in 1..Len(jobs) :
         \/ Take(j)
         \/ Index(j)
         \/ Complete(j)
         \/ AttemptFails(j)
         \/ BecomeDue(j)
    \/ \E reuse \in BOOLEAN :
         \/ \E wait \in BOOLEAN : StartSeed(reuse, wait)
         \/ \E requested \in Requests : StartSmoke(reuse, requested)
    \/ \E stage \in Stages : OtherStage(stage)
    \/ Find
    \/ Miss
    \/ Upload
    \/ UploadRefused
    \/ UploadUnanswered
    \/ WaitOver
    \/ WaitBlind
    \/ WaitTimesOut
    \/ \E i \in 1..Len(Checks) : Check(i)
    \/ Exit
    \/ Forget

Spec == Init /\ [][Next]_vars

-----------------------------------------------------------------------------
TypeOK ==
    /\ jobs \in Seq([product : Names, taken : Nat,
                     state : {"pending", "running", "delayed", "completed", "failed"}])
    /\ Len(jobs) <= MaxJobs /\ stored \subseteq 1..Len(jobs)
    /\ tool \in {"none", "seed", "smoke"}
    /\ {asked, stages} \subseteq SUBSET Stages
    /\ pc \in {"idle", "health", "lookup", "upload", "wait", "ai", "ops", "exit"}
              \cup {Checks[i] : i \in 1..Len(Checks)}
    /\ place \in 1..Len(Catalog)
    /\ seeded \in [Names -> 0..Len(jobs)] /\ created \subseteq 1..Len(jobs)
    /\ {failed, blind} \subseteq BOOLEAN
    /\ exit \in {"none", "0", "1"}

\* What an exit status of 0 tells, while the workers go on, jobs fail and are
\* retried, and answers are lost: the smoke suite verified all it was asked
\* for ("indexing actually happened", checks_pipeline.py), each product by
\* its own copy; seed_catalog.py has every product accepted, and when it
\* waited, no job of its own is still waiting for its first attempt.  The
\* checks of the "ai" stage find every product they ask for.
SeedingTells ==
    /\ exit = "0" =>
         /\ tool = "seed" \/ asked \cap {"catalog", "pipeline"} # {} =>
              \A p \in Names : seeded[p] # 0 /\ jobs[seeded[p]].product = p
         /\ "pipeline" \in asked => \A p \in Names : seeded[p] \in stored
         /\ tool = "seed" /\ opts.wait /\ ~blind => \A j \in created : jobs[j].taken > 0
    /\ pc = "ai" => \A p \in Names : seeded[p] # 0
=============================================================================
