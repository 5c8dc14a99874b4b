--------------------------- MODULE SeedingProofs ----------------------------
(***************************************************************************)
(* Theorems about Seeding: what an exit status of 0 says.                  *)
(* The clients go through their stages in order.  The invariant says, for  *)
(* each place a client can be at, what the stages before it established if *)
(* none of them failed; the workers only add to it.                        *)
(***************************************************************************)
EXTENDS Seeding, TLAPS

Job == [product : Names, taken : Nat,
        state : {"pending", "running", "delayed", "completed", "failed"}]
CheckNames == {"poll", "records", "deadLetters", "searchable"}
Places == {"idle", "health", "lookup", "upload", "wait", "ai", "ops", "exit"} \cup CheckNames

\* A job that left the queue was taken once, and what is completed is found.
JobsOK ==
    \A j \in 1..Len(jobs) :
        /\ jobs[j].state # "pending" => jobs[j].taken > 0
        /\ jobs[j].state = "completed" => j \in stored

\* What stands for a product is a job for it, found or of this run.
SeededOK ==
    \A p \in Names : seeded[p] # 0 =>
        jobs[seeded[p]].product = p /\ seeded[p] \in stored \cup created

SeedTyped ==
    /\ jobs \in Seq(Job) /\ Len(jobs) <= MaxJobs
    /\ stored \subseteq 1..Len(jobs) /\ created \subseteq 1..Len(jobs)
    /\ tool \in {"none", "seed", "smoke"} /\ pc \in Places
    /\ asked \subseteq Stages /\ stages \subseteq Stages
    /\ place \in 1..Len(Catalog)
    /\ seeded \in [Names -> 0..Len(jobs)]
    /\ failed \in BOOLEAN /\ blind \in BOOLEAN /\ opts.wait \in BOOLEAN
    /\ exit \in {"none", "0", "1"}

AllSeeded == \A p \in Names : seeded[p] # 0
AllCompleted == \A j \in created : jobs[j].state = "completed"
AllTaken == \A j \in created : jobs[j].taken > 0
SeededSoFar == \A i \in 1..(place - 1) : seeded[Catalog[i]] # 0

\* Which stages are left where the smoke suite is.
StagesLeft ==
    /\ stages \subseteq Resolve(asked)
    /\ pc \in {"health", "lookup", "upload"} => Resolve(asked) \ {"health"} \subseteq stages
    /\ pc \in {"lookup", "upload"} => "health" \notin stages
    /\ pc \in CheckNames => stages \cap {"health", "catalog"} = {}
    /\ pc = "ai" => "ai" \in stages /\ stages \cap {"health", "catalog", "pipeline"} = {}
    /\ pc = "ops" => stages = {"ops"}
    /\ pc = "exit" => stages = {}

\* What the stages that are over leave behind when none of them failed.
SmokeOK ==
    tool = "smoke" =>
        /\ pc \in {"health", "lookup", "upload", "ai", "ops", "exit"} \cup CheckNames
        /\ StagesLeft
        /\ pc \in {"health", "lookup", "upload", "poll", "ai"} => ~failed
        /\ pc = "health" => place = 1
        /\ pc \in {"lookup", "upload"} => SeededSoFar
        /\ ~failed /\ "catalog" \in Resolve(asked) \ stages => AllSeeded
        /\ ~failed /\ "pipeline" \in Resolve(asked) \ stages => AllCompleted
        /\ ~failed /\ pc \in CheckNames \ {"poll"} => AllCompleted

SeedOK ==
    tool = "seed" =>
        /\ asked = {} /\ pc \in {"lookup", "upload", "wait", "exit"}
        /\ ~failed /\ pc \in {"lookup", "upload"} => SeededSoFar
        /\ ~failed /\ pc \in {"wait", "exit"} => AllSeeded
        /\ ~failed /\ pc = "exit" /\ opts.wait /\ ~blind => AllTaken

ExitOK ==
    /\ tool = "none" => pc = "idle"
    /\ exit # "none" => pc = "exit"
    /\ exit = "0" => ~failed

SeedInv == SeedTyped /\ JobsOK /\ SeededOK /\ SmokeOK /\ SeedOK /\ ExitOK

-----------------------------------------------------------------------------
\* The dependencies of the stages.
LEMMA ClosedStages ==
    ASSUME NEW s, NEW t, s \subseteq Stages
    PROVE  t \in Closed(s) <=>
             \/ t \in s
             \/ t = "health" /\ s \ {"health"} # {}
             \/ t = "catalog" /\ s \cap {"pipeline", "ai"} # {}
  <1> DEFINE dep(st) == CASE st \in {"pipeline", "ai"} -> {"health", "catalog"}
                          [] st \in {"catalog", "ops"} -> {"health"}
                          [] OTHER -> {}
  <1>1. /\ dep("pipeline") = {"health", "catalog"} /\ dep("ai") = {"health", "catalog"}
        /\ dep("catalog") = {"health"} /\ dep("ops") = {"health"} /\ dep("health") = {}
    OBVIOUS
  <1>2. Closed(s) = s \cup UNION {dep(st) : st \in s}
    BY DEF Closed
  <1> HIDE DEF dep
  <1>3. t \in Closed(s) <=> t \in s \/ \E st \in s : t \in dep(st)
    BY <1>2
  <1>4. \A st \in s : st \in {"health", "catalog", "pipeline", "ai", "ops"}
    BY DEF Stages
  <1> QED BY <1>1, <1>3, <1>4

\* The stages that were asked for run, and catalog runs before pipeline and ai
\* (resolve_stages).
LEMMA ResolvedStages ==
    ASSUME NEW s, s \subseteq Stages
    PROVE  /\ s \subseteq Resolve(s) /\ Resolve(s) \subseteq Stages
           /\ "pipeline" \in Resolve(s) => "catalog" \in Resolve(s)
           /\ "ai" \in Resolve(s) => "catalog" \in Resolve(s)
  <1>1. Closed(s) \subseteq Stages /\ s \subseteq Closed(s)
    BY ClosedStages DEF Stages
  <1>2. Resolve(s) \subseteq Stages /\ Closed(s) \subseteq Resolve(s)
    BY <1>1, ClosedStages DEF Stages, Resolve
  <1>3. \A t \in {"pipeline", "ai"} : t \in Resolve(s) => t \in Closed(s)
    BY <1>1, ClosedStages DEF Resolve
  <1>4. \A t \in {"pipeline", "ai"} : t \in Closed(s) => "catalog" \in Resolve(s)
    BY <1>1, ClosedStages DEF Resolve
  <1> QED BY <1>1, <1>2, <1>3, <1>4

\* Where the smoke suite goes next, from the stages that are left (runner.py).
LEMMA FirstStage ==
    ASSUME NEW s, s \subseteq Stages
    PROVE  /\ FirstOf(s) \in {"health", "lookup", "poll", "ai", "ops", "exit"}
           /\ FirstOf(s) = "health" <=> "health" \in s
           /\ FirstOf(s) = "lookup" => "health" \notin s /\ "catalog" \in s
           /\ FirstOf(s) = "poll" => s \cap {"health", "catalog"} = {} /\ "pipeline" \in s
           /\ FirstOf(s) = "ai" => "ai" \in s /\ s \cap {"health", "catalog", "pipeline"} = {}
           /\ FirstOf(s) = "ops" => s = {"ops"}
           /\ FirstOf(s) = "exit" => s = {}
  <1>1. CASE "health" \in s
    BY <1>1 DEF FirstOf
  <1>2. CASE "health" \notin s /\ "catalog" \in s
    BY <1>2 DEF FirstOf
  <1>3. CASE s \cap {"health", "catalog"} = {} /\ "pipeline" \in s
    BY <1>3 DEF FirstOf
  <1>4. CASE s \cap {"health", "catalog", "pipeline"} = {} /\ "ai" \in s
    BY <1>4 DEF FirstOf
  <1>5. CASE s = {"ops"}
    BY <1>5 DEF FirstOf
  <1>6. CASE s = {}
    BY <1>6 DEF FirstOf
  <1> QED BY <1>1, <1>2, <1>3, <1>4, <1>5, <1>6 DEF Stages

\* What is left of the stages when one of them is over (run_groups).
LEMMA LeaveFacts ==
    ASSUME NEW stage \in Stages, NEW bad \in BOOLEAN, Leave(stage, bad)
    PROVE  /\ failed' = bad /\ pc' = FirstOf(stages')
           /\ stages' = stages \ {stage} \/ (stages' = {} /\ bad)
           /\ stage \in {"health", "catalog", "pipeline"} /\ bad => stages' = {}
  <1>1. failed' = bad /\ pc' = FirstOf(stages')
    BY Zenon DEF Leave
  <1>2. stages' = IF bad /\ stage \in {"health", "catalog", "pipeline"} THEN {} ELSE stages \ {stage}
    BY DEF Leave
  <1> QED BY <1>1, <1>2

\* Where a stage ends.
EndOf(stage) ==
    CASE stage = "catalog" -> {"lookup", "upload"}
      [] stage = "pipeline" -> {"searchable"}
      [] OTHER -> {stage}

\* A stage that is over, whatever comes next.
LEMMA StageOver ==
    ASSUME SeedInv, tool = "smoke", UNCHANGED <<tool, asked>>,
           NEW stage \in Stages, NEW bad \in BOOLEAN, Leave(stage, bad), failed => bad,
           pc \in EndOf(stage),
           stage # "catalog" => UNCHANGED <<seeded, created, jobs, place>>,
           stage = "catalog" /\ ~bad => AllSeeded'
    PROVE  SmokeOK' /\ stages' \subseteq Stages /\ failed' \in BOOLEAN /\ pc' \in Places \ {"idle"}
  <1>1. /\ asked \subseteq Stages /\ stages \subseteq Stages
        /\ Resolve(asked)' = Resolve(asked) /\ SmokeOK /\ StagesLeft
    BY DEF SeedInv, SeedTyped, SmokeOK
  <1>2. /\ failed' = bad /\ pc' = FirstOf(stages')
        /\ stages' = stages \ {stage} \/ (stages' = {} /\ bad)
        /\ stage \in {"health", "catalog", "pipeline"} /\ bad => stages' = {}
    BY LeaveFacts
  <1>3. /\ pc' \in {"health", "lookup", "poll", "ai", "ops", "exit"}
        /\ pc' = "health" <=> "health" \in stages'
        /\ pc' = "lookup" => "health" \notin stages' /\ "catalog" \in stages'
        /\ pc' = "poll" => stages' \cap {"health", "catalog"} = {} /\ "pipeline" \in stages'
        /\ pc' = "ai" => "ai" \in stages' /\ stages' \cap {"health", "catalog", "pipeline"} = {}
        /\ pc' = "ops" => stages' = {"ops"}
        /\ pc' = "exit" => stages' = {}
    BY <1>1, <1>2, FirstStage
  <1>4. /\ stage = "health" => pc = "health"
        /\ stage = "catalog" => pc \in {"lookup", "upload"}
        /\ stage = "pipeline" => pc = "searchable"
        /\ stage \in {"ai", "ops"} => pc = stage
    BY DEF EndOf
  <1>5. StagesLeft'
    BY <1>1, <1>2, <1>3, <1>4 DEF StagesLeft, CheckNames, Stages
  <1>6. pc' \in {"health", "lookup", "upload", "poll", "ai"} => ~failed'
    BY <1>1, <1>2, <1>3, <1>4 DEF StagesLeft, CheckNames, Stages
  <1>7. pc' \in {"health", "lookup", "upload"} => place' = 1
    BY <1>1, <1>2, <1>3, <1>4 DEF StagesLeft, CheckNames, Stages, SmokeOK
  <1>8. ~failed' /\ "catalog" \in Resolve(asked) \ stages' => AllSeeded'
    BY <1>1, <1>2 DEF SmokeOK, AllSeeded
  <1>9. ~failed' /\ "pipeline" \in Resolve(asked) \ stages' => AllCompleted'
    BY <1>1, <1>2, <1>4 DEF SmokeOK, StagesLeft, AllCompleted, CheckNames
  <1> QED BY <1>1, <1>2, <1>3, <1>5, <1>6, <1>7, <1>8, <1>9 DEF SmokeOK, SeededSoFar, CheckNames, Places

-----------------------------------------------------------------------------
\* The workers go on: jobs are kept, and none is forgotten or unfound again.
LEMMA WorkersGoOn ==
    ASSUME SeedInv, UNCHANGED client, jobs' \in Seq(Job), Len(jobs') = Len(jobs),
           stored \subseteq stored', stored' \subseteq 1..Len(jobs),
           \A j \in 1..Len(jobs) :
               /\ jobs'[j].product = jobs[j].product
               /\ jobs'[j].taken >= jobs[j].taken
               /\ jobs[j].state = "completed" => jobs'[j].state = "completed"
               /\ jobs'[j].state = "completed" => jobs[j].state = "completed" \/ j \in stored'
               /\ jobs'[j].state # "pending" => jobs'[j].taken > 0
    PROVE  SeedInv'
  <1>0. /\ UNCHANGED <<tool, opts, asked, stages, pc, place, seeded, created, failed, exit, blind>>
        /\ Len(jobs) \in Nat
    BY DEF client, SeedInv, SeedTyped
  <1>1. SeedTyped'
    BY <1>0 DEF SeedInv, SeedTyped
  <1>2. JobsOK'
    BY <1>0 DEF SeedInv, JobsOK
  <1>3. SeededOK'
    BY <1>0 DEF SeedInv, SeededOK, SeedTyped
  <1>4. (AllSeeded => AllSeeded') /\ (SeededSoFar => SeededSoFar')
    BY <1>0 DEF AllSeeded, SeededSoFar
  <1>5. AllCompleted => AllCompleted'
    BY <1>0 DEF SeedInv, SeedTyped, AllCompleted
  <1>6. AllTaken => AllTaken'
    <2>1. \A j \in 1..Len(jobs) : jobs[j].taken \in Nat /\ jobs'[j].taken \in Nat
      <3>1. \A j \in 1..Len(jobs) : jobs[j] \in Job /\ jobs'[j] \in Job
        BY <1>0 DEF SeedInv, SeedTyped
      <3> QED BY <3>1 DEF Job
    <2> QED BY <1>0, <2>1 DEF SeedInv, SeedTyped, AllTaken
  <1>7. SmokeOK'
    <2>1. StagesLeft => StagesLeft'
      BY <1>0 DEF StagesLeft, Resolve, Closed
    <2>2. Resolve(asked)' = Resolve(asked)
      BY <1>0
    <2> QED BY <1>0, <1>4, <1>5, <2>1, <2>2 DEF SeedInv, SmokeOK
  <1>8. SeedOK'
    BY <1>0, <1>4, <1>6 DEF SeedInv, SeedOK
  <1>9. ExitOK'
    BY <1>0 DEF SeedInv, ExitOK
  <1> QED BY <1>1, <1>2, <1>3, <1>7, <1>8, <1>9 DEF SeedInv

\* A job that was taken goes on to another state, to completed only if found.
LEMMA StateStep ==
    ASSUME SeedInv, NEW j \in 1..Len(jobs),
           NEW to \in {"pending", "delayed", "completed", "failed"},
           jobs[j].state \in {"running", "delayed"}, to = "completed" => j \in stored,
           jobs' = [jobs EXCEPT ![j].state = to], stored' = stored, UNCHANGED client
    PROVE  SeedInv'
  <1>1. /\ jobs \in Seq(Job) /\ Len(jobs) \in Nat /\ stored \subseteq 1..Len(jobs)
        /\ \A i \in 1..Len(jobs) : jobs[i] \in Job
        /\ JobsOK
    BY DEF SeedInv, SeedTyped
  <1>2. \A i \in 1..Len(jobs) : jobs[i].taken \in Nat
    BY <1>1 DEF Job
  <1> DEFINE moved == [jobs[j] EXCEPT !.state = to]
  <1>3. /\ moved \in Job /\ moved.state = to
        /\ moved.product = jobs[j].product /\ moved.taken = jobs[j].taken
    BY <1>1 DEF Job
  <1>4. jobs' = [jobs EXCEPT ![j] = moved]
    OBVIOUS
  <1> HIDE DEF moved
  <1>5. /\ jobs' \in Seq(Job) /\ Len(jobs') = Len(jobs)
        /\ jobs'[j] = moved /\ \A i \in 1..Len(jobs) : i # j => jobs'[i] = jobs[i]
    BY <1>1, <1>3, <1>4
  <1>6. ASSUME NEW i \in 1..Len(jobs)
        PROVE  /\ jobs'[i].product = jobs[i].product
               /\ jobs'[i].taken >= jobs[i].taken
               /\ jobs[i].state = "completed" => jobs'[i].state = "completed"
               /\ jobs'[i].state = "completed" => jobs[i].state = "completed" \/ i \in stored'
               /\ jobs'[i].state # "pending" => jobs'[i].taken > 0
    <2>1. jobs[i].taken \in Nat /\ (jobs[i].state # "pending" => jobs[i].taken > 0)
      BY <1>1, <1>2 DEF JobsOK
    <2>2. CASE i = j
      BY <1>3, <1>5, <2>1, <2>2
    <2>3. CASE i # j
      BY <1>5, <2>1, <2>3
    <2> QED BY <2>2, <2>3
  <1>7. stored \subseteq stored' /\ stored' \subseteq 1..Len(jobs)
    BY <1>1
  <1> QED BY <1>5, <1>6, <1>7, WorkersGoOn

\* Every step of a worker.
LEMMA WorkerStep ==
    ASSUME SeedInv, NEW j \in 1..Len(jobs),
           Take(j) \/ Index(j) \/ Complete(j) \/ AttemptFails(j) \/ BecomeDue(j)
    PROVE  SeedInv'
  <1>a. /\ jobs \in Seq(Job) /\ Len(jobs) \in Nat /\ stored \subseteq 1..Len(jobs)
        /\ \A i \in 1..Len(jobs) : jobs[i] \in Job
        /\ JobsOK
    BY DEF SeedInv, SeedTyped
  <1>0. /\ jobs \in Seq(Job) /\ Len(jobs) \in Nat /\ stored \subseteq 1..Len(jobs)
        /\ \A i \in 1..Len(jobs) : jobs[i] \in Job /\ jobs[i].taken \in Nat
        /\ JobsOK
    BY <1>a DEF Job
  <1>1. CASE Take(j)
    <2>1. /\ UNCHANGED <<stored, client>> /\ jobs[j].state = "pending"
          /\ jobs' = [jobs EXCEPT ![j] = [jobs[j] EXCEPT !.state = "running", !.taken = @ + 1]]
      BY <1>0, <1>1 DEF Take, Job
    <2>2. [jobs[j] EXCEPT !.state = "running", !.taken = @ + 1] \in Job
      <3>1. [jobs[j] EXCEPT !.state = "running"] \in Job
            /\ [jobs[j] EXCEPT !.state = "running"].taken = jobs[j].taken
        BY <1>0 DEF Job
      <3>2. \A x \in Job : x.taken \in Nat => [x EXCEPT !.taken = x.taken + 1] \in Job
        BY DEF Job
      <3>3. [jobs[j] EXCEPT !.state = "running", !.taken = @ + 1] =
              [[jobs[j] EXCEPT !.state = "running"] EXCEPT !.taken = jobs[j].taken + 1]
        BY <1>0 DEF Job
      <3> QED BY <1>0, <3>1, <3>2, <3>3
    <2>3. jobs' \in Seq(Job) /\ Len(jobs') = Len(jobs)
          /\ \A i \in 1..Len(jobs) : jobs'[i] =
               IF i = j THEN [jobs[j] EXCEPT !.state = "running", !.taken = @ + 1] ELSE jobs[i]
      BY <1>0, <2>1, <2>2
    <2>4. /\ jobs'[j].product = jobs[j].product /\ jobs'[j].taken = jobs[j].taken + 1
          /\ jobs'[j].state = "running"
      BY <1>0, <2>3 DEF Job
    <2>5. stored' = stored /\ UNCHANGED client
      BY <2>1
    <2>6. ASSUME NEW i \in 1..Len(jobs)
          PROVE  /\ jobs'[i].product = jobs[i].product
                 /\ jobs'[i].taken >= jobs[i].taken
                 /\ jobs[i].state = "completed" => jobs'[i].state = "completed"
                 /\ jobs'[i].state = "completed" => jobs[i].state = "completed" \/ i \in stored'
                 /\ jobs'[i].state # "pending" => jobs'[i].taken > 0
      <3>1. CASE i = j
        BY <1>0, <2>1, <2>4, <3>1
      <3>2. CASE i # j
        <4>1. jobs'[i] = jobs[i]
          BY <2>3, <3>2
        <4> QED BY <1>0, <4>1 DEF JobsOK
      <3> QED BY <3>1, <3>2
    <2>7. /\ jobs' \in Seq(Job) /\ Len(jobs') = Len(jobs)
          /\ stored \subseteq stored' /\ stored' \subseteq 1..Len(jobs)
      BY <1>0, <2>3, <2>5
    <2> QED BY <2>5, <2>6, <2>7, WorkersGoOn
  <1>2. CASE Index(j)
    <2>1. jobs' = jobs /\ UNCHANGED client /\ stored' = stored \cup {j}
      BY <1>2 DEF Index
    <2>2. /\ stored \subseteq stored' /\ stored' \subseteq 1..Len(jobs)
          /\ jobs' \in Seq(Job) /\ Len(jobs') = Len(jobs)
      BY <1>0, <2>1
    <2>3. ASSUME NEW i \in 1..Len(jobs)
          PROVE  /\ jobs'[i].product = jobs[i].product
                 /\ jobs'[i].taken >= jobs[i].taken
                 /\ jobs[i].state = "completed" => jobs'[i].state = "completed"
                 /\ jobs'[i].state = "completed" => jobs[i].state = "completed" \/ i \in stored'
                 /\ jobs'[i].state # "pending" => jobs'[i].taken > 0
      <3>1. jobs[i].taken \in Nat /\ (jobs[i].state # "pending" => jobs[i].taken > 0)
        BY <1>0 DEF JobsOK
      <3> QED BY <2>1, <3>1
    <2> QED BY <2>1, <2>2, <2>3, WorkersGoOn
  <1>3. CASE Complete(j)
    BY <1>3, StateStep DEF Complete, Work
  <1>4. CASE AttemptFails(j)
    BY <1>4, StateStep DEF AttemptFails, Work
  <1>5. CASE BecomeDue(j)
    BY <1>5, StateStep DEF BecomeDue, Work
  <1> QED BY <1>1, <1>2, <1>3, <1>4, <1>5

-----------------------------------------------------------------------------
\* The catalog is a list that is not empty.
LEMMA CatalogFacts ==
    ASSUME ConstantsOK
    PROVE  /\ Len(Catalog) \in Nat /\ 1 \in 1..Len(Catalog)
           /\ \A i \in 1..Len(Catalog) : Catalog[i] \in Names
           /\ \A p \in Names : \E i \in 1..Len(Catalog) : p = Catalog[i]
  <1>1. Len(Catalog) \in Nat /\ Len(Catalog) > 0
    BY DEF ConstantsOK
  <1> QED BY <1>1 DEF Names

\* The client has come to the next product, or to the end of the catalog.
LEMMA NextProduct ==
    ASSUME ConstantsOK, SeedInv, pc \in {"lookup", "upload"}, tool \in {"seed", "smoke"},
           NEW bad \in BOOLEAN, GoOn(bad), failed => bad, tool = "smoke" => bad = failed,
           UNCHANGED <<tool, opts, asked, exit, blind>>,
           ~bad => \A i \in 1..place : seeded'[Catalog[i]] # 0
    PROVE  /\ SmokeOK' /\ SeedOK' /\ stages' \subseteq Stages /\ place' \in 1..Len(Catalog)
           /\ failed' \in BOOLEAN /\ pc' \in Places \ {"idle"}
  <1>0. /\ place \in 1..Len(Catalog) /\ Len(Catalog) \in Nat
        /\ stages \subseteq Stages /\ SmokeOK /\ SeedOK
    BY CatalogFacts DEF SeedInv, SeedTyped
  <1>1. CASE place < Len(Catalog)
    <2>1. place' = place + 1 /\ pc' = "lookup" /\ UNCHANGED stages
      BY <1>1 DEF GoOn
    <2>2. failed' = bad
      BY <1>1, Zenon DEF GoOn
    <2>3. ~bad => SeededSoFar'
      BY <1>0, <2>1 DEF SeededSoFar
    <2>4. SeedOK'
      BY <1>0, <2>1, <2>2, <2>3 DEF SeedOK
    <2>5. SmokeOK'
      <3> SUFFICES ASSUME tool = "smoke" PROVE SmokeOK'
        BY DEF SmokeOK
      <3>1. StagesLeft /\ ~failed /\ ~bad
        BY <1>0 DEF SmokeOK
      <3>2. Resolve(asked)' = Resolve(asked) /\ ~failed'
        BY <2>2, <3>1
      <3>3. StagesLeft' /\ "catalog" \notin Resolve(asked) \ stages
            /\ "pipeline" \notin Resolve(asked) \ stages
        BY <2>1, <3>1, <3>2 DEF StagesLeft, CheckNames
      <3> QED BY <2>1, <2>3, <3>1, <3>2, <3>3 DEF SmokeOK, CheckNames
    <2> QED BY <1>0, <1>1, <2>1, <2>2, <2>4, <2>5 DEF Places
  <1>2. CASE ~(place < Len(Catalog))
    <2>1. ~bad => AllSeeded'
      <3> SUFFICES ASSUME ~bad, NEW p \in Names PROVE seeded'[p] # 0
        BY DEF AllSeeded
      <3>1. PICK i \in 1..Len(Catalog) : p = Catalog[i]
        BY CatalogFacts
      <3> QED BY <1>0, <1>2, <3>1
    <2>2. UNCHANGED place
      BY <1>2 DEF GoOn
    <2>3. CASE tool = "smoke"
      <3>1. Leave("catalog", bad)
        BY <1>2, <2>3 DEF GoOn
      <3>2. pc \in EndOf("catalog") /\ "catalog" \in Stages
        BY DEF EndOf, Stages
      <3>3. SmokeOK' /\ stages' \subseteq Stages /\ failed' \in BOOLEAN /\ pc' \in Places \ {"idle"}
        BY <2>1, <2>3, <3>1, <3>2, StageOver
      <3>4. SeedOK'
        BY <2>3 DEF SeedOK
      <3> QED BY <1>0, <2>2, <3>3, <3>4
    <2>4. CASE tool = "seed"
      <3>1. UNCHANGED stages /\ pc' = IF created' # {} /\ opts.wait THEN "wait" ELSE "exit"
        BY <1>2, <2>4 DEF GoOn
      <3>2. failed' = bad
        BY <1>2, <2>4, Zenon DEF GoOn
      <3>3. pc' = "exit" /\ opts.wait => AllTaken'
        BY <3>1 DEF AllTaken
      <3>4. SeedOK'
        BY <1>0, <2>1, <2>4, <3>1, <3>2, <3>3 DEF SeedOK
      <3>5. SmokeOK'
        BY <2>4 DEF SmokeOK
      <3> QED BY <1>0, <2>2, <3>1, <3>2, <3>4, <3>5 DEF Places
    <2> QED BY <2>3, <2>4
  <1> QED BY <1>1, <1>2

\* An upload that is accepted adds a job for the product the client is at.
LEMMA AcceptedFacts ==
    ASSUME ConstantsOK, SeedInv, Accepted, Len(jobs) < MaxJobs
    PROVE  /\ jobs' \in Seq(Job) /\ Len(jobs') = Len(jobs) + 1 /\ Len(jobs') <= MaxJobs
           /\ Here \in Names /\ Len(jobs) \in Nat
           /\ \A j \in 1..Len(jobs) : jobs'[j] = jobs[j]
           /\ jobs'[Len(jobs) + 1] = [product |-> Here, state |-> "pending", taken |-> 0]
  <1>1. Here \in Names
    BY CatalogFacts DEF SeedInv, SeedTyped, Here
  <1>2. [product |-> Here, state |-> "pending", taken |-> 0] \in Job
    BY <1>1 DEF Job
  <1>3. jobs \in Seq(Job) /\ Len(jobs) \in Nat /\ MaxJobs \in Nat
    BY DEF SeedInv, SeedTyped, ConstantsOK
  <1> QED BY <1>1, <1>2, <1>3 DEF Accepted

\* A product that is found is counted as seeded (_existing).
LEMMA FindStep ==
    ASSUME ConstantsOK, SeedInv, Find
    PROVE  SeedInv'
  <1>0. /\ pc = "lookup" /\ UNCHANGED <<jobs, stored, tool, opts, asked, exit, blind, created>>
        /\ GoOn(failed) /\ tool \in {"seed", "smoke"} /\ failed \in BOOLEAN
    BY DEF Find, deployment, SeedInv, SeedTyped, ExitOK
  <1>1. PICK j \in stored : jobs[j].product = Here /\ seeded' = [seeded EXCEPT ![Here] = j]
    BY DEF Find, Copies
  <1>2. Here \in Names /\ j \in 1..Len(jobs) /\ Len(jobs) \in Nat /\ Here = Catalog[place]
        /\ place \in 1..Len(Catalog) /\ \A i \in 1..Len(Catalog) : Catalog[i] \in Names
    BY CatalogFacts DEF SeedInv, SeedTyped, Here
  <1>3. seeded' \in [Names -> 0..Len(jobs)] /\ seeded'[Here] = j
        /\ \A p \in Names \ {Here} : seeded'[p] = seeded[p]
    BY <1>1, <1>2 DEF SeedInv, SeedTyped
  <1>4. SeededOK'
    BY <1>0, <1>1, <1>2, <1>3 DEF SeedInv, SeededOK
  <1>5. ~failed => SeededSoFar
    BY <1>0 DEF SeedInv, SeedOK, SmokeOK
  <1>6. ~failed => \A i \in 1..place : seeded'[Catalog[i]] # 0
    BY <1>2, <1>3, <1>5 DEF SeededSoFar
  <1>7. /\ SmokeOK' /\ SeedOK' /\ stages' \subseteq Stages /\ place' \in 1..Len(Catalog)
        /\ failed' \in BOOLEAN /\ pc' \in Places \ {"idle"}
    BY <1>0, <1>6, NextProduct
  <1> QED BY <1>0, <1>3, <1>4, <1>7 DEF SeedInv, SeedTyped, JobsOK, ExitOK

\* An upload is accepted: its job stands for the product (seed).
LEMMA UploadStep ==
    ASSUME ConstantsOK, SeedInv, Upload
    PROVE  SeedInv'
  <1>0. /\ pc = "upload" /\ UNCHANGED <<stored, tool, opts, asked, exit, blind>>
        /\ GoOn(failed) /\ tool \in {"seed", "smoke"} /\ failed \in BOOLEAN
        /\ Accepted /\ Len(jobs) < MaxJobs
    BY DEF Upload, SeedInv, SeedTyped, ExitOK
  <1> DEFINE new == Len(jobs) + 1
  <1>1. seeded' = [seeded EXCEPT ![Here] = new] /\ created' = created \cup {new}
    BY DEF Upload
  <1>2. /\ jobs' \in Seq(Job) /\ Len(jobs') = new /\ Len(jobs') <= MaxJobs
        /\ Here \in Names /\ Len(jobs) \in Nat
        /\ \A j \in 1..Len(jobs) : jobs'[j] = jobs[j]
        /\ jobs'[new].product = Here /\ jobs'[new].state = "pending"
    BY <1>0, AcceptedFacts
  <1>3. Here = Catalog[place] /\ place \in 1..Len(Catalog)
        /\ \A i \in 1..Len(Catalog) : Catalog[i] \in Names
    BY CatalogFacts DEF SeedInv, SeedTyped, Here
  <1>4. seeded' \in [Names -> 0..Len(jobs')] /\ seeded'[Here] = new
        /\ \A p \in Names \ {Here} : seeded'[p] = seeded[p] /\ seeded[p] \in 0..Len(jobs)
    BY <1>1, <1>2 DEF SeedInv, SeedTyped
  <1>5. stored' \subseteq 1..Len(jobs') /\ created' \subseteq 1..Len(jobs')
    <2>1. stored \subseteq 1..Len(jobs) /\ created \subseteq 1..Len(jobs)
      BY DEF SeedInv, SeedTyped
    <2>2. 1..Len(jobs) \subseteq 1..Len(jobs') /\ new \in 1..Len(jobs')
      BY <1>2
    <2> QED BY <1>0, <1>1, <2>1, <2>2
  <1>6. JobsOK'
    BY <1>0, <1>2 DEF SeedInv, JobsOK
  <1>7. SeededOK'
    BY <1>0, <1>1, <1>2, <1>4 DEF SeedInv, SeededOK
  <1>8. ~failed => SeededSoFar
    BY <1>0 DEF SeedInv, SeedOK, SmokeOK
  <1>9. ~failed => \A i \in 1..place : seeded'[Catalog[i]] # 0
    BY <1>2, <1>3, <1>4, <1>8 DEF SeededSoFar
  <1>10. /\ SmokeOK' /\ SeedOK' /\ stages' \subseteq Stages /\ place' \in 1..Len(Catalog)
         /\ failed' \in BOOLEAN /\ pc' \in Places \ {"idle"}
    BY <1>0, <1>9, NextProduct
  <1> QED BY <1>0, <1>2, <1>4, <1>5, <1>6, <1>7, <1>10 DEF SeedInv, SeedTyped, ExitOK

\* An upload is refused: the run fails, and the client goes on or leaves.
LEMMA RefusedStep ==
    ASSUME ConstantsOK, SeedInv, UploadRefused
    PROVE  SeedInv'
  <1>0. /\ pc = "upload" /\ tool \in {"seed", "smoke"} /\ failed \in BOOLEAN
        /\ UNCHANGED <<jobs, stored, seeded, created, tool, opts, asked, exit, blind>>
    BY DEF UploadRefused, deployment, SeedInv, SeedTyped, ExitOK
  <1>1. CASE tool = "seed"
    <2>1. GoOn(TRUE)
      BY <1>1 DEF UploadRefused
    <2>2. /\ SmokeOK' /\ SeedOK' /\ stages' \subseteq Stages /\ place' \in 1..Len(Catalog)
          /\ failed' \in BOOLEAN /\ pc' \in Places \ {"idle"}
      BY <1>0, <1>1, <2>1, NextProduct
    <2> QED BY <1>0, <2>2 DEF SeedInv, SeedTyped, JobsOK, SeededOK, ExitOK
  <1>2. CASE tool = "smoke"
    <2>1. Leave("catalog", TRUE) /\ UNCHANGED place
      BY <1>2 DEF UploadRefused
    <2>2. pc \in EndOf("catalog") /\ "catalog" \in Stages
      BY <1>0 DEF EndOf, Stages
    <2>3. SmokeOK' /\ stages' \subseteq Stages /\ failed' \in BOOLEAN /\ pc' \in Places \ {"idle"}
      BY <1>0, <1>2, <2>1, <2>2, StageOver
    <2> QED BY <1>0, <1>2, <2>1, <2>3 DEF SeedInv, SeedTyped, JobsOK, SeededOK, SeedOK, ExitOK
  <1> QED BY <1>0, <1>1, <1>2

\* Whether or not the upload was accepted, the run has failed.
LEMMA UnansweredStep ==
    ASSUME ConstantsOK, SeedInv, UploadUnanswered
    PROVE  SeedInv'
  <1>0. /\ pc = "upload" /\ pc' = "exit" /\ failed' = TRUE /\ stages' = {}
        /\ UNCHANGED <<stored, tool, opts, asked, place, seeded, created, exit, blind>>
        /\ tool \in {"seed", "smoke"} /\ Len(jobs) \in Nat
    BY DEF UploadUnanswered, SeedInv, SeedTyped, ExitOK
  <1>1. /\ jobs' \in Seq(Job) /\ Len(jobs') \in Nat /\ Len(jobs') <= MaxJobs
        /\ Len(jobs) <= Len(jobs') /\ \A j \in 1..Len(jobs) : jobs'[j] = jobs[j]
        /\ \A j \in 1..Len(jobs') : j \in 1..Len(jobs) \/ jobs'[j].state = "pending"
    <2>1. CASE UNCHANGED jobs
      BY <1>0, <2>1 DEF SeedInv, SeedTyped
    <2>2. CASE Len(jobs) < MaxJobs /\ Accepted
      BY <2>2, AcceptedFacts
    <2> QED BY <2>1, <2>2 DEF UploadUnanswered
  <1>2. SeedTyped'
    BY <1>0, <1>1 DEF SeedInv, SeedTyped, Places
  <1>3. JobsOK'
    BY <1>0, <1>1 DEF SeedInv, JobsOK
  <1>4. SeededOK'
    BY <1>0, <1>1 DEF SeedInv, SeededOK, SeedTyped
  <1>5. SmokeOK'
    BY <1>0 DEF SmokeOK, StagesLeft, CheckNames
  <1> QED BY <1>0, <1>2, <1>3, <1>4, <1>5 DEF SeedInv, SeedOK, ExitOK

\* The stages of which only success or failure is told apart (runner.py).
LEMMA StageStep ==
    ASSUME ConstantsOK, SeedInv, NEW stage \in Stages, OtherStage(stage)
    PROVE  SeedInv'
  <1>0. /\ pc = stage /\ stage \in {"health", "ai", "ops"} /\ failed \in BOOLEAN
        /\ UNCHANGED <<jobs, stored, tool, opts, asked, place, seeded, created, exit, blind>>
    BY DEF OtherStage, deployment, SeedInv, SeedTyped
  <1>1. PICK bad \in BOOLEAN : Leave(stage, failed \/ bad)
    BY DEF OtherStage
  <1>2. tool = "smoke"
    BY <1>0 DEF SeedInv, SeedTyped, SeedOK, ExitOK
  <1>3. pc \in EndOf(stage)
    BY <1>0 DEF EndOf
  <1>4. SmokeOK' /\ stages' \subseteq Stages /\ failed' \in BOOLEAN /\ pc' \in Places \ {"idle"}
    BY <1>0, <1>1, <1>2, <1>3, StageOver
  <1> QED BY <1>0, <1>2, <1>4 DEF SeedInv, SeedTyped, JobsOK, SeededOK, SeedOK, ExitOK

\* The checks of the pipeline stage, one after the other (checks_pipeline.py).
LEMMA CheckStep ==
    ASSUME ConstantsOK, SeedInv, NEW i \in 1..Len(Checks), Check(i)
    PROVE  SeedInv'
  <1>0. /\ pc = Checks[i] /\ failed \in BOOLEAN
        /\ UNCHANGED <<jobs, stored, tool, opts, asked, place, seeded, created, exit, blind>>
    BY DEF Check, deployment, SeedInv, SeedTyped
  <1>1. i \in 1..4 /\ Checks[1] = "poll" /\ Checks[2] = "records" /\ Checks[3] = "deadLetters"
        /\ Checks[4] = "searchable" /\ Len(Checks) = 4
    BY DEF Checks
  <1>2. tool = "smoke" /\ SmokeOK /\ StagesLeft /\ stages \cap {"health", "catalog"} = {}
    BY <1>0, <1>1 DEF SeedInv, SeedTyped, SeedOK, ExitOK, SmokeOK, StagesLeft, CheckNames
  <1>3. PICK bad \in BOOLEAN :
          /\ bad \/ Holds(pc)
          /\ IF i < Len(Checks)
               THEN pc' = Checks[i + 1] /\ failed' = (failed \/ bad) /\ UNCHANGED stages
               ELSE Leave("pipeline", failed \/ bad)
    BY DEF Check
  <1>4. CASE i < 4
    <2>1. /\ pc' = Checks[i + 1] /\ UNCHANGED stages /\ pc' \in CheckNames \ {"poll"}
          /\ pc # "poll" => pc \in CheckNames \ {"poll"}
      BY <1>0, <1>1, <1>3, <1>4 DEF CheckNames
    <2>2. failed' = (failed \/ bad)
      BY <1>1, <1>3, <1>4, Zenon
    <2>3. pc = "poll" /\ ~bad => AllCompleted
      BY <1>3 DEF Holds, AllCompleted
    <2>4. ~failed' => AllCompleted'
      BY <1>0, <1>2, <2>1, <2>2, <2>3 DEF SmokeOK, AllCompleted
    <2>5. StagesLeft' /\ Resolve(asked)' = Resolve(asked)
      BY <1>0, <1>1, <1>2, <2>1 DEF StagesLeft, CheckNames
    <2>6. (~failed' => ~failed) /\ (AllSeeded => AllSeeded')
      BY <1>0, <2>2 DEF AllSeeded
    <2>7. SmokeOK'
      BY <1>0, <1>2, <2>1, <2>4, <2>5, <2>6 DEF SmokeOK, CheckNames
    <2>8. SeedTyped'
      BY <1>0, <2>1, <2>2 DEF SeedInv, SeedTyped, CheckNames, Places
    <2>9. exit = "none"
      BY <1>0, <1>1 DEF SeedInv, ExitOK
    <2> QED BY <1>0, <1>2, <2>7, <2>8, <2>9 DEF SeedInv, JobsOK, SeededOK, SeedOK, ExitOK
  <1>5. CASE i = 4
    <2>1. Leave("pipeline", failed \/ bad) /\ pc \in EndOf("pipeline") /\ "pipeline" \in Stages
      BY <1>0, <1>1, <1>3, <1>5 DEF EndOf, Stages
    <2>2. SmokeOK' /\ stages' \subseteq Stages /\ failed' \in BOOLEAN /\ pc' \in Places \ {"idle"}
      BY <1>0, <1>2, <2>1, StageOver
    <2>3. SeedTyped'
      BY <1>0, <2>2 DEF SeedInv, SeedTyped
    <2>4. exit = "none"
      BY <1>0, <1>1 DEF SeedInv, ExitOK
    <2> QED BY <1>0, <1>2, <2>2, <2>3, <2>4 DEF SeedInv, JobsOK, SeededOK, SeedOK, ExitOK
  <1> QED BY <1>1, <1>4, <1>5

\* A run begins: nothing is seeded yet, and every stage is left.
LEMMA StartStep ==
    ASSUME ConstantsOK, SeedInv,
           NEW reuse \in BOOLEAN,
           \/ \E wait \in BOOLEAN : StartSeed(reuse, wait)
           \/ \E requested \in Requests : StartSmoke(reuse, requested)
    PROVE  SeedInv'
  <1>0. /\ UNCHANGED <<jobs, stored>> /\ place' = 1 /\ seeded' = [p \in Names |-> 0]
        /\ created' = {} /\ failed' = FALSE /\ exit' = "none" /\ blind' = FALSE
        /\ 1 \in 1..Len(Catalog) /\ Len(jobs) \in Nat
    BY CatalogFacts DEF StartSeed, StartSmoke, Start, deployment, SeedInv, SeedTyped
  <1>1. JobsOK' /\ SeededOK' /\ SeededSoFar'
    BY <1>0 DEF SeedInv, JobsOK, SeededOK, SeededSoFar
  <1>2. seeded' \in [Names -> 0..Len(jobs')]
    BY <1>0
  <1>3. ASSUME NEW wait \in BOOLEAN, StartSeed(reuse, wait) PROVE SeedInv'
    <2>1. /\ tool' = "seed" /\ pc' = "lookup" /\ asked' = {} /\ stages' = {} /\ opts'.wait \in BOOLEAN
      BY <1>3 DEF StartSeed, Start
    <2> QED BY <1>0, <1>1, <1>2, <2>1 DEF SeedInv, SeedTyped, SmokeOK, SeedOK, ExitOK, Places
  <1>4. ASSUME NEW requested \in Requests, StartSmoke(reuse, requested) PROVE SeedInv'
    <2>1. /\ tool' = "smoke" /\ asked' = requested /\ stages' = Resolve(requested)
          /\ pc' = FirstOf(Resolve(requested)) /\ opts'.wait \in BOOLEAN
      BY <1>4 DEF StartSmoke, Start
    <2>2. requested \subseteq Stages /\ Resolve(requested) \subseteq Stages
      BY ResolvedStages DEF ConstantsOK
    <2>3. StagesLeft' /\ pc' \in {"health", "lookup", "poll", "ai", "ops", "exit"}
      BY <2>1, <2>2, FirstStage DEF StagesLeft, CheckNames
    <2>4. SmokeOK'
      BY <1>0, <1>1, <2>1, <2>3 DEF SmokeOK, CheckNames
    <2> QED BY <1>0, <1>1, <1>2, <2>1, <2>2, <2>3, <2>4 DEF SeedInv, SeedTyped, SeedOK, ExitOK, Places,
                                                      CheckNames
  <1> QED BY <1>3, <1>4

\* The steps that change little but where the client is.
LEMMA QuietStep ==
    ASSUME ConstantsOK, SeedInv,
           Miss \/ WaitOver \/ WaitBlind \/ WaitTimesOut \/ Exit \/ Forget \/ UNCHANGED vars
    PROVE  SeedInv'
  <1>0. /\ UNCHANGED <<jobs, stored, opts, asked, stages, place, seeded, created>>
        /\ AllSeeded' = AllSeeded /\ AllCompleted' = AllCompleted /\ SeededSoFar' = SeededSoFar
        /\ AllTaken' = AllTaken /\ Resolve(asked)' = Resolve(asked)
    BY DEF Miss, WaitOver, WaitBlind, WaitTimesOut, Exit, Forget, vars, deployment, client, AllSeeded,
           AllCompleted, SeededSoFar, AllTaken
  <1>1. JobsOK' /\ SeededOK'
    BY <1>0 DEF SeedInv, JobsOK, SeededOK
  <1>2. CASE Miss
    BY <1>0, <1>1, <1>2 DEF Miss, SeedInv, SeedTyped, SmokeOK, StagesLeft, SeedOK, ExitOK, CheckNames, Places
  <1>3. CASE WaitOver
    <2>1. /\ pc = "wait" /\ pc' = "exit" /\ UNCHANGED <<tool, failed, exit, blind>>
          /\ tool = "seed"
      BY <1>3 DEF WaitOver, SeedInv, SeedTyped, SmokeOK, ExitOK, CheckNames
    <2>2. AllTaken
      BY <1>3 DEF WaitOver, Pending, SeedInv, SeedTyped, JobsOK, AllTaken
    <2> QED BY <1>0, <1>1, <2>1, <2>2 DEF SeedInv, SeedTyped, SmokeOK, SeedOK, ExitOK, Places
  <1>4. CASE WaitBlind
    BY <1>0, <1>1, <1>4 DEF WaitBlind, SeedInv, SeedTyped, SmokeOK, SeedOK, ExitOK, CheckNames, Places
  <1>5. CASE WaitTimesOut
    BY <1>0, <1>1, <1>5 DEF WaitTimesOut, SeedInv, SeedTyped, SmokeOK, SeedOK, ExitOK, CheckNames, Places
  <1>6. CASE Exit
    BY <1>0, <1>1, <1>6 DEF Exit, SeedInv, SeedTyped, SmokeOK, StagesLeft, SeedOK, ExitOK, CheckNames, Places
  <1>7. CASE Forget
    BY <1>0, <1>1, <1>7 DEF Forget, SeedInv, SeedTyped, SmokeOK, SeedOK, ExitOK, CheckNames, Places
  <1>8. CASE UNCHANGED vars
    BY <1>0, <1>1, <1>8 DEF vars, client, SeedInv, SeedTyped, SmokeOK, StagesLeft, SeedOK, ExitOK, CheckNames, Places
  <1> QED BY <1>2, <1>3, <1>4, <1>5, <1>6, <1>7, <1>8

\* The inductive invariant: what the stages that are over have established as
\* long as nothing failed (seed_catalog.py, smoke/runner.py).
THEOREM SeedInvariant ==
    ASSUME ConstantsOK
    PROVE  Spec => []SeedInv
  <1>1. Init => SeedInv
    <2> SUFFICES ASSUME Init PROVE SeedInv
      OBVIOUS
    <2>1. 1 \in 1..Len(Catalog) /\ MaxJobs \in Nat
      BY CatalogFacts DEF ConstantsOK
    <2>2. SeedTyped
      <3>1. /\ jobs = <<>> /\ jobs \in Seq(Job) /\ Len(jobs) = 0 /\ stored = {} /\ created = {}
            /\ seeded \in [Names -> 0..Len(jobs)] /\ opts.wait \in BOOLEAN
        BY DEF Init, NoOpts
      <3>2. failed \in BOOLEAN /\ blind \in BOOLEAN
        BY Zenon DEF Init
      <3> QED BY <2>1, <3>1, <3>2 DEF Init, SeedTyped, Places
    <2> QED BY <2>2 DEF Init, SeedInv, JobsOK, SeededOK, SmokeOK, SeedOK, ExitOK
  <1>2. SeedInv /\ [Next]_vars => SeedInv'
    BY WorkerStep, StartStep, StageStep, FindStep, UploadStep, RefusedStep, UnansweredStep, CheckStep,
       QuietStep DEF Next
  <1> QED BY <1>1, <1>2, PTL DEF Spec

\* A client that exits with 0 has done what its status says: the catalog is
\* seeded, and what was waited for is completed and found (seed_catalog.py,
\* smoke/runner.py).
THEOREM ExitStatusTells ==
    ASSUME ConstantsOK
    PROVE  Spec => [](TypeOK /\ SeedingTells)
  <1>1. SeedInv => SeedingTells
    <2> SUFFICES ASSUME SeedInv PROVE SeedingTells
      OBVIOUS
    <2>1. asked \subseteq Stages /\ asked \subseteq Resolve(asked)
          /\ ("pipeline" \in Resolve(asked) => "catalog" \in Resolve(asked))
          /\ ("ai" \in Resolve(asked) => "catalog" \in Resolve(asked))
      BY ResolvedStages DEF SeedInv, SeedTyped
    <2>2. exit = "0" => pc = "exit" /\ ~failed /\ tool \in {"seed", "smoke"}
      BY DEF SeedInv, SeedTyped, ExitOK
    <2>3. exit = "0" /\ (tool = "seed" \/ asked \cap {"catalog", "pipeline"} # {}) => AllSeeded
      BY <2>1, <2>2 DEF SeedInv, SmokeOK, StagesLeft, SeedOK
    <2>4. AllSeeded => \A p \in Names : seeded[p] # 0 /\ jobs[seeded[p]].product = p
      BY DEF AllSeeded, SeedInv, SeededOK
    <2>5. exit = "0" /\ "pipeline" \in asked => \A p \in Names : seeded[p] \in stored
      <3> SUFFICES ASSUME exit = "0", "pipeline" \in asked, NEW p \in Names PROVE seeded[p] \in stored
        OBVIOUS
      <3>1. seeded[p] # 0
        BY <2>3 DEF AllSeeded
      <3>2. CASE tool = "smoke"
        <4>1. AllCompleted
          BY <2>1, <2>2, <3>2 DEF SeedInv, SmokeOK, StagesLeft
        <4> QED BY <3>1, <4>1 DEF SeedInv, SeedTyped, SeededOK, JobsOK, AllCompleted
      <3> QED BY <2>2, <3>2 DEF SeedInv, SeedOK
    <2>6. exit = "0" /\ tool = "seed" /\ opts.wait /\ ~blind => AllTaken
      BY <2>2 DEF SeedInv, SeedOK
    <2>7. pc = "ai" => AllSeeded
      BY <2>1 DEF SeedInv, SeedTyped, SmokeOK, StagesLeft, SeedOK, ExitOK
    <2> QED BY <2>3, <2>4, <2>5, <2>6, <2>7 DEF SeedingTells, AllSeeded, AllTaken
  <1>2. SeedInv => TypeOK
    <2>1. CheckNames = {Checks[i] : i \in 1..Len(Checks)}
      <3>1. Checks[1] = "poll" /\ Checks[2] = "records" /\ Checks[3] = "deadLetters"
            /\ Checks[4] = "searchable" /\ Len(Checks) = 4
        BY DEF Checks
      <3> QED BY <3>1 DEF CheckNames
    <2> QED BY <2>1 DEF SeedInv, SeedTyped, TypeOK, Places, Job
  <1> QED BY <1>1, <1>2, SeedInvariant, PTL
=============================================================================
