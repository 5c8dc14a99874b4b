# Product Intelligence: formal specifications

TLA+ specifications of the product-intelligence platform, the TLC
configurations that check them on small instances, and TLAPS proofs of the
properties that matter most. Paths are relative to the repository; `app/`
stands for `backend/app/`.

- [The system](#the-system)
- [What is modelled](#what-is-modelled)
- [What the runs show](#what-the-runs-show)
- [Fairness](#fairness)
- [What is proved](#what-is-proved)
- [Where the code disagrees with its own statements](#where-the-code-disagrees-with-its-own-statements)
- [What is not modelled](#what-is-not-modelled)
- [Plan](#plan)

## The system

An API process accepts product uploads and queues a job for each; worker
processes take the jobs from Redis, run the product pipeline, and index the
product in a vector store that searches, recommendations, pricing and
duplicate checks read.

| component | state it keeps | what is hard | what makes it correct | modules |
|---|---|---|---|---|
| Job queue (`app/queue`, `app/jobs`) | Redis: `pending` and `dead_letter` lists, `processing` hash, `delayed` sorted set, one record per job | each operation is several commands with awaits between them; a caller may die between any two | no job is lost, none is worked on twice, the retry budget is exact | `RedisQueue`, `JobLifecycle` |
| Workers (`app/workers`, `scripts/run_workers.py`) | loops of a process, `stop_event`, an in-memory copy of each job | overlapping attempts, stale copies, crashes, Redis errors, late attempts | every accepted job comes to rest; a stop drains | `WorkerPool` |
| Upload and status API (`app/api/products.py`, `app/api/jobs.py`) | none of its own | enqueue may fail after its save | a 202 is a promise the queue keeps | `RedisQueue`, `Files`, `Serving` |
| Upload files (`upload_service.py`, `product_image_service.py`, validators) | image files, written in place | a stream that breaks, attempts that write the same file at once, a retry that rewrites what is being served | a refusal leaves no file; once the last save of an image is through, it is whole and served whole | `Files` |
| Product pipeline (`product_service.py`) | none of its own | two upserts that are not one step, retries that meet their own vectors | a completed product is searchable by text and image | `ProductIngest`, `Facets` |
| Duplicate detection (`services/duplicate`) | none | the check and the upsert are not one step; two sorts decide which candidate counts | BLOCK keeps out what is like something stored when the check began; the verdict does not hang on the order of the candidates | `Duplicates`, `ProductIngest` |
| Vector store and search (`services/vectorstore`) | two Qdrant collections, a flag and a lock per store object | check-then-create between threads and processes; cuts before fusion | requests only reach what exists; the order is honest | `CollectionSetup`, `Retrieval`, `Facets` |
| Model managers (`services/embeddings`, cross-encoder) | loaded models, a lock | double-checked locking, loads that fail | a model is loaded once, errors leave the lock free | `ModelLoading`, `Retrieval` |
| Reranker (`reranker_service.py`) | none | the pool is cut before it is scored | no scored candidate is left out for a less relevant one | `Retrieval` |
| Model registry (`model_registry.py`) | versions and their status, in memory | activation changes two entries | one active version per type | `ModelRegistry` |
| Recommendations (`services/recommendation`, cache repository) | cache in Redis with a TTL | the cache is warmed by workers from what was indexed then | fair over brands, bounded staleness | `Recommendation`, `Serving` |
| Pricing (`services/pricing`) | none | few comparables, outliers, a category in several spellings | the estimate lies within its comparables, at least half of which are kept | `Pricing`, `Facets` |
| Catalog intelligence (`services/catalog`) | none | merge, threshold and cap, in that order | the best evidence survives | `CatalogIntelligence` |
| Image processing (`image_processing_service.py`, `utils/image.py`) | processed files | orientation, transparency, backdrop | the subject's colour is named, nothing is enlarged | `Images`, `Files` |
| Explanations (`services/explanations`) | none | restated beside the decision | | not modelled |
| Evaluation (`services/evaluation`) | none | failed queries, short answers | the metrics agree with the ranks | `Evaluation` |
| Analytics (`services/analytics`, repository) | Redis counters per day | a latency is four commands; dashboards read between them | counts agree with events, parts fit together | `Analytics` |
| Enterprise (`app/api/enterprise.py`, repositories) | organizations, keys, audit log, quota counters in Redis | several commands per request, requests at the same time | a revoked key stays revoked, no role grows, every change is audited, no window admits too much | `Enterprise`, `Quota` |
| Supervisor and deployment (`scripts/start_all.py`) | child processes | a deadline against a child that will not stop, signals at any moment | the container always goes down, with everything in it | `Supervisor` |
| Frontend (`frontend/src`) | upload page, auth store, browser storage shared by tabs | late answers, failed polls, other tabs | the page shows what became of its own upload; a forgotten key stays forgotten | `UploadView`, `Session` |
| Developer scripts (`seed_catalog.py`, `scripts/smoke`) | none | reuse, lost answers, a blind queue length | the exit status means what it says | `Seeding` |
| Metrics (`app/metrics`) | process-local counters | nothing reads them back | | not modelled |
| Configuration and application shell | settings | | bounds of the settings | assumptions of the modules |

**How they interact.** `POST /products/upload` streams the file to disk, saves
a job record and pushes its id. A worker's `dequeue` first moves due delayed
jobs back to `pending`, then pops one id, loads its record, claims it in
`processing` and saves it as RUNNING. The worker reports progress, runs
`process_upload` (processed image, attributes, embeddings, duplicate check,
image upsert, text upsert), warms the recommendation cache, saves COMPLETED
and removes the claim; if anything in the attempt raises, `retry` removes the
claim, counts the attempt, and either schedules the job again with a backoff
or dead-letters it. The recovery loop of every process retries each claim
older than `job_timeout_seconds`. The upload page polls the record. Every
service builds its own store, model and registry objects, so the locks and
flags above are per object, not per process.

## What is modelled

| module | models |
|---|---|
| `RedisQueue` | `app/queue/redis_queue.py`, one action per Redis command |
| `WorkerPool` (extends `RedisQueue`) | `app/workers/*.py`, `scripts/run_workers.py`, what they do to the queue and the vector store; outages |
| `JobLifecycle` | abstract specification of a job: the statuses and transitions `app/jobs/job_status.py` promises |
| `ProductIngest` | `process_upload`, `detect` and the two collections, several uploads at once, each with one attempt at a time |
| `CollectionSetup` | `QdrantVectorStore._ensure_collection`: stores, callers, failed requests |
| `ModelLoading` | `get_model` of the three managers: threads, failed loads, warm-up |
| `ModelRegistry` | seeding, register, activate, deactivate, and the services that ask once |
| `Enterprise` | organizations, keys, authentication, permissions, audit log, one action per Redis command |
| `Quota` | `QuotaRepository.hit`, `enforce_quota`, the two windows and their TTLs |
| `Serving` | warm-up, expiry and readers of the recommendation cache |
| `Files` | uploads streamed to disk, attempts that process them, two of one job at once among them, thumbnails and the requests that serve images |
| `Analytics` | recorders and readers of the daily counters |
| `Seeding` | `seed_catalog.py` and the smoke suite against the deployment as they can see it |
| `Supervisor` | `start_all.py` and its children |
| `UploadView` | the upload page with its polling, against the routes and the job behind them |
| `Session` | the key in each tab and in the storage they share, which may throw |
| `Retrieval` | hybrid search, fusion, search by id, reranking, batching, lookups |
| `Facets` | what is stored of a product's texts, and filters |
| `Duplicates` | scores, rules and verdicts of detection and verification |
| `Recommendation`, `Pricing`, `Evaluation`, `CatalogIntelligence`, `Images` | the pure algorithms of these services |
| `PyLists` | Python's list operations on sequences |
| `Services` | the services above side by side, as instances of their modules |
| `MCWorkerPool`, `MCProductIngest`, `MCServices`, `MCAlgorithms` | instances for TLC |
| `...Proofs` | theorems about the module of that name; `AlgorithmProofs` is about the algorithms that `MCAlgorithms` calls, `ServicesProofs` also about the pipeline |

**Composition.** `WorkerPool` extends `RedisQueue` and is composed with the
vector store (`product`) and with process crashes. `Services` extends
`ProductIngest` and instantiates thirteen more behaviours; the services have
nothing to say to each other except through what each module already contains,
so its variable `part` picks the one that moves and a state space is the sum,
not the product, of the parts. `UploadView` holds the part of the job's life
that a page can see; `Seeding` and `Files` do the same for the scripts and for
the image routes. `MCAlgorithms` calls the algorithms through the services
that call them in the code: detection, verification and the price of a stored
product go through the hybrid search of `Retrieval` over both modalities, a stored product is `Stored` of `Facets`.

**RedisQueue.** `pending` and `dead` are the two lists, `processing[j]` says
whether the hash has a claim on `j` and whether it is older than the timeout,
`delayed[j]` whether the sorted set holds `j` and whether it is due, `rec[j]`
is the part of the saved record that decides anything: status and
`retry_count`. An actor is a worker loop or a recovery loop; `pc`, `hand`,
`count` and `todo` are the local state of the call it is in: the await it
stands at, the job, `retry_count` of its in-memory copy, and the rest of the
reply it iterates over. A save writes the actor's copy over the record, as
`SET job:{id}` does: this is what makes stale copies visible in the model.
The two SETs of `_save` are one step, because the second one (the product
index) never changes a value that was set before; `hdel` by a worker is
`Ack` or `Unclaim`, `hset` is `Claim`, and so on, in the order of the code.

**WorkerPool.** `process_one` is the sequence of labels `idle`, `promote`,
`repush`, `load`, `claim`, `mark`, `validating`, `processing`, `pipeline`,
`indexing`, `caching`, `completing`, `acking`; a failure anywhere in the
attempt leads to `failing` and on to `rescheduling`/`delaying` or
`burying`/`entombing`. A recovery loop goes `idle`, `sweep`, and through the
same retry labels, since `requeue_stale_jobs` calls `retry`. `stop` sets
`proc` to `stopping`; a loop looks at it only when `idle`. `Crash` kills every
loop of a process. A Redis error inside the attempt is a failed attempt
(`ErrorInAttempt`), anywhere else it reaches the loop's handler, which goes on
with the next iteration (`ErrorOutside`). An error stands for a command that
had no effect; one whose reply was lost is the same as an error at the next
command. `spilled` is a history variable: jobs an outage caught in an actor's
memory between two lists.

**ProductIngest.** `image` and `text` are the two collections; an attempt is
`SearchImage`, `SearchText` with the decision, `UpsertImage`, `UpsertText`,
`Finish`; a fault or a rejection sends the product back with its retry budget.
`Lanes` is the number of attempts under way at once (worker loops of all
processes). `Alike` says which pairs score as duplicates. A job has one attempt
at a time here: what overlapping attempts of one job do to the job is the
subject of `WorkerPool`, and what they do to its image that of `Files`.

**Files.** `original`, `processed` and `thumb` say how much of each file there
is, `at[w]` and `job[w]` where an attempt is and what it works on. `Redeliver`
hands a job out again while an attempt of it runs (the sweep of stale claims,
or two promotions of one due job), so two attempts may save one image at once.
`image.save` opens the final name and empties it (`StartSave`); the attempts
write the same bytes, so the file is whole when the one that opened it last is
through (`FinishSave`); Pillow removes a file that a failing save created
(`SaveRaises`). `writer` is whose save the file waits for, and `"broken"` when
that save will not end.

**Services.** In each module an action is the code between two awaits (or two
lock operations), its label in `pc` is the await it stands at, and a failing
command is an action that ends the call where the code lets the exception go.
History variables (`gone`, `pushed` of `Enterprise`; `admitted` of `Quota`;
`happened`, `lost`, `leaked` of `Analytics`; `before` of `ProductIngest`; `own`, `alone`
of `Session`; `shown`, `gaveUp` of `UploadView`; `blind` of `Seeding`) are read
by no guard.

**Algorithms.** Scores are integers in a unit in which the weights of
`settings.py` come out exactly, texts are a key and a spelling, pictures are
sequences of rows of colours. The library functions the code calls
(`rapidfuzz`, the cross-encoder, Qdrant's similarity) are inputs.

**Mutants.** A definition `Name_Suffix` with a comment "Mutant" is a plausible
bug in `Name`; no specification uses it. Substituting it must break a named
property, which shows that the property depends on the code. `PROJECT.json`
lists one for each property of a run. These break a conjunct that the listed
one leaves intact:

| property | mutant |
|---|---|
| `DashboardCoherent` | `Analytics.Expire_SumOnly` |
| `OneModelForAll` | `ModelRegistry.Register_KeepsOthers` |
| `SeedingTells` | `Seeding.Find_AnyMatch`, `Seeding.WaitOver_AtOnce` |
| `QuotaKept` | `Quota.ExpireMinute_Skipped` |
| `AuditKept` | `Enterprise.CommandFails_Soft` |
| `BrowserTells` | `UploadView.Answer_AnyView` |
| `SetUpRecovers` | `CollectionSetup.RequestFails_KeepsLock` |
| `EnrichKeepsBest` | `CatalogIntelligence.MergeAttributes_LastWins` |
| `VerdictIsBest` | `Duplicates.Verify_AnyRank` |
| `MetricsAgree` | `Evaluation.AggregateTask_WithFailures` |
| `ColorOfSubject` | `Images.Background_Mean` |
| `HybridRanks` | `Retrieval.SearchByProductId_NoSpare` |

## What the runs show

| run | instance | shows |
|---|---|---|
| PoolCalm | 1 job, 2 workers, 1 recoverer, 1 late attempt, 1 stop | `NoJobLost`, `ClaimHasHolder`, `StopDrains`, `TypeOK` |
| PoolOutage | 2 jobs, 1 worker, 1 recoverer, 1 crash, 1 error | `LossOnlyInHandOff`, `OnePlace`, `RecordBeforeQueue`, `RetryBudget`, `CompletedMeansIndexed`, `CountMonotone` |
| PoolSettles | 1 job, 1 worker, 1 recoverer, `MaxRetries` 2, one fault of every kind | `SettlesUnlessSpilled` |
| PoolLifecycle | 2 jobs, 1 worker, no faults, `MaxRetries` 2 | implements `JobLifecycle` |
| Services | every service and the pipeline with two lanes, see below | their safety properties |
| ServicesSettle | model loads, collection, supervisor, upload page, pipeline with two lanes in OFF and WARN | `SetUpRecovers`, `ServiceGoesDown`, `PageNeverHangs`, `IngestConverges` |
| Algorithms | every input of the sets in `MCAlgorithms` | eight properties of the pure algorithms |

The five `Bug...` runs are described [below](#where-the-code-disagrees-with-its-own-statements).

What a property of Services says, in one line each:

| property | says |
|---|---|
| `Types` | every part keeps to its types |
| `OneModelForAll` | threads that miss a model together share the one that is loaded; the registry has one active version |
| `OperatesOnExisting` | no request goes to a collection that does not exist, whatever stores race and whatever fails |
| `RevokedCannotAct` | a key whose revocation was answered is refused, and every key a client holds can be listed by its tenant |
| `NoEscalation` | no chain of requests makes a key that can do more than its maker, or one of another tenant |
| `AuditKept` | what was answered was recorded, and the log holds the newest events, over its cap only while an append has not trimmed |
| `QuotaKept` | overlapping requests let through no request too many and refuse none too early; only a failed command leaves a counter without a TTL |
| `BoundedStaleness` | a cached answer fits the question and is no older than TTL plus warm-up |
| `FilesAccounted` | a refusal leaves no file; however attempts of one job overlap, raise and die, the image of a product that can be found is whole unless its last save runs or has broken off |
| `ServedWhole` | a client is sent the whole image, or a thumbnail that was whole when it was made, unless at that moment the last save of the image runs or has broken off; once a later save is through, images are whole again |
| `DashboardCoherent` | the numbers of a dashboard, report or trend, read one by one, do not contradict each other beyond what is under way |
| `SeedingTells` | a successful exit of the scripts means what they say about the deployment |
| `BrowserTells` | a tab acts with no key but its own, or one that storage refused to forget, and a reload finds it; the upload page shows its own upload |
| `NoLateDuplicate` | BLOCK mode stores nothing like a product that was searchable when the check began, with two lanes, faults and retries |
| `StoredWhole`, `RejectedStaysOut` | the two collections agree; a rejected product is not stored later |

**Bounds of the pool.** `w1`, `w2` are worker loops, `r1` a recovery loop.
Every fault has a budget (`Budget`): how many late attempts, stops, crashes
and errors a behaviour may contain. `MaxRetries` bounds `retry_count`; nothing
else grows. One job is enough for two workers to meet on it: jobs interact
only by their order on the lists, which two jobs show. Two workers and one
recoverer are every kind of pair of concurrent callers that the theorems below
do not already cover for any number. `MaxRetries` 1 has both outcomes of
`retry`; 2 has the boundary elsewhere. One fault of a kind can strike at every
label of every actor. Symmetry is used only in PoolOutage, over jobs, which no
definition distinguishes and which none of its properties orders in time.

**Bounds of the services** (values in `Services.cfg` and `ServicesSettle.cfg`
of the constants that `Services` gives to its parts). Three threads, so that one can wait while a second fails and a
third succeeds; three callers on two store objects; two requests of one tenant
for three keys, or one request at a time for two tenants; two requests in three minutes of which
two make a day, so that either window rolls over between two commands; two overlapping
attempts of one product and one of another over four ticks with a TTL of one;
an upload and a query of at most one chunk, each an image or junk, with two
attempts at once, of one job or of two, one reader and one fault; three versions of two model types; two recorders over two
days; two runs of either script over two products and three jobs; three
children of which one will not stop in time; two submissions of the upload
page with two attempts, a late report and a failed poll (one in
ServicesSettle); two tabs and two keys, any access of which may throw; three
products of which two are alike, two of them under way at once in all three
modes, with two retries and two faults.
Each bound is the smallest at which the case that the property is about
happens, and the mutants show that it does.

**Bounds of the algorithms.** A catalog of three or four products with scores
on both sides of every threshold, and a verdict or a price that asks for one or
two of them, so that the cuts of the search and of the reranking pass products
over; six comparables are the fewest at which the quartile
fence excludes one; a thumbnail of five by five pixels has a border, a subject
and a detail; weights and thresholds are the defaults of `settings.py`. The
numbers of the settings appear in the modules as CONSTANTS with the ranges the
settings accept as assumptions.

**Deadlock.** `WorkerPool` never stops (an idle loop looks again) and the
algorithms answer again and again, so deadlock is checked there. The services
end: a clock stops, a budget is spent, the supervisor exits. Their runs switch
the check off.

## Fairness

`Fairness` of `WorkerPool` is weak fairness of: every step of an actor (asyncio
schedules each loop; a loop survives any exception, `worker_manager.py:96`);
`PushUpload` (the request handler continues after its first await);
`BecomeDue` and `Expire` (clocks); `Exit` (`stop` gathers the loops) and
`Start` (`restart: unless-stopped` in `docker-compose.yml`). Failures, late
attempts, stops, crashes and new uploads are never forced. A worker's step is
fair as a whole, so an attempt may always fail: jobs settle because the retry
budget runs out.

`ProductIngest` has strong fairness of each product's attempt: a lane becomes
free again and again, and the queue is first in, first out, so no product is
passed over for ever.

In ServicesSettle a thread that is inside `get_model` or `_ensure_collection`
goes on (weak fairness of its steps as a whole; a lock that is released is
passed on, since a waiting thread's `Acquire` stays enabled until it is
taken); whether a load fails is not forced, but the number of failures is
bounded. The supervisor runs, and its waits time out; a child that will not
stop is under no fairness. The browser's timers and its request timeout fire
(`client.ts`, `refetchInterval`), and the server goes on with a job as
`WorkerPool` shows it does; failing polls are bounded in number.

## What is proved

Eight modules hold theorems, for every value of the constants that satisfies
the assumptions named in the module: `ConstantsOK` in the services,
`ConstantsAssumption` in `ProductIngest`, `ActorsAssumption`,
`MaxRetriesAssumption` and `NoneAssumption` in `RedisQueue`, `HomeAssumption`
and `BudgetAssumption` in `WorkerPool`, and for the algorithms what the classes
of `settings.py` accept (`SearchAssumption`, `PricingAssumption`,
`CatalogAssumption`, `RecommendationAssumption`), with `TextsAssumption`,
`WordsAssumption` and `ProductsAssumption` on the values of the model. TLC
evaluates them on the instances of the runs. Every safety property of PoolCalm,
PoolOutage, PoolLifecycle and Services is a theorem.

**`WorkerPoolProofs`**, for any number of jobs, workers, recovery loops and
processes, any `MaxRetries`, and any fault budget.

*Whatever fails* (`OutageSpec`). `BasicInv` is inductive:

- `HandsMatchLabels`: an actor holds a job exactly at the labels inside an
  operation, so every command below has a job to act on;
- `RecordsKept`: whatever names a job (a list, a claim, a scan in progress, an
  actor) names one whose record was saved. `RecordBeforeQueue` alone is not
  inductive: a scan's snapshot is pushed later;
- `IndexedBeforeComplete`: past the second upsert the product has both
  vectors; needed for `CompletedMeansIndexed`, as the save of COMPLETED is two
  awaits later;
- `DownMeansExited`: a process that is down has no running loop.

From it follow `TypeCorrect`, `RecordsFirst` (so the "had no record" branches
of `dequeue` and of the sweep are never taken) and `CompletedIsIndexed`.

*In a calm system* (`Spec`: attempts may fail or be late, processes may be
stopped and started, but Redis answers and nothing is killed). `CalmInv` is
inductive relative to `BasicInv`. `NoJobLost` is not inductive: its disjunct
"the job has a claim" breaks when another holder of the same job removes the
claim. `InGoodHands` leaves that disjunct out, and is strong enough because
`ClaimHasHolder` says that whoever made a claim is still at work.
`RunningHasHolder` says that a RUNNING record has an actor that will overwrite
it. From these follow `CalmLosesNoJob` (which covers any number of recovering
processes), `ClaimsAreHeld` and `StopsDrain`.

*One worker loop* (`ASSUME OneWorker, OneRecoverer, NeverLate`: a deployment
with `WORKER_CONCURRENCY` 1, which the settings allow, whose attempts end
within the job timeout), outages included, for any number of jobs, retries and
faults. It is the deployment of PoolOutage and PoolLifecycle, and the
hypotheses are needed: with the default of four loops, or the two of
`render.yaml`, or with an attempt that the sweep believes dead, `OneHolder` and
what depends on it are false of the code (BugSharedJob, BugRetriesForever).
None of the properties is inductive; `SoloInv` adds to them

- `Apart`: `OnePlace` without its cardinalities, by place instead of by count;
- `ClaimsTellApart`, `ScansCurrent`: the claim of a job at work is fresh and
  the claim of one being recovered is stale, and what a scan returned is still
  so for the ids it has not come to; without them a sweep could recover a job
  that somebody works on;
- `CopiesCurrent`: the worker's copy of `retry_count` is the record's, or one
  attempt ahead between `retry` and the save;
- `BudgetKept`: a job whose budget is used up is nowhere but on its way to the
  dead-letter list;
- `NowhereBeforePush`, `LabelsOfKind`.

From it `OnlyHandOffsLose`, `HoldersDiffer`, `BudgetRespected`,
`PlacesDiffer` (the cardinalities of `OnePlace` from `Apart`) and the action
property `CountsNeverDrop`. `ImplementsLifecycle` is the refinement
`Spec => FollowsLifecycle`: `StatusByPlace` says what the record shows
wherever the job is, and each action maps to a step of `JobLifecycle` or to a
stutter.

**`EnterpriseProofs`**, for any tenants, requests and keys. `Inv` says of each
request under way whose key it carries and what it is about to save
(`RequestOK`), that no two requests make the same key (`Distinct`), and of the
keys that each saved one has a maker that is saved and covers it (`KeysOK`).
From it `KeysNeverEscalate`, `RevocationIsFinal` and `HeldKeysAreListed`.
`AuditInvariant` treats the log: it is a tail of what was pushed, and it is
longer than its cap by no more than the appends that stand between RPUSH and
LTRIM, which are counted by the cardinality of a set of requests. From it
`ActionsLeaveEvents` and `LogIsNewest`.

**`QuotaProofs`**, for any limits, window lengths and finite set of clients.
`AdmittedWithinLimits` is not inductive: a request decides after it was given
its numbers, when others have been given theirs. INCR gives each request a
number of its own, so the invariant counts `Good(w)`, the requests that hold a
number within the limit of window `w` and have not decided: those let through
and `Good(w)` together are no more than the limit, and no more than the
counter for as long as a request can be given a number of `w`. A counter that
Redis drops belongs to a window that is past (`Past`), because a request is
short against the TTL of two windows. `QuotaIsKept` also has that nobody is
rejected early and that only a failed command leaves a counter without a TTL.

**`FilesProofs`**, for any uploads, queries and readers and any number of
attempts that overlap. `FilesAccounted` is not inductive: it speaks of products
that can be found, and an attempt that has not come so far, or one that lags
behind another, must not take the image away. `IInv` adds that from the moment
an attempt of the job has opened the file, it is whole whenever no last save
runs or has broken off (`Settled`), that only a whole original is worked on,
and that a request was resolved to a file that is there. From it
`FilesAccountedFor` and the action property `ImagesServedWhole`, in which
nothing is excused but by the state of the last save at that moment; among the
consequences, the fallback to the original image is then never taken.

**`SeedingProofs`**, for any catalog and any requested stages. The invariant
says for each place a client can be at which stages are left (`StagesLeft`)
and what the others have established if none of them failed (`SmokeOK`,
`SeedOK`); the workers only add to that (`WorkersGoOn`). From it
`ExitStatusTells`.

**`AnalyticsProofs`**, for any finite set of recorders, any windows and
periods. `AnalyticsInv`: every key without a TTL is awaited by a recorder of
its day, or was leaked by a failure (`Awaited`); hence `OnlyFailuresLeave`.
`DashboardFits` is about sums over days that are read at different times while
records are half written, and `DashboardCoherent` is far from inductive.
`DashboardInv` adds, for every set of days at once, that the samples, what a
failure lost and the records between their commands make up the counts
(`CountsInv`, with the recorders between two commands counted by a
cardinality); and, for a report under way, how each figure that was read
compares with the counters of its days now (`TodayInv`, `WindowInv`) or with
the days already read and those ahead (`TrendInv`: the periods partition the
days of the trend, `PeriodMoves`). A sum is a fold over a set of days, and what
the proof needs to know of it is proved first, by the smallest counterexample
(`WFMin` on cardinalities) in place of an induction theorem: that the order of
the days does not matter (`SumRemove`), sums of unions, and monotonicity.

**`AlgorithmProofs`** is about the pure algorithms that `MCAlgorithms` calls.
An algorithm has no inductive invariant; its theorem says what the operator
returns for every input. The run Algorithms states the same promises of its
bounded inputs, and the theorems about `Spec` follow. To be reasoned about
without induction, the list operations of `PyLists` say where an element goes:
a sort or a filter rearranges positions (`Ordered`), and its place is the
number of positions that are no later. That these places are a bijection is
proved once, by cardinalities (`PlacesAreRanks`), and everything about sorted
and filtered lists rests on it. Where an argument goes along a list, it is by
the least counterexample (`Least`).

- *Filters*: `FilterMatches`, hence `FilterFinds`: a product passes exactly if
  it was typed with the words of the filter, for any texts.
- *Enrichment*: `EnrichKeeps`, for any text, keyword tables, threshold and cap:
  an attribute has a most confident prediction (`MergedAttributes`), a tag that
  is left out is left out for none less confident (`TagsKept`), and the score
  is a share of the full one (`QualityBounded`). Hence `EnrichmentKeepsBest`.
- *Hybrid search*: `SearchIsHonest`, for any collections, weights and depth.
  Each modality is cut before the fusion, so a product that beats another in
  both may have been cut away in neither, one or both lists; if the beaten one
  was found in a list, the better one was found there before it.
- *Recommendations*: `DiversityIsFair` for any scored candidates, and
  `RecommendationsFair` for any shop, catalog and number of results for which
  the search reaches every product (at most 3k others, the depth that is asked
  for); beyond that depth fairness is towards what was found. Hence
  `BrandsAreFair`.
- *Prices*: `EstimateIsWithin`, for any comparables, strategy and settings: the
  median, the weighted average and the trimmed mean are between the prices
  they are made from, and so is what they are rounded to, since prices are in
  cents (`CentsWithin`); the fence leaves in at least half of them
  (`OutliersKeepHalf`: the prices from the first quartile to the third are
  inside, whatever the multiplier). `EstimateIsGrounded`: a
  lone stray price is sorted first or last (`StrayPlaced`) and, if the
  multiplier is positive and below three (the default is 1.5), outside the fence from six
  comparables on (`StrayOutside`: with six, a quartile still has a fourth of
  the stray price in it). With a multiplier of three or more this is false for
  six comparables, so it is a hypothesis. `OwnPriceIsRelevant` is about what
  the price of a stored product is made from: other products, found in one of
  the two collections, whose fused similarity reaches the floor
  (`OthersFused`: a search by id is a fused search, and a product that one
  modality cut away is scored no higher than it is similar). Hence `PricesAreGrounded`.

**`ServicesProofs`** has the pipeline, the remaining components, as instances
in `Services`, and the composition.

- *Pipeline*, for any set of products, any likeness, any number of lanes and
  any mode. `IngestTyped` and `IngestWhole` give `StoredProductsWhole`: the
  strengthening is that a product about to be upserted as text is in the image
  collection. `RejectedForGood` is an action property: a step that stores
  comes from a label a rejected product never reaches again. `BlocksWhatItSees`
  proves `NoLateDuplicate`, whatever else is under way: its invariant `Seen`
  says that what was searchable when a check began still is, since nothing is
  ever removed, that between the two searches of the check its image search
  has returned whatever of that is alike, and that a product past the check is
  unlike all of it. What is stored while the check is under way is out of its
  reach, see BugTwinsStored below.
- *Model loading, set-up of a collection*: the lock of a manager or store
  belongs to the thread between `Acquire` and the end of the `with` block or
  its error, so what a thread found inside still holds at its next step. From
  that `LoadedOnce`, `SharedModel`, and `RequestsReach`: a caller past the
  check, and every store whose flag is up, has a collection that exists;
  creation by another process is the "already exists" answer of Qdrant.
- *Recommendation cache*: `ServInv` says how old the result in a warm-up, in
  the cache and in an answer can be, and that it misses nothing that was
  indexed before it was computed (`Fits`). From it `StalenessBounded`.
- *Registry, supervisor*: `RegistryOneActive`, `NoChildLeft`.
- *Upload page*: what a poll brings was shown of the submission that is
  watched (`ShownInv`), so `PageShowsItsOwn`.
- *Session*: which keys each place of the storage can hold at each access
  (`OwnInv`) and what an undisturbed tab has done so far (`AloneInv`). From
  them `NoForeignKey` and `ReloadRestores`.
- *Composition*: a behaviour of `PartsSpec` is, by which part moves, one of
  that part's own specification (`ModelsMoves`, `RaceMoves`, ...). With the
  theorems of the parts this gives what the run Services checks, for every
  value of the constants: `TypesKept`, `ModelsAndRegistry`,
  `CollectionExists`, `RevocationHolds`, `PermissionsHold`, `AuditHolds`,
  `QuotaHolds`, `StalenessHolds`, `DashboardHolds`, `FilesHold`, `ImagesHold`,
  `SeedingHolds`, `BrowserHolds`.

The invariants above are conjunctions, and each step lemma treats the actions
of one operation, with a step per conjunct that the action can disturb.

*Only model-checked*: all liveness (`SettlesUnlessSpilled`, `SetUpRecovers`,
`ServiceGoesDown`, `PageNeverHangs`, `IngestConverges`), which the prover
cannot treat; of `HybridRanks` what goes beyond the order of a hybrid search
(reranking flattens batches, which needs induction over them; an answer by id
is compared element by element, and the order of equal scores is the
unspecified one of the vector store); and the properties whose operators are
folds or flattened lists of data, or whose inputs are pictures that TLC
enumerates: `VerdictIsBest`, `MetricsAgree`, `ColorOfSubject`.

## Where the code disagrees with its own statements

Each of these is a run that TLC refutes; `findings` in `PROJECT.json` quotes
the statement.

- **BugSharedJob** (`OneHolder`): `_promote_due_delayed_jobs` ignores the
  reply of `ZREM`. Two workers that scan together both push the due job, and
  both take it.
- **BugRetriesForever** (`Settles`): from there, because `retry` saves a count
  read earlier, two copies of a job that always fails set each other's
  `retry_count` back: it is retried without end and never dead-lettered.
- **BugLostJob** (`NoJobLost` with a crash): a worker killed between `LPOP`
  and `HSET` loses the job.
- **BugBlockedStored** (`BlockedNeverStored`): a retry after the upserts
  matches the product itself, so a stored product is rejected.
- **BugTwinsStored** (`NoDuplicateStored`): the duplicate check and the upserts
  are separate awaits. Two alike uploads that two worker loops process at once
  both pass the check, and BLOCK mode stores both. `NoLateDuplicate` is what
  it does keep.

Some properties are stated with the limit the code has:

- `SettlesUnlessSpilled` excuses a job whose attempt was late when an outage
  follows: the recovery sweep has removed the claim of a worker that is still
  at work, and nothing recovers the job if that worker dies.
- `ServedWhole` excepts the moments at which the last save of an image runs, or
  has broken off and was not made again. `_transform_and_save` writes the final
  path on every attempt, so a retry, or a second attempt of a job that was swept
  as stale or promoted twice, empties and rewrites the image of a product that
  can be found already, which `product_image_service.py:56` calls "written once
  during ingestion and never modified". A save breaks off for good when the
  worker is killed in it or the disk is full: a file written in place stays as it
  is. A thumbnail made at such a moment, or in which the API died, is kept for
  good.
- `VerdictIsBest` compares a verdict with the products that no cut can pass
  over (`Unmissable`). The search cuts each modality and their fusion at its
  top k, so that the best product of a larger catalog may be missed
  (`hybrid_search_service.py:26` says so).
- `ProductIngest` takes the duplicate search to reach every product that is
  alike (`top_k` at least the number of products), and a job to have one
  attempt at a time.
- `BrowserTells` excepts keys that storage would not remove: `clearApiKey`
  swallows what an access throws, so a key can outlive a sign-out, and a key
  that could not be stored is in use until the tab is reloaded.
- `PageNeverHangs` assumes a job that comes to rest. The page polls a job that
  an outage lost (`BugLostJob`) for as long as it is open.
- `BrowserTells` (`UploadView!ShowsItsOwn`) says what the page reports of the record it has seen: a
  view that saw FAILED stops polling, and does not learn of a late worker that
  overwrites the record with COMPLETED (`queries.ts:9`, "Terminal job states").

Noticed while modelling; no run shows them:

- `estimate_for_request` compares the category as it was typed with stored
  slugs (`comparable_filter.py:142`), so "Men Shoes" finds no comparable stored
  as `men-shoes` and no price is estimated; `facets.py:3` calls `normalize_facet`
  "the one place that decides" what the two mean.
- `README.md:278` promises every trace "per-component weights and contributions
  that mathematically close to the final score". Those of recommendations do;
  the one of a duplicate verdict has no breakdown, since
  `decision_to_verification` leaves out the scores its explainer shows, and that
  explainer gives each a weight of 1.0.
- Model managers publish a model before they warm it up
  (`model_manager_cross_encoder.py:91` says that no caller gets it before).
- A failed facet index is logged as "already present" and not tried again by
  that store object; the docstring at
  `qdrant_store.py:140` says that an environment "cannot silently end up
  without them".
- Quotas are fixed windows, not sliding ones (`settings.py:430`,
  `README.md:275`), and no route depends on `enforce_quota`.
- The docstring at `settings.py:380` says that `job_timeout_seconds` is not
  enforced; the recovery sweep enforces it.
- `/check-duplicate` "never stores ... anything", and leaves its two files.
- `seed_catalog.py:506` waits for an empty `pending` list, which is not the
  end of the jobs in progress or delayed. `SeedingTells` says what it can say.
- Reranked searches and analytics trends answer silently with less when asked for more
  than the pool or the retention holds.
- The fallback of `ProductImageService` to the original image is never taken
  for a product that can be found (proved in `FilesProofs`).
- `ModelRegistry.register` and `activate` are called by nothing; each service
  builds its own registry, store and managers.
- In the frontend, a pasted key never asks for its role again
  (`onboarding.tsx`); query keys are not per tenant and the cache is kept over
  a sign-out; another tab that remembers a key decides what a reload finds,
  and signing out in one tab leaves the others signed in.

## What is not modelled

- **Metrics** (`app/metrics`): counters for Prometheus, read by nothing here.
- **Configuration and application shell**: dependency wiring, loggers,
  exception classes and HTTP plumbing. The settings that matter are constants
  with the bounds of the settings as assumptions.
- **Libraries**: embedding inference, the cross-encoder, `rapidfuzz`, JPEG
  coding and Qdrant's approximation of nearest neighbours. What they return is
  an input of the operators that use it.
- **Explanations**: they restate decisions that are modelled, and keep no state.
- **Of an estimate**: which way a tie is rounded, which in the code hangs on
  the last bit of a float; here it goes up.
- **Of a job**: payload, timestamps, progress, `retry_history` and error
  texts. The order in which due jobs are promoted (their scores) and the order
  in which a sweep reads the hash: any order is allowed.
- **Of the pipeline**: the synchronous upload
  (`ASYNC_PIPELINE__ENABLED=false`), one attempt without a queue;
  normalisation of titles and the checksum.
- **Of the enterprise layer**: the comparison helpers of `tenant_scope.py`,
  which no route calls.
- **Of the frontend**: pages that show what they fetch, and the search
  history, a store rewritten by a library.
- **Of the scripts**: the smoke checks that only read, the benchmark and the
  demo; the compose files.

## Plan

Theorems still worth proving: the verdict of a duplicate check against its
rules, and that a search by id is a search without its product, both up to the
order of equal scores; `CountMonotone` for several workers as long as no two of
them promote the same job. Models still worth writing: the synchronous upload next
to the queue, the query cache of the frontend over a change of key.
