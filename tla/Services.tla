------------------------------- MODULE Services -------------------------------
(***************************************************************************)
(* The services that have nothing to say to each other, one behaviour for  *)
(* each: part names the module that moves, the variables of the others     *)
(* keep their initial values.  Part "ingest" is ProductIngest itself; the  *)
(* other parts are instances of their modules, taken with their theorems   *)
(* where those stand in a module of their own.                             *)
(***************************************************************************)
EXTENDS ProductIngest, Sequences

CONSTANTS
    Parts,       \* the parts to look at
    None,
    Threads,     \* threads, callers, attempts
    Clients,     \* requests, readers, tabs, recorders
    FewFaults,   \* of the parts that have many other steps
    FewRetries

VARIABLE part

-----------------------------------------------------------------------------
CONSTANT Managers

VARIABLES mLock, mCache, mLoads, mPc, mAsks, mModel, mFails
mVars == <<mLock, mCache, mLoads, mPc, mAsks, mModel, mFails>>

Models == INSTANCE ModelLoading WITH
    MaxFails <- FewFaults,
    lock <- mLock, cache <- mCache, loads <- mLoads, pc <- mPc, asks <- mAsks,
    model <- mModel, fails <- mFails

ASSUME ModelsAssumption == Models!ConstantsOK

-----------------------------------------------------------------------------
CONSTANTS Stores, StoreOf, Fields

VARIABLES cExists, cIndexed, cReady, cLock, cPc, cFaults
cVars == <<cExists, cIndexed, cReady, cLock, cPc, cFaults>>

Collection == INSTANCE CollectionSetup WITH
    Callers <- Threads,
    exists <- cExists, indexed <- cIndexed, ready <- cReady, lock <- cLock, pc <- cPc,
    faults <- cFaults

ASSUME CollectionAssumption == Collection!ConstantsOK

-----------------------------------------------------------------------------
CONSTANTS
    Keys, Calls, MaxEvents, MaxActions,
    Tenants, OneClient,    \* where tenants meet: all of them, one request at a time
    OneTenant              \* where requests meet: all of them, of one tenant

VARIABLES eOrgs, eTenants, eRecord, eListed, eLog, eKnown, ePushed, eGone, ePc, eReq, eActions, eFaults
eVars == <<eOrgs, eTenants, eRecord, eListed, eLog, eKnown, ePushed, eGone, ePc, eReq, eActions,
           eFaults>>

Race == INSTANCE EnterpriseProofs WITH
    Requests <- Clients, Tenants <- OneTenant, MaxFaults <- FewFaults,
    orgs <- eOrgs, tenants <- eTenants, record <- eRecord, listed <- eListed, log <- eLog,
    known <- eKnown, pushed <- ePushed, gone <- eGone, pc <- ePc, req <- eReq,
    actions <- eActions, faults <- eFaults

Two == INSTANCE EnterpriseProofs WITH
    Requests <- OneClient, MaxFaults <- FewFaults,
    orgs <- eOrgs, tenants <- eTenants, record <- eRecord, listed <- eListed, log <- eLog,
    known <- eKnown, pushed <- ePushed, gone <- eGone, pc <- ePc, req <- eReq,
    actions <- eActions, faults <- eFaults

ASSUME EnterpriseAssumption == Race!ConstantsOK /\ Two!ConstantsOK

-----------------------------------------------------------------------------
CONSTANTS LastMinute, DayLength, DailyQuota, RateLimit, MaxHits

VARIABLES qMinute, qCount, qExpiring, qTouched, qHits, qAdmitted, qPc, qNow, qDaily, qPerMinute, qFaults
qVars == <<qMinute, qCount, qExpiring, qTouched, qHits, qAdmitted, qPc, qNow, qDaily, qPerMinute,
           qFaults>>

Quota == INSTANCE QuotaProofs WITH
    Requests <- Clients, MaxFaults <- FewFaults,
    minute <- qMinute, count <- qCount, expiring <- qExpiring, touched <- qTouched,
    hits <- qHits, admitted <- qAdmitted, pc <- qPc, now <- qNow, daily <- qDaily,
    perMinute <- qPerMinute, faults <- qFaults

ASSUME QuotaAssumption == Quota!ConstantsOK

-----------------------------------------------------------------------------
CONSTANTS Recommended, ProductOf, Readers, TTL, WarmTime, LastTick

VARIABLES sTime, sIndexed, sCache, sWork, sFound, sAsk, sPc, sAnswer
sVars == <<sTime, sIndexed, sCache, sWork, sFound, sAsk, sPc, sAnswer>>

Serving == INSTANCE Serving WITH
    Products <- Recommended, Attempts <- Threads,
    time <- sTime, indexed <- sIndexed, cache <- sCache, work <- sWork, found <- sFound,
    ask <- sAsk, pc <- sPc, answer <- sAnswer

ASSUME ServingAssumption == Serving!ConstantsOK

-----------------------------------------------------------------------------
CONSTANTS Uploads, Queries, MaxChunks

VARIABLES fOriginal, fProcessed, fThumb, fSize, fStep, fIndexed, fQueued, fAt, fJob, fMade, fWriter, fPc,
          fAsks, fVariant, fSent, fFaults
fVars == <<fOriginal, fProcessed, fThumb, fSize, fStep, fIndexed, fQueued, fAt, fJob, fMade, fWriter,
           fPc, fAsks, fVariant, fSent, fFaults>>

Files == INSTANCE FilesProofs WITH
    Attempts <- Clients, Readers <- OneClient, MaxFaults <- FewFaults,
    original <- fOriginal, processed <- fProcessed, thumb <- fThumb, size <- fSize, step <- fStep,
    indexed <- fIndexed, queued <- fQueued, at <- fAt, job <- fJob, made <- fMade,
    writer <- fWriter, pc <- fPc, asks <- fAsks, variant <- fVariant, sent <- fSent,
    faults <- fFaults

ASSUME FilesAssumption == Files!ConstantsOK

-----------------------------------------------------------------------------
CONSTANTS ModelTypes, Versions, First

VARIABLES rModels, rBuilt
rVars == <<rModels, rBuilt>>

Registry == INSTANCE ModelRegistry WITH
    Types <- ModelTypes, Services <- Clients, models <- rModels, built <- rBuilt

ASSUME RegistryAssumption == Registry!ConstantsOK

-----------------------------------------------------------------------------
CONSTANTS WindowDays, PeriodDays, Periods, LastDay, MaxRecords, MaxSeconds

VARIABLES aToday, aUploads, aSeconds, aSamples, aLasting, aPc, aDay, aTook, aHappened, aLost, aLeaked,
          aRead, aReport, aRecords, aFaults
aVars == <<aToday, aUploads, aSeconds, aSamples, aLasting, aPc, aDay, aTook, aHappened, aLost, aLeaked,
           aRead, aReport, aRecords, aFaults>>

Analytics == INSTANCE AnalyticsProofs WITH
    Recorders <- Clients, MaxFaults <- FewFaults,
    today <- aToday, uploads <- aUploads, seconds <- aSeconds, samples <- aSamples,
    lasting <- aLasting, pc <- aPc, day <- aDay, took <- aTook, happened <- aHappened,
    lost <- aLost, leaked <- aLeaked, read <- aRead, report <- aReport, records <- aRecords,
    faults <- aFaults

ASSUME AnalyticsAssumption == Analytics!ConstantsOK

-----------------------------------------------------------------------------
CONSTANTS Catalog, Requests, MaxJobs, MaxRuns

VARIABLES dJobs, dStored, dTool, dOpts, dAsked, dStages, dPc, dPlace, dSeeded, dCreated, dFailed, dExit,
          dBlind, dRuns, dFaults
dVars == <<dJobs, dStored, dTool, dOpts, dAsked, dStages, dPc, dPlace, dSeeded, dCreated, dFailed,
           dExit, dBlind, dRuns, dFaults>>

Seeding == INSTANCE SeedingProofs WITH
    MaxRetries <- FewRetries, MaxFaults <- FewFaults,
    jobs <- dJobs, stored <- dStored, tool <- dTool, opts <- dOpts, asked <- dAsked,
    stages <- dStages, pc <- dPc, place <- dPlace, seeded <- dSeeded, created <- dCreated,
    failed <- dFailed, exit <- dExit, blind <- dBlind, runs <- dRuns, faults <- dFaults

ASSUME SeedingAssumption == Seeding!ConstantsOK

-----------------------------------------------------------------------------
CONSTANTS Children, Stubborn

VARIABLES uStarted, uHandling, uChild, uDown, uWaiting, uExit
uVars == <<uStarted, uHandling, uChild, uDown, uWaiting, uExit>>

Service == INSTANCE Supervisor WITH
    started <- uStarted, handling <- uHandling, child <- uChild, down <- uDown,
    waiting <- uWaiting, exit <- uExit

ASSUME ServiceAssumption == Service!ConstantsOK

-----------------------------------------------------------------------------
CONSTANTS Submissions, MaxTries, MaxLate

VARIABLES vPhase, vWatched, vMessage, vWent, vFlight, vJob, vTries, vShown, vGaveUp, vPoll, vLate, vFaults
vVars == <<vPhase, vWatched, vMessage, vWent, vFlight, vJob, vTries, vShown, vGaveUp, vPoll, vLate,
           vFaults>>

\* One page; the second submission follows a cancelled or failed one.
Page == INSTANCE UploadView WITH
    Uploads <- Submissions, MaxFaults <- FewFaults,
    phase <- vPhase, watched <- vWatched, message <- vMessage, went <- vWent, flight <- vFlight,
    job <- vJob, tries <- vTries, shown <- vShown, gaveUp <- vGaveUp, poll <- vPoll,
    late <- vLate, faults <- vFaults

ASSUME PageAssumption == Page!ConstantsOK

-----------------------------------------------------------------------------
CONSTANT PersonalKeys

VARIABLES kLocalKey, kLocalScope, kSession, kHeld, kStatus, kPc, kArg, kOwn, kAlone
kVars == <<kLocalKey, kLocalScope, kSession, kHeld, kStatus, kPc, kArg, kOwn, kAlone>>

Browser == INSTANCE Session WITH
    Tabs <- Clients, Keys <- PersonalKeys,
    localKey <- kLocalKey, localScope <- kLocalScope, session <- kSession, held <- kHeld,
    status <- kStatus, pc <- kPc, arg <- kArg, own <- kOwn, alone <- kAlone

ASSUME BrowserAssumption == Browser!ConstantsOK


-----------------------------------------------------------------------------
\* What a part that does not move starts from is of no account.
PartsInit ==
    /\ part \in Parts
    /\ Models!Init
    /\ part # "models" => \A t \in Threads : mAsks[t] = CHOOSE m \in Managers : TRUE
    /\ Collection!Init
    /\ part # "collection" => ~cExists
    /\ IF part = "tenants" THEN Two!Init ELSE Race!Init
    /\ Quota!Init
    /\ Serving!Init
    /\ Files!Init
    /\ Registry!Init
    /\ Analytics!Init
    /\ Seeding!Init
    /\ Service!Init
    /\ Page!Init
    /\ Browser!Init
    /\ Init
    /\ part # "ingest" => mode = CHOOSE m \in Modes : TRUE

Unless(names, v) == IF part \in names THEN TRUE ELSE UNCHANGED v

\* It is p that moves, and nothing else does.
Only(p) ==
    /\ part = p /\ UNCHANGED part
    /\ Unless({"models"}, mVars)
    /\ Unless({"collection"}, cVars)
    /\ Unless({"race", "tenants"}, eVars)
    /\ Unless({"quota"}, qVars)
    /\ Unless({"serving"}, sVars)
    /\ Unless({"files"}, fVars)
    /\ Unless({"registry"}, rVars)
    /\ Unless({"analytics"}, aVars)
    /\ Unless({"seeding"}, dVars)
    /\ Unless({"service"}, uVars)
    /\ Unless({"page"}, vVars)
    /\ Unless({"browser"}, kVars)
    /\ Unless({"ingest"}, vars)

PartsNext ==
    \/ Only("models") /\ Models!Next
    \/ Only("collection") /\ Collection!Next
    \/ Only("race") /\ Race!Next
    \/ Only("tenants") /\ Two!Next
    \/ Only("quota") /\ Quota!Next
    \/ Only("serving") /\ Serving!Next
    \/ Only("files") /\ Files!Next
    \/ Only("registry") /\ Registry!Next
    \/ Only("analytics") /\ Analytics!Next
    \/ Only("seeding") /\ Seeding!Next
    \/ Only("service") /\ Service!Next
    \/ Only("page") /\ Page!Next
    \/ Only("browser") /\ Browser!Next
    \/ Only("ingest") /\ Next

allVars == <<part, mVars, cVars, eVars, qVars, sVars, fVars, rVars, aVars, dVars, uVars, vVars,
             kVars, vars>>

PartsSpec == PartsInit /\ [][PartsNext]_allVars

\* The fairness of each part, which asks nothing of the parts that rest.
PartsFairness ==
    /\ \A t \in Threads :
         /\ WF_mVars(part = "models" /\ Models!Working(t))
         /\ WF_cVars(part = "collection" /\ Collection!Ensure(t))
    /\ WF_uVars(part = "service" /\ Service!Supervise)
    /\ WF_vVars(part = "page" /\ Page!View)
    /\ \A u \in Submissions : WF_vVars(part = "page" /\ Page!JobStep(u))
    /\ \A p \in Products : SF_vars(part = "ingest" /\ Attempt(p))

FairPartsSpec == PartsSpec /\ PartsFairness

-----------------------------------------------------------------------------
(* Properties: those of ProductIngest, and those of the other parts.  A part  *)
(* at rest stays as its Init has it, so a property is asked of the one that   *)
(* moves.                                                                     *)

\* Every part keeps to its types.
Types ==
    /\ part = "models" => Models!TypeOK
    /\ part = "collection" => Collection!TypeOK
    /\ part = "race" => Race!TypeOK
    /\ part = "tenants" => Two!TypeOK
    /\ part = "quota" => Quota!TypeOK
    /\ part = "serving" => Serving!TypeOK
    /\ part = "files" => Files!TypeOK
    /\ part = "registry" => Registry!TypeOK
    /\ part = "analytics" => Analytics!TypeOK
    /\ part = "seeding" => Seeding!TypeOK
    /\ part = "service" => Service!TypeOK
    /\ part = "page" => Page!TypeOK
    /\ part = "browser" => Browser!TypeOK
    /\ part = "ingest" => TypeOK

\* All threads run inference on the one model a manager loaded, and the
\* registry has one active model to name (model_manager.py, "only trigger one
\* real load"; model_registry.py).
OneModelForAll ==
    /\ part = "models" => Models!NoSecondLoad /\ Models!OneModelForAll
    /\ part = "registry" => Registry!OneActive

\* A load that fails leaves no caller behind the lock, and a set-up that
\* failed is made again (model_manager.py, qdrant_store.py).
SetUpRecovers == Models!CallersReturn /\ Collection!SetUpRecovers

\* No request goes to a collection that does not exist
\* (QdrantVectorStore._ensure_collection).
OperatesOnExisting == part = "collection" => Collection!OperatesOnExisting

\* A key that was revoked cannot act, and a key that a client holds can be
\* revoked (enterprise layer).
RevokedCannotAct ==
    /\ part = "race" => Race!RevokedCannotAct
    /\ part = "tenants" => Two!RevokedCannotAct
    /\ part = "race" => Race!KnownKeysListed
    /\ part = "tenants" => Two!KnownKeysListed

\* No chain of keys gains a permission or reaches another tenant.
NoEscalation ==
    /\ part = "race" => Race!NoEscalation
    /\ part = "tenants" => Two!NoEscalation

\* Every key made or revoked has its event, and the log keeps the newest.
AuditKept ==
    /\ part = "race" => Race!ActionsAudited
    /\ part = "tenants" => Two!ActionsAudited
    /\ part = "race" => Race!LogKeepsNewest
    /\ part = "tenants" => Two!LogKeepsNewest

\* Requests that interleave and commands that fail admit no request too many
\* and reject none too early, and a counter is left without a TTL only where a
\* command failed (QuotaRepository.hit).
QuotaKept ==
    part = "quota" =>
        Quota!AdmittedWithinLimits /\ Quota!RejectedOnlyOverLimit /\ Quota!OnlyFailuresLeak

\* Cached recommendations fit what was asked for, and are stale for a bounded
\* time (RecommendationCacheRepository).
BoundedStaleness == part = "serving" => Serving!AnswersFit /\ Serving!BoundedStaleness

\* A refused upload leaves no file, and whatever attempts overlap and fail, the
\* image of an indexed product is whole unless its last save runs or broke off
\* (UploadService, ImageProcessingService).
FilesAccounted == part = "files" => Files!FilesAccounted

\* What a client is sent of an image is whole unless at that moment its last
\* save runs or has broken off (ProductImageService).
ServedWhole == Files!ServedWhole

\* The parts of a dashboard fit together although they are read one by one,
\* and a counter outlives its TTL only where a command failed
\* (AnalyticsEngine.dashboard, AnalyticsRepository).
DashboardCoherent == part = "analytics" => Analytics!DashboardCoherent /\ Analytics!OnlyFailuresLeak

\* What the exit status of the seeding clients tells about the deployment.
SeedingTells == part = "seeding" => Seeding!SeedingTells

\* The container ends when one of its processes does, and leaves no process
\* behind (start_all.py).
ServiceGoesDown == Service!TakesAllDown /\ []Service!LeavesNothing

\* A tab forgets the keys it should and keeps the one it should, although
\* tabs write the same storage; and the upload page shows what became of its
\* own submission (auth-store.ts, storage.ts, upload-view.tsx).
BrowserTells ==
    /\ part = "browser" => Browser!KeysForgotten /\ Browser!ReloadKeepsSession
    /\ part = "page" => Page!ShowsItsOwn

\* The upload page leaves its progress bar (queries.ts, useJobStatus).
PageNeverHangs == part = "page" => Page!NeverHangs

\* Every product that is retried within its budget ends completed and stored
\* (process_upload in WARN and OFF mode).
IngestConverges == part = "ingest" => Converges

=============================================================================
