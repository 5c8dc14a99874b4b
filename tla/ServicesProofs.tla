---------------------------- MODULE ServicesProofs ----------------------------
(***************************************************************************)
(* Theorems about the services, for every value of their constants.  First *)
(* those of the parts that have no module of proofs of their own, stated    *)
(* of the instances in Services; then, for all parts, what the runs of     *)
(* MCServices check.                                                       *)
(***************************************************************************)
EXTENDS Services, FiniteSetTheorems, TLAPS

-----------------------------------------------------------------------------
(* The pipeline alone: types. *)

\* Only a product whose budget is spent is dead.
BudgetLeft == \A p \in Products : step[p] # "dead" => tries[p] <= MaxRetries

\* A failed attempt leaves the product in the queue or among the dead, with
\* its budget accounted for.
LEMMA RetryTyped ==
    ASSUME TypeOK, BudgetLeft, NEW p \in Products, step[p] # "dead", Retry(p)
    PROVE  /\ step' \in [Products -> Steps] /\ tries' \in [Products -> 0..MaxRetries + 1]
           /\ BudgetLeft'
  <1>1. tries[p] \in Nat /\ tries[p] <= MaxRetries
    BY ConstantsAssumption DEF TypeOK, BudgetLeft
  <1>2. tries' = [tries EXCEPT ![p] = tries[p] + 1]
    BY DEF Retry, TypeOK
  <1>3. step' \in [Products -> Steps] /\ tries' \in [Products -> 0..MaxRetries + 1]
    BY <1>1, <1>2, ConstantsAssumption DEF Retry, GoTo, TypeOK, Steps
  <1>4. \A q \in Products : step'[q] # "dead" => tries'[q] <= MaxRetries
    BY <1>1, <1>2, ConstantsAssumption DEF Retry, GoTo, TypeOK, BudgetLeft
  <1> QED BY <1>3, <1>4 DEF BudgetLeft

\* Every attempt keeps the types.
LEMMA AttemptTyped ==
    ASSUME TypeOK, BudgetLeft, NEW p \in Products, Attempt(p) \/ Fault(p)
    PROVE  TypeOK' /\ BudgetLeft'
  <1>1. CASE SkipDetection(p)
    BY <1>1 DEF SkipDetection, At, GoTo, TypeOK, BudgetLeft, Steps, Under
  <1>2. CASE SearchImage(p)
    <2>1. near' \in [Products -> SUBSET Products]
      BY <1>2 DEF SearchImage, AlikeTo, TypeOK
    <2> QED BY <1>2, <2>1 DEF SearchImage, At, GoTo, TypeOK, BudgetLeft, Steps, Under
  <1>3. CASE SearchText(p)
    <2>1. CASE mode = "BLOCK" /\ near[p] \cap text # {}
      BY <1>3, <2>1, RetryTyped DEF SearchText, At, TypeOK
    <2>2. CASE ~(mode = "BLOCK" /\ near[p] \cap text # {})
      BY <1>3, <2>2 DEF SearchText, At, GoTo, TypeOK, BudgetLeft, Steps, Under
    <2> QED BY <2>1, <2>2
  <1>4. CASE UpsertImage(p)
    BY <1>4 DEF UpsertImage, At, GoTo, TypeOK, BudgetLeft, Steps, Under
  <1>5. CASE UpsertText(p)
    BY <1>5 DEF UpsertText, At, GoTo, TypeOK, BudgetLeft, Steps, Under
  <1>6. CASE Finish(p)
    BY <1>6 DEF Finish, At, GoTo, TypeOK, BudgetLeft, Steps, Under
  <1>7. CASE Fault(p)
    <2>1. step[p] # "dead"
      BY <1>7 DEF Fault, Under
    <2>2. faults' \in 0..MaxFaults
      BY <1>7, ConstantsAssumption DEF Fault, TypeOK
    <2> QED BY <1>7, <2>1, <2>2, RetryTyped DEF Fault, TypeOK
  <1> QED BY <1>1, <1>2, <1>3, <1>4, <1>5, <1>6, <1>7 DEF Attempt

Typed == TypeOK /\ BudgetLeft

\* Types hold in every reachable state, and no product is tried more often
\* than MaxRetries + 1 times.
THEOREM IngestTyped == Spec => []Typed
  <1>1. Init => Typed
    BY ConstantsAssumption DEF Init, Typed, TypeOK, BudgetLeft, Steps
  <1>2. Typed /\ [Next]_vars => Typed'
    <2> SUFFICES ASSUME Typed, [Next]_vars PROVE Typed'
      OBVIOUS
    <2>1. CASE Next
      BY <2>1, AttemptTyped DEF Next, Typed
    <2>2. CASE UNCHANGED vars
      BY <2>2 DEF vars, Typed, TypeOK, BudgetLeft
    <2> QED BY <2>1, <2>2
  <1> QED BY <1>1, <1>2, PTL DEF Spec

-----------------------------------------------------------------------------
(* Stored whole.                                                           *)

\* Between the two upserts the image vector is there already, and a product
\* past both is in the text collection.
Whole ==
    /\ StoredWhole
    /\ \A p \in Products : step[p] = "upsertText" => p \in image
    /\ \A p \in Products : step[p] = "stored" => p \in text

\* Every attempt keeps Whole.
LEMMA AttemptWhole ==
    ASSUME Typed, Whole, NEW p \in Products, Attempt(p) \/ Fault(p)
    PROVE  Whole'
  <1> USE DEF Typed, TypeOK, Whole, StoredWhole
  <1>1. CASE SkipDetection(p)
    BY <1>1 DEF SkipDetection, GoTo
  <1>2. CASE SearchImage(p)
    BY <1>2 DEF SearchImage, GoTo
  <1>3. CASE SearchText(p)
    BY <1>3 DEF SearchText, Retry, GoTo
  <1>4. CASE UpsertImage(p)
    BY <1>4 DEF UpsertImage, GoTo
  <1>5. CASE UpsertText(p)
    BY <1>5 DEF UpsertText, At, GoTo
  <1>6. CASE Finish(p)
    BY <1>6 DEF Finish, At, GoTo
  <1>7. CASE Fault(p)
    BY <1>7 DEF Fault, Retry, GoTo
  <1> QED BY <1>1, <1>2, <1>3, <1>4, <1>5, <1>6, <1>7 DEF Attempt

\* The strengthened form holds in every reachable state.
THEOREM IngestWhole == Spec => []Whole
  <1>1. Init => Whole
    BY DEF Init, Whole, StoredWhole
  <1>2. Typed /\ Whole /\ [Next]_vars => Whole'
    <2> SUFFICES ASSUME Typed, Whole, [Next]_vars PROVE Whole'
      OBVIOUS
    <2>1. CASE Next
      BY <2>1, AttemptWhole DEF Next
    <2>2. CASE UNCHANGED vars
      BY <2>2 DEF vars, Whole, StoredWhole
    <2> QED BY <2>1, <2>2
  <1> QED BY <1>1, <1>2, IngestTyped, PTL DEF Spec

\* A product reported as completed is in both collections, and the text
\* collection never holds one the image collection lacks, however attempts
\* overlap and fail between the two upserts (ProductService.process_upload).
THEOREM StoredProductsWhole == Spec => []StoredWhole
  <1>1. Whole => StoredWhole
    BY DEF Whole
  <1> QED BY <1>1, IngestWhole, PTL

-----------------------------------------------------------------------------
(* Rejected for good.                                                      *)

\* What an image search returned stays in the image collection.
NearKept == \A p \in Products : near[p] \subseteq image \cap AlikeTo(p)

\* Some stored product is like p.
HasTwin(p) == \E q \in image \cap text : <<p, q>> \in Alike

\* A rejected product that is not stored has a stored twin, and no attempt of
\* it can be past its check: the twin is found again.
HeldBack ==
    \A p \in blocked \ (image \cup text) :
        /\ mode = "BLOCK" /\ HasTwin(p)
        /\ step[p] \in {"queued", "searchText", "dead"}
        /\ step[p] = "searchText" => near[p] \cap text # {}

Refusing == NearKept /\ HeldBack

\* Collections only grow, so twins and near candidates stay.
LEMMA GrowKeeps ==
    ASSUME NearKept, image \subseteq image', text \subseteq text',
           NEW p \in Products, near'[p] = near[p]
    PROVE  /\ near'[p] \subseteq image' \cap AlikeTo(p)
           /\ HasTwin(p) => HasTwin(p)'
           /\ near[p] \cap text # {} => near'[p] \cap text' # {}
  BY DEF NearKept, HasTwin

\* Every attempt keeps Refusing.
LEMMA AttemptRefusing ==
    ASSUME Typed, Refusing, NEW p \in Products, Attempt(p) \/ Fault(p)
    PROVE  Refusing'
  <1> USE DEF Typed, TypeOK, Refusing
  <1>1. CASE SkipDetection(p)
    BY <1>1 DEF SkipDetection, GoTo, NearKept, HeldBack, AlikeTo, HasTwin
  <1>2. CASE SearchImage(p)
    <2>1. NearKept'
      BY <1>2 DEF SearchImage, NearKept, AlikeTo
    <2>2. ASSUME NEW q \in blocked' \ (image' \cup text')
          PROVE  /\ mode' = "BLOCK" /\ HasTwin(q)'
                 /\ step'[q] \in {"queued", "searchText", "dead"}
                 /\ step'[q] = "searchText" => near'[q] \cap text' # {}
      <3>1. q \in blocked \ (image \cup text) /\ mode = "BLOCK" /\ HasTwin(q)
        BY <1>2, <2>2 DEF SearchImage, HeldBack
      <3>2. CASE q = p
        <4>1. near'[p] = image \cap AlikeTo(p) /\ text' = text /\ image' = image
          BY <1>2 DEF SearchImage
        <4>2. near'[p] \cap text # {}
          BY <3>1, <3>2, <4>1 DEF HasTwin, AlikeTo
        <4> QED BY <1>2, <3>1, <3>2, <4>1, <4>2 DEF SearchImage, GoTo, HasTwin
      <3>3. CASE q # p
        BY <1>2, <3>1, <3>3 DEF SearchImage, GoTo, HasTwin, HeldBack
      <3> QED BY <3>2, <3>3
    <2> QED BY <2>1, <2>2 DEF HeldBack
  <1>3. CASE SearchText(p)
    <2>1. NearKept'
      BY <1>3 DEF SearchText, NearKept, AlikeTo
    <2>2. CASE mode = "BLOCK" /\ near[p] \cap text # {}
      <3>1. HasTwin(p)
        BY <2>2 DEF NearKept, HasTwin, AlikeTo
      <3>2. step'[p] \in {"queued", "dead"} /\ \A q \in Products \ {p} : step'[q] = step[q]
        BY <1>3, <2>2 DEF SearchText, Retry, GoTo
      <3> QED BY <1>3, <2>1, <2>2, <3>1, <3>2 DEF SearchText, HeldBack, HasTwin
    <2>3. CASE ~(mode = "BLOCK" /\ near[p] \cap text # {})
      <3>1. p \notin blocked \ (image \cup text)
        BY <1>3, <2>3 DEF SearchText, At, HeldBack
      <3> QED BY <1>3, <2>1, <2>3, <3>1 DEF SearchText, GoTo, HeldBack, HasTwin
    <2> QED BY <2>2, <2>3
  <1>4. CASE UpsertImage(p)
    <2>1. p \notin blocked' \ (image' \cup text')
      BY <1>4 DEF UpsertImage
    <2>2. \A q \in Products : near'[q] = near[q] /\ (q # p => step'[q] = step[q])
      BY <1>4 DEF UpsertImage, GoTo
    <2>3. image \subseteq image' /\ text' = text /\ mode' = mode /\ blocked' = blocked
      BY <1>4 DEF UpsertImage
    <2>4. NearKept'
      BY <2>2, <2>3, <1>4, GrowKeeps DEF NearKept, AlikeTo
    <2> QED BY <2>1, <2>2, <2>3, <2>4, GrowKeeps DEF HeldBack
  <1>5. CASE UpsertText(p)
    <2>1. p \notin blocked' \ (image' \cup text')
      BY <1>5 DEF UpsertText
    <2>2. \A q \in Products : near'[q] = near[q] /\ (q # p => step'[q] = step[q])
      BY <1>5 DEF UpsertText, GoTo
    <2>3. image' = image /\ text \subseteq text' /\ mode' = mode /\ blocked' = blocked
      BY <1>5 DEF UpsertText
    <2>4. NearKept'
      BY <2>2, <2>3, <1>5, GrowKeeps DEF NearKept, AlikeTo
    <2> QED BY <2>1, <2>2, <2>3, <2>4, GrowKeeps DEF HeldBack
  <1>6. CASE Finish(p)
    BY <1>6 DEF Finish, At, GoTo, NearKept, HeldBack, AlikeTo, HasTwin
  <1>7. CASE Fault(p)
    <2>1. step'[p] \in {"queued", "dead"} /\ \A q \in Products \ {p} : step'[q] = step[q]
      BY <1>7 DEF Fault, Retry, GoTo
    <2> QED BY <1>7, <2>1 DEF Fault, NearKept, HeldBack, AlikeTo, HasTwin
  <1> QED BY <1>1, <1>2, <1>3, <1>4, <1>5, <1>6, <1>7 DEF Attempt

\* A step never stores a product that is rejected and was not stored before.
LEMMA StepRefuses ==
    ASSUME Typed, Refusing, NEW p \in Products, Attempt(p) \/ Fault(p),
           NEW q \in blocked', q \notin image \cup text
    PROVE  q \notin image' \cup text'
  <1>1. CASE UpsertImage(p) \/ UpsertText(p)
    <2>1. q \in blocked \ (image \cup text)
      BY <1>1 DEF UpsertImage, UpsertText
    <2>2. q # p
      BY <1>1, <2>1 DEF Refusing, HeldBack, UpsertImage, UpsertText, At
    <2> QED BY <1>1, <2>2 DEF UpsertImage, UpsertText
  <1>2. CASE ~(UpsertImage(p) \/ UpsertText(p))
    BY <1>2 DEF Attempt, SkipDetection, SearchImage, SearchText, Finish, Fault
  <1> QED BY <1>1, <1>2

\* A product rejected before it was stored is stored by no attempt and by no
\* retry, with any number of uploads under way (BLOCK mode of process_upload).
THEOREM RejectedForGood == Spec => RejectedStaysOut
  <1>1. Init => Refusing
    BY DEF Init, Refusing, NearKept, HeldBack
  <1>2. Typed /\ Refusing /\ [Next]_vars => Refusing'
    <2> SUFFICES ASSUME Typed, Refusing, [Next]_vars PROVE Refusing'
      OBVIOUS
    <2>1. CASE Next
      BY <2>1, AttemptRefusing DEF Next
    <2>2. CASE UNCHANGED vars
      BY <2>2 DEF vars, Refusing, NearKept, HeldBack, AlikeTo, HasTwin
    <2> QED BY <2>1, <2>2
  <1>3. Typed /\ Refusing /\ [Next]_vars
          => [\A p \in blocked' : p \notin image \cup text => p \notin image' \cup text']_vars
    BY StepRefuses DEF Next
  <1> QED BY <1>1, <1>2, <1>3, IngestTyped, PTL DEF Spec, RejectedStaysOut

-----------------------------------------------------------------------------
(* No duplicate stored of what the check could see, with any number of lanes. *)

\* What was searchable when the check began and looks alike is among what the
\* check found, and is nothing once the product is past the check.
Seen ==
    mode = "BLOCK" =>
        \A p \in Products :
            /\ before[p] \subseteq text
            /\ step[p] = "searchText" /\ p \notin text => before[p] \cap AlikeTo(p) \subseteq near[p]
            /\ step[p] \in {"upsertImage", "upsertText"} \/ p \in text =>
                  before[p] \cap AlikeTo(p) = {}

\* Every attempt keeps Seen, whatever the others do meanwhile.
LEMMA AttemptSeen ==
    ASSUME Typed, Whole, Seen, NEW p \in Products, Attempt(p) \/ Fault(p)
    PROVE  Seen'
  <1> USE DEF Typed, TypeOK, Whole, StoredWhole
  <1>1. CASE SkipDetection(p)
    BY <1>1 DEF SkipDetection, Seen
  <1>2. CASE SearchImage(p)
    <2>1. /\ step' = [step EXCEPT ![p] = "searchText"] /\ UNCHANGED <<mode, image, text>>
          /\ near' = [near EXCEPT ![p] = image \cap AlikeTo(p)]
          /\ before' = [before EXCEPT ![p] = IF p \in text THEN before[p] ELSE text]
      BY <1>2 DEF SearchImage, GoTo
    <2> QED BY <2>1 DEF Seen, AlikeTo
  <1>3. CASE SearchText(p)
    <2>1. CASE mode = "BLOCK" /\ near[p] \cap text # {}
      BY <1>3, <2>1 DEF SearchText, Retry, GoTo, At, Seen, AlikeTo
    <2>2. CASE mode = "BLOCK" /\ near[p] \cap text = {}
      <3>1. before[p] \cap AlikeTo(p) = {}
        BY <1>3, <2>2 DEF SearchText, At, Seen
      <3> QED BY <1>3, <2>2, <3>1 DEF SearchText, GoTo, Seen, AlikeTo
    <2>3. CASE mode # "BLOCK"
      BY <1>3, <2>3 DEF SearchText, Seen
    <2> QED BY <2>1, <2>2, <2>3
  <1>4. CASE UpsertImage(p)
    BY <1>4 DEF UpsertImage, At, GoTo, Seen, AlikeTo
  <1>5. CASE UpsertText(p)
    BY <1>5 DEF UpsertText, At, GoTo, Seen, AlikeTo
  <1>6. CASE Finish(p)
    BY <1>6 DEF Finish, At, GoTo, Seen, AlikeTo
  <1>7. CASE Fault(p)
    <2>1. step'[p] \in {"queued", "dead"} /\ \A q \in Products \ {p} : step'[q] = step[q]
      BY <1>7 DEF Fault, Retry, GoTo
    <2> QED BY <1>7, <2>1 DEF Fault, Seen, AlikeTo
  <1> QED BY <1>1, <1>2, <1>3, <1>4, <1>5, <1>6, <1>7 DEF Attempt

\* In BLOCK mode, with any number of attempts at a time, a product like one
\* that was searchable when its check began is never stored, through faults
\* between check and upserts and through retries.
THEOREM BlocksWhatItSees ==
    Spec => []NoLateDuplicate
  <1>1. Init => Seen
    BY DEF Init, Seen
  <1>2. Typed /\ Whole /\ Seen /\ [Next]_vars => Seen'
    <2> SUFFICES ASSUME Typed, Whole, Seen, [Next]_vars PROVE Seen'
      OBVIOUS
    <2>1. CASE Next
      BY <2>1, AttemptSeen DEF Next
    <2>2. CASE UNCHANGED vars
      BY <2>2 DEF vars, Seen, AlikeTo
    <2> QED BY <2>1, <2>2
  <1>3. Typed /\ Seen => NoLateDuplicate
    BY DEF Typed, TypeOK, Seen, AlikeTo, NoLateDuplicate
  <1> QED BY <1>1, <1>2, <1>3, IngestTyped, IngestWhole, PTL DEF Spec

-----------------------------------------------------------------------------
(* ModelLoading *)

\* The managers are independent of each other except for the threads, and a
\* thread inside a manager is the only one there.
LEMMA OneInside ==
    ASSUME Models!IInv, NEW t \in Threads, NEW u \in Threads,
           mPc[t] \in Models!Inside, mPc[u] \in Models!Inside, mAsks[t] = mAsks[u]
    PROVE  t = u
  BY DEF Models!IInv, Models!LockInside, Models!TypeOK

\* A look without the lock keeps the invariant.
LEMMA LookupKeeps ==
    ASSUME Models!ConstantsOK, Models!IInv, NEW t \in Threads, NEW m \in Managers,
           Models!Lookup(t, m)
    PROVE  Models!IInv'
  <1> USE DEF Models!ConstantsOK, Models!IInv, Models!Lookup, Models!At, Models!GoTo, Models!Holds,
              Models!Labels, Models!Inside, Models!Loading
  <1>1. Models!TypeOK'
    BY DEF Models!TypeOK
  <1>2. Models!LockInside'
    BY DEF Models!TypeOK, Models!LockInside
  <1>3. Models!NoSecondLoad' /\ Models!OneModelForAll'
    BY DEF Models!TypeOK, Models!NoSecondLoad, Models!OneModelForAll
  <1>4. Models!HandsOff'
    BY DEF Models!TypeOK, Models!HandsOff
  <1> QED BY <1>1, <1>2, <1>3, <1>4

\* Every step of a thread that is in a call keeps the invariant.
LEMMA WorkingKeeps ==
    ASSUME Models!ConstantsOK, Models!IInv, NEW t \in Threads, Models!Working(t)
    PROVE  Models!IInv'
  <1> USE DEF Models!ConstantsOK, Models!IInv, Models!At, Models!GoTo, Models!Holds, Models!Labels,
              Models!Inside, Models!Loading
  <1>1. CASE Models!Acquire(t)
    <2>1. Models!TypeOK'
      BY <1>1 DEF Models!Acquire, Models!TypeOK
    <2>2. Models!LockInside'
      BY <1>1 DEF Models!Acquire, Models!TypeOK, Models!LockInside
    <2>3. Models!NoSecondLoad' /\ Models!OneModelForAll' /\ Models!HandsOff'
      BY <1>1 DEF Models!Acquire, Models!TypeOK, Models!NoSecondLoad, Models!OneModelForAll,
         Models!HandsOff
    <2> QED BY <2>1, <2>2, <2>3
  <1>2. CASE Models!Recheck(t)
    <2>1. Models!TypeOK'
      <3>1. (IF mCache[mAsks[t]] # 0 THEN "leave" ELSE "load") \in Models!Labels
        OBVIOUS
      <3>2. mPc' \in [Threads -> Models!Labels]
        BY <1>2, <3>1 DEF Models!Recheck, Models!TypeOK
      <3>3. mModel' \in [Threads -> Nat]
        BY <1>2 DEF Models!Recheck, Models!TypeOK
      <3> QED BY <1>2, <3>2, <3>3 DEF Models!Recheck, Models!TypeOK
    <2>2. Models!LockInside'
      BY <1>2 DEF Models!Recheck, Models!TypeOK, Models!LockInside
    <2>3. Models!NoSecondLoad' /\ Models!OneModelForAll' /\ Models!HandsOff'
      <3>1. mPc'[t] = (IF mCache[mAsks[t]] # 0 THEN "leave" ELSE "load")
              /\ \A u \in Threads \ {t} : mPc'[u] = mPc[u] /\ mModel'[u] = mModel[u]
        BY <1>2 DEF Models!Recheck, Models!TypeOK
      <3>2. mPc'[t] = "leave" => mModel'[t] = mCache[mAsks[t]] /\ mModel'[t] # 0
        BY <1>2 DEF Models!Recheck, Models!TypeOK
      <3> QED BY <1>2, <3>1, <3>2 DEF Models!Recheck, Models!TypeOK, Models!NoSecondLoad,
                 Models!OneModelForAll, Models!HandsOff
    <2> QED BY <2>1, <2>2, <2>3
  <1>3. CASE Models!Load(t)
    <2> DEFINE m == mAsks[t]
    <2>1. m \in Managers /\ mLoads[m] \in Nat /\ mLoads[m] + 1 \in Nat /\ mLoads[m] + 1 # 0
      <3>1. m \in Managers /\ mLoads[m] \in Nat
        BY DEF Models!TypeOK
      <3> QED BY <3>1
    <2>2. /\ mLoads' = [mLoads EXCEPT ![m] = mLoads[m] + 1]
          /\ mModel' = [mModel EXCEPT ![t] = mLoads[m] + 1]
          /\ mPc' = [mPc EXCEPT ![t] = IF m = "image" THEN "processor" ELSE "publish"]
          /\ mPc[t] = "load" /\ UNCHANGED <<mLock, mCache, mAsks, mFails>>
      BY <1>3 DEF Models!Load
    <2> HIDE DEF m
    <2>3. mPc'[t] \in {"processor", "publish"} /\ \A u \in Threads \ {t} : mPc'[u] = mPc[u]
      BY <2>2 DEF Models!TypeOK
    <2>4. Models!TypeOK'
      <3>1. mPc' \in [Threads -> Models!Labels]
        BY <2>2 DEF Models!TypeOK
      <3>2. mLoads' \in [Managers -> Nat] /\ mModel' \in [Threads -> Nat]
        BY <2>1, <2>2 DEF Models!TypeOK
      <3> QED BY <2>2, <3>1, <3>2 DEF Models!TypeOK
    <2>5. Models!LockInside'
      <3>1. \A u \in Threads : mPc'[u] \in Models!Inside <=> mPc[u] \in Models!Inside
        BY <2>2, <2>3
      <3>2. mLock' = mLock /\ mAsks' = mAsks /\ Models!LockInside
        BY <2>2
      <3> QED BY <3>1, <3>2 DEF Models!LockInside
    <2>6. \A u \in Threads \ {t} : mModel'[u] = mModel[u]
      BY <2>2 DEF Models!TypeOK
    <2>7. Models!NoSecondLoad' /\ Models!OneModelForAll'
      BY <2>2, <2>3, <2>6 DEF Models!NoSecondLoad, Models!OneModelForAll
    <2>8. Models!HandsOff'
      <3>1. \A u \in Threads : u # t /\ mPc[u] \in Models!Inside => mAsks[u] # m
        BY <2>2, OneInside DEF m
      <3>2. mModel'[t] = mLoads'[m] /\ mModel'[t] # 0
        BY <2>1, <2>2 DEF Models!TypeOK
      <3>3. \A n \in Managers : mCache'[n] <= mLoads'[n] /\ (n # m => mLoads'[n] = mLoads[n])
        BY <2>1, <2>2 DEF Models!TypeOK, Models!HandsOff
      <3>4. \A u \in Threads : mAsks[u] \in Managers
        BY DEF Models!TypeOK
      <3>5. mAsks[t] = m
        BY DEF m
      <3> QED BY <2>2, <2>3, <2>6, <3>1, <3>2, <3>3, <3>4, <3>5 DEF Models!HandsOff
    <2> QED BY <2>4, <2>5, <2>7, <2>8
  <1>4. CASE Models!LoadProcessor(t)
    <2>1. Models!TypeOK' /\ Models!LockInside'
      BY <1>4 DEF Models!LoadProcessor, Models!TypeOK, Models!LockInside
    <2>2. Models!NoSecondLoad' /\ Models!OneModelForAll' /\ Models!HandsOff'
      BY <1>4 DEF Models!LoadProcessor, Models!TypeOK, Models!NoSecondLoad, Models!OneModelForAll,
         Models!HandsOff
    <2> QED BY <2>1, <2>2
  <1>5. CASE Models!Publish(t)
    <2>1. Models!TypeOK' /\ Models!LockInside'
      BY <1>5 DEF Models!Publish, Models!TypeOK, Models!LockInside
    <2>2. \A u \in Threads : u # t /\ mPc[u] \in Models!Inside => mAsks[u] # mAsks[t]
      BY <1>5, OneInside DEF Models!Publish
    <2>3. Models!NoSecondLoad'
      BY <1>5, <2>2 DEF Models!Publish, Models!TypeOK, Models!NoSecondLoad
    <2>4. Models!OneModelForAll'
      <3>1. \A u \in Threads : mPc[u] = "using" => mAsks[u] # mAsks[t]
        BY <1>5 DEF Models!Publish, Models!TypeOK, Models!NoSecondLoad, Models!OneModelForAll
      <3> QED BY <1>5, <3>1 DEF Models!Publish, Models!TypeOK, Models!OneModelForAll
    <2>5. Models!HandsOff'
      BY <1>5, <2>2 DEF Models!Publish, Models!TypeOK, Models!HandsOff
    <2> QED BY <2>1, <2>3, <2>4, <2>5
  <1>6. CASE Models!Warmup(t)
    <2>1. Models!TypeOK' /\ Models!LockInside'
      BY <1>6 DEF Models!Warmup, Models!TypeOK, Models!LockInside
    <2>2. Models!NoSecondLoad' /\ Models!OneModelForAll' /\ Models!HandsOff'
      BY <1>6 DEF Models!Warmup, Models!TypeOK, Models!NoSecondLoad, Models!OneModelForAll,
         Models!HandsOff
    <2> QED BY <2>1, <2>2
  <1>7. CASE Models!Leave(t)
    <2>1. Models!TypeOK'
      BY <1>7 DEF Models!Leave, Models!TypeOK
    <2>2. Models!LockInside'
      BY <1>7 DEF Models!Leave, Models!TypeOK, Models!LockInside
    <2>3. Models!NoSecondLoad' /\ Models!OneModelForAll' /\ Models!HandsOff'
      BY <1>7 DEF Models!Leave, Models!TypeOK, Models!NoSecondLoad, Models!OneModelForAll,
         Models!HandsOff
    <2> QED BY <2>1, <2>2, <2>3
  <1>8. CASE Models!LoadFails(t)
    <2>1. Models!TypeOK'
      BY <1>8 DEF Models!LoadFails, Models!TypeOK
    <2>2. Models!LockInside'
      BY <1>8 DEF Models!LoadFails, Models!TypeOK, Models!LockInside
    <2>3. Models!NoSecondLoad' /\ Models!OneModelForAll' /\ Models!HandsOff'
      BY <1>8 DEF Models!LoadFails, Models!TypeOK, Models!NoSecondLoad, Models!OneModelForAll,
         Models!HandsOff
    <2> QED BY <2>1, <2>2, <2>3
  <1>9. CASE Models!Predict(t)
    <2>1. Models!TypeOK' /\ Models!LockInside'
      BY <1>9 DEF Models!Predict, Models!TypeOK, Models!LockInside
    <2>2. Models!NoSecondLoad' /\ Models!OneModelForAll' /\ Models!HandsOff'
      BY <1>9 DEF Models!Predict, Models!TypeOK, Models!NoSecondLoad, Models!OneModelForAll,
         Models!HandsOff
    <2> QED BY <2>1, <2>2
  <1> QED BY <1>1, <1>2, <1>3, <1>4, <1>5, <1>6, <1>7, <1>8, <1>9 DEF Models!Working

\* The inductive invariant holds in every reachable state.
THEOREM LoadingInvariant ==
    ASSUME Models!ConstantsOK
    PROVE  Models!Spec => []Models!IInv
  <1>1. Models!Init => Models!IInv
    BY DEF Models!ConstantsOK, Models!Init, Models!IInv, Models!TypeOK, Models!LockInside,
       Models!NoSecondLoad, Models!OneModelForAll, Models!HandsOff,
           Models!Labels, Models!Inside, Models!Loading
  <1>2. Models!IInv /\ [Models!Next]_(Models!vars) => Models!IInv'
    <2> SUFFICES ASSUME Models!IInv, [Models!Next]_(Models!vars) PROVE Models!IInv'
      OBVIOUS
    <2>1. CASE Models!Next
      BY <2>1, LookupKeeps, WorkingKeeps DEF Models!Next
    <2>2. CASE UNCHANGED Models!vars
      BY <2>2 DEF Models!vars, Models!IInv, Models!TypeOK, Models!LockInside, Models!NoSecondLoad,
         Models!OneModelForAll, Models!HandsOff
    <2> QED BY <2>1, <2>2
  <1> QED BY <1>1, <1>2, PTL DEF Models!Spec

\* However many threads miss a model at the same time and however many loads
\* fail, a manager is loaded once and its lock belongs to the thread inside
\* ("only trigger one real load", model_manager.py).
THEOREM LoadedOnce ==
    ASSUME Models!ConstantsOK
    PROVE  Models!Spec => [](Models!NoSecondLoad /\ Models!LockInside)
  <1>1. Models!IInv => Models!NoSecondLoad /\ Models!LockInside
    BY DEF Models!IInv
  <1> QED BY <1>1, LoadingInvariant, PTL

\* All callers of a manager run inference on the same model.
THEOREM SharedModel ==
    ASSUME Models!ConstantsOK
    PROVE  Models!Spec => []Models!OneModelForAll
  <1>1. Models!IInv => Models!OneModelForAll
    BY DEF Models!IInv
  <1> QED BY <1>1, LoadingInvariant, PTL

-----------------------------------------------------------------------------
(* CollectionSetup *)

\* The instance's finite sets are those of FiniteSets.
LEMMA SameSizes ==
    ASSUME NEW S
    PROVE  /\ Collection!Cardinality(S) = Cardinality(S)
           /\ Collection!IsFiniteSet(S) <=> IsFiniteSet(S)
  BY DEF Cardinality, IsFiniteSet, Collection!Cardinality, Collection!IsFiniteSet

\* Every step of a caller keeps the types.
LEMMA EnsureTyped ==
    ASSUME Collection!ConstantsOK, Collection!TypeOK, NEW c \in Threads, Collection!Ensure(c)
    PROVE  Collection!TypeOK'
  <1> USE DEF Collection!ConstantsOK, Collection!TypeOK, Collection!At, Collection!GoTo,
              Collection!Release, Collection!Labels, Collection!Inside
  <1>1. CASE Collection!Begin(c)
    BY <1>1 DEF Collection!Begin
  <1>2. CASE Collection!Acquire(c)
    BY <1>2 DEF Collection!Acquire
  <1>3. CASE Collection!Recheck(c)
    BY <1>3 DEF Collection!Recheck
  <1>4. CASE Collection!CheckExists(c)
    BY <1>4 DEF Collection!CheckExists
  <1>5. CASE Collection!Create(c)
    BY <1>5 DEF Collection!Create
  <1>6. CASE Collection!EnsureFacetIndexes(c)
    <2>1. PICK lost \in SUBSET Fields :
            /\ cFaults + Collection!Cardinality(lost) <= MaxFaults
            /\ cFaults' = cFaults + Collection!Cardinality(lost)
            /\ cIndexed' = cIndexed \cup (Fields \ lost)
      BY <1>6 DEF Collection!EnsureFacetIndexes
    <2>2. Collection!Cardinality(lost) \in Nat
      BY FS_Subset, FS_CardinalityType, SameSizes
    <2> QED BY <1>6, <2>1, <2>2 DEF Collection!EnsureFacetIndexes
  <1>7. CASE Collection!SetReady(c)
    BY <1>7 DEF Collection!SetReady
  <1>8. CASE Collection!Leave(c)
    BY <1>8 DEF Collection!Leave
  <1>9. CASE Collection!RequestFails(c)
    <2>1. cFaults' \in 0..MaxFaults
      BY <1>9 DEF Collection!RequestFails
    <2>2. cExists' \in BOOLEAN
      <3>1. (cExists \/ Collection!At(c, "create")) \in BOOLEAN
        BY Zenon
      <3> QED BY <1>9, <3>1 DEF Collection!RequestFails
    <2> QED BY <1>9, <2>1, <2>2 DEF Collection!RequestFails
  <1>10. CASE Collection!Finish(c)
    BY <1>10 DEF Collection!Finish
  <1> QED BY <1>1, <1>2, <1>3, <1>4, <1>5, <1>6, <1>7, <1>8, <1>9, <1>10 DEF Collection!Ensure

\* Every step of a caller keeps the locks with those inside.
LEMMA EnsureLocks ==
    ASSUME Collection!ConstantsOK, Collection!TypeOK, Collection!LockInside, NEW c \in Threads,
           Collection!Ensure(c)
    PROVE  Collection!LockInside'
  <1> USE DEF Collection!ConstantsOK, Collection!TypeOK, Collection!LockInside, Collection!At,
              Collection!GoTo, Collection!Release, Collection!Labels, Collection!Inside
  <1>1. CASE Collection!Begin(c)
    BY <1>1 DEF Collection!Begin
  <1>2. CASE Collection!Acquire(c)
    BY <1>2 DEF Collection!Acquire
  <1>3. CASE Collection!Recheck(c)
    BY <1>3 DEF Collection!Recheck
  <1>4. CASE Collection!CheckExists(c)
    BY <1>4 DEF Collection!CheckExists
  <1>5. CASE Collection!Create(c)
    BY <1>5 DEF Collection!Create
  <1>6. CASE Collection!EnsureFacetIndexes(c)
    BY <1>6 DEF Collection!EnsureFacetIndexes
  <1>7. CASE Collection!SetReady(c)
    BY <1>7 DEF Collection!SetReady
  <1>8. CASE Collection!Leave(c)
    BY <1>8 DEF Collection!Leave
  <1>9. CASE Collection!RequestFails(c)
    BY <1>9 DEF Collection!RequestFails
  <1>10. CASE Collection!Finish(c)
    BY <1>10 DEF Collection!Finish
  <1> QED BY <1>1, <1>2, <1>3, <1>4, <1>5, <1>6, <1>7, <1>8, <1>9, <1>10 DEF Collection!Ensure

\* Every step of a caller keeps the collection reachable for those past the
\* check: it is never deleted, and a flag is raised only after the check.
LEMMA EnsureReached ==
    ASSUME Collection!ConstantsOK, Collection!TypeOK, Collection!Reached, NEW c \in Threads,
           Collection!Ensure(c)
    PROVE  Collection!Reached'
  <1> USE DEF Collection!ConstantsOK, Collection!TypeOK, Collection!Reached, Collection!At,
              Collection!GoTo, Collection!Release, Collection!Labels, Collection!Inside
  <1>1. CASE Collection!Begin(c)
    BY <1>1 DEF Collection!Begin
  <1>2. CASE Collection!Acquire(c)
    BY <1>2 DEF Collection!Acquire
  <1>3. CASE Collection!Recheck(c)
    BY <1>3 DEF Collection!Recheck
  <1>4. CASE Collection!CheckExists(c)
    BY <1>4 DEF Collection!CheckExists
  <1>5. CASE Collection!Create(c)
    BY <1>5 DEF Collection!Create
  <1>6. CASE Collection!EnsureFacetIndexes(c)
    BY <1>6 DEF Collection!EnsureFacetIndexes
  <1>7. CASE Collection!SetReady(c)
    BY <1>7 DEF Collection!SetReady
  <1>8. CASE Collection!Leave(c)
    BY <1>8 DEF Collection!Leave
  <1>9. CASE Collection!RequestFails(c)
    BY <1>9 DEF Collection!RequestFails
  <1>10. CASE Collection!Finish(c)
    BY <1>10 DEF Collection!Finish
  <1> QED BY <1>1, <1>2, <1>3, <1>4, <1>5, <1>6, <1>7, <1>8, <1>9, <1>10 DEF Collection!Ensure

\* The invariant holds in every reachable state.
THEOREM SetUpInvariant ==
    ASSUME Collection!ConstantsOK
    PROVE  Collection!Spec => []Collection!SetUp
  <1>1. Collection!Init => Collection!SetUp
    BY DEF Collection!ConstantsOK, Collection!Init, Collection!SetUp, Collection!TypeOK,
       Collection!LockInside, Collection!Reached, Collection!Labels, Collection!Inside
  <1>2. Collection!SetUp /\ [Collection!Next]_(Collection!vars) => Collection!SetUp'
    <2> SUFFICES ASSUME Collection!SetUp, [Collection!Next]_(Collection!vars)
                 PROVE Collection!SetUp'
      OBVIOUS
    <2>1. CASE Collection!Next
      BY <2>1, EnsureTyped, EnsureLocks, EnsureReached DEF Collection!Next, Collection!SetUp
    <2>2. CASE UNCHANGED Collection!vars
      BY <2>2 DEF Collection!vars, Collection!SetUp, Collection!TypeOK, Collection!LockInside,
         Collection!Reached
    <2> QED BY <2>1, <2>2
  <1> QED BY <1>1, <1>2, PTL DEF Collection!Spec

\* No request is sent to a collection that does not exist, whatever store
\* objects race for its creation and whatever requests fail on the way
\* (QdrantVectorStore._ensure_collection).
THEOREM RequestsReach ==
    ASSUME Collection!ConstantsOK
    PROVE  Collection!Spec => []Collection!OperatesOnExisting
  <1>1. Collection!SetUp => Collection!OperatesOnExisting
    BY DEF Collection!SetUp, Collection!Reached, Collection!OperatesOnExisting
  <1> QED BY <1>1, SetUpInvariant, PTL

\* A store object's set-up is one caller's at a time, and errors release it.
THEOREM OneSetsUp ==
    ASSUME Collection!ConstantsOK
    PROVE  Collection!Spec => []Collection!LockInside
  <1>1. Collection!SetUp => Collection!LockInside
    BY DEF Collection!SetUp
  <1> QED BY <1>1, SetUpInvariant, PTL

-----------------------------------------------------------------------------
(* ModelRegistry *)

\* Whatever is registered or activated is the only active one.
LEMMA RegistryStep ==
    ASSUME Registry!ConstantsOK, Registry!RegistryInv, [Registry!Next]_(Registry!vars)
    PROVE  Registry!RegistryInv'
  <1> USE DEF Registry!RegistryInv, Registry!TypeOK, Registry!Active, Registry!Registered,
              Registry!Deactivated
  <1>1. ASSUME NEW t \in ModelTypes, NEW v \in Versions, Registry!Activate(t, v)
        PROVE Registry!RegistryInv'
    BY <1>1 DEF Registry!Activate, Registry!OneActive
  <1>2. ASSUME NEW t \in ModelTypes, NEW v \in Versions, Registry!Deactivate(t, v)
        PROVE Registry!RegistryInv'
    BY <1>2 DEF Registry!Deactivate, Registry!OneActive
  <1>3. ASSUME NEW t \in ModelTypes, NEW v \in Versions, NEW status \in {"active", "inactive"},
               Registry!Register(t, v, status)
        PROVE  Registry!RegistryInv'
    BY <1>3 DEF Registry!Register, Registry!OneActive
  <1>4. ASSUME NEW t \in ModelTypes, NEW s \in Clients, Registry!Build(s, t)
        PROVE Registry!RegistryInv'
    BY <1>4 DEF Registry!Build, Registry!OneActive
  <1>5. CASE UNCHANGED Registry!vars
    BY <1>5 DEF Registry!vars, Registry!OneActive
  <1> QED BY <1>1, <1>2, <1>3, <1>4, <1>5 DEF Registry!Next

\* The invariant holds in every reachable state.
THEOREM RegistryInvariant ==
    ASSUME Registry!ConstantsOK
    PROVE  Registry!Spec => []Registry!RegistryInv
  <1>1. Registry!Init => Registry!RegistryInv
    BY DEF Registry!ConstantsOK, Registry!Init, Registry!RegistryInv, Registry!TypeOK,
       Registry!OneActive, Registry!Active
  <1> QED BY <1>1, RegistryStep, PTL DEF Registry!Spec

\* A model type never has two active versions, whatever is registered,
\* activated or deactivated (model_registry.py).
THEOREM RegistryOneActive ==
    ASSUME Registry!ConstantsOK
    PROVE  Registry!Spec => []Registry!OneActive
  <1>1. Registry!RegistryInv => Registry!OneActive
    BY DEF Registry!RegistryInv
  <1> QED BY <1>1, RegistryInvariant, PTL

-----------------------------------------------------------------------------
(* Serving *)

\* Results stay fitting: what is indexed later is not missing in them.
LEMMA FitsStays ==
    ASSUME Serving!ServInv, NEW x, NEW p, Serving!Fits(x, p), sTime' \in Nat,
           sTime <= sTime', UNCHANGED sIndexed
    PROVE  Serving!Fits(x, p)'
  BY DEF Serving!ServInv, Serving!ServTyped, Serving!Fits, Serving!Results, Serving!Known

\* Time passes only when no warm-up would be late for it, and drops the entries
\* whose TTL is over.
LEMMA TickServes ==
    ASSUME Serving!ConstantsOK, Serving!ServInv, Serving!Tick
    PROVE  Serving!ServInv'
  <1> USE DEF Serving!ConstantsOK
  <1>1. sTime \in Nat /\ sTime' = sTime + 1 /\ UNCHANGED <<sIndexed, sWork, sFound, sAsk, sPc, sAnswer>>
    BY DEF Serving!Tick, Serving!ServInv, Serving!ServTyped
  <1>2. \A p \in Recommended : sCache'[p] =
          IF sCache[p] # None /\ sCache[p].until <= sTime + 1 THEN None ELSE sCache[p]
    BY DEF Serving!Tick
  <1>3. Serving!ServTyped'
    BY <1>1 DEF Serving!Tick, Serving!ServInv, Serving!ServTyped
  <1>4. \A p \in Serving!Known' : sIndexed'[p] <= sTime'
    BY <1>1 DEF Serving!ServInv, Serving!ServTyped, Serving!Known
  <1>5. \A a \in Threads : sWork'[a] = "set" =>
          /\ Serving!Fits(sFound[a], ProductOf[a])' /\ sFound'[a].kind = "default"
          /\ sTime' <= sFound'[a].at + WarmTime
    <2> SUFFICES ASSUME NEW a \in Threads, sWork[a] = "set"
                 PROVE  /\ Serving!Fits(sFound[a], ProductOf[a])' /\ sFound[a].kind = "default"
                        /\ sTime + 1 <= sFound[a].at + WarmTime
      BY <1>1
    <2>1. sTime < sFound[a].at + WarmTime /\ sFound[a].at \in Nat
      BY DEF Serving!Tick, Serving!ServInv, Serving!Fits, Serving!Results
    <2>2. Serving!Fits(sFound[a], ProductOf[a]) /\ sFound[a].kind = "default"
      BY DEF Serving!ServInv
    <2> QED BY <1>1, <2>1, <2>2, FitsStays
  <1>6. \A p \in Recommended : sCache'[p] # None =>
          /\ Serving!Fits(sCache[p].result, p)' /\ sCache'[p].result.kind = "default"
          /\ sTime' < sCache'[p].until /\ sCache'[p].until <= sCache'[p].result.at + WarmTime + TTL
    <2> SUFFICES ASSUME NEW p \in Recommended, sCache'[p] # None
                 PROVE  /\ Serving!Fits(sCache[p].result, p)' /\ sCache'[p].result.kind = "default"
                        /\ sTime' < sCache'[p].until
                        /\ sCache'[p].until <= sCache'[p].result.at + WarmTime + TTL
      OBVIOUS
    <2>1. sCache'[p] = sCache[p] /\ sCache[p] # None /\ ~(sCache[p].until <= sTime + 1)
      BY <1>2
    <2>2. sCache[p] \in [result : Serving!Results, until : Nat]
      BY <2>1 DEF Serving!ServInv, Serving!ServTyped
    <2>3. /\ Serving!Fits(sCache[p].result, p) /\ sCache[p].result.kind = "default"
          /\ sCache[p].until <= sCache[p].result.at + WarmTime + TTL
      BY <2>1 DEF Serving!ServInv
    <2>4. Serving!Fits(sCache[p].result, p)'
      <3> DEFINE x == sCache[p].result
      <3>1. sCache'[p].result = x
        BY <2>1
      <3> HIDE DEF x
      <3>2. Serving!Fits(x, p)
        BY <2>3 DEF x
      <3>3. x \in Serving!Results /\ p \notin x.recs /\ x.recs \subseteq Serving!Known /\ x.at <= sTime
            /\ \A q \in Serving!Known \ {p} : sIndexed[q] < x.at => q \in x.recs
        BY <3>2 DEF Serving!Fits
      <3> QED BY <1>1, <3>1, <3>3 DEF Serving!Fits, Serving!Known, Serving!Results
    <2> QED BY <1>1, <2>1, <2>2, <2>3, <2>4
  <1>7. \A r \in Readers : sPc[r] = "done" /\ sAnswer[r] = None
    BY DEF Serving!Tick, Serving!ServInv
  <1> QED BY <1>1, <1>3, <1>4, <1>5, <1>6, <1>7 DEF Serving!ServInv

\* What is indexed now is not missing in what was computed before.
LEMMA IndexServes ==
    ASSUME Serving!ConstantsOK, Serving!ServInv, NEW a \in Threads, Serving!Index(a)
    PROVE  Serving!ServInv'
  <1> USE DEF Serving!ConstantsOK
  <1>1. /\ UNCHANGED <<sTime, sCache, sFound, sAsk, sPc, sAnswer>>
        /\ sWork[a] = "index" /\ sWork' = [sWork EXCEPT ![a] = "warm"]
        /\ ProductOf[a] \in Recommended
        /\ \A p \in Recommended : sIndexed'[p] =
             IF p = ProductOf[a] /\ sIndexed[p] = None THEN sTime ELSE sIndexed[p]
    BY DEF Serving!Index, Serving!ServInv, Serving!ServTyped
  <1>2. Serving!ServTyped'
    BY DEF Serving!Index, Serving!ServInv, Serving!ServTyped
  <1>3. /\ Serving!Known \subseteq Serving!Known'
        /\ \A p \in Serving!Known' : (p \in Serving!Known /\ sIndexed'[p] = sIndexed[p]) \/ sIndexed'[p] = sTime
    BY <1>1 DEF Serving!Known
  <1>4. sTime \in Nat /\ \A p \in Serving!Known' : sIndexed'[p] <= sTime
    BY <1>3 DEF Serving!ServInv, Serving!ServTyped
  <1>5. ASSUME NEW x, NEW p, Serving!Fits(x, p) PROVE Serving!Fits(x, p)'
    BY <1>1, <1>3, <1>5 DEF Serving!Fits, Serving!Results, Serving!ServInv, Serving!ServTyped
  <1>6. \A b \in Threads : Serving!Fits(sFound[b], ProductOf[b]) => Serving!Fits(sFound[b], ProductOf[b])'
    BY <1>1, <1>5
  <1>7. \A p \in Recommended : Serving!Fits(sCache[p].result, p) => Serving!Fits(sCache[p].result, p)'
    BY <1>1, <1>5
  <1>8. \A r \in Readers : Serving!Fits(sAnswer[r], sAsk[r][1]) => Serving!Fits(sAnswer[r], sAsk[r][1])'
    BY <1>1, <1>5
  <1> QED BY <1>1, <1>2, <1>4, <1>6, <1>7, <1>8 DEF Serving!ServInv, Serving!ServTyped

\* A warm-up or a live computation finds all there is now.
LEMMA ComputesFits ==
    ASSUME Serving!ConstantsOK, Serving!ServInv, NEW p \in Recommended, NEW kind \in Serving!Kinds
    PROVE  /\ Serving!Fits(Serving!Recommend(p, kind), p) /\ Serving!Recommend(p, kind).kind = kind
           /\ Serving!Recommend(p, kind).at = sTime
  BY DEF Serving!ServInv, Serving!ServTyped, Serving!Fits, Serving!Results, Serving!Recommend,
     Serving!Known

\* What a warm-up computes and caches is fresh enough.
LEMMA AttemptServes ==
    ASSUME Serving!ConstantsOK, Serving!ServInv, NEW a \in Threads,
           Serving!WarmCompute(a) \/ Serving!WarmSet(a) \/ Serving!WarmFails(a)
    PROVE  Serving!ServInv'
  <1> USE DEF Serving!ConstantsOK
  <1>0. ProductOf[a] \in Recommended /\ sTime \in Nat /\ "default" \in Serving!Kinds
    BY DEF Serving!ServInv, Serving!ServTyped, Serving!Kinds
  <1>f. \A x, p : Serving!Fits(x, p) => x \in Serving!Results
    BY DEF Serving!Fits
  <1>1. CASE Serving!WarmCompute(a)
    <2> DEFINE x == Serving!Recommend(ProductOf[a], "default")
    <2>1. Serving!Fits(x, ProductOf[a]) /\ x.kind = "default" /\ x.at = sTime
      BY <1>0, ComputesFits
    <2>2. UNCHANGED <<sTime, sIndexed, sCache, sAsk, sPc, sAnswer>>
          /\ sFound' = [sFound EXCEPT ![a] = x] /\ sWork' = [sWork EXCEPT ![a] = "set"]
      BY <1>1 DEF Serving!WarmCompute
    <2> HIDE DEF x
    <2> QED BY <1>0, <1>f, <2>1, <2>2 DEF Serving!ServInv, Serving!ServTyped, Serving!Fits,
               Serving!Known
  <1>2. CASE Serving!WarmSet(a)
    <2>1. UNCHANGED <<sTime, sIndexed, sAsk, sPc, sAnswer>> /\ sWork[a] = "set"
          /\ sFound' = [sFound EXCEPT ![a] = None] /\ sWork' = [sWork EXCEPT ![a] = "done"]
          /\ sCache' = [sCache EXCEPT ![ProductOf[a]] = [result |-> sFound[a], until |-> sTime + TTL]]
      BY <1>2 DEF Serving!WarmSet
    <2>2. /\ Serving!Fits(sFound[a], ProductOf[a]) /\ sFound[a].kind = "default" /\ sFound[a].at \in Nat
          /\ sTime <= sFound[a].at + WarmTime
      BY <2>1 DEF Serving!ServInv, Serving!Fits, Serving!Results
    <2> QED BY <1>0, <1>f, <2>1, <2>2 DEF Serving!ServInv, Serving!ServTyped, Serving!Fits,
               Serving!Known
  <1>3. CASE Serving!WarmFails(a)
    BY <1>3 DEF Serving!WarmFails, Serving!ServInv, Serving!ServTyped, Serving!Fits, Serving!Known
  <1> QED BY <1>1, <1>2, <1>3

\* A step of a reader that changes only where it stands, what it asked for and
\* what it is answered keeps the invariant when these three fit each other.
LEMMA ReaderKeeps ==
    ASSUME Serving!ServInv, NEW r \in Readers,
           UNCHANGED <<sTime, sIndexed, sCache, sWork, sFound>>,
           NEW s \in {"done", "look", "compute", "answered"},
           NEW q \in (Recommended \X Serving!Kinds) \cup {None},
           NEW x \in Serving!Results \cup {None},
           sPc' = [sPc EXCEPT ![r] = s], sAsk' = [sAsk EXCEPT ![r] = q],
           sAnswer' = [sAnswer EXCEPT ![r] = x],
           s # "done" => q \in Recommended \X Serving!Kinds,
           s # "answered" => x = None,
           x # None => /\ Serving!Fits(x, q[1]) /\ x.kind = q[2]
                       /\ sTime < x.at + WarmTime + TTL
    PROVE  Serving!ServInv'
  <1>1. Serving!ServTyped /\ Serving!ServTyped'
    BY DEF Serving!ServInv, Serving!ServTyped
  <1>2. Serving!Known' = Serving!Known
    BY DEF Serving!Known
  <1>3. ASSUME NEW y, NEW p, Serving!Fits(y, p) PROVE Serving!Fits(y, p)'
    BY <1>2, <1>3 DEF Serving!Fits
  <1>4. /\ sPc'[r] = s /\ sAsk'[r] = q /\ sAnswer'[r] = x
        /\ \A t \in Readers \ {r} : sPc'[t] = sPc[t] /\ sAsk'[t] = sAsk[t] /\ sAnswer'[t] = sAnswer[t]
    BY <1>1 DEF Serving!ServTyped
  <1>5. \A p \in Serving!Known' : sIndexed'[p] <= sTime'
    BY <1>2 DEF Serving!ServInv
  <1>6. \A a \in Threads : sWork'[a] = "set" =>
          /\ Serving!Fits(sFound[a], ProductOf[a])' /\ sFound'[a].kind = "default"
          /\ sTime' <= sFound'[a].at + WarmTime
    BY <1>3 DEF Serving!ServInv
  <1>7. \A p \in Recommended : sCache'[p] # None =>
          /\ Serving!Fits(sCache[p].result, p)' /\ sCache'[p].result.kind = "default"
          /\ sTime' < sCache'[p].until /\ sCache'[p].until <= sCache'[p].result.at + WarmTime + TTL
    BY <1>3 DEF Serving!ServInv
  <1>8. \A t \in Readers : /\ sPc'[t] # "done" => sAsk'[t] \in Recommended \X Serving!Kinds
                           /\ sPc'[t] # "answered" => sAnswer'[t] = None
    BY <1>4 DEF Serving!ServInv
  <1>9. ASSUME NEW t \in Readers, sAnswer'[t] # None
        PROVE  /\ Serving!Fits(sAnswer[t], sAsk[t][1])' /\ sAnswer'[t].kind = sAsk'[t][2]
               /\ sTime' < sAnswer'[t].at + WarmTime + TTL
    <2>1. CASE t = r
      <3>1. x # None /\ Serving!Fits(x, q[1])'
        BY <1>3, <1>4, <1>9, <2>1
      <3>2. Serving!Fits(sAnswer[t], sAsk[t][1])'
        BY <1>2, <1>4, <2>1, <3>1 DEF Serving!Fits
      <3> QED BY <1>4, <2>1, <3>1, <3>2
    <2>2. CASE t # r
      <3>1. /\ Serving!Fits(sAnswer[t], sAsk[t][1]) /\ sAnswer[t].kind = sAsk[t][2]
            /\ sTime < sAnswer[t].at + WarmTime + TTL
        BY <1>4, <1>9, <2>2 DEF Serving!ServInv
      <3>2. Serving!Fits(sAnswer[t], sAsk[t][1])'
        BY <1>2, <1>4, <2>2, <3>1 DEF Serving!Fits
      <3> QED BY <1>4, <2>2, <3>1, <3>2
    <2> QED BY <2>1, <2>2
  <1> QED BY <1>1, <1>5, <1>6, <1>7, <1>8, <1>9 DEF Serving!ServInv

\* What a reader is answered, from the cache or computed, is fresh enough.
LEMMA ReaderServes ==
    ASSUME Serving!ConstantsOK, Serving!ServInv, NEW r \in Readers,
           \/ Serving!Look(r) \/ Serving!Compute(r) \/ Serving!Respond(r)
           \/ \E p \in Recommended, kind \in Serving!Kinds : Serving!Request(r, p, kind)
    PROVE  Serving!ServInv'
  <1> USE DEF Serving!ConstantsOK
  <1>0. /\ sTime \in Nat /\ TTL \in Nat /\ TTL > 0 /\ WarmTime \in Nat
        /\ sPc \in [Readers -> {"done", "look", "compute", "answered"}]
        /\ sAsk \in [Readers -> (Recommended \X Serving!Kinds) \cup {None}]
        /\ sAnswer \in [Readers -> Serving!Results \cup {None}]
        /\ sPc[r] # "done" => sAsk[r] \in Recommended \X Serving!Kinds
        /\ sPc[r] # "answered" => sAnswer[r] = None
    BY DEF Serving!ServInv, Serving!ServTyped
  <1>f. \A x, p : Serving!Fits(x, p) => x \in Serving!Results
    BY DEF Serving!Fits
  <1>k. sAsk = [sAsk EXCEPT ![r] = sAsk[r]] /\ sAnswer = [sAnswer EXCEPT ![r] = sAnswer[r]]
    BY <1>0
  <1>1. CASE Serving!Look(r)
    <2>1. /\ UNCHANGED <<sTime, sIndexed, sCache, sWork, sFound, sAsk>> /\ sPc[r] = "look"
          /\ sAsk[r] \in Recommended \X Serving!Kinds
      BY <1>0, <1>1 DEF Serving!Look
    <2>2. CASE sAsk[r][2] = "default" /\ sCache[sAsk[r][1]] # None
      <3> DEFINE p == sAsk[r][1]
                 x == sCache[p].result
      <3>1. /\ p \in Recommended /\ Serving!Fits(x, p) /\ x.kind = sAsk[r][2] /\ x \in Serving!Results
            /\ sTime < sCache[p].until /\ sCache[p].until <= x.at + WarmTime + TTL
        BY <1>f, <2>1, <2>2 DEF Serving!ServInv
      <3>2. x.at \in Nat /\ sCache[p].until \in Nat
        BY <2>2, <3>1 DEF Serving!ServInv, Serving!ServTyped, Serving!Results
      <3>3. sAnswer' = [sAnswer EXCEPT ![r] = x] /\ sPc' = [sPc EXCEPT ![r] = "answered"]
        BY <1>1, <2>2 DEF Serving!Look
      <3> HIDE DEF x
      <3>4. sTime < x.at + WarmTime + TTL
        BY <1>0, <3>1, <3>2
      <3> QED BY <1>k, <2>1, <3>1, <3>3, <3>4, ReaderKeeps
    <2>3. CASE ~(sAsk[r][2] = "default" /\ sCache[sAsk[r][1]] # None)
      <3>1. sAnswer' = sAnswer /\ sPc' = [sPc EXCEPT ![r] = "compute"]
        BY <1>1, <2>3 DEF Serving!Look
      <3> QED BY <1>0, <1>k, <2>1, <3>1, ReaderKeeps
    <2> QED BY <2>2, <2>3
  <1>2. CASE Serving!Compute(r)
    <2>1. /\ UNCHANGED <<sTime, sIndexed, sCache, sWork, sFound, sAsk>> /\ sPc[r] = "compute"
          /\ sAsk[r] \in Recommended \X Serving!Kinds /\ sPc' = [sPc EXCEPT ![r] = "answered"]
      BY <1>0, <1>2 DEF Serving!Compute
    <2>2. CASE sAsk[r][1] \in Serving!Known
      <3> DEFINE x == Serving!Recommend(sAsk[r][1], sAsk[r][2])
      <3>1. Serving!Fits(x, sAsk[r][1]) /\ x.kind = sAsk[r][2] /\ x.at = sTime
        BY <2>1, ComputesFits
      <3>2. sAnswer' = [sAnswer EXCEPT ![r] = x]
        BY <1>2, <2>2 DEF Serving!Compute
      <3> HIDE DEF x
      <3>3. sTime < x.at + WarmTime + TTL
        BY <1>0, <3>1
      <3> QED BY <1>f, <1>k, <2>1, <3>1, <3>2, <3>3, ReaderKeeps
    <2>3. CASE sAsk[r][1] \notin Serving!Known
      <3>1. sAnswer' = sAnswer
        BY <1>2, <2>3 DEF Serving!Compute
      <3> QED BY <1>0, <1>k, <2>1, <3>1, ReaderKeeps
    <2> QED BY <2>2, <2>3
  <1>3. CASE Serving!Respond(r)
    <2>1. /\ UNCHANGED <<sTime, sIndexed, sCache, sWork, sFound>>
          /\ sPc' = [sPc EXCEPT ![r] = "done"] /\ sAsk' = [sAsk EXCEPT ![r] = None]
          /\ sAnswer' = [sAnswer EXCEPT ![r] = None]
      BY <1>3 DEF Serving!Respond
    <2> QED BY <2>1, ReaderKeeps
  <1>4. ASSUME NEW p \in Recommended, NEW kind \in Serving!Kinds, Serving!Request(r, p, kind)
        PROVE Serving!ServInv'
    <2>1. /\ UNCHANGED <<sTime, sIndexed, sCache, sWork, sFound, sAnswer>> /\ sPc[r] = "done"
          /\ sPc' = [sPc EXCEPT ![r] = "look"] /\ sAsk' = [sAsk EXCEPT ![r] = <<p, kind>>]
      BY <1>4 DEF Serving!Request
    <2>2. sAnswer[r] = None /\ <<p, kind>> \in Recommended \X Serving!Kinds
      BY <1>0, <2>1
    <2> QED BY <1>k, <2>1, <2>2, ReaderKeeps
  <1> QED BY <1>1, <1>2, <1>3, <1>4

\* The invariant holds in every reachable state.
THEOREM ServInvariant ==
    ASSUME Serving!ConstantsOK
    PROVE  Serving!Spec => []Serving!ServInv
  <1>1. Serving!Init => Serving!ServInv
    BY DEF Serving!ConstantsOK, Serving!Init, Serving!ServInv, Serving!ServTyped, Serving!Known
  <1>2. Serving!ServInv /\ [Serving!Next]_(Serving!vars) => Serving!ServInv'
    <2>1. CASE UNCHANGED Serving!vars
      BY <2>1 DEF Serving!vars, Serving!ServInv, Serving!ServTyped, Serving!Fits, Serving!Known
    <2> QED BY <2>1, TickServes, IndexServes, AttemptServes, ReaderServes DEF Serving!Next
  <1> QED BY <1>1, <1>2, PTL DEF Serving!Spec

\* Cached recommendations fit what was asked for, and are stale for no longer
\* than the TTL and the warm-up that wrote them, however many attempts and
\* readers there are (RecommendationCacheRepository).
THEOREM StalenessBounded ==
    ASSUME Serving!ConstantsOK
    PROVE  Serving!Spec => [](Serving!TypeOK /\ Serving!AnswersFit /\ Serving!BoundedStaleness)
  <1>0. Serving!ConstantsOK /\ Serving!ServInv => Serving!TypeOK
    BY DEF Serving!ServInv, Serving!ServTyped, Serving!Fits, Serving!Results, Serving!Known,
       Serving!ConstantsOK, Serving!TypeOK
  <1>1. Serving!ConstantsOK /\ Serving!ServInv => Serving!AnswersFit /\ Serving!BoundedStaleness
    BY DEF Serving!ServInv, Serving!ServTyped, Serving!Fits, Serving!Results, Serving!AnswersFit,
       Serving!BoundedStaleness, Serving!Known, Serving!ConstantsOK
  <1> QED BY <1>0, <1>1, ServInvariant, PTL

-----------------------------------------------------------------------------
(* Supervisor *)

\* The children are those in the list.
LEMMA Members ==
    ASSUME Service!ConstantsOK
    PROVE  /\ Len(Children) \in Nat
           /\ \A i \in 1..Len(Children) : Children[i] \in Service!Set
           /\ \A c \in Service!Set : \E i \in 1..Len(Children) : c = Children[i]
  BY DEF Service!ConstantsOK, Service!Set, Service!ToSet

\* Every step of the script and of its children keeps the invariant.
LEMMA ServiceStep ==
    ASSUME Service!ConstantsOK, Service!ServiceInv, [Service!Next]_(Service!vars)
    PROVE  Service!ServiceInv'
  <1> USE Members DEF Service!ServiceInv, Service!TypeOK, Service!Ended
  <1>1. CASE Service!Spawn
    BY <1>1 DEF Service!Spawn
  <1>2. CASE Service!SpawnFails
    BY <1>2 DEF Service!SpawnFails
  <1>3. CASE Service!InstallHandlers
    BY <1>3 DEF Service!InstallHandlers
  <1>4. CASE Service!Signal
    <2>1. CASE uHandling
      <3>1. /\ uExit = "none" /\ ~uDown /\ uDown' = TRUE /\ uWaiting = 0
            /\ UNCHANGED <<uStarted, uHandling, uWaiting, uExit>>
        BY <1>4, <2>1 DEF Service!Signal
      <3>2. /\ uChild' = Service!Terminated
            /\ Service!Terminated \in [Service!Set -> {"absent", "up", "stopping"} \cup Service!Ended]
        BY <1>4, <2>1 DEF Service!Signal, Service!Terminated
      <3> QED BY <2>1, <3>1, <3>2
    <2>2. CASE ~uHandling
      BY <1>4, <2>2 DEF Service!Signal
    <2> QED BY <2>1, <2>2
  <1>5. CASE Service!Poll
    BY <1>5 DEF Service!Poll, Service!Terminated
  <1>6. CASE Service!Wait
    BY <1>6 DEF Service!Wait
  <1>7. CASE Service!Exit
    BY <1>7 DEF Service!Exit
  <1>8. ASSUME NEW c \in Service!Set, Service!ChildEnds(c) PROVE Service!ServiceInv'
    BY <1>8 DEF Service!ChildEnds
  <1>9. CASE UNCHANGED Service!vars
    BY <1>9 DEF Service!vars
  <1> QED BY <1>1, <1>2, <1>3, <1>4, <1>5, <1>6, <1>7, <1>8, <1>9 DEF Service!Next

\* The invariant holds in every reachable state.
THEOREM ServiceInvariant ==
    ASSUME Service!ConstantsOK
    PROVE  Service!Spec => []Service!ServiceInv
  <1>1. Service!Init => Service!ServiceInv
    <2> SUFFICES ASSUME Service!Init PROVE Service!ServiceInv
      OBVIOUS
    <2>1. uStarted = 0 /\ uWaiting = 0 /\ uExit = "none" /\ ~uHandling /\ ~uDown
      BY DEF Service!Init
    <2>3. {uHandling, uDown} \subseteq BOOLEAN
      BY Zenon DEF Service!Init
    <2>4. Len(Children) \in Nat
      BY Members
    <2>2. uChild \in [Service!Set -> {"absent", "up", "stopping"} \cup Service!Ended]
      BY DEF Service!Init
    <2>5. Service!TypeOK
      BY <2>1, <2>2, <2>3, <2>4 DEF Service!TypeOK
    <2> QED BY <2>1, <2>5 DEF Service!ServiceInv
  <1>2. Service!ServiceInv /\ [Service!Next]_(Service!vars) => Service!ServiceInv'
    BY ServiceStep
  <1> QED BY <1>1, <1>2, PTL DEF Service!Spec

\* Once the script has ended by itself, no child of any list is alive
\* (start_all.py).
THEOREM NoChildLeft ==
    ASSUME Service!ConstantsOK
    PROVE  Service!Spec => []Service!LeavesNothing
  <1>1. Service!ServiceInv => Service!LeavesNothing
    BY Members DEF Service!ServiceInv, Service!TypeOK, Service!LeavesNothing, Service!Ended,
       Service!Alive
  <1> QED BY <1>1, ServiceInvariant, PTL

-----------------------------------------------------------------------------
(* UploadView *)

\* A submission begins with no history: nothing of an earlier one is shown.
LEMMA SubmitStep ==
    ASSUME Page!ConstantsOK, Page!IInv, NEW u \in Submissions, Page!Submit(u)
    PROVE  Page!IInv'
  <1> USE DEF Page!ConstantsOK, Page!IInv, Page!Submit, Page!serverVars, Page!Statuses,
              Page!Terminal
  <1>1. Page!TypeOK'
    BY DEF Page!TypeOK
  <1>2. Page!SentInv' /\ Page!JobInv'
    BY DEF Page!TypeOK, Page!SentInv, Page!JobInv
  <1>3. Page!ShownInv'
    BY DEF Page!TypeOK, Page!ShownInv, Page!ShowsItsOwn
  <1> QED BY <1>1, <1>2, <1>3

\* Cancelling detaches the view, whether or not the server hears of it.
LEMMA CancelStep ==
    ASSUME Page!ConstantsOK, Page!IInv, Page!Cancel
    PROVE  Page!IInv'
  <1> USE DEF Page!ConstantsOK, Page!IInv, Page!Cancel, Page!serverVars, Page!Statuses,
              Page!Terminal
  <1>1. vWatched \in Submissions
    BY DEF Page!SentInv
  <1>2. Page!TypeOK'
    BY <1>1 DEF Page!TypeOK
  <1>3. Page!SentInv' /\ Page!JobInv'
    BY <1>1 DEF Page!TypeOK, Page!SentInv, Page!JobInv
  <1>4. Page!ShownInv'
    BY <1>1 DEF Page!TypeOK, Page!ShownInv, Page!ShowsItsOwn
  <1> QED BY <1>2, <1>3, <1>4

\* Only what befell the submission that is watched settles the view.
LEMMA AnswerStep ==
    ASSUME Page!ConstantsOK, Page!IInv, NEW u \in Submissions, Page!Answer(u)
    PROVE  Page!IInv'
  <1> USE DEF Page!ConstantsOK, Page!IInv, Page!Answer, Page!Settle, Page!Navigate,
              Page!serverVars, Page!Statuses, Page!Terminal
  <1>1. Page!TypeOK'
    BY DEF Page!TypeOK
  <1>2. Page!SentInv' /\ Page!JobInv'
    BY DEF Page!TypeOK, Page!SentInv, Page!JobInv
  <1>3. Page!ShownInv'
    <2>1. CASE vWatched = u /\ vPhase = "uploading"
      BY <2>1 DEF Page!TypeOK, Page!SentInv, Page!JobInv, Page!ShownInv, Page!ShowsItsOwn
    <2>2. CASE ~(vWatched = u /\ vPhase = "uploading")
      BY <2>2 DEF Page!TypeOK, Page!SentInv, Page!JobInv, Page!ShownInv, Page!ShowsItsOwn
    <2> QED BY <2>1, <2>2
  <1> QED BY <1>1, <1>2, <1>3

\* A time-out is reported with a message, whatever the server does next.
LEMMA TimeOutStep ==
    ASSUME Page!ConstantsOK, Page!IInv, NEW u \in Submissions, Page!TimeOut(u)
    PROVE  Page!IInv'
  <1> USE DEF Page!ConstantsOK, Page!IInv, Page!TimeOut, Page!Settle, Page!Navigate,
              Page!serverVars, Page!Statuses, Page!Terminal
  <1>1. Page!TypeOK'
    BY DEF Page!TypeOK
  <1>2. Page!SentInv' /\ Page!JobInv'
    BY DEF Page!TypeOK, Page!SentInv, Page!JobInv
  <1>3. Page!ShownInv'
    BY DEF Page!TypeOK, Page!SentInv, Page!ShownInv, Page!ShowsItsOwn
  <1> QED BY <1>1, <1>2, <1>3

\* A poll brings what the job of the watched submission once was.
LEMMA PollStep ==
    ASSUME Page!ConstantsOK, Page!IInv, Page!PollStarts \/ Page!PollFails \/ Page!PollEnds
    PROVE  Page!IInv'
  <1> USE DEF Page!ConstantsOK, Page!IInv, Page!Navigate, Page!serverVars, Page!Statuses,
              Page!Terminal
  <1>1. CASE Page!PollStarts
    <2>1. vWatched \in Submissions
      BY <1>1 DEF Page!PollStarts, Page!Polling, Page!SentInv
    <2>2. Page!TypeOK'
      BY <1>1, <2>1 DEF Page!PollStarts, Page!Polling, Page!TypeOK, Page!ShownInv, Page!ShowsItsOwn
    <2>3. Page!SentInv' /\ Page!JobInv'
      BY <1>1 DEF Page!PollStarts, Page!SentInv, Page!JobInv
    <2>4. Page!ShownInv'
      BY <1>1, <2>1 DEF Page!PollStarts, Page!Polling, Page!TypeOK, Page!JobInv, Page!ShownInv,
         Page!ShowsItsOwn
    <2> QED BY <2>2, <2>3, <2>4
  <1>2. CASE Page!PollFails
    BY <1>2 DEF Page!PollFails, Page!TypeOK, Page!SentInv, Page!JobInv, Page!ShownInv,
       Page!ShowsItsOwn
  <1>3. CASE Page!PollEnds
    <2>1. vPhase = "processing" /\ vWatched \in Submissions
      BY <1>3 DEF Page!PollEnds, Page!SentInv, Page!ShownInv
    <2>2. Page!TypeOK'
      BY <1>3, <2>1 DEF Page!PollEnds, Page!TypeOK
    <2>3. Page!SentInv' /\ Page!JobInv'
      BY <1>3, <2>1 DEF Page!PollEnds, Page!SentInv, Page!JobInv
    <2>4. Page!ShownInv'
      BY <1>3, <2>1 DEF Page!PollEnds, Page!TypeOK, Page!SentInv, Page!ShownInv, Page!ShowsItsOwn
    <2> QED BY <2>2, <2>3, <2>4
  <1> QED BY <1>1, <1>2, <1>3

\* "Upload another" forgets the failed submission.
LEMMA ResetStep ==
    ASSUME Page!ConstantsOK, Page!IInv, Page!Reset
    PROVE  Page!IInv'
  BY DEF Page!ConstantsOK, Page!IInv, Page!Reset, Page!serverVars, Page!Statuses, Page!Terminal,
     Page!TypeOK, Page!SentInv, Page!JobInv, Page!ShownInv,
         Page!ShowsItsOwn

\* The server answers a submission it has, once.
LEMMA ReceiveStep ==
    ASSUME Page!ConstantsOK, Page!IInv, NEW u \in Submissions, Page!Receive(u)
    PROVE  Page!IInv'
  <1> USE DEF Page!ConstantsOK, Page!IInv, Page!Receive, Page!Become, Page!viewVars, Page!Statuses,
              Page!Terminal
  <1>1. Page!TypeOK'
    BY DEF Page!TypeOK
  <1>2. Page!SentInv'
    BY DEF Page!TypeOK, Page!SentInv
  <1>3. Page!JobInv'
    BY DEF Page!TypeOK, Page!JobInv
  <1>4. Page!ShownInv' BY DEF Page!TypeOK, Page!SentInv, Page!JobInv, Page!ShownInv, Page!ShowsItsOwn
  <1> QED BY <1>1, <1>2, <1>3, <1>4

\* A job moves on, and a shown status stays shown.
LEMMA WorkStep ==
    ASSUME Page!ConstantsOK, Page!IInv, NEW u \in Submissions, Page!JobStep(u) \/ Page!LateReport(u)
    PROVE  Page!IInv'
  <1> USE DEF Page!ConstantsOK, Page!IInv, Page!Become, Page!viewVars, Page!Statuses, Page!Terminal
  <1>1. CASE Page!Begin(u)
    <2>1. Page!TypeOK'
      BY <1>1 DEF Page!Begin, Page!TypeOK, Page!JobInv
    <2>2. Page!SentInv' /\ Page!JobInv'
      BY <1>1 DEF Page!Begin, Page!TypeOK, Page!SentInv, Page!JobInv
    <2>3. Page!ShownInv'
      BY <1>1 DEF Page!Begin, Page!TypeOK, Page!SentInv, Page!ShownInv, Page!ShowsItsOwn
    <2> QED BY <2>1, <2>2, <2>3
  <1>2. CASE Page!End(u)
    <2>1. Page!TypeOK'
      BY <1>2 DEF Page!End, Page!TypeOK
    <2>2. Page!SentInv'
      BY <1>2 DEF Page!End, Page!SentInv
    <2>3. Page!JobInv'
      <3>1. PICK status \in Page!Statuses :
              /\ Page!Become(u, status) /\ UNCHANGED <<vFlight, vTries>>
              /\ status = "pending" => vTries[u] < MaxTries
        BY <1>2 DEF Page!End
      <3>2. vJob[u] = "running"
        BY <1>2 DEF Page!End
      <3> QED BY <3>1, <3>2 DEF Page!TypeOK, Page!JobInv
    <2>4. Page!ShownInv'
      BY <1>2 DEF Page!End, Page!TypeOK, Page!SentInv, Page!ShownInv, Page!ShowsItsOwn
    <2> QED BY <2>1, <2>2, <2>3, <2>4
  <1>3. CASE Page!LateReport(u)
    <2>1. Page!TypeOK'
      BY <1>3 DEF Page!LateReport, Page!TypeOK
    <2>2. Page!SentInv' /\ Page!JobInv'
      BY <1>3 DEF Page!LateReport, Page!TypeOK, Page!SentInv, Page!JobInv
    <2>3. Page!ShownInv'
      BY <1>3 DEF Page!LateReport, Page!TypeOK, Page!SentInv, Page!ShownInv, Page!ShowsItsOwn
    <2> QED BY <2>1, <2>2, <2>3
  <1> QED BY <1>1, <1>2, <1>3 DEF Page!JobStep

\* The inductive invariant of the upload page (upload-view.tsx, queries.ts).
THEOREM PageInvariant ==
    ASSUME Page!ConstantsOK
    PROVE  Page!Spec => []Page!IInv
  <1>1. Page!Init => Page!IInv
    <2> SUFFICES ASSUME Page!Init PROVE Page!IInv
      OBVIOUS
    <2> USE DEF Page!ConstantsOK, Page!Init, Page!Statuses, Page!Terminal
    <2>1. Page!TypeOK
      <3>1. vShown \in [Submissions -> SUBSET Page!Terminal] /\ vTries \in [Submissions -> 0..MaxTries]
        OBVIOUS
      <3>2. 0 \in 0..MaxLate /\ 0 \in 0..FewFaults
        OBVIOUS
      <3> QED BY <3>1, <3>2 DEF Page!TypeOK
    <2>2. Page!SentInv /\ Page!JobInv
      BY DEF Page!SentInv, Page!JobInv
    <2>3. Page!ShownInv
      BY DEF Page!ShownInv, Page!ShowsItsOwn
    <2> QED BY <2>1, <2>2, <2>3 DEF Page!IInv
  <1>2. Page!IInv /\ [Page!Next]_(Page!vars) => Page!IInv'
    <2> SUFFICES ASSUME Page!IInv, [Page!Next]_(Page!vars) PROVE Page!IInv'
      OBVIOUS
    <2>1. CASE Page!Next
      BY <2>1, SubmitStep, CancelStep, AnswerStep, TimeOutStep, PollStep, ResetStep, ReceiveStep,
         WorkStep
         DEF Page!Next, Page!JobStep
    <2>2. CASE UNCHANGED Page!vars
      BY <2>2 DEF Page!vars, Page!IInv, Page!TypeOK, Page!SentInv, Page!JobInv, Page!ShownInv,
         Page!ShowsItsOwn
    <2> QED BY <2>1, <2>2
  <1> QED BY <1>1, <1>2, PTL DEF Page!Spec

\* The page never shows what became of another submission, or of one that the
\* user cancelled.
THEOREM PageShowsItsOwn ==
    ASSUME Page!ConstantsOK
    PROVE  Page!Spec => []Page!ShowsItsOwn
  <1>1. Page!IInv => Page!ShowsItsOwn
    BY DEF Page!IInv, Page!ShownInv
  <1> QED BY <1>1, PageInvariant, PTL

-----------------------------------------------------------------------------
(* Session *)

\* Types; a key about to be set is one.
LEMMA StepTyped ==
    ASSUME Browser!TypeOK, Browser!OwnInv, NEW t \in Clients, Browser!Step(t)
    PROVE  Browser!TypeOK'
  <1> USE DEF Browser!TypeOK, Browser!Goto, Browser!Disturbs, Browser!Hold, Browser!RemoveKey,
              Browser!NoArg, Browser!Found, Browser!Scopes
  <1>1. CASE Browser!Hydrate(t)      BY <1>1 DEF Browser!Hydrate
  <1>2. CASE Browser!ReadKey(t)      BY <1>2 DEF Browser!ReadKey
  <1>3. ASSUME NEW k \in PersonalKeys, NEW scope \in Browser!Scopes, Browser!SignIn(t, k, scope)
        PROVE Browser!TypeOK'
    BY <1>3 DEF Browser!SignIn
  <1>4. CASE Browser!ClearOther(t)   BY <1>4 DEF Browser!ClearOther
  <1>5. CASE Browser!SetKey(t)
    <2>1. kArg[t].key \in PersonalKeys
      BY <1>5 DEF Browser!SetKey, Browser!OwnInv
    <2>2. kOwn' \in [Clients -> SUBSET PersonalKeys]
      BY <1>5, <2>1 DEF Browser!SetKey
    <2> QED BY <1>5, <2>1, <2>2 DEF Browser!SetKey
  <1>6. CASE Browser!SetScope(t)     BY <1>6 DEF Browser!SetScope
  <1>7. CASE Browser!SignOut(t)      BY <1>7 DEF Browser!SignOut
  <1>8. CASE Browser!ClearSession(t) BY <1>8 DEF Browser!ClearSession
  <1>9. CASE Browser!ClearLocal(t)   BY <1>9 DEF Browser!ClearLocal
  <1>10. CASE Browser!ClearScope(t)  BY <1>10 DEF Browser!ClearScope
  <1>11. CASE Browser!Reload(t)      BY <1>11 DEF Browser!Reload
  <1>12. CASE Browser!Reopen(t)      BY <1>12 DEF Browser!Reopen
  <1>13. CASE Browser!LoadThrows(t)  BY <1>13 DEF Browser!LoadThrows, Browser!Ends
  <1>14. CASE Browser!SaveThrows(t)
    <2>1. /\ kArg[t].key \in PersonalKeys \cup {None} /\ kOwn' = [kOwn EXCEPT ![t] = @ \cup {kArg[t].key}]
          /\ kArg[t].key \in PersonalKeys
      BY <1>14 DEF Browser!SaveThrows, Browser!OwnInv
    <2> QED BY <1>14, <2>1 DEF Browser!SaveThrows, Browser!Ends
  <1>15. CASE Browser!ClearThrows(t) BY <1>15 DEF Browser!ClearThrows, Browser!Ends
  <1> QED BY <1>1, <1>2, <1>3, <1>4, <1>5, <1>6, <1>7, <1>8, <1>9, <1>10, <1>11,
             <1>12, <1>13, <1>14, <1>15 DEF Browser!Step

\* No step brings a tab to a key that is not its own.
LEMMA StepKeepsOwn ==
    ASSUME Browser!TypeOK, Browser!OwnInv, NEW t \in Clients, Browser!Step(t)
    PROVE  Browser!OwnInv'
  <1> USE DEF Browser!TypeOK, Browser!OwnInv, Browser!Goto, Browser!Disturbs, Browser!Hold,
              Browser!RemoveKey, Browser!NoArg, Browser!Found
  <1>1. CASE Browser!Hydrate(t)      BY <1>1 DEF Browser!Hydrate
  <1>2. CASE Browser!ReadKey(t)      BY <1>2 DEF Browser!ReadKey
  <1>3. ASSUME NEW k \in PersonalKeys, NEW scope \in Browser!Scopes, Browser!SignIn(t, k, scope)
        PROVE Browser!OwnInv'
    BY <1>3 DEF Browser!SignIn
  <1>4. CASE Browser!ClearOther(t)   BY <1>4 DEF Browser!ClearOther
  <1>5. CASE Browser!SetKey(t)       BY <1>5 DEF Browser!SetKey
  <1>6. CASE Browser!SetScope(t)     BY <1>6 DEF Browser!SetScope
  <1>7. CASE Browser!SignOut(t)      BY <1>7 DEF Browser!SignOut
  <1>8. CASE Browser!ClearSession(t) BY <1>8 DEF Browser!ClearSession
  <1>9. CASE Browser!ClearLocal(t)   BY <1>9 DEF Browser!ClearLocal
  <1>10. CASE Browser!ClearScope(t)  BY <1>10 DEF Browser!ClearScope
  <1>11. CASE Browser!Reload(t)      BY <1>11 DEF Browser!Reload
  <1>12. CASE Browser!Reopen(t)      BY <1>12 DEF Browser!Reopen
  <1>13. CASE Browser!LoadThrows(t)  BY <1>13 DEF Browser!LoadThrows, Browser!Ends
  <1>14. CASE Browser!SaveThrows(t)  BY <1>14 DEF Browser!SaveThrows, Browser!Ends
  <1>15. CASE Browser!ClearThrows(t) BY <1>15 DEF Browser!ClearThrows, Browser!Ends
  <1> QED BY <1>1, <1>2, <1>3, <1>4, <1>5, <1>6, <1>7, <1>8, <1>9, <1>10, <1>11,
             <1>12, <1>13, <1>14, <1>15 DEF Browser!Step

\* A step of a tab disturbs the others when it changes what they look at.
LEMMA StepKeepsAlone ==
    ASSUME Browser!ConstantsOK, Browser!TypeOK, Browser!AloneInv, NEW t \in Clients, Browser!Step(t)
    PROVE  Browser!AloneInv'
  <1> USE DEF Browser!TypeOK, Browser!AloneInv, Browser!ReloadKeepsSession, Browser!Persisted,
              Browser!Goto, Browser!Disturbs, Browser!Hold, Browser!RemoveKey, Browser!NoArg
  <1>1. CASE Browser!Hydrate(t)      BY <1>1 DEF Browser!Hydrate
  <1>2. CASE Browser!ReadKey(t)      BY <1>2 DEF Browser!ReadKey
  <1>3. ASSUME NEW k \in PersonalKeys, NEW scope \in Browser!Scopes, Browser!SignIn(t, k, scope)
        PROVE Browser!AloneInv'
    BY <1>3 DEF Browser!SignIn
  <1>4. CASE Browser!ClearOther(t)
    <2>1. CASE kArg[t].scope = "local" BY <1>4, <2>1 DEF Browser!ClearOther
    <2>2. CASE kArg[t].scope # "local" BY ZenonT(60), <1>4, <2>2 DEF Browser!ClearOther
    <2> QED BY <2>1, <2>2
  <1>5. CASE Browser!SetKey(t)
    <2>1. CASE kArg[t].scope = "local" BY ZenonT(60), <1>5, <2>1 DEF Browser!SetKey
    <2>2. CASE kArg[t].scope # "local" BY <1>5, <2>2 DEF Browser!SetKey
    <2> QED BY <2>1, <2>2
  <1>6. CASE Browser!SetScope(t)     BY ZenonT(60), <1>6 DEF Browser!SetScope, Browser!Scopes
  <1>7. CASE Browser!SignOut(t)      BY <1>7 DEF Browser!SignOut
  <1>8. CASE Browser!ClearSession(t) BY <1>8 DEF Browser!ClearSession
  <1>9. CASE Browser!ClearLocal(t)   BY ZenonT(60), <1>9 DEF Browser!ClearLocal
  <1>10. CASE Browser!ClearScope(t)
    <2>1. \A u \in Clients \ {t} : ~kAlone'[u]
      BY <1>10 DEF Browser!ClearScope
    <2>2. kLocalScope' # "local" /\ kHeld'[t] = None /\ kSession'[t] = None /\ kPc'[t] = "idle"
      BY <1>10 DEF Browser!ClearScope, Browser!ConstantsOK
    <2>3. \A u \in Clients \ {t} : kPc'[u] = kPc[u] /\ kSession'[u] = kSession[u] /\ kArg'[u] = kArg[u]
      BY <1>10 DEF Browser!ClearScope
    <2> QED BY <2>1, <2>2, <2>3
  <1>11. CASE Browser!Reload(t)      BY <1>11 DEF Browser!Reload
  <1>12. CASE Browser!Reopen(t)      BY <1>12 DEF Browser!Reopen
  <1>13. CASE Browser!LoadThrows(t)  BY <1>13 DEF Browser!LoadThrows, Browser!Ends
  <1>14. CASE Browser!SaveThrows(t)  BY <1>14 DEF Browser!SaveThrows, Browser!Ends
  <1>15. CASE Browser!ClearThrows(t) BY <1>15 DEF Browser!ClearThrows, Browser!Ends
  <1> QED BY <1>1, <1>2, <1>3, <1>4, <1>5, <1>6, <1>7, <1>8, <1>9, <1>10, <1>11,
             <1>12, <1>13, <1>14, <1>15 DEF Browser!Step

\* Both invariants, with the types, hold whatever the tabs do between each
\* other's accesses to localStorage (lib/auth/storage.ts).
THEOREM SessionInvariant ==
    ASSUME Browser!ConstantsOK
    PROVE  Browser!Spec => [](Browser!TypeOK /\ Browser!OwnInv /\ Browser!AloneInv)
  <1>1. Browser!Init => Browser!TypeOK /\ Browser!OwnInv /\ Browser!AloneInv
    BY DEF Browser!Init, Browser!TypeOK, Browser!OwnInv, Browser!AloneInv,
       Browser!ReloadKeepsSession, Browser!Persisted, Browser!Found, Browser!NoArg, Browser!Scopes
  <1>2. Browser!TypeOK /\ Browser!OwnInv /\ Browser!AloneInv /\ [Browser!Next]_(Browser!vars)
        => (Browser!TypeOK /\ Browser!OwnInv /\ Browser!AloneInv)'
    <2> SUFFICES ASSUME Browser!TypeOK, Browser!OwnInv, Browser!AloneInv, [Browser!Next]_(Browser!vars)
                 PROVE  (Browser!TypeOK /\ Browser!OwnInv /\ Browser!AloneInv)'
      OBVIOUS
    <2>1. ASSUME NEW t \in Clients, Browser!Step(t)
          PROVE (Browser!TypeOK /\ Browser!OwnInv /\ Browser!AloneInv)'
      BY <2>1, StepTyped, StepKeepsOwn, StepKeepsAlone
    <2>2. CASE UNCHANGED Browser!vars
      BY <2>2 DEF Browser!vars, Browser!TypeOK, Browser!OwnInv, Browser!AloneInv,
         Browser!ReloadKeepsSession, Browser!Persisted
    <2> QED BY <2>1, <2>2 DEF Browser!Next, Browser!Step
  <1> QED BY <1>1, <1>2, PTL DEF Browser!Spec

\* A tab acts with no key but its own, or one it failed to remove.
THEOREM NoForeignKey ==
    ASSUME Browser!ConstantsOK
    PROVE  Browser!Spec => []Browser!KeysForgotten
  <1>1. Browser!OwnInv => Browser!KeysForgotten
    BY DEF Browser!OwnInv, Browser!KeysForgotten, Browser!Persisted, Browser!Found
  <1> QED BY <1>1, SessionInvariant, PTL

\* A reload restores the session that no other tab wrote over and whose
\* accesses did not throw.
THEOREM ReloadRestores ==
    ASSUME Browser!ConstantsOK
    PROVE  Browser!Spec => []Browser!ReloadKeepsSession
  <1>1. Browser!AloneInv => Browser!ReloadKeepsSession
    BY DEF Browser!AloneInv
  <1> QED BY <1>1, SessionInvariant, PTL

-----------------------------------------------------------------------------
(* The parts.  Which of them moves is settled at the start, and a behaviour *)
(* of PartsSpec is one of that part's own specification.                    *)

\* What a behaviour is to part "models".
LEMMA ModelsMoves ==
    PartsSpec => []~(part = "models") \/ (Models!Spec /\ [](part = "models"))
  <1>1. PartsInit /\ part = "models" => Models!Init
    BY DEF PartsInit
  <1>2. [PartsNext]_allVars /\ part = "models" => [Models!Next]_(Models!vars)
    BY DEF PartsNext, Only, allVars, mVars, Models!vars
  <1>3. /\ [PartsNext]_allVars /\ part = "models" => (part = "models")'
        /\ [PartsNext]_allVars /\ ~(part = "models") => ~(part = "models")'
    BY DEF PartsNext, Only, allVars
  <1>4. Models!Init /\ [][Models!Next]_(Models!vars) => Models!Spec
    BY DEF Models!Spec
  <1> QED BY <1>1, <1>2, <1>3, <1>4, PTL DEF PartsSpec

\* What a behaviour is to part "collection".
LEMMA CollectionMoves ==
    PartsSpec => []~(part = "collection") \/ (Collection!Spec /\ [](part = "collection"))
  <1>1. PartsInit /\ part = "collection" => Collection!Init
    BY DEF PartsInit
  <1>2. [PartsNext]_allVars /\ part = "collection" => [Collection!Next]_(Collection!vars)
    BY DEF PartsNext, Only, allVars, cVars, Collection!vars
  <1>3. /\ [PartsNext]_allVars /\ part = "collection" => (part = "collection")'
        /\ [PartsNext]_allVars /\ ~(part = "collection") => ~(part = "collection")'
    BY DEF PartsNext, Only, allVars
  <1>4. Collection!Init /\ [][Collection!Next]_(Collection!vars) => Collection!Spec
    BY DEF Collection!Spec
  <1> QED BY <1>1, <1>2, <1>3, <1>4, PTL DEF PartsSpec

\* What a behaviour is to part "race".
LEMMA RaceMoves ==
    PartsSpec => []~(part = "race") \/ (Race!Spec /\ [](part = "race"))
  <1>1. PartsInit /\ part = "race" => Race!Init
    BY DEF PartsInit
  <1>2. [PartsNext]_allVars /\ part = "race" => [Race!Next]_(Race!vars)
    BY DEF PartsNext, Only, allVars, eVars, Race!vars
  <1>3. /\ [PartsNext]_allVars /\ part = "race" => (part = "race")'
        /\ [PartsNext]_allVars /\ ~(part = "race") => ~(part = "race")'
    BY DEF PartsNext, Only, allVars
  <1>4. Race!Init /\ [][Race!Next]_(Race!vars) => Race!Spec
    BY DEF Race!Spec
  <1> QED BY <1>1, <1>2, <1>3, <1>4, PTL DEF PartsSpec

\* What a behaviour is to part "tenants".
LEMMA TwoMoves ==
    PartsSpec => []~(part = "tenants") \/ (Two!Spec /\ [](part = "tenants"))
  <1>1. PartsInit /\ part = "tenants" => Two!Init
    BY DEF PartsInit
  <1>2. [PartsNext]_allVars /\ part = "tenants" => [Two!Next]_(Two!vars)
    BY DEF PartsNext, Only, allVars, eVars, Two!vars
  <1>3. /\ [PartsNext]_allVars /\ part = "tenants" => (part = "tenants")'
        /\ [PartsNext]_allVars /\ ~(part = "tenants") => ~(part = "tenants")'
    BY DEF PartsNext, Only, allVars
  <1>4. Two!Init /\ [][Two!Next]_(Two!vars) => Two!Spec
    BY DEF Two!Spec
  <1> QED BY <1>1, <1>2, <1>3, <1>4, PTL DEF PartsSpec

\* What a behaviour is to part "quota".
LEMMA QuotaMoves ==
    PartsSpec => []~(part = "quota") \/ (Quota!Spec /\ [](part = "quota"))
  <1>1. PartsInit /\ part = "quota" => Quota!Init
    BY DEF PartsInit
  <1>2. [PartsNext]_allVars /\ part = "quota" => [Quota!Next]_(Quota!vars)
    BY DEF PartsNext, Only, allVars, qVars, Quota!vars
  <1>3. /\ [PartsNext]_allVars /\ part = "quota" => (part = "quota")'
        /\ [PartsNext]_allVars /\ ~(part = "quota") => ~(part = "quota")'
    BY DEF PartsNext, Only, allVars
  <1>4. Quota!Init /\ [][Quota!Next]_(Quota!vars) => Quota!Spec
    BY DEF Quota!Spec
  <1> QED BY <1>1, <1>2, <1>3, <1>4, PTL DEF PartsSpec

\* What a behaviour is to part "serving".
LEMMA ServingMoves ==
    PartsSpec => []~(part = "serving") \/ (Serving!Spec /\ [](part = "serving"))
  <1>1. PartsInit /\ part = "serving" => Serving!Init
    BY DEF PartsInit
  <1>2. [PartsNext]_allVars /\ part = "serving" => [Serving!Next]_(Serving!vars)
    BY DEF PartsNext, Only, allVars, sVars, Serving!vars
  <1>3. /\ [PartsNext]_allVars /\ part = "serving" => (part = "serving")'
        /\ [PartsNext]_allVars /\ ~(part = "serving") => ~(part = "serving")'
    BY DEF PartsNext, Only, allVars
  <1>4. Serving!Init /\ [][Serving!Next]_(Serving!vars) => Serving!Spec
    BY DEF Serving!Spec
  <1> QED BY <1>1, <1>2, <1>3, <1>4, PTL DEF PartsSpec

\* What a behaviour is to part "files".
LEMMA FilesMoves ==
    PartsSpec => []~(part = "files") \/ (Files!Spec /\ [](part = "files"))
  <1>1. PartsInit /\ part = "files" => Files!Init
    BY DEF PartsInit
  <1>2. [PartsNext]_allVars /\ part = "files" => [Files!Next]_(Files!vars)
    BY DEF PartsNext, Only, allVars, fVars, Files!vars, Files!streamVars, Files!attemptVars, Files!readVars
  <1>3. /\ [PartsNext]_allVars /\ part = "files" => (part = "files")'
        /\ [PartsNext]_allVars /\ ~(part = "files") => ~(part = "files")'
    BY DEF PartsNext, Only, allVars
  <1>4. Files!Init /\ [][Files!Next]_(Files!vars) => Files!Spec
    BY DEF Files!Spec
  <1> QED BY <1>1, <1>2, <1>3, <1>4, PTL DEF PartsSpec

\* What a behaviour is to part "registry".
LEMMA RegistryMoves ==
    PartsSpec => []~(part = "registry") \/ (Registry!Spec /\ [](part = "registry"))
  <1>1. PartsInit /\ part = "registry" => Registry!Init
    BY DEF PartsInit
  <1>2. [PartsNext]_allVars /\ part = "registry" => [Registry!Next]_(Registry!vars)
    BY DEF PartsNext, Only, allVars, rVars, Registry!vars
  <1>3. /\ [PartsNext]_allVars /\ part = "registry" => (part = "registry")'
        /\ [PartsNext]_allVars /\ ~(part = "registry") => ~(part = "registry")'
    BY DEF PartsNext, Only, allVars
  <1>4. Registry!Init /\ [][Registry!Next]_(Registry!vars) => Registry!Spec
    BY DEF Registry!Spec
  <1> QED BY <1>1, <1>2, <1>3, <1>4, PTL DEF PartsSpec

\* What a behaviour is to part "analytics".
LEMMA AnalyticsMoves ==
    PartsSpec => []~(part = "analytics") \/ (Analytics!Spec /\ [](part = "analytics"))
  <1>1. PartsInit /\ part = "analytics" => Analytics!Init
    BY DEF PartsInit
  <1>2. [PartsNext]_allVars /\ part = "analytics" => [Analytics!Next]_(Analytics!vars)
    BY DEF PartsNext, Only, allVars, aVars, Analytics!vars, Analytics!keyVars, Analytics!readVars
  <1>3. /\ [PartsNext]_allVars /\ part = "analytics" => (part = "analytics")'
        /\ [PartsNext]_allVars /\ ~(part = "analytics") => ~(part = "analytics")'
    BY DEF PartsNext, Only, allVars
  <1>4. Analytics!Init /\ [][Analytics!Next]_(Analytics!vars) => Analytics!Spec
    BY DEF Analytics!Spec
  <1> QED BY <1>1, <1>2, <1>3, <1>4, PTL DEF PartsSpec

\* What a behaviour is to part "seeding".
LEMMA SeedingMoves ==
    PartsSpec => []~(part = "seeding") \/ (Seeding!Spec /\ [](part = "seeding"))
  <1>1. PartsInit /\ part = "seeding" => Seeding!Init
    BY DEF PartsInit
  <1>2. [PartsNext]_allVars /\ part = "seeding" => [Seeding!Next]_(Seeding!vars)
    BY DEF PartsNext, Only, allVars, dVars, Seeding!vars, Seeding!client, Seeding!deployment
  <1>3. /\ [PartsNext]_allVars /\ part = "seeding" => (part = "seeding")'
        /\ [PartsNext]_allVars /\ ~(part = "seeding") => ~(part = "seeding")'
    BY DEF PartsNext, Only, allVars
  <1>4. Seeding!Init /\ [][Seeding!Next]_(Seeding!vars) => Seeding!Spec
    BY DEF Seeding!Spec
  <1> QED BY <1>1, <1>2, <1>3, <1>4, PTL DEF PartsSpec

\* What a behaviour is to part "service".
LEMMA ServiceMoves ==
    PartsSpec => []~(part = "service") \/ (Service!Spec /\ [](part = "service"))
  <1>1. PartsInit /\ part = "service" => Service!Init
    BY DEF PartsInit
  <1>2. [PartsNext]_allVars /\ part = "service" => [Service!Next]_(Service!vars)
    BY DEF PartsNext, Only, allVars, uVars, Service!vars
  <1>3. /\ [PartsNext]_allVars /\ part = "service" => (part = "service")'
        /\ [PartsNext]_allVars /\ ~(part = "service") => ~(part = "service")'
    BY DEF PartsNext, Only, allVars
  <1>4. Service!Init /\ [][Service!Next]_(Service!vars) => Service!Spec
    BY DEF Service!Spec
  <1> QED BY <1>1, <1>2, <1>3, <1>4, PTL DEF PartsSpec

\* What a behaviour is to part "page".
LEMMA PageMoves ==
    PartsSpec => []~(part = "page") \/ (Page!Spec /\ [](part = "page"))
  <1>1. PartsInit /\ part = "page" => Page!Init
    BY DEF PartsInit
  <1>2. [PartsNext]_allVars /\ part = "page" => [Page!Next]_(Page!vars)
    BY DEF PartsNext, Only, allVars, vVars, Page!vars
  <1>3. /\ [PartsNext]_allVars /\ part = "page" => (part = "page")'
        /\ [PartsNext]_allVars /\ ~(part = "page") => ~(part = "page")'
    BY DEF PartsNext, Only, allVars
  <1>4. Page!Init /\ [][Page!Next]_(Page!vars) => Page!Spec
    BY DEF Page!Spec
  <1> QED BY <1>1, <1>2, <1>3, <1>4, PTL DEF PartsSpec

\* What a behaviour is to part "browser".
LEMMA BrowserMoves ==
    PartsSpec => []~(part = "browser") \/ (Browser!Spec /\ [](part = "browser"))
  <1>1. PartsInit /\ part = "browser" => Browser!Init
    BY DEF PartsInit
  <1>2. [PartsNext]_allVars /\ part = "browser" => [Browser!Next]_(Browser!vars)
    BY DEF PartsNext, Only, allVars, kVars, Browser!vars
  <1>3. /\ [PartsNext]_allVars /\ part = "browser" => (part = "browser")'
        /\ [PartsNext]_allVars /\ ~(part = "browser") => ~(part = "browser")'
    BY DEF PartsNext, Only, allVars
  <1>4. Browser!Init /\ [][Browser!Next]_(Browser!vars) => Browser!Spec
    BY DEF Browser!Spec
  <1> QED BY <1>1, <1>2, <1>3, <1>4, PTL DEF PartsSpec

\* What a behaviour is to ProductIngest.
LEMMA IngestMoves ==
    PartsSpec => []~(part = "ingest") \/ (Spec /\ [](part = "ingest"))
  <1>1. PartsInit /\ part = "ingest" => Init
    BY DEF PartsInit
  <1>2. [PartsNext]_allVars /\ part = "ingest" => [Next]_vars
    BY DEF PartsNext, Only, allVars
  <1>3. /\ [PartsNext]_allVars /\ part = "ingest" => (part = "ingest")'
        /\ [PartsNext]_allVars /\ ~(part = "ingest") => ~(part = "ingest")'
    BY DEF PartsNext, Only, allVars
  <1> QED BY <1>1, <1>2, <1>3, PTL DEF PartsSpec, Spec

-----------------------------------------------------------------------------
(* What the runs check of the parts, for every value of the constants.      *)

\* Every part keeps to its types.
THEOREM TypesKept == PartsSpec => []Types
  <1> DEFINE Serve == /\ part = "models" => Models!TypeOK
                      /\ part = "collection" => Collection!TypeOK
                      /\ part = "race" => Race!TypeOK
                      /\ part = "tenants" => Two!TypeOK
                      /\ part = "quota" => Quota!TypeOK
             Keep == /\ part = "serving" => Serving!TypeOK
                     /\ part = "files" => Files!TypeOK
                     /\ part = "registry" => Registry!TypeOK
                     /\ part = "analytics" => Analytics!TypeOK
                     /\ part = "seeding" => Seeding!TypeOK
             Show == /\ part = "service" => Service!TypeOK
                     /\ part = "page" => Page!TypeOK
                     /\ part = "browser" => Browser!TypeOK
                     /\ part = "ingest" => TypeOK
  <1>1. PartsSpec => [](part = "models" => Models!TypeOK)
    <2>1. Models!IInv => Models!TypeOK
      BY DEF Models!IInv
    <2> QED BY <2>1, ModelsMoves, ModelsAssumption, LoadingInvariant, PTL
  <1>2. PartsSpec => [](part = "collection" => Collection!TypeOK)
    <2>1. Collection!SetUp => Collection!TypeOK
      BY DEF Collection!SetUp
    <2> QED BY <2>1, CollectionMoves, CollectionAssumption, SetUpInvariant, PTL
  <1>3. PartsSpec => [](part = "race" => Race!TypeOK)
    BY RaceMoves, EnterpriseAssumption, Race!EnterpriseTyped, PTL
  <1>4. PartsSpec => [](part = "tenants" => Two!TypeOK)
    BY TwoMoves, EnterpriseAssumption, Two!EnterpriseTyped, PTL
  <1>5. PartsSpec => [](part = "quota" => Quota!TypeOK)
    BY QuotaMoves, QuotaAssumption, Quota!QuotaIsKept, PTL
  <1>6. PartsSpec => [](part = "serving" => Serving!TypeOK)
    BY ServingMoves, ServingAssumption, StalenessBounded, PTL
  <1>7. PartsSpec => [](part = "files" => Files!TypeOK)
    BY FilesMoves, FilesAssumption, Files!FilesTyped, PTL
  <1>8. PartsSpec => [](part = "registry" => Registry!TypeOK)
    <2>1. Registry!RegistryInv => Registry!TypeOK
      BY DEF Registry!RegistryInv
    <2> QED BY <2>1, RegistryMoves, RegistryAssumption, RegistryInvariant, PTL
  <1>9. PartsSpec => [](part = "analytics" => Analytics!TypeOK)
    BY AnalyticsMoves, AnalyticsAssumption, Analytics!OnlyFailuresLeave, PTL
  <1>10. PartsSpec => [](part = "seeding" => Seeding!TypeOK)
    BY SeedingMoves, SeedingAssumption, Seeding!ExitStatusTells, PTL
  <1>11. PartsSpec => [](part = "service" => Service!TypeOK)
    <2>1. Service!ServiceInv => Service!TypeOK
      BY DEF Service!ServiceInv
    <2> QED BY <2>1, ServiceMoves, ServiceAssumption, ServiceInvariant, PTL
  <1>12. PartsSpec => [](part = "page" => Page!TypeOK)
    <2>1. Page!IInv => Page!TypeOK
      BY DEF Page!IInv
    <2> QED BY <2>1, PageMoves, PageAssumption, PageInvariant, PTL
  <1>13. PartsSpec => [](part = "browser" => Browser!TypeOK)
    BY BrowserMoves, BrowserAssumption, SessionInvariant, PTL
  <1>14. PartsSpec => [](part = "ingest" => TypeOK)
    <2>1. Typed => TypeOK
      BY DEF Typed
    <2> QED BY <2>1, IngestMoves, IngestTyped, PTL
  <1>15. PartsSpec => []Serve
    BY <1>1, <1>2, <1>3, <1>4, <1>5, PTL
  <1>16. PartsSpec => []Keep
    BY <1>6, <1>7, <1>8, <1>9, <1>10, PTL
  <1>17. PartsSpec => []Show
    BY <1>11, <1>12, <1>13, <1>14, PTL
  <1>18. Serve /\ Keep /\ Show => Types
    BY DEF Types
  <1> HIDE DEF Serve, Keep, Show
  <1> QED BY <1>15, <1>16, <1>17, <1>18, PTL

\* One loaded model for every thread (model_manager.py) and one active model
\* of every type (model_registry.py).
THEOREM ModelsAndRegistry == PartsSpec => []OneModelForAll
  <1>1. PartsSpec => [](part = "models" => Models!NoSecondLoad)
    BY ModelsMoves, ModelsAssumption, LoadedOnce, PTL
  <1>2. PartsSpec => [](part = "models" => Models!OneModelForAll)
    BY ModelsMoves, ModelsAssumption, SharedModel, PTL
  <1>3. PartsSpec => [](part = "registry" => Registry!OneActive)
    BY RegistryMoves, RegistryAssumption, RegistryOneActive, PTL
  <1> QED BY <1>1, <1>2, <1>3, PTL DEF OneModelForAll

\* No request goes to a collection that does not exist, whatever callers race
\* for its set-up (QdrantVectorStore._ensure_collection).
THEOREM CollectionExists == PartsSpec => []OperatesOnExisting
  <1>1. PartsSpec => [](part = "collection" => Collection!OperatesOnExisting)
    BY CollectionMoves, CollectionAssumption, RequestsReach, PTL
  <1> QED BY <1>1, PTL DEF OperatesOnExisting

\* A revoked key cannot act and a held one can be revoked, in one tenant's
\* races and between tenants (enterprise layer).
THEOREM RevocationHolds == PartsSpec => []RevokedCannotAct
  <1>1. PartsSpec => [](part = "race" => Race!RevokedCannotAct)
    BY RaceMoves, EnterpriseAssumption, Race!RevocationIsFinal, PTL
  <1>2. PartsSpec => [](part = "race" => Race!KnownKeysListed)
    BY RaceMoves, EnterpriseAssumption, Race!HeldKeysAreListed, PTL
  <1>3. PartsSpec => [](part = "tenants" => Two!RevokedCannotAct)
    BY TwoMoves, EnterpriseAssumption, Two!RevocationIsFinal, PTL
  <1>4. PartsSpec => [](part = "tenants" => Two!KnownKeysListed)
    BY TwoMoves, EnterpriseAssumption, Two!HeldKeysAreListed, PTL
  <1> QED BY <1>1, <1>2, <1>3, <1>4, PTL DEF RevokedCannotAct

\* No chain of keys gains a permission or reaches another tenant
\* (create_api_key, require_permission).
THEOREM PermissionsHold == PartsSpec => []NoEscalation
  <1>1. PartsSpec => [](part = "race" => Race!NoEscalation)
    BY RaceMoves, EnterpriseAssumption, Race!KeysNeverEscalate, PTL
  <1>2. PartsSpec => [](part = "tenants" => Two!NoEscalation)
    BY TwoMoves, EnterpriseAssumption, Two!KeysNeverEscalate, PTL
  <1> QED BY <1>1, <1>2, PTL DEF NoEscalation

\* Every key that was handed out or revoked has its event, and the log keeps
\* the newest ones (AuditService.log, AuditRepository.append).
THEOREM AuditHolds == PartsSpec => []AuditKept
  <1>1. PartsSpec => [](part = "race" => Race!ActionsAudited)
    BY RaceMoves, EnterpriseAssumption, Race!ActionsLeaveEvents, PTL
  <1>2. PartsSpec => [](part = "race" => Race!LogKeepsNewest)
    BY RaceMoves, EnterpriseAssumption, Race!LogIsNewest, PTL
  <1>3. PartsSpec => [](part = "tenants" => Two!ActionsAudited)
    BY TwoMoves, EnterpriseAssumption, Two!ActionsLeaveEvents, PTL
  <1>4. PartsSpec => [](part = "tenants" => Two!LogKeepsNewest)
    BY TwoMoves, EnterpriseAssumption, Two!LogIsNewest, PTL
  <1> QED BY <1>1, <1>2, <1>3, <1>4, PTL DEF AuditKept

\* Interleaved requests and failed commands admit none too many and reject
\* none too early (QuotaRepository.hit, enforce_quota).
THEOREM QuotaHolds == PartsSpec => []QuotaKept
  <1>1. PartsSpec => [](part = "quota" =>
             /\ Quota!AdmittedWithinLimits /\ Quota!RejectedOnlyOverLimit
             /\ Quota!OnlyFailuresLeak)
    BY QuotaMoves, QuotaAssumption, Quota!QuotaIsKept, PTL
  <1> QED BY <1>1, PTL DEF QuotaKept

\* Cached recommendations fit what was asked for and are stale for a bounded
\* time (RecommendationCacheRepository).
THEOREM StalenessHolds == PartsSpec => []BoundedStaleness
  <1>1. PartsSpec => [](part = "serving" => Serving!AnswersFit /\ Serving!BoundedStaleness)
    BY ServingMoves, ServingAssumption, StalenessBounded, PTL
  <1> QED BY <1>1, PTL DEF BoundedStaleness

\* No file is left that nothing accounts for, and the image of an indexed
\* product is whole unless its last save runs or broke off, however attempts
\* of one job overlap (UploadService, ImageProcessingService).
THEOREM FilesHold == PartsSpec => []FilesAccounted
  <1>1. PartsSpec => [](part = "files" => Files!FilesAccounted)
    BY FilesMoves, FilesAssumption, Files!FilesAccountedFor, PTL
  <1> QED BY <1>1, PTL DEF FilesAccounted

\* What clients are sent of an image is whole unless at that moment its last
\* save runs or has broken off (ProductImageService).
THEOREM ImagesHold == PartsSpec => ServedWhole
  <1>1. Files!Spec => [][Files!SendsWhole]_(Files!vars)
    BY FilesAssumption, Files!ImagesServedWhole DEF Files!ServedWhole
  <1>2. [PartsNext]_allVars /\ ~(part = "files") => [Files!SendsWhole]_(Files!vars)
    BY DEF PartsNext, Only, Unless, allVars, fVars, Files!vars, Files!streamVars, Files!attemptVars,
       Files!readVars
  <1> QED BY <1>1, <1>2, FilesMoves, PTL DEF PartsSpec, ServedWhole, Files!ServedWhole

\* The numbers of a dashboard and the periods of a trend fit together, though
\* they are read one by one, and a counter without a TTL is left by a failure
\* only (AnalyticsEngine, AnalyticsRepository).
THEOREM DashboardHolds == PartsSpec => []DashboardCoherent
  <1>1. PartsSpec => [](part = "analytics" => Analytics!DashboardCoherent)
    BY AnalyticsMoves, AnalyticsAssumption, Analytics!DashboardFits, PTL
  <1>2. PartsSpec => [](part = "analytics" => Analytics!OnlyFailuresLeak)
    BY AnalyticsMoves, AnalyticsAssumption, Analytics!OnlyFailuresLeave, PTL
  <1> QED BY <1>1, <1>2, PTL DEF DashboardCoherent

\* The exit status of the seeding clients tells what became of the catalog
\* (seed_catalog.py, smoke/runner.py).
THEOREM SeedingHolds == PartsSpec => []SeedingTells
  <1>1. PartsSpec => [](part = "seeding" => Seeding!SeedingTells)
    BY SeedingMoves, SeedingAssumption, Seeding!ExitStatusTells, PTL
  <1> QED BY <1>1, PTL DEF SeedingTells

\* A tab keeps and forgets the keys it should, and the upload page shows its
\* own submission (storage.ts, upload-view.tsx).
THEOREM BrowserHolds == PartsSpec => []BrowserTells
  <1>1. PartsSpec => [](part = "browser" => Browser!KeysForgotten)
    BY BrowserMoves, BrowserAssumption, NoForeignKey, PTL
  <1>2. PartsSpec => [](part = "browser" => Browser!ReloadKeepsSession)
    BY BrowserMoves, BrowserAssumption, ReloadRestores, PTL
  <1>3. PartsSpec => [](part = "page" => Page!ShowsItsOwn)
    BY PageMoves, PageAssumption, PageShowsItsOwn, PTL
  <1> QED BY <1>1, <1>2, <1>3, PTL DEF BrowserTells
=============================================================================
