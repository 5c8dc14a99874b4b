---------------------------- MODULE ProductIngest ----------------------------
(***************************************************************************)
(* ProductService.process_upload (backend/app/services/product_service.py) *)
(* against the vector store, for uploads processed at the same time: the   *)
(* duplicate check searches the image and then the text collection, the    *)
(* product is upserted into the image and then into the text collection,   *)
(* and an attempt that fails is made again with the same product id.       *)
(*                                                                         *)
(* Each product has one job, and that job one attempt at a time; here an   *)
(* attempt simply begins when a lane (a worker loop) is free.  WorkerPool  *)
(* models how jobs reach workers and what attempts of one job that overlap *)
(* do to it, Files what they do to its image.                              *)
(* Abstracted: the pure stages (checksum, image processing, embeddings,    *)
(* catalog enrichment, normalization), which can only fail; similarity,    *)
(* given by the relation Alike (the overall similarity of the two reaches  *)
(* the threshold).  It never does so on one modality alone: with the       *)
(* default weights that is at most 0.75, the threshold 0.90.  top_k is at  *)
(* least the number of products.                                           *)
(***************************************************************************)
EXTENDS Naturals, FiniteSets

CONSTANTS
    Products,    \* one per upload
    Lanes,       \* attempts that can be under way at once
    Modes,       \* values of settings.duplicate_detection.mode to consider
    Alike,       \* pairs <<checked, candidate>> that score as duplicates
    MaxRetries,
    MaxFaults    \* how often an attempt fails for a reason of its own

ASSUME ConstantsAssumption ==
    /\ Lanes \in Nat \ {0}
    /\ Modes \subseteq {"OFF", "WARN", "BLOCK"}
    /\ Alike \subseteq Products \X Products
    /\ MaxRetries \in Nat
    /\ MaxFaults \in Nat

VARIABLES
    mode,     \* the configured mode
    step,     \* where the product's attempt is
    near,     \* candidates the attempt's image search returned
    before,   \* history: products searchable by text when the check began
    image,    \* products in the image collection
    text,     \* products in the text collection
    blocked,  \* history: products some attempt rejected (ConflictException)
    tries,    \* failed attempts
    faults

vars == <<mode, step, near, before, image, text, blocked, tries, faults>>

Under == {"searchText", "upsertImage", "upsertText", "stored"}
Steps == {"queued", "done", "dead"} \cup Under

Init ==
    /\ mode \in Modes
    /\ step = [p \in Products |-> "queued"]
    /\ near = [p \in Products |-> {}]
    /\ before = [p \in Products |-> {}]
    /\ image = {}
    /\ text = {}
    /\ blocked = {}
    /\ tries = [p \in Products |-> 0]
    /\ faults = 0

At(p, s) == step[p] = s
GoTo(p, s) == step' = [step EXCEPT ![p] = s]

FreeLane == Cardinality({p \in Products : step[p] \in Under}) < Lanes

AlikeTo(p) == {q \in Products : <<p, q>> \in Alike}

\* Mutant: the budget is compared with the count before the increment.
Retry_OffByOne(p) ==
    /\ tries' = [tries EXCEPT ![p] = @ + 1]
    /\ GoTo(p, IF tries[p] > MaxRetries THEN "dead" ELSE "queued")

\* The job goes back to the queue, or to the dead letters.
Retry(p) ==
    /\ tries' = [tries EXCEPT ![p] = @ + 1]
    /\ GoTo(p, IF tries[p] + 1 > MaxRetries THEN "dead" ELSE "queued")

-----------------------------------------------------------------------------
\* OFF: no search.
SkipDetection(p) ==
    /\ mode = "OFF" /\ At(p, "queued") /\ FreeLane
    /\ GoTo(p, "upsertImage")
    /\ UNCHANGED <<mode, near, before, image, text, blocked, tries, faults>>

\* HybridSearchService.search, first half.
SearchImage(p) ==
    /\ mode # "OFF" /\ At(p, "queued") /\ FreeLane
    /\ near' = [near EXCEPT ![p] = image \cap AlikeTo(p)]
    /\ before' = [before EXCEPT ![p] = IF p \in text THEN @ ELSE text]
    /\ GoTo(p, "searchText")
    /\ UNCHANGED <<mode, image, text, blocked, tries, faults>>

\* Mutant: the check excludes nothing but also finds nothing.
SearchText_NoMatch(p) ==
    /\ At(p, "searchText")
    /\ GoTo(p, "upsertImage")
    /\ UNCHANGED <<mode, near, before, image, text, blocked, tries, faults>>

\* Mutant: WARN rejects like BLOCK.
SearchText_WarnRejects(p) ==
    /\ At(p, "searchText")
    /\ IF near[p] \cap text # {}
         THEN blocked' = blocked \cup {p} /\ Retry(p)
         ELSE GoTo(p, "upsertImage") /\ UNCHANGED <<blocked, tries>>
    /\ UNCHANGED <<mode, near, before, image, text, faults>>

\* Mutant: the image vector is stored before the decision.
SearchText_IndexFirst(p) ==
    /\ At(p, "searchText")
    /\ image' = image \cup {p}
    /\ IF mode = "BLOCK" /\ near[p] \cap text # {}
         THEN blocked' = blocked \cup {p} /\ Retry(p)
         ELSE GoTo(p, "upsertImage") /\ UNCHANGED <<blocked, tries>>
    /\ UNCHANGED <<mode, near, before, text, faults>>

\* Second half, and the decision: in BLOCK mode a duplicate is rejected, and
\* the rejection is a failed attempt like any other.  Nothing excludes the
\* product itself from the candidates.
SearchText(p) ==
    /\ At(p, "searchText")
    /\ IF mode = "BLOCK" /\ near[p] \cap text # {}
         THEN blocked' = blocked \cup {p} /\ Retry(p)
         ELSE GoTo(p, "upsertImage") /\ UNCHANGED <<blocked, tries>>
    /\ UNCHANGED <<mode, near, before, image, text, faults>>

UpsertImage(p) ==
    /\ At(p, "upsertImage")
    /\ image' = image \cup {p}
    /\ GoTo(p, "upsertText")
    /\ UNCHANGED <<mode, near, before, text, blocked, tries, faults>>

\* Mutant: a failed text upsert is not reported.
UpsertText_Skipped(p) ==
    /\ At(p, "upsertText")
    /\ GoTo(p, "stored")
    /\ UNCHANGED <<mode, near, before, image, text, blocked, tries, faults>>

UpsertText(p) ==
    /\ At(p, "upsertText")
    /\ text' = text \cup {p}
    /\ GoTo(p, "stored")
    /\ UNCHANGED <<mode, near, before, image, blocked, tries, faults>>

\* The worker saves COMPLETED.
Finish(p) ==
    /\ At(p, "stored")
    /\ GoTo(p, "done")
    /\ UNCHANGED <<mode, near, before, image, text, blocked, tries, faults>>

\* A stage raises, the store or Redis answers with an error, or the worker
\* is killed and the job recovered: the attempt ends where it is.
Fault(p) ==
    /\ step[p] \in Under
    /\ faults < MaxFaults
    /\ faults' = faults + 1
    /\ Retry(p)
    /\ UNCHANGED <<mode, near, before, image, text, blocked>>

-----------------------------------------------------------------------------
Attempt(p) ==
    \/ SkipDetection(p)
    \/ SearchImage(p)
    \/ SearchText(p)
    \/ UpsertImage(p)
    \/ UpsertText(p)
    \/ Finish(p)

Next == \E p \in Products : Attempt(p) \/ Fault(p)

Spec == Init /\ [][Next]_vars

\* Workers keep working: an attempt that has begun goes on, and a queued
\* product is not passed over for ever (the queue is first in, first out).
Fairness == \A p \in Products : SF_vars(Attempt(p))

FairSpec == Spec /\ Fairness

-----------------------------------------------------------------------------
(* Properties.                                                             *)

\* Every variable has its type; no product is tried more than MaxRetries + 1
\* times.
TypeOK ==
    /\ mode \in Modes
    /\ step \in [Products -> Steps]
    /\ {near, before} \subseteq [Products -> SUBSET Products]
    /\ image \in SUBSET Products
    /\ text \in SUBSET Products
    /\ blocked \in SUBSET Products
    /\ tries \in [Products -> 0..MaxRetries + 1]
    /\ faults \in 0..MaxFaults

\* BLOCK mode keeps out what it can see: whatever checks and upserts
\* interleave, fail and are made again, a product like one that was searchable
\* when its check began is never stored.
NoLateDuplicate ==
    mode = "BLOCK" =>
        \A p, q \in text : p # q /\ <<p, q>> \in Alike => q \notin before[p]

\* A rejection does its work: a product that is rejected before it is stored
\* is not stored by that attempt or by any retry.
RejectedStaysOut ==
    [][\A p \in blocked' : p \notin image \cup text => p \notin image' \cup text']_vars

\* A product the worker reports as completed is in both collections, and one
\* that is in the text collection is in the image collection too, so that
\* search by id, which needs both, works for it.
StoredWhole ==
    /\ text \subseteq image
    /\ \A p \in Products : step[p] = "done" => p \in text

\* A retried job converges: whatever fails within the retry budget, every
\* product ends completed and stored.
Converges == \A p \in Products : <>[](step[p] = "done" /\ p \in image \cap text)

\* A statement of the repository that the code does not keep, since a retry
\* meets the product's own vectors: "a blocked upload never reaches the vector
\* store at all" (backend/app/services/product_service.py:35).
BlockedNeverStored == blocked \cap (image \cup text) = {}

\* Another one, which a check that began before the other product was stored
\* does not keep: "`BLOCK` mode must reject a likely duplicate "before
\* persistence"" (backend/app/services/product_service.py:32).
NoDuplicateStored ==
    mode = "BLOCK" =>
        \A p, q \in text : p # q => <<p, q>> \notin Alike \/ <<q, p>> \notin Alike

=============================================================================
