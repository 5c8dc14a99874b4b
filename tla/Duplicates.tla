------------------------------ MODULE Duplicates ------------------------------
(***************************************************************************)
(* Duplicate detection (four weighted signals) and duplicate verification  *)
(* (cross-encoder and business rules), over candidates of Retrieval.  A    *)
(* product's data is a record of its texts, Absent where the field is      *)
(* missing or blank, and its price, 0 where it has none.  Fuzzy ratios and *)
(* signals are percentages; averages are exact, in 1/60 of a percent.      *)
(***************************************************************************)
EXTENDS Retrieval, Facets

CONSTANTS
    Ratio(_, _),          \* rapidfuzz's token_sort_ratio
    DuplicateWeights,     \* image, text, metadata, attribute: sum 100
    DuplicateThreshold,   \* percent
    VerificationWeights,  \* crossEncoder, businessRules: sum 100
    CrossEncoderThreshold,
    RequireSameBrand,
    RequireSameCategory

\* What DuplicateDetectionSettings and DuplicateVerificationSettings accept:
\* weights that are a complete split.
DetectionSettings ==
    /\ \A signal \in {"image", "text", "metadata", "attribute"} : DuplicateWeights[signal] \in Nat
    /\ DuplicateWeights.image + DuplicateWeights.text + DuplicateWeights.metadata
       + DuplicateWeights.attribute = 100
    /\ DuplicateThreshold \in 0..100

VerificationSettings ==
    /\ VerificationWeights.crossEncoder \in Nat /\ VerificationWeights.businessRules \in Nat
    /\ VerificationWeights.crossEncoder + VerificationWeights.businessRules = 100
    /\ CrossEncoderThreshold \in 0..100
    /\ RequireSameBrand \in BOOLEAN /\ RequireSameCategory \in BOOLEAN

ASSUME DetectionSettings /\ VerificationSettings

Given(value) == value # Absent

\* The average ratio over the fields that both sides have, else 0.
FieldSimilarity(fields, a, b) ==
    LET both == SelectSeq(fields, LAMBDA f : Given(a[f]) /\ Given(b[f]))
    IN  IF both = <<>> THEN 0
        ELSE Total(Mapped(both, LAMBDA f : Ratio(a[f], b[f]))) * (60 \div Len(both))

MetadataSimilarity(a, b) == FieldSimilarity(<<"name", "brand", "category">>, a, b)

AttributeSimilarity(a, b) ==
    FieldSimilarity(<<"brand", "category", "color", "material", "gender", "style">>, a, b)

Signal(score, weight) == Clamp(score, 6000) * weight

\* SimilarityScorer.score; an overall similarity of 1 is 600000.
Score(product, candidate, data) ==
    [id |-> candidate.id,
     overall |-> Clamp(Signal(60 * candidate.image, DuplicateWeights.image)
                       + Signal(60 * candidate.text, DuplicateWeights.text)
                       + Signal(MetadataSimilarity(product, data), DuplicateWeights.metadata)
                       + Signal(AttributeSimilarity(product, data), DuplicateWeights.attribute),
                       600000)]

\* Mutant: the first candidate is taken for the best one.
Decide_First(results) ==
    IF results = <<>> THEN [duplicate |-> FALSE, confidence |-> 0, matched |-> Absent]
    ELSE LET best == Head(results)
             found == best.overall >= 6000 * DuplicateThreshold
         IN  [duplicate |-> found, confidence |-> best.overall,
              matched |-> IF found THEN best.id ELSE Absent]

\* _build_decision
Decide(results) ==
    IF results = <<>> THEN [duplicate |-> FALSE, confidence |-> 0, matched |-> Absent]
    ELSE LET best == Head(SortedDown(results, LAMBDA r : r.overall))
             found == best.overall >= 6000 * DuplicateThreshold
         IN  [duplicate |-> found, confidence |-> best.overall,
              matched |-> IF found THEN best.id ELSE Absent]

\* _rerank_candidates: the relevance takes the place of the text score.
RerankForText(candidates, relevance, k) ==
    Mapped(Rerank(candidates, relevance, k),
           LAMBDA c : [ById(candidates, c.id) EXCEPT !.text = c.rerank])

Judge(product, candidates, catalog) ==
    Decide(Mapped(candidates, LAMBDA c : Score(product, c, catalog[c.id])))

\* DuplicateDetectionService.detect for a product that is not indexed yet.
Detect(product, q, catalog, relevance, k, reranking) ==
    LET depth == IF reranking THEN Larger(TopN, k) ELSE k
        found == Search(q, relevance, depth, FALSE)
    IN  Judge(product, IF reranking THEN RerankForText(found, relevance, k) ELSE found, catalog)

\* detect_by_product_id, for one that is.
DetectById(target, q, catalog, relevance, k, reranking) ==
    LET depth == IF reranking THEN Larger(TopN, k) ELSE k
        found == SearchByProductId(q, target, depth)
    IN  Judge(catalog[target],
              IF reranking THEN RerankForText(found, relevance, k) ELSE found, catalog)

-----------------------------------------------------------------------------
(* Verification.                                                           *)

\* Each rule: does it apply, and is it met?
BrandRule(a, b) == [applies |-> Given(a.brand) /\ Given(b.brand), met |-> a.brand = b.brand]

CategoryRule(a, b) ==
    [applies |-> Given(a.category) /\ Given(b.category), met |-> Ratio(a.category, b.category) >= 90]

\* A price on both sides, within a quarter of the candidate's.
PriceRule(a, b) ==
    [applies |-> a.price # 0 /\ b.price # 0, met |-> 4 * Abs(a.price - b.price) <= Abs(b.price)]

TitleRule(a, b) == [applies |-> Given(b.name), met |-> Ratio(a.name, b.name) >= 85]

OverlapRule(a, b) ==
    LET both == {f \in {"color", "material", "gender", "style"} : Given(a[f]) /\ Given(b[f])}
    IN  [applies |-> both # {}, met |-> \E f \in both : a[f] = b[f]]

\* BusinessRulesEvaluator.evaluate; the score is in 1/60.
Rules(a, b) ==
    LET brand == BrandRule(a, b)
        category == CategoryRule(a, b)
        applicable == SelectSeq(<<brand, category, PriceRule(a, b), TitleRule(a, b), OverlapRule(a, b)>>,
                                LAMBDA r : r.applies)
        satisfied == SelectSeq(applicable, LAMBDA r : r.met)
    IN  [score |-> IF applicable = <<>> THEN 0 ELSE Len(satisfied) * (60 \div Len(applicable)),
         veto |-> \/ RequireSameBrand /\ brand.applies /\ ~brand.met
                  \/ RequireSameCategory /\ category.applies /\ ~category.met]

\* decision_to_verification: the weighted path computed neither score.
ToVerification(decision) == [relevance |-> Absent, similarity |-> Absent] @@ decision

NothingFound == ToVerification([duplicate |-> FALSE, confidence |-> 0, matched |-> Absent])

\* Mutant: the last candidate is taken for the best one.
Verify_AnyRank(product, q, catalog, relevance, k) ==
    LET found == Search(q, relevance, k, FALSE)
        best == Rerank(found, relevance, k)[Len(Rerank(found, relevance, k))]
        rules == Rules(product, catalog[best.id])
    IN  IF found = <<>> THEN NothingFound
        ELSE [duplicate |-> best.rerank >= CrossEncoderThreshold /\ ~rules.veto,
              confidence |-> 60 * VerificationWeights.crossEncoder * best.rerank
                             + 100 * VerificationWeights.businessRules * rules.score,
              relevance |-> best.rerank, similarity |-> best.was, matched |-> best.id]

\* DuplicateVerificationService.verify; a confidence of 1 is 600000.  The
\* best candidate is named whatever the verdict.
Verify(product, q, catalog, relevance, k) ==
    LET found == Search(q, relevance, k, FALSE)
        best == Head(Rerank(found, relevance, k))
        rules == Rules(product, catalog[best.id])
    IN  IF found = <<>> THEN NothingFound
        ELSE [duplicate |-> best.rerank >= CrossEncoderThreshold /\ ~rules.veto,
              confidence |-> 60 * VerificationWeights.crossEncoder * best.rerank
                             + 100 * VerificationWeights.businessRules * rules.score,
              relevance |-> best.rerank, similarity |-> best.was, matched |-> best.id]

\* DuplicateCheckService.check: POST /products/check-duplicate.
Check(product, q, catalog, relevance, k, verifying, reranking) ==
    IF verifying THEN Verify(product, q, catalog, relevance, k)
                 ELSE ToVerification(Detect(product, q, catalog, relevance, k, reranking))

=============================================================================
