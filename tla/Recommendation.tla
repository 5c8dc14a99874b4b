---------------------------- MODULE Recommendation ----------------------------
(***************************************************************************)
(* RecommendationEngineService: candidates by id, their scores, and the    *)
(* round-robin over brands.  Scores are in 1/10000 as in Retrieval, the    *)
(* tags of a product are a set, its quality a percentage.                  *)
(***************************************************************************)
EXTENDS Retrieval, Facets

CONSTANTS
    RecommendationWeights,   \* similarity, attribute, tag, quality: sum 100
    Diversity                \* diversity_enabled

\* What RecommendationSettings accepts: weights that are a complete split.
RecommendationSettings ==
    /\ \A part \in {"similarity", "attribute", "tag", "quality"} : RecommendationWeights[part] \in Nat
    /\ RecommendationWeights.similarity + RecommendationWeights.attribute
       + RecommendationWeights.tag + RecommendationWeights.quality = 100
    /\ Diversity \in BOOLEAN

ASSUME RecommendationAssumption == RecommendationSettings

\* A share of a whole in 1/10000.
Share(part, whole) == IF whole = 0 THEN 0 ELSE (10000 * part) \div whole

\* _attribute_match
AttributeMatch(a, b) ==
    LET both == {f \in {"color", "material", "gender", "season", "style"} :
                    a[f] # Absent /\ b[f] # Absent}
    IN  Share(Cardinality({f \in both : a[f] = b[f]}), Cardinality(both))

\* _tag_match: Jaccard.
TagMatch(a, b) == Share(Cardinality(a.tags \cap b.tags), Cardinality(a.tags \cup b.tags))

\* RecommendationScorer.score; a final score of 1 is 1000000.
FinalScore(target, candidate, data) ==
    Clamp(RecommendationWeights.similarity * Clamp(candidate.score, 10000)
          + RecommendationWeights.attribute * AttributeMatch(target, data)
          + RecommendationWeights.tag * TagMatch(target, data)
          + RecommendationWeights.quality * Clamp(100 * data.quality, 10000), 1000000)

\* The reasons that are given (RecommendationReason); similar and quality are
\* the two clauses of _build_explanation that need a high score.
Reasons(target, candidate, data) ==
    {r \in {"similar", "category", "brand", "attributes", "tags", "quality"} :
        CASE r = "similar" -> Clamp(candidate.score, 10000) >= 7000
          [] r = "category" -> target.category # Absent /\ target.category = data.category
          [] r = "brand" -> target.brand # Absent /\ target.brand = data.brand
          [] r = "attributes" -> AttributeMatch(target, data) > 0
          [] r = "tags" -> target.tags \cap data.tags # {}
          [] r = "quality" -> Clamp(data.quality, 100) >= 70}

\* A brand's bucket is in the order of the scores: where a candidate is in it,
\* and where the bucket was begun.
Round(scored, i) == Cardinality({j \in 1..i : scored[j].brand = scored[i].brand})

FirstSeen(scored, i) ==
    CHOOSE j \in 1..i : scored[j].brand = scored[i].brand
                        /\ \A h \in 1..j - 1 : scored[h].brand # scored[i].brand

InTurn(scored, Turn(_)) ==
    Mapped(SortedDown([i \in DOMAIN scored |-> i], LAMBDA i : -Turn(i)), LAMBDA i : scored[i])

\* Mutant: each brand's bucket is emptied before the next one.
Diversify_BrandByBrand(scored, k) ==
    Take(InTurn(scored, LAMBDA i : (Len(scored) + 1) * FirstSeen(scored, i) + Round(scored, i)), k)

\* _diversify: one candidate per brand and round, the brands in the order in
\* which they first appear; no brand is a brand of its own.
Diversify(scored, k) ==
    Take(InTurn(scored, LAMBDA i : (Len(scored) + 1) * Round(scored, i) + FirstSeen(scored, i)), k)

\* RecommendationEngineService.recommend; q.has is {"image", "text"} for
\* "similar" and {"text"} for "related" recommendations.
RecommendFrom(q, target, catalog, relevance, k, reranking) ==
    LET wide == IF Diversity THEN 3 * k ELSE k
        found == SearchByProductId(q, target, IF reranking THEN Larger(wide, TopN) ELSE wide)
        candidates == IF reranking THEN Finalize(found, relevance, Len(found), TRUE) ELSE found
        scored == SortedDown(
            Mapped(candidates, LAMBDA c :
                [id |-> c.id, brand |-> catalog[c.id].brand,
                 final |-> FinalScore(catalog[target], c, catalog[c.id]),
                 reasons |-> Reasons(catalog[target], c, catalog[c.id])]),
            LAMBDA s : s.final)
    IN  IF Diversity THEN Diversify(scored, k) ELSE Take(scored, k)

=============================================================================
