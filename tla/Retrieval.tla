------------------------------ MODULE Retrieval ------------------------------
(***************************************************************************)
(* Hybrid search and reranking.  A collection is a function from the       *)
(* products it holds to their similarity to the query, in percent; scores  *)
(* of results are in 1/10000, weights in percent.  What a cross-encoder    *)
(* makes of a pair, after the sigmoid, is a percentage as well.            *)
(***************************************************************************)
EXTENDS PyLists

CONSTANTS
    HybridWeights,   \* hybrid_search.image_weight and text_weight
    TopN,            \* reranker.top_n
    BatchSize        \* reranker.batch_size

\* What HybridSearchSettings and RerankerSettings accept.
HybridSettings == HybridWeights.image \in Nat /\ HybridWeights.text \in Nat
RerankerSettings == {TopN, BatchSize} \subseteq Nat \ {0}

ASSUME SearchAssumption == HybridSettings /\ RerankerSettings

Modalities == {"image", "text"}

Ids(list) == Mapped(list, LAMBDA n : n.id)
ById(list, p) == list[CHOOSE i \in DOMAIN list : list[i].id = p]

\* The nearest points, best first, as Qdrant answers (external).
Nearest(near, k) ==
    Take(SortedDown(SetToSeq({[id |-> p, score |-> near[p]] : p \in DOMAIN near}),
                    LAMBDA n : n.score), k)

\* SearchService.search_by_image and TextSearchService.search_by_text.
SearchByImage(q, k) == Nearest(q.image, k)
SearchByText(q, k) == Nearest(q.text, k)

\* Mutant: a product that the other list misses is averaged, not counted 0.
Fuse_Renormalized(image, text) ==
    LET Score(list, p) == IF p \in ToSet(Ids(list)) THEN ById(list, p).score ELSE 0
        all == Ids(image) \o Where(Ids(text), LAMBDA p : p \notin ToSet(Ids(image)))
        In(list, p) == p \in ToSet(Ids(list))
    IN  Mapped(all, LAMBDA p :
            [id |-> p, image |-> Score(image, p), text |-> Score(text, p),
             score |-> IF In(image, p) /\ In(text, p)
                         THEN HybridWeights.image * Score(image, p) + HybridWeights.text * Score(text, p)
                         ELSE 100 * (Score(image, p) + Score(text, p))])

\* _fuse: the image results, then what only the text results have; a missing
\* modality counts 0.
Fuse(image, text) ==
    LET Score(list, p) == IF p \in ToSet(Ids(list)) THEN ById(list, p).score ELSE 0
        all == Ids(image) \o Where(Ids(text), LAMBDA p : p \notin ToSet(Ids(image)))
    IN  Mapped(all, LAMBDA p :
            [id |-> p, image |-> Score(image, p), text |-> Score(text, p),
             score |-> HybridWeights.image * Score(image, p) + HybridWeights.text * Score(text, p)])

\* _single_modality_result: the similarity as it is, without a weight.
SingleModality(list, m) ==
    Mapped(list, LAMBDA n :
        [id |-> n.id, score |-> 100 * n.score,
         image |-> IF m = "image" THEN n.score ELSE 0,
         text |-> IF m = "text" THEN n.score ELSE 0])

\* The chunks in which the services call a model.
InBatches(items) ==
    [b \in 1..(Len(items) + BatchSize - 1) \div BatchSize |->
        SubSeq(items, (b - 1) * BatchSize + 1, Smaller(b * BatchSize, Len(items)))]

\* CrossEncoderService.score_pairs: a score for each pair, in their order.
ScorePairs(pairs, relevance) ==
    FlattenSeq(Mapped(InBatches(pairs), LAMBDA batch : Mapped(batch, LAMBDA p : relevance[p])))

\* RerankerService.rerank: the first TopN candidates, by relevance.
Rerank(results, relevance, k) ==
    LET pool == Take(results, TopN)
        scores == ScorePairs(Ids(pool), relevance)
        order == SortedDown([i \in DOMAIN pool |-> i], LAMBDA i : scores[i])
    IN  [i \in 1..Smaller(k, Len(pool)) |->
            LET was == order[i] IN
            [id |-> pool[was].id, rerank |-> scores[was], was |-> pool[was].score,
             originalRank |-> was, finalRank |-> i]]

\* _finalize: the score of a result becomes its relevance.
Finalize(results, relevance, k, reranking) ==
    IF ~reranking THEN Take(results, k)
    ELSE Mapped(Rerank(results, relevance, k),
                LAMBDA c : [ById(results, c.id) EXCEPT !.score = 100 * c.rerank])

\* HybridSearchService.search; q.has are the modalities the query gives, at
\* least one (else a ValidationException).
Search(q, relevance, k, rerankingEnabled) ==
    LET active == rerankingEnabled /\ "text" \in q.has
        depth == IF active THEN Larger(TopN, k) ELSE k
    IN  CASE q.has = {"image"} -> SingleModality(SearchByImage(q, k), "image")
          [] q.has = {"text"} ->
               Finalize(SingleModality(SearchByText(q, depth), "text"), relevance, k, active)
          [] q.has = Modalities ->
               Finalize(SortedDown(Fuse(SearchByImage(q, depth), SearchByText(q, depth)),
                                   LAMBDA r : r.score), relevance, k, active)

\* Mutant: no extra candidate is asked for.
SearchByProductId_NoSpare(q, target, k) ==
    LET results ==
            IF q.has = Modalities
              THEN SortedDown(Fuse(Nearest(q.image, k), Nearest(q.text, k)), LAMBDA r : r.score)
              ELSE LET m == CHOOSE m \in q.has : TRUE IN SingleModality(Nearest(q[m], k), m)
    IN  Take(Where(results, LAMBDA r : r.id # target), k)

\* HybridSearchService.search_by_product_id, for a target that is in the
\* collections q.has names (else a 404); it never reranks.
SearchByProductId(q, target, k) ==
    LET results ==
            IF q.has = Modalities
              THEN SortedDown(Fuse(Nearest(q.image, k + 1), Nearest(q.text, k + 1)),
                              LAMBDA r : r.score)
              ELSE LET m == CHOOSE m \in q.has : TRUE IN SingleModality(Nearest(q[m], k + 1), m)
    IN  Take(Where(results, LAMBDA r : r.id # target), k)

\* ProductLookupService.get_many: POST /products/batch.  A product is found in
\* the image collection, else in the text collection; of ids that repeat only
\* the first counts.
GetMany(ids, image, text) ==
    LET unique == WithoutRepeats(ids, LAMBDA p : p)
    IN  [found |-> Where(unique, LAMBDA p : p \in image \/ p \in text),
         missing |-> Where(unique, LAMBDA p : p \notin image /\ p \notin text)]

=============================================================================
