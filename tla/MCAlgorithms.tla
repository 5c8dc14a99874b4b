----------------------------- MODULE MCAlgorithms -----------------------------
(***************************************************************************)
(* The pure algorithms of the services on bounded inputs: every step runs  *)
(* one of them on one input, and the invariants compare its answer with    *)
(* what it should be.                                                      *)
(***************************************************************************)
EXTENDS Duplicates, Recommendation, Pricing, Evaluation, CatalogIntelligence, Images, TLC

CONSTANTS p1, p2, p3, p4

VARIABLES
    task,   \* the algorithm that is called
    done,   \* has it answered?
    case,   \* its input
    out     \* its answer

vars == <<task, done, case, out>>

-----------------------------------------------------------------------------
(* Values of the constants.  Weights are the defaults of settings.py.      *)

MCHybrid == [image |-> 70, text |-> 30]
MCDuplicate == [image |-> 35, text |-> 25, metadata |-> 20, attribute |-> 20]
MCVerification == [crossEncoder |-> 70, businessRules |-> 30]
MCRecommendation == [similarity |-> 55, attribute |-> 20, tag |-> 15, quality |-> 10]
MCQuality == [completeness |-> 50, confidence |-> 30, consistency |-> 20]

\* 1000 / log2(r + 1)
MCGain == <<1000, 631, 500, 431>>

\* As token_sort_ratio does, a text and its fold are alike, a slug of several
\* words is less like them.
MCRatio(x, y) ==
    IF Absent \in {x, y} THEN 0
    ELSE IF x.key # y.key THEN 20
    ELSE IF (x.form = "slug") = (y.form = "slug") THEN 100 ELSE 89

MCKeywords ==
    [color |-> << <<"blue", "blue">>, <<"grey", "gray">>, <<"gray", "gray">> >>,
     material |-> << <<"cotton", "cotton">> >>,
     style |-> << <<"casual", "casual">> >>]
MCTextOrder == <<"color", "material", "style">>
MCTextConfidence == [color |-> 80, material |-> 75, style |-> 70]
MCDescriptors == <<"soft", "warm">>

-----------------------------------------------------------------------------
(* Inputs.                                                                 *)

Shop == {p1, p2, p3}

ASSUME ProductsAssumption == p4 \notin Shop

Near == [Shop -> {40, 70, 95}]

\* f, and p has the value v.
With(p, v, f) == [x \in {p} \cup DOMAIN f |-> IF x = p THEN v ELSE f[x]]

ASSUME WordsAssumption ==
    {"shirt", "lamp", "acme", "zeta", "men shoes", "shoes", "home decor", "red", "blue"} \subseteq Words

Word(key) == Text(key, "typed")

Data(name, brand, category, color, price) ==
    [name |-> Word(name), brand |-> brand, category |-> category, color |-> color,
     material |-> Absent, gender |-> Absent, season |-> Absent, style |-> Absent,
     price |-> price, tags |-> {}, quality |-> 0]

Typed == {Data("shirt", Word("acme"), Word("men shoes"), Word("red"), 20),
          Data("shirt", Word("acme"), Word("shoes"), Word("red"), 20),
          Data("shirt", Word("acme"), Absent, Word("red"), 0),
          Data("shirt", Word("zeta"), Word("shoes"), Word("blue"), 40),
          Data("lamp", Absent, Word("home decor"), Absent, 100)}

Asked(t) == task = t /\ ~done

Answered(c, o) ==
    /\ done' = TRUE /\ case' = c /\ out' = o
    /\ UNCHANGED task

DoSearch ==
    /\ Asked("search")
    /\ \E image \in [Shop -> {20, 40, 95}], text \in Near, k \in 1..2 :
           LET q == [has |-> Modalities, image |-> image, text |-> text]
           IN  Answered([q |-> q, k |-> k], Search(q, image, k, FALSE))

\* One product has no text vector yet.
DoSearchHalf ==
    /\ Asked("search")
    /\ \E image \in Near, text \in [{p1, p2} -> {40, 95}], has \in SUBSET Modalities \ {{}} :
           LET q == [has |-> has, image |-> image, text |-> text]
           IN  Answered([q |-> q, k |-> 2], Search(q, image, 2, FALSE))

DoRerank ==
    /\ Asked("rerank")
    /\ \E image \in [Shop \cup {p4} -> {40, 95}], relevance \in [Shop \cup {p4} -> {10, 50, 90}],
          k \in {1, 3, 4} :
           LET q == [has |-> Modalities, image |-> image,
                     text |-> [p \in Shop \cup {p4} |-> 135 - image[p]]]
           IN  Answered([q |-> q, k |-> k, relevance |-> relevance],
                        Search(q, relevance, k, TRUE))

\* p4 is the target: the product most like itself.
DoById ==
    /\ Asked("byId")
    /\ \E image, text \in [Shop -> {70, 95}], has \in SUBSET Modalities \ {{}}, k \in 1..3 :
           LET q == [has |-> has, image |-> With(p4, 100, image), text |-> With(p4, 100, text)]
           IN  Answered([q |-> q, k |-> k], SearchByProductId(q, p4, k))

DoLookup ==
    /\ Asked("lookup")
    /\ \E n \in 0..3, image, text \in SUBSET {p1, p2} : \E ids \in [1..n -> Shop] :
           Answered([ids |-> ids, stored |-> image \cup text], GetMany(ids, image, text))

\* A catalog of three products, more than the search looks at.
Catalog(stored1, stored2) ==
    [p \in Shop |-> Stored(CASE p = p1 -> stored1 [] p = p2 -> stored2
                             [] p = p3 -> Data("lamp", Absent, Word("home decor"), Absent, 100))]

DoDetect ==
    /\ Asked("detect")
    /\ \E submitted, stored1, stored2 \in Typed, image, text \in [Shop -> {60, 99}], k \in 1..2 :
           LET q == [has |-> Modalities, image |-> image, text |-> text]
               catalog == Catalog(stored1, stored2)
           IN  Answered([q |-> q, k |-> k, reranking |-> FALSE, product |-> submitted, catalog |-> catalog],
                        Check(submitted, q, catalog, image, k, FALSE, FALSE))

\* The target is stored itself.
DoDetectById ==
    /\ Asked("detectById")
    /\ \E stored, stored1, stored2 \in Typed, image, relevance \in [Shop -> {60, 99}],
          reranking \in BOOLEAN, k \in 1..2 :
           LET q == [has |-> Modalities, image |-> With(p4, 100, image),
                     text |-> With(p4, 100, [p \in Shop |-> 95])]
               catalog == With(p4, Stored(stored), Catalog(stored1, stored2))
           IN  Answered([q |-> q, k |-> k, reranking |-> reranking, relevance |-> relevance,
                         product |-> Stored(stored), catalog |-> catalog],
                        DetectById(p4, q, catalog, relevance, k, reranking))

DoVerify ==
    /\ Asked("verify")
    /\ \E submitted, stored1, stored2 \in Typed, relevance \in [Shop -> {50, 95, 99}],
          image \in [Shop -> {60, 90}], k \in 1..2 :
           LET q == [has |-> Modalities, image |-> image, text |-> (p1 :> 90) @@ (p2 :> 70) @@ (p3 :> 50)]
               catalog == Catalog(stored1, stored2)
           IN  Answered([q |-> q, k |-> k, reranking |-> FALSE, relevance |-> relevance,
                         product |-> submitted, catalog |-> catalog],
                        Check(submitted, q, catalog, relevance, k, TRUE, FALSE))

DoFilter ==
    /\ Asked("filter")
    /\ \E product \in Typed, category \in {d.category : d \in Typed},
          brand \in {Word("acme"), Fold(Word("acme")), Word("zeta"), Absent},
          low \in {0, 20, 30}, high \in {0, 30, 100} :
           LET filter == [category |-> category, brand |-> brand, minPrice |-> low, maxPrice |-> high]
           IN  Answered([filter |-> filter, product |-> product],
                        Passes(filter, Stored(product)))

\* Comparables with these prices; their similarities alternate.
Offers(prices) ==
    [i \in DOMAIN prices |-> [id |-> p1, similarity |-> 6000 + 1000 * (i % 2),
                              price |-> prices[i], category |-> Absent]]

\* Up to six comparables.
DoEstimate ==
    /\ Asked("estimate")
    /\ \E n \in 0..6 : \E prices \in [1..n -> {4, 5, 40}], strategy \in Strategies :
           Answered([cs |-> Offers(prices)], EstimateFrom(Offers(prices), strategy))

\* A price is asked for a typed category.
DoPrice ==
    /\ Asked("price")
    /\ \E category \in {d.category : d \in Typed}, stored1, stored2 \in Typed,
          near \in [{p1, p2} -> {40, 90}] :
           LET catalog == (p1 :> Stored(stored1)) @@ (p2 :> Stored(stored2))
           IN  Answered([category |-> category, near |-> near, catalog |-> catalog],
                        EstimateForRequest(near, near, category, catalog, 2, "median", FALSE))

\* A price is asked for a stored product.
DoPriceOwn ==
    /\ Asked("priceOwn")
    /\ \E stored, stored1, stored2 \in Typed, image, text \in [Shop -> {40, 90}], k \in 1..2 :
           LET q == [has |-> Modalities, image |-> With(p4, 100, image), text |-> With(p4, 100, text)]
               catalog == With(p4, Stored(stored), Catalog(stored1, stored2))
           IN  Answered([q |-> q, catalog |-> catalog],
                        EstimateForProduct(q, p4, catalog, k, "weighted_average"))

Brands == {Word("acme"), Word("zeta"), Absent}

Shirt(p, brand, tags) ==
    [Data("shirt", brand, Absent, Word("red"), 0) EXCEPT
        !.tags = tags, !.quality = IF p = p1 THEN 0 ELSE 90]

DoRecommend ==
    /\ Asked("recommend")
    /\ \E brand \in [Shop -> Brands], image \in [Shop -> {60, 80}], tags \in [Shop -> {{}, {"red"}}],
          k \in 2..3 :
           LET q == [has |-> Modalities, image |-> With(p4, 100, image), text |-> With(p4, 100, image)]
               catalog == With(p4, Shirt(p4, Word("acme"), {"red"}),
                               [p \in Shop |-> Shirt(p, brand[p], tags[p])])
           IN  Answered([q |-> q, catalog |-> catalog, k |-> k, relevance |-> image],
                        RecommendFrom(q, p4, catalog, image, k, FALSE))

DoEvaluate ==
    /\ Asked("evaluate")
    /\ \E n \in 0..3, expected \in SUBSET (Shop \cup {p4}) \ {{}}, k \in 1..3 :
           \E retrieved \in {s \in [1..n -> Shop \cup {p4}] : \A i, j \in 1..n : i # j => s[i] # s[j]} :
               Answered([retrieved |-> retrieved, expected |-> expected, k |-> k],
                        EvaluateOne([task |-> "text", expected |-> expected], retrieved, k))

\* A data set of two queries that both expect p1; the reranker turns what it
\* is given round, or fails.
DoAggregate ==
    /\ Asked("aggregate")
    /\ \E kinds \in [1..2 -> {<<"retrieval", {"text"}>>, <<"retrieval", {"image"}>>,
                              <<"duplicate", {"product"}>>, <<"duplicate", {"text"}>>}],
          answers, reranked \in [1..2 -> {<<p1, p2>>, <<p2, p1>>, Failed}],
          wanted \in SUBSET {1, 2}, limit \in 1..2 :
           LET entries == [i \in 1..2 |-> [id |-> i, task |-> kinds[i][1], has |-> kinds[i][2],
                                          expected |-> {p1}]]
               queries == Load(entries)
           IN  Answered([entries |-> entries, wanted |-> wanted],
                        IF queries = Failed THEN Failed
                        ELSE CompareReranking(ResolveQueries(queries, wanted, limit), answers, reranked, 2))

DoEnrich ==
    /\ Asked("enrich")
    /\ \E n \in 0..3 : \E text \in [1..n -> {"blue", "grey", "gray", "cotton", "casual", "warm"}],
          color \in {"gray", "blue"}, given \in {<<>>, [material |-> "wool"]},
          passes \in SUBSET {"text", "image"} :
           Answered([passes |-> passes, text |-> text, color |-> color, given |-> given],
                    Enrich(passes, given, text, color, <<"portrait">>))

White == <<238, 240, 244>>
Charcoal == <<44, 46, 52>>
Clear == <<0, 0, 0, 0>>

\* _NAMED_COLORS
References ==
    {<<"black", <<0, 0, 0>>>>, <<"white", <<255, 255, 255>>>>, <<"gray", <<128, 128, 128>>>>,
     <<"red", <<255, 0, 0>>>>, <<"orange", <<255, 165, 0>>>>, <<"yellow", <<255, 255, 0>>>>,
     <<"green", <<0, 128, 0>>>>, <<"blue", <<0, 0, 255>>>>, <<"purple", <<128, 0, 128>>>>,
     <<"pink", <<255, 192, 203>>>>, <<"brown", <<139, 69, 19>>>>}

\* A thumbnail of 5 x 5: a rectangle before a backdrop, and a detail of one
\* pixel at its centre or in its corner; the camera may have been turned.
DoDescribe ==
    /\ Asked("describe")
    /\ \E left \in {1, 2, 4}, top \in {1, 4}, right, bottom \in 3..5, at \in {1, 3}, o \in {1, 6},
          backdrop \in {White, <<250, 200, 40>>, Clear}, subject \in {<<36, 82, 168>>, Charcoal} :
           LET In(x, y) == x \in left..right /\ y \in top..bottom
               Seen(x, y) == IF x = at /\ y = at THEN <<200, 30, 30, 255>>
                             ELSE IF In(x, y) THEN Append(subject, 255)
                             ELSE IF backdrop = Clear THEN Clear ELSE Append(backdrop, 255)
               picture == Flattened(Oriented([y \in 1..5 |-> [x \in 1..5 |-> Seen(x, y)]], o))
               shape == Oriented([y \in 1..5 |-> [x \in 1..right |-> Clear]], o)
           IN  Answered([picture |-> picture, subject |-> subject, turned |-> o = 6, slim |-> right < 5,
                         backdrop |-> IF backdrop = Clear THEN <<255, 255, 255>> ELSE backdrop],
                        [color |-> DominantColor(picture),
                         names |-> ImageTagNames(picture, Len(shape[1]), Len(shape))])

DoName ==
    /\ Asked("name")
    /\ \E ref \in References, d \in [1..3 -> -1..1] :
           LET c == [i \in 1..3 |-> Clamp(ref[2][i] + d[i], 255)]
           IN  Answered([ref |-> ref[1], neutral |-> c[1] = c[2] /\ c[2] = c[3]], ColorName(c))

DoResize ==
    /\ Asked("resize")
    /\ \E w, h \in 1..9, limit \in 1..5 :
           Answered([w |-> w, h |-> h, limit |-> limit], Resized(w, h, limit))

\* The answer is returned.
Return ==
    /\ done
    /\ done' = FALSE /\ case' = <<>> /\ out' = <<>>
    /\ UNCHANGED task

Tasks == {"search", "rerank", "byId", "lookup", "detect", "detectById", "verify", "filter",
          "estimate", "price", "priceOwn", "recommend", "evaluate", "aggregate", "enrich",
          "describe", "name", "resize"}

Init ==
    /\ task \in Tasks
    /\ done = FALSE /\ case = <<>> /\ out = <<>>

Next ==
    \/ DoSearch
    \/ DoSearchHalf
    \/ DoRerank
    \/ DoById
    \/ DoLookup
    \/ DoDetect
    \/ DoDetectById
    \/ DoVerify
    \/ DoFilter
    \/ DoEstimate
    \/ DoPrice
    \/ DoPriceOwn
    \/ DoRecommend
    \/ DoEvaluate
    \/ DoAggregate
    \/ DoEnrich
    \/ DoDescribe
    \/ DoName
    \/ DoResize
    \/ Return

Spec == Init /\ [][Next]_vars

-----------------------------------------------------------------------------
(* Properties.                                                             *)

Answer(t) == task = t /\ done

Sim(near, p) == IF p \in DOMAIN near THEN near[p] ELSE 0

Beats(q, p, r) == \A m \in Modalities : Sim(q[m], p) > Sim(q[m], r)

\* At most k products, none twice, and none before or instead of one that
\* beats it.
Honest(q, k, found) ==
    /\ Len(found) <= k /\ \A i, j \in DOMAIN found : i < j => found[i].id # found[j].id
    /\ \A j \in DOMAIN found, p \in DOMAIN q.image :
           Beats(q, p, found[j].id) => \E i \in 1..j - 1 : found[i].id = p

\* The order of hybrid search is honest although each modality is cut at its
\* own top k before the fusion: a product that beats another one in both
\* modalities is never listed below it nor left out for it, and no product is
\* listed twice.  With reranking, no candidate that was scored is left out
\* for a less relevant one, although they are scored in batches.  A search by
\* id answers as if its product were not indexed (HybridSearchService), and a
\* batch of ids is answered in their order, each once (ProductLookupService).
HybridRanks ==
    LET Listed == {out[i].id : i \in DOMAIN out}
    IN  /\ Answer("search") \/ Answer("rerank") \/ Answer("byId") =>
             Cardinality(Listed) = Len(out) /\ Len(out) <= case.k
        /\ Answer("search") /\ case.q.has = Modalities => Honest(case.q, case.k, out)
        /\ Answer("rerank") =>
             LET pool == Take(Search(case.q, case.relevance, Larger(TopN, case.k), FALSE), TopN)
             IN  /\ Listed \subseteq ToSet(Ids(pool))
                 /\ \A p \in ToSet(Ids(pool)) \ Listed, r \in Listed :
                        case.relevance[p] <= case.relevance[r]
        /\ Answer("byId") =>
             LET others == [has |-> case.q.has, image |-> Restrict(case.q.image, Shop),
                            text |-> Restrict(case.q.text, Shop)]
             IN  out = Search(others, others.image, case.k, FALSE)
        /\ Answer("lookup") =>
             LET First(p) == CHOOSE i \in DOMAIN case.ids :
                     case.ids[i] = p /\ \A j \in 1..i - 1 : case.ids[j] # p
                 InOrder(list) == \A i, j \in DOMAIN list : i < j => First(list[i]) < First(list[j])
             IN  /\ ToSet(out.found) = ToSet(case.ids) \cap case.stored
                 /\ ToSet(out.missing) = ToSet(case.ids) \ case.stored
                 /\ InOrder(out.found) /\ InOrder(out.missing)

\* The signals of p as the formula of SimilarityScorer adds them, p compared
\* in full, in the unit of the confidence.
FullScore(p) ==
    60 * (DuplicateWeights.image * case.q.image[p]
          + DuplicateWeights.text * (IF case.reranking THEN case.relevance[p] ELSE case.q.text[p]))
    + DuplicateWeights.metadata * MetadataSimilarity(case.product, case.catalog[p])
    + DuplicateWeights.attribute * AttributeSimilarity(case.product, case.catalog[p])

\* The other products that are no less near than p in one of these ways.
Rivals(ways, p) == {r \in Shop \ {p} : \E near \in ways : near[r] >= near[p]}

\* No cut can pass p over: it has fewer rivals than the search looks for in
\* each modality, and than the reranking leaves.
Unmissable(p) ==
    /\ Cardinality(Rivals({case.q.image, case.q.text}, p))
          < IF case.reranking THEN Larger(TopN, case.k) ELSE case.k
    /\ case.reranking => Cardinality(Rivals({case.relevance}, p)) < case.k

\* The verdict does not hang on the order of the candidates, though the
\* search cuts each modality and their fusion at its top k, and may miss the
\* best product for that (hybrid_search_service.py:26): the confidence is no
\* lower than the full score of a product no cut can pass over, and no
\* higher than that of some product; a duplicate is reported exactly when it
\* reaches the threshold, and the one named scores it.  A stored product is
\* never its own duplicate.  A verified verdict is about a candidate no less
\* relevant than those no cut can pass over, relevant enough and of no other
\* brand.
VerdictIsBest ==
    /\ Answer("detect") \/ Answer("detectById") =>
         /\ \A p \in Shop : Unmissable(p) => FullScore(p) <= out.confidence
         /\ \E p \in Shop : out.confidence <= FullScore(p)
         /\ out.duplicate <=> out.confidence >= 6000 * DuplicateThreshold
         /\ out.duplicate => out.matched \in Shop /\ out.confidence <= FullScore(out.matched)
    /\ Answer("verify") =>
         /\ \A p \in Shop : Unmissable(p) => case.relevance[p] <= case.relevance[out.matched]
         /\ out.duplicate =>
              /\ case.relevance[out.matched] >= CrossEncoderThreshold
              /\ Absent \in {case.product.brand, case.catalog[out.matched].brand}
                 \/ case.product.brand = case.catalog[out.matched].brand

\* A filter finds what was stored: a product that was typed with a category
\* and is looked for with the same words passes, and no other does
\* (normalize_facet on both sides).
FilterFindsStored ==
    Answer("filter") =>
        (out <=> LET f == case.filter
                     d == case.product
                 IN  /\ f.category = Absent \/ (d.category # Absent /\ f.category.key = d.category.key)
                     /\ f.brand = Absent \/ (d.brand # Absent /\ d.brand.key = f.brand.key)
                     /\ \/ f.minPrice = 0 /\ f.maxPrice = 0
                        \/ /\ d.price # 0 /\ f.minPrice <= d.price
                           /\ f.maxPrice = 0 \/ d.price <= f.maxPrice)

PricesIn(cs) == {cs[i].price : i \in DOMAIN cs}
Others(cs, v) == {i \in DOMAIN cs : cs[i].price # v}

\* At least half of the comparables are kept, the estimate is within their
\* prices, and all but one of six or more decide.
Grounded(cs, estimate) ==
    /\ 2 * Len(estimate.kept) >= Len(cs)
    /\ Min(PricesIn(cs)) <= estimate.price /\ estimate.price <= Max(PricesIn(cs))
    /\ Len(cs) >= 6 => \A v \in PricesIn(cs) : Cardinality(Others(cs, v)) = 1 => estimate.price = v

\* How near a product is to a query, by both vectors.
Fused(q, p) == HybridWeights.image * Sim(q.image, p) + HybridWeights.text * Sim(q.text, p)

\* The estimate lies between the lowest and the highest price it was made
\* from, rounded or not, outliers are never more than half, and from six
\* comparables on a lone stray price does not move it.  The price of a
\* stored product is made from other products of its category whose image
\* and text together are similar enough.
PriceGrounded ==
    /\ Answer("priceOwn") =>
         \A c \in ToSet(out.kept) :
             /\ c.id # p4 /\ Fused(case.q, c.id) >= SimilarityFloor
             /\ case.catalog[p4].category \in {Absent, case.catalog[c.id].category}
    /\ Answer("estimate") /\ case.cs # <<>> => Grounded(case.cs, out)

OfBrand(found, b) == {i \in DOMAIN found : found[i].brand = b}
StoredOf(shop, catalog, b) == {p \in shop : catalog[p].brand = b}

\* At most k of the products of a shop, the best first, no brand before its turn.
Fair(shop, catalog, k, found) ==
    /\ Len(found) = Smaller(k, Cardinality(shop))
    /\ \A i \in DOMAIN found : found[i].final <= found[1].final
    /\ \A b, c \in {catalog[p].brand : p \in shop} :
           Cardinality(OfBrand(found, b)) > Cardinality(OfBrand(found, c)) + 1
           => Cardinality(OfBrand(found, c)) = Cardinality(StoredOf(shop, catalog, c))
    /\ \A i, j \in DOMAIN found :
           i < j /\ found[i].brand = found[j].brand => found[i].final >= found[j].final

\* Diversity is fair and costs no result: a brand gets two more places than
\* another one only when the other has no candidate left, the best candidate
\* leads, and the candidates of a brand keep their order.
BrandsFair == Answer("recommend") => Fair(Shop, case.catalog, case.k, out)

\* The metrics of one answer agree with each other and with the ranks; means
\* are over the queries that were answered, so a failure does not read as a
\* bad answer, and what failed and what was averaged make up the run.
MetricsAgree ==
    /\ Answer("evaluate") =>
         LET s == case.retrieved
             e == case.expected
             top == {i \in DOMAIN s : i <= case.k}
             hits == Cardinality({i \in top : s[i] \in e})
         IN  /\ Same(HitRateAtK(s, e, case.k), <<1, 1>>) <=> AtMost(<<1, case.k>>, out.rr)
             /\ out.precision[1] * Cardinality(top) = hits * out.precision[2]
             /\ out.recall[1] * Cardinality(e) = hits * out.recall[2]
             /\ AtMost(out.recall, RecallAtK(s, e, case.k + 1))
             /\ AtMost(NdcgAtK(s, e, case.k), <<1, 1>>)
             /\ Same(NdcgAtK(s, e, case.k), <<1, 1>>) <=>
                    \A i \in 1..Smaller(case.k, Cardinality(e)) : i \in top /\ s[i] \in e
    /\ Answer("aggregate") /\ out # Failed =>
         LET Answered1(run, t) == SelectSeq(run.results, LAMBDA r : r.task = t /\ ~r.error)
             Above(x, y) == ~AtMost(x, y)
         IN  /\ \A run \in {out.without, out.with} :
                    /\ run.size <= Cardinality(case.wanted)
                    /\ run.failures + MapThenSumSet(LAMBDA t : run.metrics[t].count, DOMAIN run.metrics) = run.size
                    /\ \A t \in DOMAIN run.metrics :
                           /\ run.metrics[t].count = Len(Answered1(run, t))
                           /\ \E r \in ToSet(Answered1(run, t)) : AtMost(r.rr, run.metrics[t].rr)
                           /\ \E r \in ToSet(Answered1(run, t)) : AtMost(run.metrics[t].rr, r.rr)
             /\ \A t \in DOMAIN out.improvement :
                    out.improvement[t][1] > 0 <=> Above(out.with.metrics[t].rr, out.without.metrics[t].rr)
    /\ Answer("aggregate") => (out = Failed <=> \E q \in ToSet(case.entries) : ~Valid(q))

\* The best of what was predicted and offered.
KeepsBest(predictions, offered, found) ==
    LET resolved == found.merge.resolved
        kept == ToSet(found.tags)
        names == {t.tag : t \in kept}
    IN  /\ \A p \in predictions : p.confidence >= Threshold => p.attribute \in DOMAIN resolved
        /\ \A a \in DOMAIN resolved :
               resolved[a] \in {p \in predictions : p.attribute = a /\ p.confidence >= Threshold}
        /\ \A p \in predictions : p.attribute \in DOMAIN resolved =>
               p.confidence <= resolved[p.attribute].confidence
        /\ Cardinality(names) = Len(found.tags) /\ Len(found.tags) <= MaxTags
        /\ \A t \in kept :
               /\ t.confidence >= Threshold
               /\ \E q \in offered : q.tag = t.tag /\ q.confidence = t.confidence
               /\ \A q \in offered : q.tag = t.tag => q.confidence <= t.confidence
        /\ \A q \in offered : q.tag \notin names => \A t \in kept : q.confidence <= t.confidence
        /\ found.quality \in 0..600000 * AttributeCount

\* Enrichment keeps the best evidence: an attribute has the value of a most
\* confident prediction of it, a tag is as confident as the best of its name
\* and left out only for tags that are no less confident, none below the
\* threshold is given and none twice; the score is a share of the full score
\* (CatalogIntelligenceService.enrich).
EnrichKeepsBest ==
    Answer("enrich") =>
        LET Pass(p, found) == IF p \in case.passes THEN ToSet(found) ELSE {}
            predictions == Pass("text", TextPredictions(case.given, case.text))
                           \cup Pass("image", ImagePredictions(case.color))
            offered == Pass("text", TextTags(case.given, case.text))
                       \cup Pass("image", ImageTags(case.color, <<"portrait">>))
        IN  KeepsBest(predictions, offered, out)

\* The color and brightness reported are the subject's, not the backdrop's,
\* wherever the subject stands, whatever detail it carries and however the
\* camera was held, while the backdrop holds most of the border; the reference colors and their
\* neighbours have their own names, but for the near-whites: the saturation
\* of HLS is high there, and <<254, 254, 255>> is "blue"; and a resized image
\* fits, keeps its proportions to the pixel and is never enlarged
\* (utils/image.py).
ColorOfSubject ==
    /\ Answer("describe") =>
         LET Count(s, c) == Cardinality({i \in DOMAIN s : s[i] = c})
             border == Border(case.picture)
         IN  /\ 2 * Count(border, case.backdrop) > Len(border)
             /\ Count(Pixels(case.picture), case.subject) > 1
             => /\ out.color = case.subject
                /\ case.slim => IF case.turned THEN "landscape" \in out.names ELSE "portrait" \in out.names
                /\ case.subject = Charcoal => {"dark", "black"} \subseteq out.names
    /\ Answer("name") /\ (case.ref = "white" => case.neutral) => out = case.ref
    /\ Answer("resize") =>
         LET w == case.w  h == case.h IN
         /\ out[1] \in 1..w /\ out[2] \in 1..h
         /\ Larger(w, h) <= case.limit => out = <<w, h>>
         /\ Larger(w, h) > case.limit =>
              /\ Larger(out[1], out[2]) = case.limit
              /\ Abs(out[1] * h - out[2] * w) <= Larger(w, h)

=============================================================================
