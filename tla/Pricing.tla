------------------------------- MODULE Pricing -------------------------------
(***************************************************************************)
(* PricingEngine: the priced products among search results, the filter on  *)
(* category and similarity, outliers, the estimate and its confidence.     *)
(* Prices are in cents, as ingestion rounds them, 0 for none (a price that *)
(* is not positive counts as none); an average is a fraction <<numerator,  *)
(* denominator>> until it is rounded.                                      *)
(***************************************************************************)
EXTENDS Retrieval, Facets

CONSTANTS
    SimilarityFloor,   \* min_comparable_similarity, in 1/10000
    RestrictCategory,  \* restrict_to_same_category
    MinComparables,
    TwiceMultiplier,   \* twice outlier_iqr_multiplier
    TrimPercent        \* trim_ratio

\* What PricingSettings accepts.
PricingSettings ==
    /\ SimilarityFloor \in 0..10000
    /\ RestrictCategory \in BOOLEAN
    /\ MinComparables \in Nat \ {0}
    /\ TwiceMultiplier \in Nat
    /\ TrimPercent \in 0..49

ASSUME PricingAssumption == PricingSettings

Strategies == {"median", "weighted_average", "trimmed_mean"}

Prices(cs) == Mapped(cs, LAMBDA c : c.price)

\* PriceNormalizer.to_comparables
ToComparables(results, catalog) ==
    Where(Mapped(results, LAMBDA r : [id |-> r.id, similarity |-> r.score,
                                          price |-> catalog[r.id].price,
                                          category |-> catalog[r.id].category]),
              LAMBDA c : c.price > 0)

\* ComparableFilter.apply: the category rule is skipped for an unknown
\* category.
Relevant(comparables, category) ==
    LET OtherCategory(c) == RestrictCategory /\ category # Absent /\ Fold(c.category) # Fold(category)
    IN  Where(comparables, LAMBDA c : ~OtherCategory(c) /\ c.similarity >= SimilarityFloor)

\* Four times the first and the third quartile (statistics.quantiles, n = 4).
Quartile(sorted, i) ==
    LET m == Len(sorted) + 1
        j == Smaller(Larger((i * m) \div 4, 1), Len(sorted) - 1)
        delta == i * m - 4 * j
    IN  sorted[j] * (4 - delta) + sorted[j + 1] * delta

\* Mutant: only prices that are too high are outliers.
RemoveOutliers_HighOnly(cs) ==
    IF Len(cs) < 4 \/ TwiceMultiplier <= 0 THEN cs
    ELSE LET sorted == SortedUp(Prices(cs))
             q1 == Quartile(sorted, 1)
             q3 == Quartile(sorted, 3)
         IN  Where(cs, LAMBDA c : 8 * c.price <= 2 * q3 + TwiceMultiplier * (q3 - q1))

\* _remove_outliers: Tukey's fence, from four comparables on.
RemoveOutliers(cs) ==
    IF Len(cs) < 4 \/ TwiceMultiplier <= 0 THEN cs
    ELSE LET sorted == SortedUp(Prices(cs))
             q1 == Quartile(sorted, 1)
             q3 == Quartile(sorted, 3)
             reach == TwiceMultiplier * (q3 - q1)
         IN  Where(cs, LAMBDA c : 2 * q1 - reach <= 8 * c.price /\ 8 * c.price <= 2 * q3 + reach)

Median(prices) ==
    LET sorted == SortedUp(prices)
        half == Len(sorted) \div 2
    IN  IF Len(sorted) % 2 = 1 THEN <<sorted[half + 1], 1>> ELSE <<sorted[half] + sorted[half + 1], 2>>

WeightedAverage(cs) ==
    LET Weight(c) == Larger(c.similarity, 0)
        weights == Total(Mapped(cs, Weight))
    IN  IF weights <= 0 THEN <<Total(Prices(cs)), Len(cs)>>
        ELSE <<Total(Mapped(cs, LAMBDA c : c.price * Weight(c))), weights>>

TrimmedMean(prices) ==
    LET sorted == SortedUp(prices)
        cut == (Len(sorted) * TrimPercent) \div 100
        kept == SubSeq(sorted, cut + 1, Len(sorted) - cut)
    IN  IF kept = <<>> THEN <<Total(sorted), Len(sorted)>> ELSE <<Total(kept), Len(kept)>>

Aggregate(cs, strategy) ==
    CASE strategy = "median" -> Median(Prices(cs))
      [] strategy = "weighted_average" -> WeightedAverage(cs)
      [] strategy = "trimmed_mean" -> TrimmedMean(Prices(cs))

\* _confidence.  The score is cf * (1 - sd / mean), cf the count over twice
\* MinComparables, at most 1; that it is at least t / 10 is said without the
\* root, and without the rounding to three digits.
Confidence(cs) ==
    LET n == Len(cs)
        sum == Total(Prices(cs))
        variance == n * Total(Mapped(cs, LAMBDA c : c.price * c.price)) - sum * sum
        full == 2 * MinComparables
        count == Smaller(n, full)
        ScoreAtLeast(t) ==
            LET room == 10 * count - t * full
            IN  room >= 0 /\ variance * 100 * count * count <= room * room * sum * sum
    IN  IF n < MinComparables THEN "LOW"
        ELSE IF ScoreAtLeast(7) THEN "HIGH" ELSE IF ScoreAtLeast(4) THEN "MEDIUM" ELSE "LOW"

\* To the nearest cent; a tie, which in the code hangs on the last bit of a
\* float, is rounded up.
InCents(f) == (2 * f[1] + f[2]) \div (2 * f[2])

\* PriceEstimator.estimate
EstimateFrom(comparables, strategy) ==
    IF comparables = <<>>
      THEN [status |-> "NO_ESTIMATE", price |-> Absent, confidence |-> "LOW", kept |-> <<>>]
      ELSE LET kept == RemoveOutliers(comparables)
           IN  [status |-> "ESTIMATED", price |-> InCents(Aggregate(kept, strategy)),
                confidence |-> Confidence(kept), kept |-> kept]

Estimate(results, catalog, category, strategy) ==
    EstimateFrom(Relevant(ToComparables(results, catalog), category), strategy)

\* estimate_for_request: the text is searched, the category is the one that
\* was typed.
EstimateForRequest(near, relevance, category, catalog, k, strategy, reranking) ==
    Estimate(Search([has |-> {"text"}, text |-> near], relevance, k, reranking),
             catalog, category, strategy)

\* estimate_for_product: the category is the stored one.
EstimateForProduct(q, target, catalog, k, strategy) ==
    Estimate(SearchByProductId(q, target, k), catalog, catalog[target].category, strategy)

=============================================================================
