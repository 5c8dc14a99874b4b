------------------------------ MODULE Evaluation ------------------------------
(***************************************************************************)
(* RetrievalEvaluator: the metrics of one query's ranked answer against    *)
(* the expected products, and their averages over the queries of a run.    *)
(* Fractions are pairs <<numerator, denominator>>.                         *)
(***************************************************************************)
EXTENDS PyLists

CONSTANTS
    Failed,    \* the answer of a query that raised
    Gain       \* Gain[r]: 1 / log2(r + 1) in some unit, as a sequence

Fraction(part, whole) == IF whole = 0 THEN <<0, 1>> ELSE <<part, whole>>

AtMost(a, b) == a[1] * b[2] <= b[1] * a[2]
Same(a, b) == AtMost(a, b) /\ AtMost(b, a)

Hits(retrieved, expected, k) == {r \in 1..Smaller(k, Len(retrieved)) : retrieved[r] \in expected}

\* Mutant: the relevant share of k, not of what was returned.
PrecisionAtK_OfK(retrieved, expected, k) == Fraction(Cardinality(Hits(retrieved, expected, k)), k)

\* Of what was returned, not of k.
PrecisionAtK(retrieved, expected, k) ==
    Fraction(Cardinality(Hits(retrieved, expected, k)), Len(Take(retrieved, k)))

RecallAtK(retrieved, expected, k) ==
    Fraction(Cardinality(Hits(retrieved, expected, k)), Cardinality(expected))

HitRateAtK(retrieved, expected, k) == IF Hits(retrieved, expected, k) = {} THEN <<0, 1>> ELSE <<1, 1>>

ReciprocalRank(retrieved, expected) ==
    LET hits == Hits(retrieved, expected, Len(retrieved))
    IN  IF hits = {} THEN <<0, 1>> ELSE <<1, CHOOSE r \in hits : \A h \in hits : r <= h>>

GainOf(ranks) == MapThenSumSet(LAMBDA r : Gain[r], ranks)

NdcgAtK(retrieved, expected, k) ==
    Fraction(GainOf(Hits(retrieved, expected, k)), GainOf(1..Smaller(Cardinality(expected), k)))

\* _evaluate_one: a query whose retrieval raises becomes an error entry.
EvaluateOne(query, answer, k) ==
    IF answer = Failed THEN [task |-> query.task, error |-> TRUE]
    ELSE [task |-> query.task, error |-> FALSE,
          precision |-> PrecisionAtK(answer, query.expected, k),
          recall |-> RecallAtK(answer, query.expected, k),
          rr |-> ReciprocalRank(answer, query.expected)]

\* Mutant: failed queries are averaged in as zeros.
AggregateTask_WithFailures(results, task) ==
    LET of == SelectSeq(results, LAMBDA r : r.task = task)
        ranks == SelectSeq(of, LAMBDA r : ~r.error)
    IN  [count |-> Len(of),
         rr |-> IF of = <<>> THEN <<0, 1>>
                ELSE <<Total(Mapped(ranks, LAMBDA r : (60 * r.rr[1]) \div r.rr[2])), 60 * Len(of)>>]

\* _aggregate, for the mean reciprocal rank of a task type (the other means
\* are taken alike), exact for ranks up to 6.
AggregateTask(results, task) ==
    LET of == SelectSeq(results, LAMBDA r : r.task = task /\ ~r.error)
    IN  [count |-> Len(of),
         rr |-> IF of = <<>> THEN <<0, 1>>
                ELSE <<Total(Mapped(of, LAMBDA r : (60 * r.rr[1]) \div r.rr[2])), 60 * Len(of)>>]

\* _compute_improvement, for that mean.
Improvement(before, after) ==
    <<after.rr[1] * before.rr[2] - before.rr[1] * after.rr[2], before.rr[2] * after.rr[2]>>

-----------------------------------------------------------------------------
(* A run.  A query of the data set has an id, a task, the fields it is      *)
(* asked by (text, image, product), and the products it expects.            *)

\* EvaluationQuery's validator.
Valid(query) ==
    IF query.task = "retrieval" THEN query.has \cap {"text", "image"} # {} ELSE "product" \in query.has

\* DatasetLoader.load: an entry that is not valid fails them all.
Load(entries) == IF \A q \in ToSet(entries) : Valid(q) THEN entries ELSE Failed

\* _resolve_queries: the ids that are wanted, the first of them.
ResolveQueries(queries, wanted, limit) == Take(SelectSeq(queries, LAMBDA q : q.id \in wanted), limit)

\* _retrieve, where answers[id] is what the system that is asked returns; to
\* search by image is not supported yet.
Retrieve(query, answers) ==
    IF query.task = "retrieval" /\ "text" \notin query.has THEN Failed ELSE answers[query.id]

\* RetrievalEvaluator.evaluate; metrics are of tasks with an answered query.
Evaluate(queries, answers, k) ==
    LET results == Mapped(queries, LAMBDA q : EvaluateOne(q, Retrieve(q, answers), k))
    IN  [size |-> Len(queries), results |-> results,
         failures |-> Len(SelectSeq(results, LAMBDA r : r.error)),
         metrics |-> [t \in {r.task : r \in {r \in ToSet(results) : ~r.error}} |->
                         AggregateTask(results, t)]]

\* compare_reranking: the same queries, without and with the reranker.
CompareReranking(queries, answers, reranked, k) ==
    LET without == Evaluate(queries, answers, k)
        with == Evaluate(queries, reranked, k)
    IN  [without |-> without, with |-> with,
         improvement |-> [t \in DOMAIN without.metrics \cap DOMAIN with.metrics |->
                             Improvement(without.metrics[t], with.metrics[t])]]

=============================================================================
