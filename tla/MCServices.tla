------------------------------ MODULE MCServices ------------------------------
(* Instances of Services for TLC.                                          *)
EXTENDS Services, TLC

CONSTANTS t1, t2, t3, a, b, c

\* a and b are near-duplicates, c is like nothing but itself.
LikeTwins == {<<p, p>> : p \in {a, b, c}} \cup {<<a, b>>, <<b, a>>}

\* Two services of one process, a third in another one.
TwoProcesses == [t \in {t1, t2, t3} |-> IF t = t3 THEN "worker" ELSE "api"]

\* Two attempts of product a, which overlap; one of b.
TwoAttempts == [t \in {t1, t2, t3} |-> IF t = t3 THEN b ELSE a]

\* Two runs, of either client, over a catalog of two products.
TwoProducts == <<"twin", "other">>
SomeStages == {{"health"}, {"pipeline"}, {"ai"}, {"ops"},
               {"health", "catalog", "pipeline", "ai", "ops"}}

\* The worker may be in the middle of a model's load when it is told to stop.
ThreeChildren == <<"redis", "api", "worker">>

=============================================================================
