------------------------------- MODULE PyLists -------------------------------
(***************************************************************************)
(* Python's list operations as the services use them, on sequences.        *)
(* Scores are integers: a fraction of 1 is a number of some unit, chosen   *)
(* so that the averages and weights of the code come out exactly.          *)
(***************************************************************************)
EXTENDS Integers, Sequences, FiniteSets, SequencesExt

Smaller(a, b) == IF a <= b THEN a ELSE b
Larger(a, b) == IF a >= b THEN a ELSE b

\* max(0.0, min(1.0, n)), in units of 1/one.
Clamp(n, one) == Larger(0, Smaller(one, n))

Abs(n) == IF n < 0 THEN -n ELSE n

\* s[:n]
Take(s, n) == SubSeq(s, 1, Smaller(n, Len(s)))

Mapped(s, Op(_)) == [i \in DOMAIN s |-> Op(s[i])]

\* sum(s)
Total(s) ==
    LET upto[n \in 0..Len(s)] == IF n = 0 THEN 0 ELSE upto[n - 1] + s[n]
    IN  upto[Len(s)]

\* The chosen positions, those with larger keys first and those with the same
\* key in their own order.
Ordered(chosen, key) ==
    LET Place(j) == Cardinality({k \in chosen : key[k] > key[j] \/ (key[k] = key[j] /\ k <= j)})
    IN  [n \in 1..Cardinality(chosen) |-> CHOOSE j \in chosen : Place(j) = n]

Rearranged(s, positions) == [n \in DOMAIN positions |-> s[positions[n]]]

\* The elements at the chosen positions, in the order of s.
Picked(s, chosen) == Rearranged(s, Ordered(chosen, [i \in chosen |-> 0]))

\* [e for e in s if P(e)]
Where(s, P(_)) == Picked(s, {i \in DOMAIN s : P(s[i])})

WithoutRepeats(s, K(_)) == Picked(s, {i \in DOMAIN s : \A j \in 1..i - 1 : K(s[j]) # K(s[i])})

\* sorted(s, key=K, reverse=True), which is stable.
SortedDown(s, K(_)) == Rearranged(s, Ordered(DOMAIN s, [i \in DOMAIN s |-> K(s[i])]))

SortedUp(s) == SortedDown(s, LAMBDA n : -n)

=============================================================================
