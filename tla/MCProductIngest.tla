--------------------------- MODULE MCProductIngest ---------------------------
(* Instances of ProductIngest for TLC.                                     *)
EXTENDS ProductIngest, TLC

CONSTANTS a, b, c

\* a and b are near-duplicates, c is like nothing but itself.
LikeTwins == {<<p, p>> : p \in Products} \cup {<<a, b>>, <<b, a>>}

=============================================================================
