-------------------------------- MODULE Facets --------------------------------
(***************************************************************************)
(* What is stored of a product's texts, and what a filter compares.  A     *)
(* text has a key (its words) and a form: as typed, folded (trimmed and    *)
(* case-folded), or a slug, which differs from the folded text when there  *)
(* are several words.  Texts other than the category are only trimmed,     *)
(* which is left out; a blank text is Absent.                              *)
(***************************************************************************)
EXTENDS Integers

CONSTANTS
    Absent,
    Words,         \* the keys of texts
    SeveralWords   \* those of more than one word

Texts == [key : Words, form : {"typed", "folded", "slug"}]

ASSUME TextsAssumption == SeveralWords \subseteq Words /\ Absent \notin Texts

Text(key, form) == [key |-> key, form |-> form]

\* str.casefold and str.strip, as ComparableFilter compares categories.
Fold(c) == IF c # Absent /\ c.form = "typed" THEN Text(c.key, "folded") ELSE c

\* normalize_facet: the ingest path and the filters of a search.
NormalizeFacet(c) ==
    IF c = Absent THEN Absent
    ELSE Text(c.key, IF c.key \in SeveralWords THEN "slug" ELSE "folded")

\* Mutant: what a filter is compared with is stored as it was typed.
Stored_AsTyped(product) ==
    [f \in DOMAIN product \cup {"brandKey", "categoryKey"} |->
        CASE f = "brandKey" -> product.brand
          [] f \in {"category", "categoryKey"} -> product.category
          [] OTHER -> product[f]]

\* The metadata process_upload stores with both vectors: the brand stays as
\* it was typed, next to the keys that filters are compared with.
Stored(product) ==
    [f \in DOMAIN product \cup {"brandKey", "categoryKey"} |->
        CASE f = "brandKey" -> NormalizeFacet(product.brand)
          [] f \in {"category", "categoryKey"} -> NormalizeFacet(product.category)
          [] OTHER -> product[f]]

\* _build_filter: the points a filtered search looks at.  A bound is 0 when it
\* is not given; a point without a price (0) satisfies no bound.
Passes(filter, data) ==
    /\ NormalizeFacet(filter.category) \in {Absent, data.categoryKey}
    /\ NormalizeFacet(filter.brand) \in {Absent, data.brandKey}
    /\ filter.minPrice = 0 \/ (data.price # 0 /\ data.price >= filter.minPrice)
    /\ filter.maxPrice = 0 \/ (data.price # 0 /\ data.price <= filter.maxPrice)

=============================================================================
