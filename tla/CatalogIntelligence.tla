-------------------------- MODULE CatalogIntelligence --------------------------
(***************************************************************************)
(* CatalogIntelligenceService: predictions from the text and the image of  *)
(* a product, merged into one value per attribute, tags and a quality      *)
(* score.  A text is the sequence of the words it mentions; a keyword      *)
(* table is a sequence of keywords with their values.                      *)
(* Confidences are percentages.                                            *)
(***************************************************************************)
EXTENDS PyLists

CONSTANTS
    Keywords,       \* attribute -> its table, of pairs <<keyword, value>>
    TextOrder,      \* the attributes of the text pass, in its order
    TextConfidence, \* attribute -> confidence of a keyword match
    Descriptors,    \* words that are tags as they are, sorted
    DescriptorConfidence,
    AttributeCount, \* fields of ProductAttributes
    Threshold,      \* confidence_threshold
    MaxTags,
    QualityWeights  \* completeness, confidence, consistency

\* What CatalogIntelligenceSettings accepts.
CatalogSettings ==
    /\ Threshold \in 0..100
    /\ MaxTags \in Nat \ {0}
    /\ QualityWeights \in [{"completeness", "confidence", "consistency"} -> Nat]

\* The tables in text_attribute_service.py.
ExtractorTables ==
    /\ \A a \in DOMAIN Keywords : Keywords[a] \in Seq(STRING \X STRING) /\ TextConfidence[a] \in 0..100
    /\ TextOrder \in Seq(DOMAIN Keywords) /\ {"color", "material", "style"} \subseteq DOMAIN Keywords
    /\ Descriptors \in Seq(STRING) /\ DescriptorConfidence \in 0..100
    /\ AttributeCount \in Nat \ {0}

ASSUME CatalogAssumption == CatalogSettings /\ ExtractorTables

Prediction(attribute, value, confidence, source) ==
    [attribute |-> attribute, value |-> value, confidence |-> confidence, source |-> source]

\* _find_first_keyword: the value of the keyword that is earliest in the text,
\* not in the table; none or one.
FirstKeyword(text, attribute) ==
    LET hits == Where(text, LAMBDA w : \E e \in ToSet(Keywords[attribute]) : e[1] = w)
    IN  IF hits = <<>> THEN <<>>
        ELSE <<Head(Where(Keywords[attribute], LAMBDA e : e[1] = hits[1]))[2]>>

\* _find_all_keywords: every value, in the order of the table.
AllKeywords(text, attribute) ==
    WithoutRepeats(Mapped(Where(Keywords[attribute], LAMBDA e : e[1] \in ToSet(text)),
                          LAMBDA e : e[2]), LAMBDA v : v)

\* extract_attributes: brand and category are trusted when they are given.
TextPredictions(given, text) ==
    Mapped(Where(TextOrder, LAMBDA a : a \in DOMAIN given \/ FirstKeyword(text, a) # <<>>),
           LAMBDA a : IF a \in DOMAIN given THEN Prediction(a, given[a], 100, "text")
                      ELSE Prediction(a, FirstKeyword(text, a)[1], TextConfidence[a], "text"))

Tag(tag, confidence, source) == [tag |-> tag, confidence |-> confidence, source |-> source]

\* generate_tags of the text: the predictions, then every color, material and
\* style that is mentioned, then the descriptors; the first of equal tags is
\* kept.
TextTags(given, text) ==
    LET All(a) == Mapped(AllKeywords(text, a), LAMBDA v : Tag(v, TextConfidence[a], "text"))
    IN  WithoutRepeats(
            Mapped(TextPredictions(given, text), LAMBDA p : Tag(p.value, p.confidence, "text"))
            \o All("color") \o All("material") \o All("style")
            \o Mapped(Where(Descriptors, LAMBDA w : w \in ToSet(text)),
                      LAMBDA w : Tag(w, DescriptorConfidence, "text")),
            LAMBDA t : t.tag)

\* The image pass knows the color only, and a few tags about the picture.
ImagePredictions(color) == <<Prediction("color", color, 70, "image")>>
ImageTags(color, about) == Mapped(Append(about, color), LAMBDA t : Tag(t, 70, "image"))

\* The predictions of one attribute, the most confident first, the first of
\* equals before the others.
Ranked(predictions, a) ==
    SortedDown(Where(predictions, LAMBDA p : p.attribute = a), LAMBDA p : p.confidence)

\* Mutant: the last prediction wins.
MergeAttributes_LastWins(predictions) ==
    LET seen == {predictions[i].attribute : i \in DOMAIN predictions}
        Best(a) == Last(Where(predictions, LAMBDA p : p.attribute = a))
    IN  [resolved |-> [a \in {a \in seen : Best(a).confidence >= Threshold} |-> Best(a)],
         conflicts |-> Cardinality({a \in seen :
                           \E p, q \in ToSet(Ranked(predictions, a)) : p.value # q.value}),
         considered |-> Cardinality(seen)]

\* _merge_attributes: the most confident prediction of each attribute, if it
\* reaches the threshold.
MergeAttributes(predictions) ==
    LET seen == {predictions[i].attribute : i \in DOMAIN predictions}
        Best(a) == Head(Ranked(predictions, a))
    IN  [resolved |-> [a \in {a \in seen : Best(a).confidence >= Threshold} |-> Best(a)],
         conflicts |-> Cardinality({a \in seen :
                           \E p, q \in ToSet(Ranked(predictions, a)) : p.value # q.value}),
         considered |-> Cardinality(seen)]

\* The tags of one name as one tag, from "hybrid" if their sources differ.
MergedTag(tags, t) ==
    LET of == {tags[i] : i \in {i \in DOMAIN tags : tags[i].tag = t}}
    IN  Tag(t, Max({x.confidence : x \in of}),
            IF Cardinality({x.source : x \in of}) > 1 THEN "hybrid" ELSE (CHOOSE x \in of : TRUE).source)

MergedTags(tags) ==
    Where(Mapped(WithoutRepeats(tags, LAMBDA x : x.tag), LAMBDA x : MergedTag(tags, x.tag)),
          LAMBDA x : x.confidence >= Threshold)

\* Mutant: the list is cut before it is sorted.
MergeTags_CutFirst(tags) == SortedDown(Take(MergedTags(tags), MaxTags), LAMBDA x : x.confidence)

\* _merge_tags
MergeTags(tags) == Take(SortedDown(MergedTags(tags), LAMBDA x : x.confidence), MaxTags)

\* _compute_quality_score, in 1/(60 * 10000 * AttributeCount): exact for up to
\* six attributes considered or resolved.
Quality(merge) ==
    LET filled == Cardinality(DOMAIN merge.resolved)
        confidence == IF filled = 0 THEN 0
                      ELSE MapThenSumSet(LAMBDA a : merge.resolved[a].confidence, DOMAIN merge.resolved)
                           * (60 \div filled)
        consistency == IF merge.considered = 0 THEN 60
                       ELSE 60 - merge.conflicts * (60 \div merge.considered)
    IN  Clamp(QualityWeights.completeness * filled * 6000
              + QualityWeights.confidence * confidence * AttributeCount
              + QualityWeights.consistency * consistency * 100 * AttributeCount,
              600000 * AttributeCount)

\* CatalogIntelligenceService.enrich, with the passes that are enabled.
Enrich(passes, given, text, color, about) ==
    LET Pass(p, found) == IF p \in passes THEN found ELSE <<>>
        merge == MergeAttributes(Pass("text", TextPredictions(given, text))
                                 \o Pass("image", ImagePredictions(color)))
    IN  [merge |-> merge, quality |-> Quality(merge),
         tags |-> MergeTags(Pass("text", TextTags(given, text))
                            \o Pass("image", ImageTags(color, about)))]

=============================================================================
