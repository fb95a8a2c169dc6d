------------------------ MODULE EventClassification ------------------------
(***************************************************************************)
(* The type of event a paragraph is taken for: the patterns of the active  *)
(* types scored against the text, the types that share the best pattern,   *)
(* and the patterns closest in meaning when none is good enough.           *)
(*                                                                         *)
(* Types and patterns are sequences, in the order the database gives them. *)
(* A text says for each pattern what its expression finds and how well the *)
(* text fits it letter by letter, and for each pattern the best cosine of  *)
(* its windows; scores are in percent.                                     *)
(***************************************************************************)
EXTENDS Lists

CONSTANTS
    NoType, NoFragment,
    IsRegex(_),        \* _looks_like_regex
    Alike(_, _),       \* how much two patterns or fragments look alike
    Boost(_, _),       \* what acronyms and rare words add and generic ones take
    MinScore, ClassifierTopK, SemanticPatternThreshold, SimilarMinScore

ASSUME ClassifierAssumption ==
    /\ MinScore \in Int /\ SemanticPatternThreshold \in Int
    /\ ClassifierTopK \in Nat \ {0}

Clamp(score) == Max({0, Min({100, score})})

ById(types, id) == types[CHOOSE k \in DOMAIN types : types[k].id = id]

ActiveType(types, id) == \E k \in DOMAIN types : types[k].id = id /\ types[k].active

\* One pattern against the text, in rank_event_types: an expression that finds
\* nothing is compared letter by letter like any other text.
Candidate(text, row) ==
    LET hit == IF IsRegex(row.pattern) THEN text.regex[row.pattern] ELSE NoFragment
    IN  IF hit # NoFragment
        THEN [row |-> row, score |-> Clamp(Alike(row.pattern, hit)), fragment |-> hit]
        ELSE [row |-> row, score |-> text.fuzzy[row.pattern].score,
              fragment |-> text.fuzzy[row.pattern].fragment]

\* Mutant: the first of all.
FirstOfAll(found) == found[1]

\* The first of the best.
FirstBest(found) ==
    found[CHOOSE k \in DOMAIN found :
              \A j \in DOMAIN found : \/ found[k].score > found[j].score
                                      \/ found[k].score = found[j].score /\ k <= j]

\* The patterns of a type, and the types that have any.
RowsOf(patterns, type) == Filter(patterns, {r \in ToSet(patterns) : r.type = type.id /\ r.active})

LiveTypes(types, patterns) ==
    Filter(types, {t \in ToSet(types) : t.active /\ RowsOf(patterns, t) # <<>>})

BestOf(text, rows) == FirstBest([k \in DOMAIN rows |-> Candidate(text, rows[k])])

\* The first n of those that score enough, the best first and equals in turn.
Ranked(each, n) ==
    LET good == {k \in DOMAIN each : each[k].score >= MinScore}
        before(a, b) == \/ each[a].score > each[b].score
                        \/ each[a].score = each[b].score /\ a < b
        order == Sorted(good, {x \in good \X good : before(x[1], x[2])})
    IN  [k \in 1..Min({n, Len(order)}) |-> each[order[k]]]

\* rank_event_types: one candidate a type, the best first.
RankEventTypes(types, patterns, text) ==
    LET live == LiveTypes(types, patterns)
    IN  Ranked([k \in DOMAIN live |-> BestOf(text, RowsOf(patterns, live[k]))], ClassifierTopK)

\* _build_pattern_candidates: every active type that has the best pattern.
PatternCandidates(types, patterns, best) ==
    LET fits(row) == /\ row.active
                     /\ row.pattern = best.row.pattern
                     /\ ActiveType(types, row.type)
                     /\ Alike(row.pattern, best.fragment) >= MinScore
        same == {k \in DOMAIN patterns : fits(patterns[k])}
        name(k) == ById(types, patterns[k].type).name
        order == SetToSortSeq(same, LAMBDA a, b : \/ name(a) < name(b)
                                                  \/ name(a) = name(b) /\ a < b)
    IN  [k \in DOMAIN order |-> patterns[order[k]].type]

\* What _get_active_classifier_pattern_rows is filled with.
ActiveRows(types, patterns) ==
    Filter(patterns, {r \in ToSet(patterns) : r.active /\ ActiveType(types, r.type)})

\* ... and _get_event_pattern_embedding_cache.
EmbeddedPatterns(types, patterns, model) ==
    IF model THEN ActiveRows(types, patterns) ELSE <<>>

\* A pattern against the meaning of the text.
Closest(text, row) ==
    [row |-> row, fragment |-> NoFragment,
     score |-> text.near[row.pattern] + Boost(row.pattern, text)]

\* _find_semantic_event_pattern: the first of the closest patterns.
SemanticPattern(embedded, text) ==
    LET scored == [k \in DOMAIN embedded |-> Closest(text, embedded[k])]
        good == Filter(scored, {c \in ToSet(scored) : c.score >= SemanticPatternThreshold})
    IN  IF good = <<>> THEN NoType ELSE FirstBest(good)

\* _build_similar_pattern_candidates.
SimilarPatterns(known, pattern) ==
    {r \in ToSet(known) : Alike(pattern, r.pattern) >= SimilarMinScore}

\* Rows of the database, and of a cache, that a text can be scored against.
Classifiable(text, types, patterns, embedded) ==
    /\ IsList(types) /\ IsList(patterns) /\ IsList(embedded)
    /\ \A r \in ToSet(patterns) : Candidate(text, r).score \in Int
    /\ \A r \in ToSet(embedded) : Closest(text, r).score \in Int

\* _classify_event_type, with the candidates match_event shows next to it:
\* types and patterns are read from the database, embedded and known from the
\* two caches of the process.
Classify(types, patterns, embedded, known, text) ==
    LET ranked == RankEventTypes(types, patterns, text)
        near == SemanticPattern(embedded, text)
        best == IF ranked # <<>> THEN Head(ranked) ELSE near
    IN  IF best = NoType
        THEN [best |-> NoType, candidates |-> <<>>, similar |-> {}]
        ELSE [best       |-> best,
              candidates |-> IF ranked = <<>> THEN <<>>
                             ELSE PatternCandidates(types, patterns, best),
              similar    |-> SimilarPatterns(known, best.row.pattern)]
=============================================================================
