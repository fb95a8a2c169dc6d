------------------------ MODULE SubdivisionMatching ------------------------
(***************************************************************************)
(* The subdivision a paragraph names: the cached subdivisions of the       *)
(* chosen PU, looked for by name, by the name in quotation marks after the *)
(* kind of a unit, and by meaning; and the one that is accepted.           *)
(*                                                                         *)
(* A name and a text are sequences of words.  A cached row has its portal  *)
(* id, a short and a full name, the parent PU and whether an embedding is  *)
(* stored.  A text has its normalized words, the quoted name (<<>> without *)
(* one) and, for each row, the best cosine of its windows in percent.      *)
(***************************************************************************)
EXTENDS Lists

CONSTANTS
    NoPu,             \* no PU was chosen
    NoSubdivision,    \* none is accepted
    WordChars(_),         \* characters of a word
    Part(_, _),       \* the first word is a part of the second, or the same
    StopWords,        \* words any subdivision may have
    AcceptThreshold, SemanticThreshold, LowLexicalFactor, \* percent
    TopK

ASSUME SubdivisionAssumption ==
    /\ {AcceptThreshold, SemanticThreshold} \subseteq Int
    /\ LowLexicalFactor \in Nat
    /\ TopK \in Nat \ {0}

\* As the settings have it (0.1 and 0.75): without a word of the name no score is
\* good enough.
LowIsNotEnough == LowLexicalFactor < AcceptThreshold

\* Rows with ids of their own (a name is also its place in the order of names), and
\* what a text says of them: a cosine is at most 1, and a part of a word is no
\* longer than the word.
Searches(cached, text) ==
    LET names == UNION {ToSet(r.short) \cup ToSet(r.full) : r \in cached}
    IN  /\ IsFiniteSet(cached)
        /\ \A r \in cached : /\ {r.id, r.name} \subseteq Int
                            /\ IsList(r.short) /\ IsList(r.full)
                            /\ text.cosine[r.id] \in Int /\ text.cosine[r.id] <= 100
        /\ \A r, s \in cached : r.id = s.id => r = s
        /\ IsList(text.words) /\ IsList(text.quoted)
        /\ \A w \in names \cup ToSet(text.words) : WordChars(w) \in Nat
        /\ \A w \in names, v \in ToSet(text.words) :
              Part(w, v) => WordChars(w) <= WordChars(v)

\* _build_subdivision_candidate_queryset and _load_cached_subdivisions: every
\* subdivision when the PU has none.
Rows(cached, pu) ==
    LET ofPu == {r \in cached : r.parent = pu}
    IN  IF pu = NoPu \/ ofPu = {} THEN cached ELSE ofPu

NameChars(name) == FoldLeft(LAMBDA n, w : n + WordChars(w), 0, name) + Len(name) - 1

\* Where the words of a name begin in a text, or 0.  An inflected last word
\* of the text has the name's as its beginning.
Find(name, words) ==
    LET n == Len(name)
        hits == {p \in 1..(Len(words) - n + 1) :
                    /\ \A k \in 1..(n - 1) : name[k] = words[p + k - 1]
                    /\ Part(name[n], words[p + n - 1])}
    IN  IF name = <<>> \/ hits = {} THEN 0 ELSE Min(hits)

Occurs(word, words) == \E k \in DOMAIN words : Part(word, words[k])

\* _lexical_strength.
Evidence(row) ==
    {w \in ToSet(row.short) : WordChars(w) >= 4} \cup {w \in ToSet(row.full) : WordChars(w) >= 6}

Strength(row, words) ==
    LET source == IF row.short # <<>> THEN row.short ELSE row.full
        strong == \/ \E w \in Evidence(row) : Occurs(w, words)
                  \/ Find(source, words) # 0
        shared == ToSet(words) \cap (ToSet(row.short) \cup ToSet(row.full))
    IN  IF strong THEN "strong" ELSE IF shared # {} THEN "medium" ELSE "none"

Hit(row, score, method) == [row |-> row, score |-> score, method |-> method]

\* _is_quoted_lexical_hit: the quoted words stand together in the name.
QuotedHit(quoted, row) ==
    /\ quoted # <<>>
    /\ \E p \in 1..(Len(row.full) - Len(quoted) + 1) :
          SubSeq(row.full, p, p + Len(quoted) - 1) = quoted

FirstFound(row, words) == IF Find(row.short, words) # 0 THEN row.short ELSE row.full

\* _substring_matches, and the choice among them in match_subdivision.
SubstringMatches(rows, words) ==
    LET found == {r \in rows : /\ Strength(r, words) # "none"
                               /\ \/ Find(r.short, words) # 0
                                  \/ Find(r.full, words) # 0}
        strong == {r \in found : Strength(r, words) = "strong"}
        size(r) == NameChars(FirstFound(r, words))
        at(r) == Find(FirstFound(r, words), words)
        before(r, s) == \/ size(r) > size(s)
                        \/ size(r) = size(s) /\ at(r) < at(s)
                        \/ size(r) = size(s) /\ at(r) = at(s) /\ r.id < s.id
        good == IF strong # {} THEN strong ELSE found
        best == Sorted(good, {x \in good \X good : before(x[1], x[2])})
    IN  [k \in DOMAIN best |-> Hit(best[k], 100, "substring")]

\* _quoted_name_matches.
QuotedMatches(rows, quoted) ==
    LET holds(name) == ToSet(quoted) \subseteq ToSet(name)
        found == {r \in rows : quoted # <<>> /\ (holds(r.short) \/ holds(r.full))}
        before(r, s) == \/ r.name < s.name
                        \/ r.name = s.name /\ r.id < s.id
        best == Sorted(found, {x \in found \X found : before(x[1], x[2])})
    IN  [k \in DOMAIN best |-> Hit(best[k], 90, "quoted_name")]

\* _lexical_evidence and _lexical_factor: without a word of the name in the
\* text, meaning alone counts for next to nothing.
KeyWords(row) ==
    {w \in ToSet(IF row.short # <<>> THEN row.short ELSE row.full) :
        WordChars(w) > 4 /\ w \notin StopWords}

\* Mutant: a name without key words asks for none.
FactorUnlessMissing(row, words) ==
    IF KeyWords(row) = {} \/ \E w \in KeyWords(row) : Occurs(w, words)
    THEN 100 ELSE LowLexicalFactor

LexicalFactor(row, words) ==
    IF \E w \in KeyWords(row) : Occurs(w, words) THEN 100 ELSE LowLexicalFactor

SemanticScore(row, text) == (text.cosine[row.id] * LexicalFactor(row, text.words)) \div 100

\* _semantic_window_matches.
SemanticMatches(rows, text, model) ==
    LET score(r) == SemanticScore(r, text)
        found == {r \in rows : model /\ r.embedded /\ score(r) >= SemanticThreshold}
        before(r, s) == \/ score(r) > score(s)
                        \/ score(r) = score(s) /\ r.id < s.id
        best == Sorted(found, {x \in found \X found : before(x[1], x[2])})
    IN  [k \in DOMAIN best |-> Hit(best[k], score(best[k]), "semantic_window")]

TopHits(hits) == SubSeq(hits, 1, Min({TopK, Len(hits)}))

\* match_subdivision: the first of the three ways that finds any.
MatchSubdivision(cached, text, pu, model) ==
    LET rows == Rows(cached, pu)
        whole == SubstringMatches(rows, text.words)
        quoted == QuotedMatches(rows, text.quoted)
    IN  IF text.words = <<>> THEN <<>>
        ELSE IF whole # <<>> THEN TopHits(whole)
        ELSE IF quoted # <<>> THEN TopHits(quoted)
        ELSE TopHits(SemanticMatches(rows, text, model))

\* What extract_attributes keeps: the best match, when it is good enough or
\* its name was quoted, and the score compute_status_fields will look at.
Subdivision(cached, text, pu, model) ==
    LET matches == MatchSubdivision(cached, text, pu, model)
        accepted(hit) == \/ hit.score >= AcceptThreshold
                         \/ QuotedHit(text.quoted, hit.row)
        kept(hit) == [id |-> IF accepted(hit) THEN hit.row.id ELSE NoSubdivision,
                      score |-> hit.score]
    IN  IF matches = <<>> THEN [id |-> NoSubdivision, score |-> 0] ELSE kept(Head(matches))
=============================================================================
