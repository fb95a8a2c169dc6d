-------------------------- MODULE PersonExtraction --------------------------
(***************************************************************************)
(* The people of one paragraph: the hits of the four extractors merged and *)
(* deduplicated, split into offenders and employees, and the staff list.   *)
(*                                                                         *)
(* What the regular expressions and the Natasha extractor find in a text   *)
(* is the input; a paragraph is                                            *)
(*   tokens    its words, [word, span], in text order                      *)
(*   hits[e]   the names extractor e finds, in text order: the parts of    *)
(*             the name, the span, and the first word in it (lead)         *)
(*   births    the birth dates and years in the text: where, what, and the *)
(*             pattern that reads it, 1..4 in the order they are tried     *)
(*   staff     surnames with initials, what _STAFF_RE finds but the rank   *)
(*   parens    the parentheses, as spans                                   *)
(***************************************************************************)
EXTENDS Lists

CONSTANTS
    NoPart,        \* a part of a name that is not given
    NoDob, BadDob, \* no birth date; one the calendar does not have
    BirthWindow,   \* characters after a name that are searched for a birth date
    Letters(_),    \* letters of a name part
    Initial(_),    \* the initial of a name part, NoPart for none
    Nominative(_), \* a name part in the nominative
    Cyrillic(_), Abbreviation(_), TitleCase(_), Verbish(_), NameLike(_),
    Particles, StopList, \* words that are never a part of a name
    EmployeeMarkers, RankMarkers, Connectors,
    IsRank(_),     \* words _RANK_PATTERN takes for a rank
    NoRank,        \* no rank before a name
    FullRank(_),   \* the rank that words stand for, NoRank for none
    RankWindow     \* characters before a name that are searched for a rank

ASSUME WindowAssumption == BirthWindow \in Nat

NoSpan == <<>>

Extractors == <<"natasha", "complex", "initials", "context">>

IsSpan(span) == span \in Int \X Int /\ span[1] < span[2]

\* What is found in a text, in its order, with its place.
ListsIn(text) ==
    LET names == UNION {ToSet(text.hits[e]) : e \in ToSet(Extractors)}
    IN  /\ \A e \in ToSet(Extractors) : IsList(text.hits[e])
        /\ IsList(text.staff) /\ IsList(text.tokens)
        /\ \A x \in names \cup ToSet(text.staff) \cup ToSet(text.tokens) : IsSpan(x.span)

Length(span) == span[2] - span[1]

\* (No pair of hits is without a span.)
Overlaps(a, b) == a[1] < b[2] /\ b[1] < a[2]

-----------------------------------------------------------------------------
(* Names.                                                                  *)

\* parse_birth_info.  A full date that no calendar has ends the search.
BirthAfter(text, end) ==
    LET near == {b \in text.births : b.at >= end /\ b.at < end + BirthWindow}
        first == CHOOSE b \in near :
                     \A c \in near : \/ b.pattern < c.pattern
                                     \/ b.pattern = c.pattern /\ b.at <= c.at
    IN  IF near = {} \/ first.dob = BadDob THEN NoDob ELSE first.dob

\* _looks_like_person: only the extractor of initials takes an initial for a
\* first name.
LooksLikePerson(h, extractor) ==
    /\ NoPart \notin {h.second, h.first}
    /\ \A w \in {h.second, h.first} : w \notin Particles /\ Cyrillic(w)
    /\ Letters(h.second) >= 2
    /\ Letters(h.first) >= 2 \/ extractor = "initials"

\* is_valid_person_candidate.
IsValidPerson(h) ==
    LET parts == SelectSeq(<<h.second, h.first, h.middle>>, LAMBDA w : w # NoPart)
        plain == {k \in DOMAIN parts : ~Abbreviation(parts[k])}
        titled == {k \in plain : TitleCase(parts[k])}
        named == titled \cup {k \in plain : Initial(parts[k]) = parts[k]}
    IN  /\ ToSet(parts) \cap StopList = {}
        /\ Abbreviation(parts[1]) => Len(parts) > 1 /\ TitleCase(parts[2])
        /\ Cardinality(named) >= 2
        /\ titled # {} => \E k \in titled : NameLike(parts[k])
        /\ 2 * Cardinality({k \in plain : Verbish(parts[k])}) <= Len(parts)

\* _extract_natasha, _extract_complex_regex, _extract_initials, _extract_context.
Persons(text, extractor) ==
    LET hits == text.hits[extractor]
        valid == Filter(hits, {h \in ToSet(hits) : LooksLikePerson(h, extractor)
                                                   /\ IsValidPerson(h)})
        Person(h) == [second |-> h.second, first |-> h.first, middle |-> h.middle,
                      span |-> h.span, lead |-> h.lead, dob |-> BirthAfter(text, h.span[2])]
    IN  [k \in DOMAIN valid |-> Person(valid[k])]

\* One candidate of _merge_candidates: of the names it overlaps only the first
\* one found is compared with it.
MergeOne(merged, candidate) ==
    LET over == {i \in DOMAIN merged : Overlaps(merged[i].span, candidate.span)}
    IN  IF over = {} THEN Append(merged, candidate)
        ELSE IF Length(candidate.span) > Length(merged[Min(over)].span)
             THEN [merged EXCEPT ![Min(over)] = candidate]
             ELSE merged

MergeCandidates(primary, secondary) == FoldLeft(MergeOne, primary, secondary)

Merged(text) ==
    FoldLeft(LAMBDA merged, e : MergeCandidates(merged, Persons(text, e)),
             Persons(text, "natasha"), Tail(Extractors))

PersonKey(p) == <<p.second, p.first, p.middle>>

\* A birth date is worth more than a year alone, a year more than nothing.
BirthRank(dob) == IF dob = NoDob THEN 0 ELSE IF dob.day = 0 THEN 1 ELSE 2

NameLetters(p) == Letters(p.second) + Letters(p.first) + Letters(p.middle)

\* _deduplicate: what takes the place of the same name found before.
Replaces(new, old) ==
    \/ BirthRank(new.dob) > BirthRank(old.dob)
    \/ BirthRank(new.dob) = BirthRank(old.dob) /\ NameLetters(new) > NameLetters(old)

Deduplicate(persons) ==
    LET Step(seen, p) ==
            LET same == {i \in DOMAIN seen : PersonKey(seen[i]) = PersonKey(p)}
            IN  IF same = {} THEN Append(seen, p)
                ELSE IF Replaces(p, seen[Min(same)])
                     THEN [seen EXCEPT ![Min(same)] = p]
                     ELSE seen
    IN  FoldLeft(Step, <<>>, persons)

\* extract_offenders.
ExtractOffenders(text) == Deduplicate(Merged(text))

\* What extract_attributes makes of them: the names in the nominative, which
\* may make two names one.
People(text) ==
    LET found == ExtractOffenders(text)
        Named(p) == [p EXCEPT !.second = Nominative(@), !.first = Nominative(@),
                              !.middle = Nominative(@)]
    IN  [k \in DOMAIN found |-> Named(found[k])]

-----------------------------------------------------------------------------
(* Offenders and employees.                                                *)

\* The words up to a place; they are in the order of the text.
Before(text, start) ==
    LET ended == {i \in DOMAIN text.tokens : text.tokens[i].span[2] <= start}
    IN  SubSeq(text.tokens, 1, Max({0} \cup ended))

\* is_employee_context: a marker among the last three words before the name, or
\* anywhere in the parentheses around it.
IsEmployee(text, p) ==
    LET before == Before(text, p.span[1])
        near == SubSeq(before, Max({1, Len(before) - 2}), Len(before))
        around == {r \in text.parens : r[1] < p.span[1] /\ p.span[2] <= r[2]}
        within == {t \in ToSet(text.tokens) :
                      \E r \in around : r[1] <= t.span[1] /\ t.span[2] <= r[2]}
    IN  /\ p.span # NoSpan
        /\ \E t \in ToSet(near) \cup within : t.word \in EmployeeMarkers

\* _extract_rank_before: the words right before a name that make a rank, as many
\* as do; or up to four words that are markers of a rank, with its connectors.
RankBefore(text, start) ==
    LET before == Before(text, start)
        n == Len(before)
        token(i) == before[n + 1 - i]
        last(k) == [i \in 1..k |-> before[n - k + i].word]
        close(k) == /\ token(k).span[1] >= start - RankWindow
                    /\ token(1).span[2] >= start - 1
                    /\ \A i \in 2..k : token(i).span[2] = token(i - 1).span[1] - 1
        ranks == {k \in 1..Min({3, n}) : close(k) /\ IsRank(last(k))}
        marked == {k \in 0..Min({4, n}) :
                      \A i \in 1..k : \/ token(i).word \in RankMarkers
                                      \/ i > 1 /\ token(i).word \in Connectors}
    IN  CASE ranks # {} -> [words |-> last(Max(ranks)), at |-> token(Max(ranks)).span[1]]
          [] ranks = {} /\ Max(marked) > 0 -> [words |-> last(Max(marked)), at |-> start]
          [] OTHER -> [words |-> NoRank, at |-> start]

\* split_mentions_by_employee_context.
Employees(text, people) == {p \in ToSet(people) : IsEmployee(text, p)}

Offenders(text, people) == Filter(people, ToSet(people) \ Employees(text, people))
Excluded(text, people) == Filter(people, Employees(text, people))

\* Mutant: the employees stay among the offenders.
Everybody(text, people) == people

\* The offenders of extract_attributes: who has the span of an offender.
EligibleBySpan(text, people) ==
    LET spans == {p.span : p \in ToSet(Offenders(text, people))}
    IN  Filter(people, {p \in ToSet(people) : p.span \in spans})

\* rank: the full rank where there is one, norm: the words it was written with.
StaffKey(s) == <<s.surname, s.initials, s.rank>>

\* The staff that is kept of a list: the first of those that overlap, and the
\* first of those with one key.
DistinctStaff(list) ==
    FoldLeft(LAMBDA kept, s :
                 IF \E i \in DOMAIN kept : \/ Overlaps(kept[i].span, s.span)
                                           \/ StaffKey(kept[i]) = StaffKey(s)
                 THEN kept ELSE Append(kept, s),
             <<>>, list)

\* extract_staff_mentions: the rank must stand for a full one.
StaffMentions(text) ==
    LET rank(s) == RankBefore(text, s.span[1])
        named == Filter(text.staff, {s \in ToSet(text.staff) :
                                        /\ rank(s).words # NoRank
                                        /\ FullRank(rank(s).words) # NoRank})
        Staff(s) == [surname |-> s.surname, initials |-> s.initials,
                     rank |-> FullRank(rank(s).words), norm |-> rank(s).words,
                     span |-> <<rank(s).at, s.span[2]>>]
    IN  DistinctStaff([k \in DOMAIN named |-> Staff(named[k])])

\* Mutant: only those with a rank that has a full form.
WithFullRank(text, excluded) ==
    LET words(p) == RankBefore(text, p.span[1]).words
    IN  Filter(excluded, {p \in ToSet(excluded) : words(p) # NoRank
                                                  /\ FullRank(words(p)) # NoRank})

WithRank(text, excluded) ==
    Filter(excluded, {p \in ToSet(excluded) : RankBefore(text, p.span[1]).words # NoRank})

\* build_staff_from_excluded_mentions: the surname is the first word of the
\* name; a rank that stands for none is kept as it is.
StaffOfExcluded(text, excluded) ==
    LET ranked == WithRank(text, excluded)
        rank(p) == RankBefore(text, p.span[1])
        short(p) == /\ NoPart \notin {p.first, p.middle}
                    /\ Initial(p.first) = p.first /\ Initial(p.middle) = p.middle
        Staff(p) == [surname |-> p.lead,
                     initials |-> IF short(p) THEN <<p.first, p.middle>> ELSE <<>>,
                     rank |-> IF FullRank(rank(p).words) = NoRank THEN rank(p).words
                              ELSE FullRank(rank(p).words),
                     norm |-> rank(p).words,
                     span |-> <<rank(p).at, p.span[2]>>]
    IN  DistinctStaff([k \in DOMAIN ranked |-> Staff(ranked[k])])

AsWritten(list) ==
    [k \in DOMAIN list |-> [surname |-> list[k].surname, initials |-> list[k].initials,
                            rank |-> list[k].norm, span |-> list[k].span]]

\* The staff list of extract_attributes, which tells ranks apart as they are written:
\* rank_norm.
StaffOf(text, people) ==
    DistinctStaff(AsWritten(StaffMentions(text)
                            \o StaffOfExcluded(text, Excluded(text, people))))

\* Texts as they are written: no rank has more than three words, and ranks and
\* names that overlap are of one surname.
PlainRanks(text) ==
    LET people == People(text)
        rank(x) == RankBefore(text, x.span[1])
        ranked(S) == {x \in S : rank(x).words # NoRank}
        Named(x, surname) == [surname |-> surname, span |-> <<rank(x).at, x.span[2]>>]
        staff == {Named(s, s.surname) : s \in ranked(ToSet(text.staff))}
                 \cup {Named(p, p.lead) : p \in ranked(Employees(text, people))}
    IN  /\ \A p \in ranked(ToSet(people)) : Len(rank(p).words) <= 3
        /\ \A a, b \in staff : Overlaps(a.span, b.span) => a.surname = b.surname
=============================================================================
