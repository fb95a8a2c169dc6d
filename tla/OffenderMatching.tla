-------------------------- MODULE OffenderMatching --------------------------
(***************************************************************************)
(* The people of a paragraph against the offenders of a portal event: one  *)
(* mention after another takes the best offender that is left, the rest is *)
(* reported as a possible match, as ambiguous or as missing.               *)
(*                                                                         *)
(* Mentions and offenders are sequences of records with the parts of the   *)
(* name and the birth date, [year, day] with day 1 for January 1st, which  *)
(* is also what stands for a year alone.                                   *)
(***************************************************************************)
EXTENDS PersonExtraction

CONSTANTS
    Form(_, _),    \* the second part is the first one in the nominative
    Ratio(_, _),   \* how much two parts look alike, in percent
    SurnameThreshold, NameThreshold

\* _candidate_birth_date: a year alone becomes January 1st.
Birthday(dob) == IF dob = NoDob THEN NoDob ELSE [dob EXCEPT !.day = Max({1, @})]

Mention(p) == [p EXCEPT !.dob = Birthday(@)]

\* _component_match: "same", "noted" for a match with a remark, or "no".
Component(summary, portal, threshold) ==
    CASE summary = NoPart -> "noted"
      [] summary # NoPart /\ Initial(summary) = summary ->
            IF portal = summary THEN "same"
            ELSE IF portal # NoPart /\ Initial(portal) = summary THEN "noted" ELSE "no"
      [] OTHER ->
            IF Form(summary, portal) THEN "same"
            ELSE IF portal # NoPart /\ Ratio(summary, portal) >= threshold
                 THEN "noted" ELSE "no"

\* _fio_match_details.
NameMatch(m, p) ==
    LET parts == {Component(m.second, p.second, SurnameThreshold),
                  Component(m.first, p.first, NameThreshold),
                  Component(m.middle, p.middle, NameThreshold)}
    IN  IF m.second = NoPart \/ "no" \in parts THEN "none"
        ELSE IF m.first = NoPart /\ m.middle = NoPart THEN "partial"
        ELSE IF parts = {"same"} THEN "exact" ELSE "fuzzy"

MatchRank(type) == CASE type = "exact" -> 3 [] type = "fuzzy" -> 2 [] type = "partial" -> 1

\* _dob_compatible.
DobCompatible(a, b) ==
    \/ a = NoDob \/ b = NoDob
    \/ a = b
    \/ a.year = b.year /\ 1 \in {a.day, b.day}

\* Mutant: an index that counts from zero.
IndexFromZero(portal, j) == j - 1

\* list.index: the first of the offenders that are equal.
IndexOf(portal, j) == Min({k \in DOMAIN portal : portal[k] = portal[j]})

\* Mutant: who was shown as a possible match is not free any more.
Unaccounted(portal, st) == DOMAIN portal \ st.accounted

Free(portal, st) == DOMAIN portal \ st.used

\* One mention of match_offenders_with_details, type how it matches each of the
\* offenders that are free.
Placed(portal, all, st, i, type) ==
    LET m == all[i]
        named == {j \in DOMAIN type : type[j] # "none"}
        fits == {j \in named : DobCompatible(m.dob, portal[j].dob)}
        rank(j) == MatchRank(type[j])
        best == CHOOSE j \in fits :
                    \A k \in fits : rank(j) > rank(k) \/ (rank(j) = rank(k) /\ j <= k)
        last == Max(named)
        namesakes == {j \in DOMAIN portal : portal[j].second = m.second}
        pair(j) == [mention |-> i, portal |-> j]
    IN  CASE fits # {} ->
                [st EXCEPT !.pairs = Append(@, pair(best)),
                           !.used = @ \cup {IndexOf(portal, best)},
                           !.accounted = @ \cup {IndexOf(portal, best)}]
          [] fits = {} /\ named # {} ->
                [st EXCEPT !.possible = Append(@, pair(last)),
                           !.accounted = @ \cup {IndexOf(portal, last)}]
          [] named = {} /\ m.first = NoPart /\ Cardinality(namesakes) > 1 ->
                [st EXCEPT !.ambiguous = @ \cup {i}]
          [] OTHER ->
                [st EXCEPT !.lost = @ \cup {i}]

Place(portal, all, st, i) ==
    Placed(portal, all, st, i, [j \in Free(portal, st) |-> NameMatch(all[i], portal[j])])

MentionKey(m) == <<m.second, m.first, m.middle, m.dob>>

\* What is told once every mention has its place.
Outcome(all, portal, end) ==
    LET told == ToSet(end.pairs) \cup ToSet(end.possible)
        covered == {portal[x.portal] : x \in told}
        keys == {MentionKey(all[x.mention]) : x \in told}
    IN  [all       |-> all,
         pairs     |-> end.pairs,
         possible  |-> end.possible,
         ambiguous |-> end.ambiguous,
         missingInPortal |-> {i \in end.lost : MentionKey(all[i]) \notin keys},
         missingInSvodka |-> {portal[j] : j \in DOMAIN portal \ end.accounted} \ covered]

\* match_offenders_with_details.
MatchDetails(all, portal) ==
    LET none == [used |-> {}, accounted |-> {}, pairs |-> <<>>,
                 possible |-> <<>>, ambiguous |-> {}, lost |-> {}]
    IN  Outcome(all, portal, FoldLeft(LAMBDA st, i : Place(portal, all, st, i),
                                      none, [i \in DOMAIN all |-> i]))

Surnames(portal) == {portal[j].second : j \in DOMAIN portal} \ {NoPart}

\* Employees are excluded, and come back at the end of the list when an
\* offender of the event has their surname.
Comparable(mentions, surnames, text) ==
    LET excluded == Excluded(text, mentions)
    IN  Offenders(text, mentions)
        \o Filter(excluded, {m \in ToSet(excluded) : m.second \in surnames})

\* match_offenders.
MatchOffenders(people, portal, text) ==
    MatchDetails(Comparable([k \in DOMAIN people |-> Mention(people[k])],
                            Surnames(portal), text), portal)

\* svodka_status_by_span, the colour of a mention in the text.
SpanStatus(result, portal, span) ==
    LET at(i) == result.all[i].span = span
        exact(x) ==
            LET a == result.all[x.mention].dob
                b == portal[x.portal].dob
            IN  \/ a = NoDob /\ b = NoDob
                \/ a # NoDob /\ b # NoDob /\ (a = b \/ (a.day = 1 /\ a.year = b.year))
        refined(x) ==
            LET a == result.all[x.mention].dob
                b == portal[x.portal].dob
            IN  a # NoDob /\ b # NoDob /\ a.day = 1 /\ b.day # 1 /\ a.year = b.year
        ok(x) == \/ /\ NameMatch(result.all[x.mention], portal[x.portal]) = "exact"
                    /\ exact(x)
                 \/ refined(x)
        shown(told) == {x \in ToSet(told) : at(x.mention)}
    IN  IF \E i \in result.missingInPortal : at(i) THEN "err"
        ELSE IF shown(result.possible) # {} THEN "warn"
        ELSE IF shown(result.pairs) = {} THEN "none"
        ELSE IF \A x \in shown(result.pairs) : ok(x) THEN "ok" ELSE "warn"

-----------------------------------------------------------------------------
(* Employees who turn out to be offenders.                                 *)

\* _staff_to_offender_payload.
StaffOffender(s) ==
    LET part(k) == IF k \in DOMAIN s.initials THEN s.initials[k] ELSE NoPart
    IN  [second |-> s.surname, first |-> part(1), middle |-> part(2),
         span |-> NoSpan, lead |-> s.surname, dob |-> NoDob]

\* Mutant: the offenders are those of the staff alone.
JoinedAnew(people, offenders) ==
    FoldLeft(LAMBDA list, o : Append(list, o), <<>>, offenders)

\* The offenders of the paragraph, and after them those who are not there yet.
Joined(people, offenders) ==
    FoldLeft(LAMBDA list, o : IF \E i \in DOMAIN list : PersonKey(list[i]) = PersonKey(o)
                              THEN list ELSE Append(list, o),
             people, offenders)

\* _apply_staff_offender_override: staff with the surname of an offender of the
\* event leave the staff list, and join the offenders unless they are there.
StaffOverride(people, staff, portal) ==
    LET moving == {s \in ToSet(staff) : s.surname \in Surnames(portal)}
        moved == Filter(staff, moving)
    IN  [people |-> Joined(people, [k \in DOMAIN moved |-> StaffOffender(moved[k])]),
         staff  |-> Filter(staff, ToSet(staff) \ moving)]
=============================================================================
