--------------------------- MODULE EventMatching ---------------------------
(***************************************************************************)
(* An event of a report against the events of the portal: the stages of    *)
(* the search, the scores of what they find, the rule of two out of three, *)
(* and the comparison with the event that is chosen.                       *)
(*                                                                         *)
(* The portal is a sequence of events [id, at, sub, type, article, people];*)
(* times are units since an epoch, UnitsPerMinute of them in a minute.     *)
(* What was extracted (attrs) has at, sub, score, pu, people, staff,       *)
(* article, and the text they came from.                                   *)
(***************************************************************************)
EXTENDS OffenderMatching, SubdivisionMatching, DateExtraction, EventClassification

CONSTANTS
    Gateway,          \* PORTAL_GATEWAY_BACKEND, "orm" or "sql"
    UnitsPerMinute,
    DeltaMinutes, DayMinutes, FallbackMinutes, \* the windows of the stages
    StageLimit, OffenderLimit, NoDobLimit,     \* rows a query returns
    QueryWindow,      \* characters after a name read for the birth query
    GreenThreshold, YellowThreshold, TimeErrorMinutes,
    NoEvent

ASSUME SearchAssumption ==
    /\ UnitsPerMinute \in Nat \ {0}
    /\ {DeltaMinutes, DayMinutes, FallbackMinutes} \subseteq Nat
    /\ {StageLimit, OffenderLimit, NoDobLimit} \subseteq Nat
    /\ {GreenThreshold, YellowThreshold} \subseteq Int /\ TimeErrorMinutes \in Nat
    /\ NoEvent \notin [event : Nat, delta : Nat, overlap : Nat,
                       flags : SUBSET {"time", "subdivision", "offenders"}]

\* The events of a portal have times, and lists of people.
IsPortal(portal) ==
    /\ IsList(portal)
    /\ \A e \in DOMAIN portal : portal[e].at \in Int /\ IsList(portal[e].people)

Abs(n) == IF n < 0 THEN -n ELSE n
Minutes(units) == Abs(units) \div UnitsPerMinute

-----------------------------------------------------------------------------
(* Queries: the latest events first, up to a limit.                        *)

Latest(portal, events, limit) ==
    LET later(a, b) == \/ portal[a].at > portal[b].at
                       \/ portal[a].at = portal[b].at /\ a < b
        order == Sorted(events, {p \in events \X events : later(p[1], p[2])})
    IN  SubSeq(order, 1, Min({limit, Len(order)}))

InWindow(portal, at, minutes) ==
    {e \in DOMAIN portal : Abs(portal[e].at - at) <= minutes * UnitsPerMinute}

\* _get_events_for_window with search_events_by_time.
ByTime(portal, at, minutes) == Latest(portal, InWindow(portal, at, minutes), StageLimit)

\* ... with search_events_by_subdivision_time.
BySubdivision(portal, at, minutes, sub) ==
    Latest(portal, {e \in InWindow(portal, at, minutes) : portal[e].sub = sub}, StageLimit)

\* _svodka_offender_birth_query: by the year, if it is all that is known, if it stands
\* alone after the name, or for a first of January with no full date near the name;
\* by the date; or without either.
BirthQuery(text, person) ==
    LET end == person.span[2]
        near(at) == at >= end /\ at < end + QueryWindow
        births == {b.dob : b \in {b \in text.births : near(b.at)}}
        full == {d \in births : d = BadDob \/ (d # BadDob /\ d.day # 0)}
        dated == full # {} \/ \E d \in ToSet(text.numeric) : near(d.span[1])
        dob == person.dob
        said == {d \in births : d # BadDob /\ d.year = dob.year}
        byYear == \/ dob.day = 0
                  \/ said # {} /\ said \cap full = {}
                  \/ dob.day = 1 /\ ~dated
    IN  IF dob = NoDob THEN NoDob
        ELSE IF byYear THEN [dob EXCEPT !.day = 0] ELSE dob

\* search_events_by_offender: the surname as it is written, and the birth; the
\* ORM joins the offenders once for each, so that two of them may answer.
ByOffender(portal, surname, birth, sub, limit) ==
    LET born(o) == \/ birth = NoDob
                   \/ /\ o.dob # NoDob
                      /\ birth.year = o.dob.year
                      /\ birth.day \in {0, o.dob.day}
        has(people) == \E j, k \in DOMAIN people : /\ people[j].second = surname
                                                   /\ born(people[k])
                                                   /\ Gateway = "sql" => j = k
    IN  Latest(portal, {e \in DOMAIN portal : /\ sub \in {NoSubdivision, portal[e].sub}
                                              /\ has(portal[e].people)}, limit)

-----------------------------------------------------------------------------
(* Scores.                                                                 *)

\* The empty text, in which nobody is an employee.
Silence == [tokens |-> <<>>, parens |-> {}]

\* The respects in which an event agrees.
Agreement(attrs, event, delta, overlap) ==
    {flag \in {"time", "subdivision", "offenders"} :
        CASE flag = "time"        -> delta <= DeltaMinutes
          [] flag = "subdivision" -> attrs.sub # NoSubdivision /\ event.sub = attrs.sub
          [] flag = "offenders"   -> overlap >= 1}

\* _score_event_candidate.
Score(portal, attrs, e) ==
    LET delta == Minutes(portal[e].at - attrs.at)
        overlap == IF attrs.people = <<>> THEN 0
                   ELSE Len(MatchOffenders(attrs.people, portal[e].people, Silence).pairs)
    IN  [event |-> e, flags |-> Agreement(attrs, portal[e], delta, overlap),
         delta |-> delta, overlap |-> overlap]

\* Mutant: the candidate farthest in time comes first.
FarthestFirst(c) ==
    <<Cardinality(c.flags),
      IF "subdivision" \in c.flags THEN 1 ELSE 0, IF "offenders" \in c.flags THEN 1 ELSE 0,
      c.delta, c.overlap>>

\* The order candidates are sorted in, the greatest first.
SortKey(c) ==
    <<Cardinality(c.flags),
      IF "subdivision" \in c.flags THEN 1 ELSE 0, IF "offenders" \in c.flags THEN 1 ELSE 0,
      -c.delta, c.overlap>>

BetterCandidate(a, b) ==
    LET differs == {k \in 1..5 : SortKey(a)[k] # SortKey(b)[k]}
    IN  differs # {} /\ SortKey(a)[Min(differs)] > SortKey(b)[Min(differs)]

BestFlags(scored) == Max({0} \cup {Cardinality(scored[k].flags) : k \in DOMAIN scored})

\* Collected events keep the place they were first found at.
Collect(found, more) ==
    FoldLeft(LAMBDA list, e : IF e \in ToSet(list) THEN list ELSE Append(list, e),
             found, more)

Scored(portal, attrs, events) ==
    [k \in DOMAIN events |-> Score(portal, attrs, events[k])]

-----------------------------------------------------------------------------
(* The stages.                                                             *)

Confident(attrs) == attrs.score >= AcceptThreshold \/ attrs.pu # NoPu

WindowEvents(portal, attrs, minutes, bySub) ==
    (IF bySub /\ attrs.sub # NoSubdivision
     THEN BySubdivision(portal, attrs.at, minutes, attrs.sub) ELSE <<>>)
    \o ByTime(portal, attrs.at, minutes)

\* What the gateway has of an offender, there or, if it has nothing, anywhere.
EventsOfOffender(portal, surname, birth, sub) ==
    LET limit == IF birth = NoDob THEN NoDobLimit ELSE OffenderLimit
        there == ByOffender(portal, surname, birth, sub, limit)
    IN  IF sub # NoSubdivision /\ there = <<>>
        THEN ByOffender(portal, surname, birth, NoSubdivision, limit) ELSE there

\* _stage4_candidates_by_offenders.
OffenderEvents(portal, attrs) ==
    LET sub == IF Confident(attrs) THEN attrs.sub ELSE NoSubdivision
        there == Offenders(attrs.text, attrs.people)
        asked == Filter(there, {p \in ToSet(there) : p.span # NoSpan /\ p.second # NoPart})
    IN  FoldLeft(LAMBDA list, p :
                     Collect(list, EventsOfOffender(portal, p.second,
                                                    BirthQuery(attrs.text, p), sub)),
                 <<>>, asked)

\* Mutant: one of the three is enough to stop.
OneIsEnough(scored) == BestFlags(scored) >= 1

Enough(scored) == BestFlags(scored) >= 2

\* The wider windows, after the first has found the events near.
Widened(portal, attrs, near, scored) ==
    LET far(minutes) == WindowEvents(portal, attrs, minutes, Confident(attrs))
    IN  IF Enough(scored) THEN scored
        ELSE Scored(portal, attrs, Collect(near, far(DayMinutes) \o far(FallbackMinutes)))

\* The first two stages.
InTime(portal, attrs, near) ==
    Widened(portal, attrs, near, Scored(portal, attrs, near))

\* The last stage, by name.
ElseByName(portal, attrs, scored, byName) ==
    IF attrs.people # <<>> /\ ~Enough(scored) /\ byName # <<>>
    THEN Scored(portal, attrs, byName) ELSE scored

\* get_event_candidates.
Candidates(portal, attrs) ==
    IF attrs.at = NoTime THEN <<>>
    ELSE ElseByName(portal, attrs,
                    InTime(portal, attrs,
                           Collect(<<>>, WindowEvents(portal, attrs, DeltaMinutes, TRUE))),
                    OffenderEvents(portal, attrs))

\* The first of the best, if two of the three agree.
Chosen(scored) ==
    LET best == CHOOSE k \in DOMAIN scored :
                    \A j \in DOMAIN scored : /\ ~BetterCandidate(scored[j], scored[k])
                                             /\ ~BetterCandidate(scored[k], scored[j]) => k <= j
    IN  IF scored = <<>> THEN NoEvent
        ELSE IF Cardinality(scored[best].flags) < 2 THEN NoEvent ELSE scored[best]

Method(flags) ==
    CASE {"time", "subdivision"} \subseteq flags -> "subdivision+time"
      [] flags = {"time", "offenders"}           -> "time+offenders"
      [] OTHER                                   -> "subdivision+offenders"

-----------------------------------------------------------------------------
(* The result.                                                             *)

Counts(found, people, portalPeople) ==
    [svodka_total      |-> Len(people),
     portal_total      |-> Len(portalPeople),
     matched           |-> Len(found.pairs),
     dob_mismatch      |-> Len(found.possible),
     missing_in_portal |-> Cardinality(found.missingInPortal),
     missing_in_svodka |-> Cardinality(found.missingInSvodka)]

NotFound(attrs) ==
    [matched |-> FALSE, event |-> NoEvent, method |-> "none", flags |-> {},
     counts |-> [svodka_total |-> Len(attrs.people), portal_total |-> 0, matched |-> 0,
                 dob_mismatch |-> 0, missing_in_portal |-> Len(attrs.people),
                 missing_in_svodka |-> 0],
     people |-> attrs.people, staff |-> attrs.staff, found |-> NoEvent,
     typeOk |-> "none", article |-> "red"]

\* The result of a match with the event found best, moved and found being the
\* staff override and the comparison of its people.
Compared(attrs, event, predicted, best, moved, found) ==
    LET type == IF predicted.best = NoType THEN NoType ELSE predicted.best.row.type
        law == IF predicted.best = NoType THEN NoArticle ELSE predicted.best.row.article
    IN  [matched |-> TRUE, event |-> best, method |-> Method(best.flags),
         flags   |-> best.flags,
         counts  |-> Counts(found, moved.people, event.people),
         people  |-> moved.people, staff |-> moved.staff, found |-> found,
         typeOk  |-> IF NoType = type /\ NoType = event.type THEN "none"
                     ELSE IF type = event.type THEN "yes" ELSE "no",
         article |-> ArticleStatus(attrs.article, law, event.article)]

\* The people are compared with the offenders of the event after the override.
AfterOverride(attrs, event, predicted, best, moved) ==
    Compared(attrs, event, predicted, best, moved,
             MatchOffenders(moved.people, event.people, attrs.text))

ResultOf(portal, attrs, predicted, best) ==
    IF best = NoEvent THEN NotFound(attrs)
    ELSE LET event == portal[best.event]
         IN  AfterOverride(attrs, event, predicted, best,
                           StaffOverride(attrs.people, attrs.staff, event.people))

\* match_event.
MatchEvent(portal, attrs, predicted) ==
    ResultOf(portal, attrs, predicted, Chosen(Candidates(portal, attrs)))

\* The colours of the names in the text.
SpanColours(result, portal) ==
    IF ~result.matched THEN {}
    ELSE LET people == portal[result.event.event].people
         IN  {<<m.span, SpanStatus(result.found, people, m.span)>> :
                 m \in {m \in ToSet(result.found.all) : m.span # NoSpan}}

\* The parts of the comparison that are shown as differences.
Diffs(result) ==
    IF ~result.matched THEN {"message"}
    ELSE (IF result.typeOk = "no" THEN {"event_type"} ELSE {})
         \cup (IF result.article = "red" THEN {"article_of_law"} ELSE {})
         \cup (IF "subdivision" \notin result.flags THEN {"subdivision"} ELSE {})
         \cup (IF "offenders" \notin result.flags THEN {"offenders"} ELSE {})
         \cup (IF result.method = "subdivision+offenders" THEN {"date_time"} ELSE {})

-----------------------------------------------------------------------------
(* The colours of a result, compute_status_fields.                         *)

TimestampStatus(result) ==
    CASE ~result.matched -> "red"
      [] result.matched /\ result.event.delta = 0 -> "green"
      [] result.matched /\ result.event.delta \in 1..TimeErrorMinutes -> "yellow"
      [] OTHER -> "red"

SubdivisionStatus(score) ==
    CASE score >= GreenThreshold  -> "green"
      [] score \in YellowThreshold..(GreenThreshold - 1) -> "yellow"
      [] OTHER -> "red"

\* Mutant: who is missing in the portal is no issue.
IssuesOfPortal(c) == c.dob_mismatch + c.missing_in_svodka

Issues(c) == c.dob_mismatch + c.missing_in_portal + c.missing_in_svodka

OffendersStatus(result) ==
    LET c == result.counts
        issues == Issues(c) > 0
    IN  CASE ~result.matched -> "red"
          [] result.matched /\ c.matched = c.portal_total /\ ~issues -> "green"
          [] result.matched /\ c.matched = 0 /\ (c.portal_total > 0 \/ issues) -> "red"
          [] OTHER -> "yellow"

TypeStatus(result) ==
    CASE result.typeOk = "yes" -> "green"
      [] result.typeOk = "no"  -> "red"
      [] OTHER                 -> "neutral"

StatusFields(result, score) ==
    [timestamp   |-> TimestampStatus(result),
     subdivision |-> SubdivisionStatus(score),
     offenders   |-> OffendersStatus(result),
     event_type  |-> TypeStatus(result),
     article     |-> result.article]
=============================================================================
