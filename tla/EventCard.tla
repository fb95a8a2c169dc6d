----------------------------- MODULE EventCard -----------------------------
(***************************************************************************)
(* What the results page shows of an event, _build_event_card: the names   *)
(* with their colours, the highlighted parts of the text, the report about *)
(* the offenders and the comments.  All of it is made of what the worker   *)
(* stored.                                                                 *)
(*                                                                         *)
(* A text also says where things stand that are only highlighted:          *)
(*   place      the words the best subdivision was found by, or NoSpan     *)
(*   laws       the articles of law                                        *)
(*   spelled    names written out as [key, span], in text order            *)
(*   closest    the words closest in meaning to an event type, or NoSpan   *)
(*   anyDate    what _find_datetime_span finds, or NoSpan                  *)
(***************************************************************************)
EXTENDS EventMatching

DateChars == 10   \* dd.mm.yyyy
YearChars == 4

Shared(a, b) == Min({a[2], b[2]}) - Max({a[1], b[1]}) > 0

\* What is only highlighted has its place in the text, too.
SpansIn(text) ==
    LET spans == {s.span : s \in ToSet(text.spelled)} \cup ToSet(text.laws)
        maybe == {text.place, text.closest, text.anyDate}
        starts == {b.at : b \in text.births} \cup {d.span[1] : d \in ToSet(text.numeric)}
    IN  /\ IsList(text.spelled) /\ IsList(text.laws)
        /\ \A span \in spans \cup (maybe \ {NoSpan}) : IsSpan(span)
        /\ starts \subseteq Int

-----------------------------------------------------------------------------
(* Highlights.                                                             *)

\* _status_key_for_offender and the default: a name that was not compared, or
\* has no place in the text, is yellow.
NameColour(colours, p) ==
    IF <<p.span, "ok">> \in colours THEN "green"
    ELSE IF <<p.span, "err">> \in colours THEN "red" ELSE "yellow"

\* Where the name is: its span, or the first place it is spelled out.
NameSpan(text, p) ==
    LET hits == Filter(text.spelled, {s \in ToSet(text.spelled) : s.key = PersonKey(p)})
    IN  CASE p.span # NoSpan -> p.span
          [] p.span = NoSpan /\ hits # <<>> -> Head(hits).span
          [] OTHER -> NoSpan

\* The birth that is highlighted with a name: the first full date after it,
\* whatever it is the date of, or the first year that is said to be a birth;
\* it is in the window as a whole.
DobSpan(text, p) ==
    LET of(patterns) == {b.at : b \in {b \in text.births : b.pattern \in patterns}}
        inside(starts, size) ==
            {at \in starts : at >= p.span[2] /\ at + size <= p.span[2] + BirthWindow}
        dates == inside(of({1, 2}) \cup {d.span[1] : d \in ToSet(text.numeric)}, DateChars)
        years(n) == inside(of({n}), YearChars)
        span(starts, size) == <<Min(starts), Min(starts) + size>>
    IN  CASE p.span = NoSpan   -> NoSpan
          [] p.span # NoSpan /\ dates # {} -> span(dates, DateChars)
          [] p.span # NoSpan /\ dates = {} /\ years(3) # {} -> span(years(3), YearChars)
          [] p.span # NoSpan /\ dates \cup years(3) = {} /\ years(4) # {} ->
                span(years(4), YearChars)
          [] OTHER -> NoSpan

\* _add_span; a mark has its place among the others, at, by which two with the
\* same span are shown or not.
Mark(span, css, of, at) ==
    IF span = NoSpan THEN {}
    ELSE IF Length(span) <= 0 THEN {}
    ELSE {[span |-> span, css |-> css, of |-> of, at |-> at]}

\* Mutant: every employee is highlighted.
AllStaff(staff, names) == DOMAIN staff

\* Employees who are not offenders at the same place.
StaffBeside(staff, names) ==
    {k \in DOMAIN staff : \A n \in names : ~Shared(staff[k].span, n)}

NamesAt(text, people) == {NameSpan(text, people[k]) : k \in DOMAIN people} \ {NoSpan}

\* A person and the birth in one colour.
PersonMarks(text, p, colour, k) ==
    Mark(NameSpan(text, p), colour, "offender", <<5, 2 * k>>)
    \cup Mark(DobSpan(text, p), colour, "birth", <<5, 2 * k + 1>>)

\* All but the words closest in meaning to the type of event.
StrongMarks(text, attrs, result, colours) ==
    LET when == TimestampStatus(result)
        date == IF attrs.dateAt = NoDate THEN text.anyDate ELSE attrs.dateAt.span
        time == IF attrs.timeAt = NoDate THEN NoSpan ELSE attrs.timeAt.span
        place == IF attrs.score = 0 THEN NoSpan ELSE text.place
        people == attrs.people
        staff == attrs.staff
        beside == StaffBeside(staff, NamesAt(text, people))
        article(k) == Mark(text.laws[k], result.article, "article", <<4, k>>)
        person(k) == PersonMarks(text, people[k], NameColour(colours, people[k]), k)
        employee(k) == Mark(staff[k].span, "green", "staff", <<6, k>>)
        articles == UNION {article(k) : k \in DOMAIN text.laws}
        persons == UNION {person(k) : k \in DOMAIN people}
        employees == UNION {employee(k) : k \in beside}
    IN  Mark(date, when, "date", <<1, 1>>) \cup Mark(time, when, "time", <<2, 1>>)
        \cup Mark(place, SubdivisionStatus(attrs.score), "subdivision", <<3, 1>>)
        \cup articles \cup persons \cup employees

\* collect_highlight_spans.
HighlightSpans(text, attrs, predicted, result, colours) ==
    LET strong == StrongMarks(text, attrs, result, colours)
        byMeaning == predicted.best # NoType /\ predicted.best.fragment = NoFragment
        free == \A m \in strong : ~Shared(text.closest, m.span)
    IN  strong \cup IF byMeaning /\ text.closest # NoSpan /\ free
                    THEN Mark(text.closest, "green", "eventpattern", <<7, 1>>) ELSE {}

\* From the left, the longest first.
MarkBefore(a, b) ==
    \/ a.span[1] < b.span[1]
    \/ a.span[1] = b.span[1] /\ Length(a.span) > Length(b.span)
    \/ a.span = b.span /\ \/ a.at[1] < b.at[1]
                          \/ a.at[1] = b.at[1] /\ a.at[2] < b.at[2]

\* highlight_text: what overlaps one that is shown is not shown.
Shown(marks) ==
    LET order == Sorted(marks, {x \in marks \X marks : MarkBefore(x[1], x[2])})
    IN  FoldLeft(LAMBDA shown, m : IF shown # <<>> /\ m.span[1] < Last(shown).span[2]
                                   THEN shown ELSE Append(shown, m),
                 <<>>, order)

-----------------------------------------------------------------------------
(* Words.                                                                  *)

\* Mutant: only who is missing is reported.
ReportMissing(result, portal) ==
    {<<"missing_in_portal", PersonKey(result.found.all[i])>> : i \in result.found.missingInPortal}
    \cup {<<"missing_in_svodka", PersonKey(o)>> : o \in result.found.missingInSvodka}

\* The details of _build_offender_report; the same line is not repeated.
OffenderReport(result, portal) ==
    LET found == result.found
        people == portal[result.event.event].people
        pair(x) == <<PersonKey(found.all[x.mention]), PersonKey(people[x.portal])>>
        noted(x) == NameMatch(found.all[x.mention], people[x.portal]) # "exact"
    IN  IF ~result.matched THEN {}
        ELSE {<<"discrepancy", pair(x)>> : x \in {x \in ToSet(found.pairs) : noted(x)}}
             \cup {<<"dob_mismatch", pair(x)>> : x \in ToSet(found.possible)}
             \cup {<<"ambiguous", PersonKey(found.all[i])>> : i \in found.ambiguous}
             \cup {<<"missing_in_portal", PersonKey(found.all[i])>> : i \in found.missingInPortal}
             \cup {<<"missing_in_svodka", PersonKey(o)>> : o \in found.missingInSvodka}

\* _build_comments, each comment by what makes it.
Comments(attrs, predicted, result, diffs) ==
    LET say(condition, comment) == IF condition THEN {comment} ELSE {}
        law == IF predicted.best = NoType THEN NoArticle ELSE predicted.best.row.article
        asClassified == attrs.article # NoArticle /\ attrs.article = law
        unnamed == say(attrs.sub = NoSubdivision, "no_subdivision")
        untimed == say(attrs.at # NoTime /\ ~attrs.timeFound, "no_time")
    IN  IF ~result.matched THEN {"not_found", "search"} \cup unnamed \cup untimed
        ELSE {"matched_of"} \cup unnamed \cup untimed
             \cup say(diffs = {}, "no_differences")
             \cup say("subdivision" \in diffs /\ attrs.sub # NoSubdivision, "subdivision")
             \cup say("offenders" \in diffs, "offenders")
             \cup say(result.typeOk = "no", "event_type")
             \cup say(result.article = "red", "article")
             \cup say(result.article # "red" /\ ~asClassified, "article_of_classifier")
             \cup say(~asClassified /\ law # NoArticle, "expected")
             \cup say(attrs.article = NoArticle, "no_article")
             \cup say("date_time" \in diffs, "date_time")
             \cup say(result.event.delta > TimeErrorMinutes, "time_error")

\* _build_event_card.
Card(text, attrs, predicted, result, portal) ==
    LET colours == SpanColours(result, portal)
    IN  [status   |-> StatusFields(result, attrs.score),
         names    |-> [k \in DOMAIN attrs.people |-> NameColour(colours, attrs.people[k])],
         marks    |-> Shown(HighlightSpans(text, attrs, predicted, result, colours)),
         details  |-> OffenderReport(result, portal),
         comments |-> Comments(attrs, predicted, result, Diffs(result))]
=============================================================================
