--------------------------- MODULE ReportAnalysis ---------------------------
(***************************************************************************)
(* The analysis of one report, run_analysis_pipeline: the report is cut,   *)
(* its events are taken one after another, each is read, matched with the  *)
(* portal and stored with its colours.                                     *)
(*                                                                         *)
(* What the expressions, the extractors and the model read in an event is  *)
(* not computed: an event meets one of the Cases, its readings together    *)
(* with the cached subdivisions, the classifier and the portal.  An input  *)
(* is forgotten after its last use.                                        *)
(***************************************************************************)
EXTENDS DocumentSlicing, EventCard

CONSTANTS
    Reports,   \* kinds of reports; a report is [doc, docx, templates,
               \*   choice, model]: an uploaded file, the templates and the PU
               \*   that was chosen, and whether the model is there
    Cases,     \* kinds of [text, pu, cached, model, types, patterns, portal,
               \*   embedded, known]: the last two are the classifier, [types,
               \*   patterns], as it was when the process filled its caches
    NoReport, NoCase

IsTemplate(t) == t.file \in Seq(Line) /\ t.threshold \in Nat /\ t.updated \in Int

ASSUME ReportsAssumption ==
    \A kind \in DOMAIN Reports : \A r \in Reports[kind] :
        /\ r # NoReport
        /\ r.doc \in Seq(Line)
        /\ IsFiniteSet(r.templates)
        /\ \A t \in r.templates : IsTemplate(t)

\* The caches of the process, which nothing but a restart empties.
EmbeddedOf(c) == EmbeddedPatterns(c.embedded.types, c.embedded.patterns, c.model)
KnownOf(c) == ActiveRows(c.known.types, c.known.patterns)

ASSUME CasesAssumption ==
    \A kind \in DOMAIN Cases : \A c \in Cases[kind] :
        /\ c # NoCase
        /\ ListsIn(c.text) /\ DatesIn(c.text) /\ SpansIn(c.text)
        /\ IsPortal(c.portal)
        /\ Searches(c.cached, c.text)
        /\ Classifiable(c.text, c.types, c.patterns, EmbeddedOf(c))

\* What the theorems that compare two readings ask for: thresholds as the settings
\* and the code have them (the window of the first stage is no wider than the time
\* that is no error, and what is accepted is never red), and plain texts.
ThresholdsAgree ==
    /\ DeltaMinutes <= TimeErrorMinutes
    /\ YellowThreshold <= AcceptThreshold
    /\ YellowThreshold <= 90

TextsArePlain == \A kind \in DOMAIN Cases : \A c \in Cases[kind] : PlainRanks(c.text)

VARIABLES
    stage,     \* "uploaded", "parsed", "ready", "read", "matched" or "done"
    report,
    cut,       \* what the report was cut to, with its events
    left,      \* events still to come
    case,
    attrs,     \* the attributes extracted from the event
    predicted, \* its type of event
    result,    \* of the match, until it is stored
    shown      \* the card of the event: its colours, details and comments

vars == <<stage, report, cut, left, case, attrs, predicted, result, shown>>

Nothing == [none |-> TRUE]

\* extract_attributes.
Extracted(c, found, when, where) ==
    [text   |-> c.text,
     at     |-> when.at,  timeFound |-> when.found,
     dateAt |-> when.date, timeAt |-> when.time,
     sub    |-> where.id, score |-> where.score, pu |-> c.pu,
     people |-> EligibleBySpan(c.text, found),
     staff  |-> StaffOf(c.text, found),
     article |-> ArticleOf(c.text)]

ExtractAttributes(c) ==
    Extracted(c, People(c.text), DateTime(c.text),
              Subdivision(c.cached, c.text, c.pu, c.model))

Init ==
    /\ stage = "uploaded"
    /\ \E kind \in DOMAIN Reports : report \in Reports[kind]
    /\ cut = Nothing /\ left = 0
    /\ case = NoCase
    /\ attrs = Nothing /\ predicted = Nothing
    /\ result = Nothing /\ shown = Nothing

TemplateInForce == TemplateFor(report.templates, report.choice)

WithEvents(slice) ==
    [kept |-> slice.kept, by |-> slice.by,
     events |-> EventsOf(report.doc, slice.kept, report.docx)]

\* parse_uploaded_document.
Parse ==
    /\ stage = "uploaded"
    /\ cut' = WithEvents(SliceForRun(report.doc, TemplateInForce, report.model))
    /\ left' = Len(cut'.events)
    /\ stage' = "parsed"
    /\ UNCHANGED <<report, case, attrs, predicted, result, shown>>

\* The cut is saved, and the number of events is told; the report is left.
Announce ==
    /\ stage = "parsed"
    /\ stage' = "ready"
    /\ report' = NoReport /\ cut' = Nothing
    /\ UNCHANGED <<left, case, attrs, predicted, result, shown>>

\* The paragraph of the next event is stored, and its attributes extracted.
Read ==
    /\ stage = "ready"
    /\ left > 0
    /\ \E kind \in DOMAIN Cases : \E c \in Cases[kind] :
          /\ case' = c
          /\ attrs' = ExtractAttributes(c)
    /\ stage' = "read"
    /\ UNCHANGED <<report, cut, left, predicted, result, shown>>

\* match_event; the staff override changes the attributes as well.  The page
\* makes the card later, of what is stored now and never changes.
Match ==
    /\ stage = "read"
    /\ predicted' = Classify(case.types, case.patterns, EmbeddedOf(case), KnownOf(case),
                             case.text)
    /\ result' = MatchEvent(case.portal, attrs, predicted')
    /\ attrs' = [attrs EXCEPT !.people = result'.people, !.staff = result'.staff]
    /\ shown' = Card(case.text, attrs', predicted', result', case.portal)
    /\ stage' = "matched"
    /\ UNCHANGED <<report, cut, left, case>>

\* The result is stored with the attributes and the colours, and the
\* progress is told.
Store ==
    /\ stage = "matched"
    /\ left' = left - 1
    /\ stage' = "ready"
    /\ case' = NoCase /\ attrs' = Nothing /\ predicted' = Nothing
    /\ result' = Nothing /\ shown' = Nothing
    /\ UNCHANGED <<report, cut>>

\* Mutant: the task is done before its last event.
FinishEarly ==
    /\ stage = "ready"
    /\ stage' = "done"
    /\ UNCHANGED <<report, cut, left, case, attrs, predicted, result, shown>>

Finish ==
    /\ stage = "ready"
    /\ left = 0
    /\ stage' = "done"
    /\ UNCHANGED <<report, cut, left, case, attrs, predicted, result, shown>>

Next == Parse \/ Announce \/ Read \/ Match \/ Store \/ Finish

Spec == Init /\ [][Next]_vars /\ WF_vars(Next)

-----------------------------------------------------------------------------
(* What the analysis promises.                                             *)

TypeOK ==
    /\ stage \in {"uploaded", "parsed", "ready", "read", "matched", "done"}
    /\ left \in Nat
    /\ stage \in {"uploaded", "parsed"} <=> report # NoReport
    /\ stage \in {"read", "matched"} <=> case # NoCase
    /\ stage \in {"read", "matched"} <=> attrs # Nothing
    /\ stage \in {"read", "matched"} => left > 0
    /\ stage = "done" => left = 0

Threshold(template) == IF template.threshold = 0 THEN StartMinSim ELSE template.threshold

\* A report with the blocks of the template, once with its markers and once
\* without them, is cut to the same text: slice_by_markers and the anchors of
\* apply_template_segments agree wherever each anchor is one line.
AnchorsAgreeWithMarkers ==
    stage = "parsed" /\ cut.by = "report_markers" =>
        LET doc == report.doc
            plain == Unmarked(doc)
            blocks == MarkerBlocks(doc)
        IN  /\ blocks = MarkerBlocks(TemplateInForce.file)
            /\ Paired(doc)
            /\ OwnAnchors(doc, blocks, Threshold(TemplateInForce), report.model)
            /\ BigBlocks(plain, blocks)
            => LET same(again) == /\ again.by = "template_anchors"
                                  /\ TextsAt(plain, again.kept) = TextsAt(doc, cut.kept)
               IN  same(SliceForRun(plain, TemplateInForce, report.model))

\* A report is never cut to nothing, except below a last line that is taken
\* for the beginning of a block: a block without its end keeps what follows
\* the beginning, however little that is.
CutKeepsSomething ==
    stage = "parsed" /\ report.doc # <<>> /\ cut.kept = <<>> =>
        /\ cut.by = "template_anchors"
        /\ \E b \in ToSet(MarkerBlocks(TemplateInForce.file)) :
              Resembles(b.start, Last(report.doc).text,
                        Threshold(TemplateInForce), report.model)

\* Whoever has a rank before the name, with a word in it that marks an
\* employee, is on one of the two lists: on the staff and not among the
\* offenders (is_employee_context, _extract_rank_before and _STAFF_RE read the
\* same words).
RankedAreStaff ==
    stage = "read" =>
        LET text == attrs.text
            people == People(text)
            rank(p) == RankBefore(text, p.span[1])
            ranked == {p \in ToSet(people) : /\ rank(p).words # NoRank
                                             /\ ToSet(rank(p).words) \cap EmployeeMarkers # {}}
        IN  \A p \in ranked :
               /\ p \notin ToSet(attrs.people)
               /\ \E s \in ToSet(attrs.staff) : \/ Overlaps(s.span, p.span)
                                                \/ s.surname = p.lead

\* A time that is not announced by a preposition is not a part of the date:
\* _extract_ru_time leaves out what overlaps the date it is given.
TimeOutsideDate ==
    stage = "read" =>
        \/ attrs.dateAt = NoDate
        \/ attrs.timeAt = NoDate
        \/ attrs.timeAt \in ToSet(Announced(attrs.text))
        \/ attrs.timeAt.span[2] <= attrs.dateAt.span[1]
        \/ attrs.dateAt.span[2] <= attrs.timeAt.span[1]

\* The accepted subdivision is the one the text names: the text has a word of
\* its name, for meaning alone never is enough whatever the cosine; and of two
\* short names in the text it is not the one within the other
\* (match_subdivision).
AcceptedIsNamed ==
    stage = "read" /\ attrs.sub # NoSubdivision =>
        LET rows == Rows(case.cached, case.pu)
            words == attrs.text.words
            evident(r) == \E w \in ToSet(r.short) \cup ToSet(r.full) :
                              Occurs(w, words) \/ w \in ToSet(attrs.text.quoted)
            at(r) == Find(r.short, words)
            within(r, s) == /\ at(r) # 0 /\ at(s) # 0
                            /\ Len(r.short) < Len(s.short)
                            /\ at(s) <= at(r)
                            /\ at(r) + Len(r.short) <= at(s) + Len(s.short)
                            /\ at(r) + Len(r.short) = at(s) + Len(s.short)
                                  => WordChars(Last(r.short)) <= WordChars(Last(s.short))
        IN  \E r \in rows : /\ r.id = attrs.sub
                            /\ evident(r)
                            /\ \A s \in rows : ~within(r, s)

\* Once a pattern in use fits the text, the predicted one is in use and none
\* fits better, whichever type it belongs to: what a worker still has in its
\* caches of patterns that were changed, taken out of use or deleted is only
\* asked when nothing fits (rank_event_types reads the database).
PredictedIsBest ==
    stage = "matched" /\ predicted.best # NoType =>
        LET usable == ToSet(ActiveRows(case.types, case.patterns))
            fit(r) == Candidate(case.text, r).score
        IN  IF \E r \in usable : fit(r) >= MinScore
            THEN /\ predicted.best.row \in usable
                 /\ \A r \in usable : fit(r) <= fit(predicted.best.row)
            ELSE predicted.best.row \in ToSet(EmbeddedOf(case))

EventPeople == case.portal[result.event.event].people

\* Nobody is paired twice, as long as the event has no two equal offenders.
PairsOneToOne ==
    stage = "matched" /\ result.matched =>
        LET pairs == result.found.pairs
        IN  \A i, j \in DOMAIN pairs :
               i # j => /\ pairs[i].mention # pairs[j].mention
                        /\ IsInjective(EventPeople) => pairs[i].portal # pairs[j].portal

\* The greedy pairing is maximal: no mention that is left over fits an
\* offender that is left over.
NoPairIsLeft ==
    stage = "matched" /\ result.matched =>
        LET found == result.found
            mentions == DOMAIN found.all \ {x.mention : x \in ToSet(found.pairs)}
            offenders == DOMAIN EventPeople \ {x.portal : x \in ToSet(found.pairs)}
        IN  \A i \in mentions, j \in offenders :
               \/ NameMatch(found.all[i], EventPeople[j]) = "none"
               \/ ~DobCompatible(found.all[i].dob, EventPeople[j].dob)

\* Green offenders hide nobody: every offender of the event is paired or has
\* a double that is, and so is everyone named in the text who is not one of
\* several namesakes (status_for_offenders with match_offenders).
GreenOffendersAreComplete ==
    stage = "matched" /\ shown.status.offenders = "green" =>
        LET found == result.found
            pairedOffenders == {EventPeople[x.portal] : x \in ToSet(found.pairs)}
            pairedKeys == {MentionKey(found.all[x.mention]) : x \in ToSet(found.pairs)}
        IN  /\ ToSet(EventPeople) \subseteq pairedOffenders
            /\ \A i \in DOMAIN found.all :
                  MentionKey(found.all[i]) \in pairedKeys \/ i \in found.ambiguous

\* Whoever the portal does not have is seen: the report names him, and where
\* his name stands in the text something is highlighted that is neither an
\* employee nor the type of event, and that is red if it is the name
\* (collect_highlight_spans, highlight_text and the keys of the colours).
MissingIsShown ==
    stage = "matched" /\ result.matched =>
        \A i \in result.found.missingInPortal :
            LET m == result.found.all[i]
                there == {x \in ToSet(shown.marks) : Shared(x.span, m.span)}
            IN  /\ <<"missing_in_portal", PersonKey(m)>> \in shown.details
                /\ m.span # NoSpan =>
                      \E x \in there :
                          /\ x.of \notin {"staff", "eventpattern"}
                          /\ x.of = "offender" /\ x.span = m.span => x.css = "red"

\* The words of the card agree with its colours: it says there is no
\* difference only if nothing is red; a red time or subdivision has a comment
\* of its own; and offenders that are not green have a line in the report,
\* unless the event has two equal offenders (_build_comments and
\* _build_offender_report against compute_status_fields).
CommentsExplainColours ==
    stage = "matched" =>
        LET red == {f \in DOMAIN shown.status : shown.status[f] = "red"}
            says(some) == shown.comments \cap some # {}
        IN  /\ says({"no_differences"}) => red = {}
            /\ "timestamp" \in red => says({"not_found", "date_time", "time_error"})
            /\ "subdivision" \in red => says({"no_subdivision", "subdivision"})
            /\ result.matched /\ shown.status.offenders # "green" =>
                  shown.details # {} \/ ~IsInjective(EventPeople)

\* An event chosen for its offenders has one of the people of the paragraph:
\* the scoring, without the text and before the staff override, counts
\* nobody whom the comparison loses.
MatchedByOffendersHasPair ==
    stage = "matched" /\ "offenders" \in result.flags => result.counts.matched > 0

\* The staff override loses nobody: who was on the staff list or among the
\* people of the paragraph still is on one of the two, under that surname.
NobodyIsDropped ==
    [][stage = "read" /\ stage' = "matched" =>
        LET names(a) == {a.people[k].second : k \in DOMAIN a.people}
                        \cup {a.staff[k].surname : k \in DOMAIN a.staff}
        IN  /\ names(attrs) \subseteq names(attrs')
            /\ Len(attrs.people) <= Len(attrs'.people)]_vars

\* No query of the search can have left out an event.
Unlimited == Len(case.portal) <= Min({StageLimit, OffenderLimit, NoDobLimit})

\* Within the windows of the search, if two of time, subdivision and
\* offenders agree with some event of the portal, an event is found
\* (get_event_candidates, the rule of two out of three).
TwoOfThreeIsFound ==
    stage = "matched" /\ Unlimited /\ attrs.at # NoTime =>
        LET found(before) ==
                \A e \in InWindow(case.portal, attrs.at, FallbackMinutes) :
                    Cardinality(Score(case.portal, before, e).flags) >= 2 => result.matched
        IN  found(ExtractAttributes(case))

\* Of the events that agree in the same respects none is closer in time than
\* the one that was found, whichever stage found it: the delta stands before the
\* overlap in the order get_event_candidates sorts by.
ClosestOfEqual ==
    stage = "matched" /\ result.matched /\ Unlimited =>
        LET farther(other) ==
                other.flags = result.flags => other.delta >= result.event.delta
            closest(before) ==
                \A e \in InWindow(case.portal, attrs.at, FallbackMinutes) :
                    farther(Score(case.portal, before, e))
        IN  closest(ExtractAttributes(case))

ByOffendersAndOneMore(flags) == "offenders" \in flags /\ Cardinality(flags) = 2

=============================================================================
