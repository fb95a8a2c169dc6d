-------------------------- MODULE MCReportAnalysis --------------------------
(* Small instances of ReportAnalysis for TLC: reports, and events made to    *)
(* meet in one of the things that are read from them.                        *)
EXTENDS ReportAnalysis

CONSTANT MaxReportEvents

\* The instances are among those the theorems are about.
ASSUME HypothesesAssumption == ThresholdsAgree /\ LowIsNotEnough /\ TextsArePlain

-----------------------------------------------------------------------------
(* Reports.  "head", "mid" and "foot" are lines of the template, of which    *)
(* "foot" is too short to be trusted; "like" resembles "head".               *)

TextSet == {"head", "mid", "foot", "like", "long", "half", "word"}
SizeOf == [t \in TextSet |-> CASE t = "long" -> 400 [] t = "half" -> 160
                               [] t = "foot" -> 8 [] t = "word" -> 9 [] OTHER -> 20]
Resemblance(other) ==
    [a \in TextSet |-> [t \in TextSet |->
        CASE a = t -> 100
          [] {a, t} = {"head", "like"} -> other
          [] {a, t} = {"foot", "word"} -> 70
          [] OTHER -> 20]]
LexicalSim == Resemblance(65)
SemanticSim == Resemblance(55)

T(t) == [text |-> t, marks |-> <<>>]
Marked(t, marks) == [text |-> t, marks |-> marks]
Begin == Marked(NoText, <<"BEGIN">>)
End == Marked(NoText, <<"END">>)

\* Frames: what stands before, between and after the blocks.
Frames == <<
    << <<T("head"), Begin>>, <<End, T("foot")>> >>,
    << <<T("head"), Begin>>, <<End, T("mid")>> >>,
    << <<T("head"), Begin>>, <<>> >>,
    << <<Begin>>, <<End, T("foot")>> >>,
    << <<T("head"), Begin>>, <<End, T("mid"), Begin>>, <<End, T("foot")>> >>,
    << <<T("head"), Begin>>, <<End, T("foot"), T("mid"), Begin>>, <<>> >>,
    << <<T("head"), Begin>>, <<T("mid"), Begin>>, <<End, T("foot")>> >> >>

Fill(frame, bodies) ==
    FlattenSeq([k \in DOMAIN frame |->
        IF k = 1 THEN frame[1] ELSE bodies[k - 1] \o frame[k]])

Bodies == UNION {[1..n -> {T("long"), T("half"), T("like")}] : n \in 0..2}
Written(frame) == {Fill(frame, b) : b \in [1..(Len(frame) - 1) -> Bodies]}
Empty(frame) == Fill(frame, [k \in 1..(Len(frame) - 1) |-> <<>>])

Plain == UNION {[1..n -> {T(t) : t \in TextSet \ {"mid"}}] : n \in 0..3}
Stray == {<<Begin, T("long")>>, <<T("long"), End, T("half")>>,
          <<Marked("long", <<"BEGIN", "END">>), T("half")>>,
          <<Marked("long", <<"END", "BEGIN">>)>>, <<Begin, End>>}

Files == {<<>>, <<T("head"), T("foot")>>} \cup {Empty(Frames[k]) : k \in DOMAIN Frames}

\* Kind of file, model and threshold.
Common == {<<TRUE, TRUE, 0>>, <<FALSE, TRUE, 0>>, <<TRUE, FALSE, 70>>}
Every == BOOLEAN \X BOOLEAN \X {0, 70}

\* A report of this length makes no more events.
Short(doc) ==
    Cardinality({i \in DOMAIN doc : Chars(doc[i]) >= MinEventChars}) <= MaxReportEvents

Template(file, threshold, of, active) ==
    [file |-> file, threshold |-> threshold, of |-> of, active |-> active,
     updated |-> 1]
Other == Template(<<T("mid"), Begin, End, T("head")>>, 0, General, TRUE)
Old(file) == [Template(file, 0, "pu1", FALSE) EXCEPT !.updated = 2]

Upload(docs, files, ways, choices) ==
    {[doc |-> d, docx |-> w[1], model |-> w[2], choice |-> c,
      templates |-> {Template(f, w[3], "pu1", TRUE), Other, Old(<<T("like"), Begin>>)}] :
        d \in {d \in docs : Short(d)}, f \in files, w \in ways, c \in choices}

ReportKinds == [k \in DOMAIN Frames \cup {-1, 0} |->
    IF k = -1 THEN Upload(Plain \cup Stray, {<<>>}, Common, {General, Unchosen, "pu2"})
    ELSE IF k = 0 THEN Upload(Plain \cup Stray, Files, Common, {"pu1"})
    ELSE Upload(Written(Frames[k]), {Empty(Frames[k])}, Every, {"pu1"})]

-----------------------------------------------------------------------------
(* Names.  A year alone is a birth with day 0.                               *)

LettersOf(part) == CASE part = NoPart -> 0
                     [] part \in {"I", "P"} -> 1
                     [] part = "ivan" -> 4
                     [] part = "petr" -> 4
                     [] part \in {"ivanov", "ivanow", "petrov"} -> 6
                     [] part = "ivanova" -> 7
                     [] OTHER -> 8
InitialOf(part) == CASE part = NoPart -> NoPart
                     [] part \in {"I", "ivan", "ivanovich"} -> "I"
                     [] part \in {"P", "petr"} -> "P"
                     [] part \in {"ivanov", "ivanow", "ivanova"} -> "Iv"
                     [] OTHER -> "Pv"
NominativeOf(part) == IF part = "ivanova" THEN "ivanov" ELSE part
FormOf(part, other) == NominativeOf(part) = other
RatioOf(part, other) == CASE part = other -> 100
                          [] {part, other} \subseteq {"ivanov", "ivanow", "ivanova"} -> 91
                          [] OTHER -> 30
CyrillicPart(part) == TRUE
Abbreviated(part) == part = "KPP"
Titled(part) == part \notin {"KPP", "went"}
VerbForm(part) == part = "went"
KnownName(part) == part \notin {"north", "post"}
ParticleSet == {"by"}
StopListSet == {"KPP"}

\* "st" and "lt" make a rank together, "col" is one that marks no employee, any
\* long word as "inspector" or "detained" is taken for one, "of" is none.
EmployeeMarkerSet == {"st", "lt", "ml", "inspector"}
RankMarkerSet == {"st", "lt", "col"}
ConnectorSet == {"ml", "st"}
RankWords(words) == words \in {<<"lt">>, <<"col">>, <<"st", "lt">>, <<"inspector">>,
                               <<"detained">>}
FullRankOf(words) == CASE words = <<"lt">> -> <<"lieutenant">>
                       [] words = <<"st", "lt">> -> <<"senior", "lieutenant">>
                       [] words = <<"col">> -> <<"colonel">>
                       [] OTHER -> NoRank

Day == [year |-> 1990, day |-> 50]
NewYear == [year |-> 1990, day |-> 1]
OtherDay == [year |-> 1990, day |-> 60]
Year == [year |-> 1990, day |-> 0]

Name(second, first, middle, start, end) ==
    [second |-> second, first |-> first, middle |-> middle,
     span |-> <<start, end>>, lead |-> second]
Person(second, first, middle, dob) ==
    [second |-> second, first |-> first, middle |-> middle, dob |-> dob]

-----------------------------------------------------------------------------
(* Subdivisions and texts.                                                   *)

CharsOf(word) == CASE word \in {"post"} -> 4 [] word = "north" -> 5 [] word = "no7" -> 3
                   [] OTHER -> 9
PartOf(word, other) == word = other \/ <<word, other>> = <<"rivers", "riverside">>
Stop == {"post"}

Row(id, short, full, parent) ==
    [id |-> id, name |-> id, short |-> short, full |-> full, parent |-> parent,
     embedded |-> TRUE]
Rivers == Row(1, <<"rivers">>, <<"rivers", "post">>, "pu1")
RiversNorth == Row(2, <<"rivers", "north">>, <<"rivers", "north", "post">>, "pu1")
Seven == Row(3, <<"post", "no7">>, <<"post", "no7", "mountains">>, "pu2")

NoHits == [e \in ToSet(Extractors) |-> <<>>]
Patterns == {"theft", "rob.*", "crossing"}

Text == [hits |-> NoHits, births |-> {}, tokens |-> <<>>, staff |-> <<>>, parens |-> {},
         words |-> <<"rivers">>, quoted |-> <<>>, cosine |-> [r \in 1..3 |-> 0],
         natasha |-> NoDate, numeric |-> <<[day |-> 10, span |-> <<200, 210>>, time |-> 0]>>,
         worded |-> <<>>, clocks |-> <<<<>>, <<>>>>, times |-> <<>>,
         articles |-> <<<<>>, <<>>, <<>>, <<>>>>,
         regex |-> [p \in Patterns |-> NoFragment],
         fuzzy |-> [p \in Patterns |-> [score |-> 0, fragment |-> p]],
         near |-> [p \in Patterns |-> 0],
         place |-> <<140, 150>>, laws |-> <<>>, spelled |-> <<>>, closest |-> NoSpan,
         anyDate |-> NoSpan]

Noon == 10 * DayUnits
Event(id, at, sub, people) ==
    [id |-> id, at |-> at, sub |-> sub, type |-> "T1", article |-> "158", people |-> people]
Types == <<[id |-> "T1", name |-> 2, active |-> TRUE]>>
Pattern(id, type, pattern, active, article) ==
    [id |-> id, type |-> type, pattern |-> pattern, active |-> active, article |-> article]

NoClassifier == [types |-> <<>>, patterns |-> <<>>]

Case == [text |-> Text, pu |-> NoPu, cached |-> {Rivers}, model |-> TRUE,
         types |-> Types, patterns |-> <<>>, embedded |-> NoClassifier,
         known |-> NoClassifier, portal |-> <<Event(1, Noon, 1, <<>>)>>]

-----------------------------------------------------------------------------
(* Cases about people: who is found, and who of them is an employee.         *)

Names(natasha, complex, initials, context) ==
    [e \in ToSet(Extractors) |->
        CASE e = "natasha" -> natasha [] e = "complex" -> complex
          [] e = "initials" -> initials [] OTHER -> context]

FoundBy ==
    {Names(n, c, i, x) :
        n \in {<<>>, <<[Name("ivanova", "ivan", NoPart, 10, 22) EXCEPT !.lead = "ivanov"]>>,
               <<Name("ivanov", "I", "I", 10, 20)>>,
               <<Name("ivanov", "petr", NoPart, 10, 16),
                 [Name("ivanov", "petr", NoPart, 23, 31) EXCEPT !.lead = "petr"]>>},
        c \in {<<>>, <<Name("ivanov", "ivan", "ivanovich", 10, 31)>>,
               <<Name("north", "post", NoPart, 10, 31)>>},
        i \in {<<>>, <<Name("ivanov", "I", "I", 10, 20), Name("ivanov", "I", "I", 40, 50)>>,
               <<Name("petrov", "P", "P", 40, 50)>>, <<Name("petrov", "P", NoPart, 40, 50)>>},
        x \in {<<>>, <<Name("petrov", "went", NoPart, 40, 51)>>, <<Name("KPP", "petr", NoPart, 40, 51)>>}}

Births == {{}, {[at |-> 34, dob |-> Day, pattern |-> 1]},
           {[at |-> 52, dob |-> Year, pattern |-> 3]},
           {[at |-> 34, dob |-> BadDob, pattern |-> 1], [at |-> 52, dob |-> Day, pattern |-> 2]}}

Word(word, start, end) == [word |-> word, span |-> <<start, end>>]

\* The name at 10 takes three words, whatever form of it a hit finds.
Words(first, second) ==
    first \o <<Word("ivanov", 10, 16), Word("I", 17, 18), Word("I", 19, 20)>> \o second

\* No word around the names is a part of one.
Apart(hits, words) ==
    \A e \in ToSet(Extractors) : \A h \in ToSet(hits[e]) : \A k \in DOMAIN words :
        words[k].word \notin {"ivanov", "I"} => ~Overlaps(words[k].span, h.span)

WordsAround ==
    {Words(f, s) :
        f \in {<<>>, <<Word("st", 4, 6), Word("lt", 7, 9)>>, <<Word("col", 6, 9)>>,
               <<Word("st", 3, 6), Word("of", 7, 9)>>, <<Word("ml", 2, 4), Word("st", 5, 7)>>},
        s \in {<<>>, <<Word("lt", 36, 39)>>, <<Word("detained", 30, 39)>>,
               <<Word("lt", 21, 29), Word("inspector", 30, 39)>>,
               <<Word("inspector", 23, 28), Word("of", 30, 39)>>}}

\* _STAFF_RE finds every surname with two initials.
StaffIn(hits) ==
    LET full == SelectSeq(hits["initials"], LAMBDA h : h.middle # NoPart)
    IN  [k \in DOMAIN full |-> [surname |-> full[k].second, span |-> full[k].span,
                                initials |-> <<full[k].first, full[k].middle>>]]

PeopleCases ==
    {[Case EXCEPT !.text.hits = h, !.text.births = b] : h \in FoundBy, b \in Births}
    \cup {[Case EXCEPT !.text.hits = x[1], !.text.staff = StaffIn(x[1]), !.text.tokens = x[2],
                       !.text.parens = r, !.portal[1].people = p] :
            x \in {x \in FoundBy \X WordsAround : x[1]["context"] = <<>> /\ Apart(x[1], x[2])},
            r \in {{}, {<<0, 40>>}},
            p \in {<<>>, <<Person("ivanov", "ivan", "ivanovich", Day)>>,
                   <<Person("ivanow", "ivan", "ivanovich", NoDob)>>}}

\* Cases about the comparison: two mentions against two offenders.
Mentioned == {<<"ivanov", "ivan", "ivanovich">>, <<"ivanov", "I", "I">>,
              <<"ivanova", "ivan", NoPart>>, <<"petrov", "P", NoPart>>}
Offended == {Person("ivanov", "ivan", "ivanovich", Day), Person("ivanow", "ivan", "ivanovich", NoDob),
             Person("ivanov", "petr", "ivanovich", NewYear), Person("petrov", "petr", NoPart, OtherDay)}

Mentions(a, b) ==
    LET both == <<Name(a[1], a[2], a[3], 10, 31), Name(b[1], b[2], b[3], 100, 131)>>
        Full(h) == Letters(h.first) > 1
    IN  [NoHits EXCEPT !["complex"] = SelectSeq(both, Full),
                       !["initials"] = SelectSeq(both, LAMBDA h : ~Full(h))]

ComparisonCases ==
    {[Case EXCEPT !.text.hits = Mentions(a, b),
                  !.text.births = {[at |-> 34, dob |-> d[1], pattern |-> 1],
                                   [at |-> 134, dob |-> d[2], pattern |-> 1]},
                  !.portal[1].people = p] :
        a \in Mentioned, b \in Mentioned, p \in UNION {[1..n -> Offended] : n \in 1..2},
        d \in {<<BadDob, BadDob>>, <<Day, OtherDay>>, <<Year, BadDob>>, <<OtherDay, Year>>}}
    \cup {[Case EXCEPT !.text.hits = Mentions(a, <<"ivanova", "ivan", NoPart>>),
                       !.portal[1].people = p] :
            a \in Mentioned, p \in [1..3 -> Offended]}

-----------------------------------------------------------------------------
(* Cases about subdivisions.                                                 *)

SubdivisionCases ==
    {[Case EXCEPT !.text.words = w, !.text.quoted = q, !.text.cosine = s,
                  !.pu = u, !.cached = c, !.model = m] :
        w \in {<<>>, <<"riverside">>, <<"rivers", "north">>, <<"north">>, <<"post", "rivers">>,
               <<"post", "no7">>, <<"post">>, <<"north", "rivers", "north">>},
        q \in {<<>>, <<"rivers">>, <<"north">>, <<"rivers", "post">>},
        s \in {<<0, 0, 0>>, <<70, 90, 0>>, <<90, 70, 70>>, <<70, 70, 90>>},
        u \in {NoPu, "pu1", "pu3"},
        c \in {{Rivers, RiversNorth, Seven}, {Rivers, Seven}},
        m \in BOOLEAN}

-----------------------------------------------------------------------------
(* Cases about dates and times.                                              *)

Dated(day, start, end) == [day |-> day, span |-> <<start, end>>, time |-> 0]
Clock(time, start, end) == [time |-> time, span |-> <<start, end>>, sep |-> ":", legal |-> FALSE]
Dotted(time, start, end) == [Clock(time, start, end) EXCEPT !.sep = "."]

DateCases ==
    {[Case EXCEPT !.text.natasha = n, !.text.numeric = d, !.text.worded = w,
                  !.text.clocks = <<c, <<>>>>, !.text.times = t, !.text.articles[1] = a] :
        n \in {NoDate, [Dated(10, 100, 110) EXCEPT !.time = 600], Dated(NoTime, 100, 110)},
        d \in {<<>>, <<Dated(10, 100, 110)>>, <<Dated(NoTime, 90, 100), Dated(10, 100, 110)>>},
        w \in {<<>>, <<Dated(9, 60, 75)>>},
        c \in {<<>>, <<Clock(NoTime, 50, 55)>>, <<Dotted(60, 100, 105)>>},
        t \in {<<>>, <<Dotted(60, 100, 105)>>, <<Clock(120, 80, 85), Clock(180, 112, 117)>>,
               <<[Dotted(240, 30, 35) EXCEPT !.legal = TRUE], Dotted(60, 112, 117)>>},
        a \in {<<>>, <<"158">>}}

-----------------------------------------------------------------------------
(* Cases about the type of event.                                            *)

RegexOf(pattern) == pattern = "rob.*"
AlikeOf(a, b) == CASE a = b -> 100
                   [] {a, b} = {"rob.*", "robbery"} -> 60
                   [] {a, b} = {"theft", "thefts"} -> 90
                   [] OTHER -> 20
BoostOf(pattern, text) == IF pattern = "theft" THEN 15 ELSE 0

PatternRows(active, other) ==
    <<Pattern(1, "T1", "theft", active, "158"), Pattern(2, "T1", "crossing", TRUE, NoArticle),
      Pattern(3, "T2", other, TRUE, "158")>>

TypeRows(active) ==
    <<[id |-> "T1", name |-> 2, active |-> TRUE], [id |-> "T2", name |-> 1, active |-> active]>>

Now(a, b, other) == [types |-> TypeRows(b), patterns |-> PatternRows(a, other)]

\* The caches are of this moment, or older: everything was in use, and "theft"
\* was a pattern of the second type.
TypeCases ==
    {LET now == Now(a, b, o)
         then == Now(TRUE, TRUE, "theft")
     IN  [Case EXCEPT !.types = now.types, !.patterns = now.patterns, !.model = m,
                      !.embedded = IF x THEN then ELSE now,
                      !.known = IF y THEN then ELSE now,
                      !.text.regex["rob.*"] = r, !.text.near = [p \in Patterns |-> n[p]],
                      !.text.fuzzy = [p \in Patterns |-> [score |-> f[p], fragment |-> p]]] :
        a \in BOOLEAN, b \in BOOLEAN, o \in {"theft", "rob.*"}, m \in BOOLEAN,
        x \in BOOLEAN, y \in BOOLEAN, r \in {NoFragment, "robbery"},
        n \in {[p \in Patterns |-> 10], [p \in Patterns |-> IF p = "crossing" THEN 30 ELSE 10]},
        f \in {g \in [Patterns -> {20, 50, 90}] : g["crossing"] < 90}}

-----------------------------------------------------------------------------
(* Cases about the search: a paragraph against two or three events.          *)

SomeEvents ==
    {Event(1, Noon + d, s, p) :
        d \in {0, 61, 62 + UnitsPerMinute, 2 * DayUnits, 8 * DayUnits}, s \in {1, 3},
        p \in {<<>>, <<Person("ivanov", "ivan", "ivanovich", Day)>>}}

\* Two people named, and events with one of them or with both.
TwoNamed ==
    {Event(1, Noon + d, s, <<Person("ivanov", "ivan", "ivanovich", Day)>> \o p) :
        d \in {0, 61, 2 * DayUnits}, s \in {1, 3},
        p \in {<<>>, <<Person("petrov", "petr", NoPart, OtherDay)>>}}

OverlapCases ==
    {[Case EXCEPT !.text.hits = Mentions(<<"ivanov", "I", "I">>, <<"petrov", "P", NoPart>>),
                  !.cached = {Rivers, Seven}, !.portal = p] : p \in [1..2 -> TwoNamed]}

SearchCases ==
    OverlapCases \cup
    {[Case EXCEPT !.text.words = w, !.text.hits = h, !.cached = {Rivers, Seven},
                  !.portal = p] :
        w \in {<<"rivers">>, <<"elsewhere">>},
        h \in {NoHits, [NoHits EXCEPT !["initials"] = <<Name("ivanov", "I", "I", 10, 31)>>]},
        p \in {<<>>} \cup [1..2 -> SomeEvents]
             \cup [1..3 -> {e \in SomeEvents : e.at \in {Noon, Noon + 61} /\ e.sub = 1}]}

-----------------------------------------------------------------------------
(* Cases about the card: a name between a rank, a birth and a date, with     *)
(* other words of the text around or across it.                              *)

CardCases ==
    {[Case EXCEPT !.text.hits = h, !.text.staff = StaffIn(h), !.text.tokens = t,
                  !.text.births = b, !.text.numeric[1].span = d, !.text.laws = l,
                  !.text.place = s, !.text.near = [r \in Patterns |-> 30], !.text.closest = x,
                  !.text.spelled = <<[key |-> <<"petrov", "P", "P">>, span |-> <<60, 70>>]>>,
                  !.types = TypeRows(TRUE), !.patterns = PatternRows(TRUE, "theft"),
                  !.embedded = Now(TRUE, TRUE, "theft"), !.portal[1].people = p] :
        h \in {Names(<<>>, <<>>, <<Name("ivanov", "I", "I", 10, 20)>>, <<>>),
               Names(<<Name("ivanov", "ivan", NoPart, 10, 20)>>, <<>>,
                     <<Name("petrov", "P", "P", 40, 50)>>, <<>>)},
        t \in {Words(<<>>, <<>>), Words(<<Word("col", 6, 9)>>, <<>>),
               Words(<<>>, <<Word("lt", 36, 39)>>)},
        b \in {{}, {[at |-> 24, dob |-> Day, pattern |-> 1]},
                {[at |-> 24, dob |-> Year, pattern |-> 4], [at |-> 54, dob |-> Year, pattern |-> 3]}},
        d \in {<<200, 210>>, <<55, 65>>}, l \in {<<>>, <<<<18, 30>>>>},
        s \in {<<140, 150>>, <<8, 20>>}, x \in {NoSpan, <<4, 12>>, <<100, 120>>},
        p \in {<<>>, <<Person("petrov", "petr", "petrovich", Day)>>,
               <<Person("ivanov", "ivan", "ivanovich", OtherDay)>>}}

CaseKinds == [people |-> PeopleCases, comparison |-> ComparisonCases,
              subdivision |-> SubdivisionCases, date |-> DateCases,
              type |-> TypeCases, search |-> SearchCases, card |-> CardCases]

\* One report of one event, and the two people named.
OneReport == [k \in {0} |-> Upload({<<T("long")>>}, {<<>>}, {<<TRUE, TRUE, 0>>}, {General})]
OverlapKinds == [search |-> OverlapCases]
=============================================================================
