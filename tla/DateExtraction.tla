--------------------------- MODULE DateExtraction ---------------------------
(***************************************************************************)
(* The date and time of a paragraph, and the article of law it names.      *)
(*                                                                         *)
(* A paragraph gives what the expressions find in it, in text order:       *)
(*   natasha    the first date of the Natasha extractor, or NoDate         *)
(*   numeric    dates in digits; worded: dates with the month in words     *)
(*   clocks     for each of the two expressions that want a preposition    *)
(*              before a time, its first hit (<<>> or one)                 *)
(*   times      bare times, with their separator, and whether what stands  *)
(*              before them belongs to an article of law                   *)
(*   articles   what each of the four expressions for articles finds       *)
(* A date is a day, a time the units since midnight, NoTime when there is  *)
(* no such date or time.                                                   *)
(***************************************************************************)
EXTENDS Lists

CONSTANTS NoDate, NoTime, NoArticle,
          DayUnits   \* units of time in a day

ASSUME DayAssumption == DayUnits \in Nat

\* What is found in a text, in its order, with its place.
DatesIn(text) ==
    LET spanned(x) == x.span \in Int \X Int
        timed(t) == t \in Int \/ t = NoTime
        dates == ToSet(text.numeric) \cup ToSet(text.worded)
                 \cup ({text.natasha} \ {NoDate})
    IN  /\ IsList(text.numeric) /\ IsList(text.worded) /\ IsList(text.times)
        /\ IsList(text.clocks[1]) /\ IsList(text.clocks[2])
        /\ \A d \in dates : spanned(d) /\ timed(d.day) /\ d.time \in Int
        /\ \A t \in ToSet(text.times) \cup ToSet(text.clocks[1]) \cup ToSet(text.clocks[2]) :
              spanned(t) /\ timed(t.time)

\* Mutant: a span that starts where the other does is beside it.
OverlapWithin(a, b) == a[1] < b[1] /\ b[1] < a[2]

Overlap(a, b) == a[1] < b[2] /\ b[1] < a[2]

\* _extract_ru_date.
RuDate(text) ==
    LET dates == text.numeric \o text.worded
        real == Filter(dates, {d \in ToSet(dates) : d.day # NoTime})
    IN  IF real = <<>> THEN NoDate ELSE Head(real)

\* The times after a preposition.
Announced(text) == text.clocks[1] \o text.clocks[2]

\* _extract_ru_time: a time after a preposition, wherever it stands; or the
\* bare time with a colon, the nearest to the date, the first.
RuTime(text, date) ==
    LET announced == Announced(text)
        said == Filter(announced, {t \in ToSet(announced) : t.time # NoTime})
        bare == {t \in ToSet(text.times) :
                    /\ date # NoDate => ~Overlap(t.span, date.span)
                    /\ ~t.legal
                    /\ t.time # NoTime}
        distance(t) == IF date = NoDate THEN t.span[1]
                       ELSE IF t.span[1] >= date.span[2] THEN t.span[1] - date.span[2]
                       ELSE date.span[1] - t.span[2]
        key(t) == <<IF t.sep = ":" THEN 0 ELSE 1, distance(t), t.span[1]>>
        before(a, b) == \/ a[1] < b[1]
                        \/ a[1] = b[1] /\ a[2] < b[2]
                        \/ a[1] = b[1] /\ a[2] = b[2] /\ a[3] <= b[3]
    IN  CASE said # <<>> -> Head(said)
          [] said = <<>> /\ bare # {} ->
                CHOOSE t \in bare : \A u \in bare : before(key(t), key(u))
          [] OTHER -> NoDate

\* _extract_datetime_details: where, when, and whether a time was found.  A
\* midnight that Natasha reads counts as no time.
DateTime(text) ==
    LET natasha == text.natasha
        date == IF natasha # NoDate /\ natasha.day # NoTime THEN natasha ELSE RuDate(text)
        time == RuTime(text, date)
        known == date # NoDate /\ date.time # 0
        found == known \/ (date # NoDate /\ time # NoDate)
        of == IF known THEN date.time ELSE IF found THEN time.time ELSE 0
    IN  [at    |-> IF date = NoDate THEN NoTime ELSE date.day * DayUnits + of,
         found |-> found,
         date  |-> date,
         time  |-> time]

\* extract_article_mentions: the first with a part, else the first without.
ArticleOf(text) ==
    LET parts == FlattenSeq(SubSeq(text.articles, 1, 3))
        all == IF parts # <<>> THEN parts ELSE text.articles[4]
    IN  IF all = <<>> THEN NoArticle ELSE Head(all)

\* _calc_article_status.
ArticleStatus(svodka, classifier, portal) ==
    IF svodka = NoArticle \/ svodka # portal THEN "red"
    ELSE IF svodka = classifier THEN "green" ELSE "yellow"
=============================================================================
