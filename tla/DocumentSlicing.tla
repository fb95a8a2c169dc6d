-------------------------- MODULE DocumentSlicing --------------------------
(***************************************************************************)
(* What of a report is analysed: the cut by markers in the report itself,  *)
(* the cut by the anchors of the active template, the fall back to the     *)
(* whole report, and the events made of the kept elements.                 *)
(*                                                                         *)
(* A document is a sequence of lines, the elements extract_doc_elements    *)
(* gives for a file (paragraphs, whatever the format: the rows of a table  *)
(* are only told apart when a Document object is passed, which src/ does   *)
(* in tests alone).  A line is the markers on it, in order, and the text   *)
(* that is left without them.  Elements are named by their line number.    *)
(***************************************************************************)
EXTENDS Lists

CONSTANTS
    Texts, NoText,   \* what a line may say beside its markers; nothing
    Size,            \* Size[t]: characters of the normalized text
    Lexical,         \* Lexical[a][t], Semantic[a][t]: the similarity of
    Semantic,        \*   anchor a and text t in percent, without and with model
    MinEventChars, MinSliceChars, AnchorMinChars,
    StartMinSim, WeakMinSim,
    FallbackMaxElements,
    NoTemplate,      \* no template in force
    General, Unchosen \* the choice of the general report; no choice

ASSUME SlicingAssumption ==
    /\ NoText \notin Texts
    /\ Size \in [Texts -> Nat \ {0}]
    /\ Lexical \in [Texts -> [Texts -> 0..100]]
    /\ Semantic \in [Texts -> [Texts -> -100..100]]
    /\ {MinEventChars, MinSliceChars, AnchorMinChars, FallbackMaxElements} \subseteq Nat
    /\ {StartMinSim, WeakMinSim} \subseteq 1..100

Line == [text : Texts \cup {NoText}, marks : Seq({"BEGIN", "END"})]

Chars(line) == IF line.text = NoText THEN 0 ELSE Size[line.text]
Blank(line) == line.text = NoText /\ line.marks = <<>>
HasMark(line, kind) == kind \in ToSet(line.marks)

\* Length of the lines of a set joined by line breaks.
JoinedChars(doc, lines) ==
    MapThenSumSet(LAMBDA i : Chars(doc[i]) + 1, lines) - (IF lines = {} THEN 0 ELSE 1)

Whole(doc) == [i \in DOMAIN doc |-> i]
InOrder(doc, lines) == Filter(Whole(doc), lines)

-----------------------------------------------------------------------------
(* The template: which is in force, its marker blocks and anchors. *)

\* get_template_for_run: the active template of the chosen PU, or the general
\* one for the general report.
TemplateFor(templates, choice) ==
    LET fits == {t \in templates : t.active /\ t.of = choice}
    IN  IF choice = Unchosen \/ fits = {} THEN NoTemplate
        ELSE CHOOSE t \in fits : \A u \in fits : t.updated >= u.updated

Filled(doc, first, last) == {i \in first..last : ~Blank(doc[i])}

\* _anchor_details of the nearest line that is not empty.
PreAnchor(doc, line) ==
    LET above == Filled(doc, 1, line - 1)
    IN  IF above = {} THEN NoText ELSE doc[Max(above)].text

TextFrom(doc, line) ==
    LET below == Filled(doc, line, Len(doc))
    IN  IF below = {} THEN NoText ELSE doc[Min(below)].text

\* Mutant: the line of the END marker is looked at too.
PostAnchorFromMarker(doc, line) == TextFrom(doc, line)

PostAnchor(doc, line) == TextFrom(doc, line + 1)

Weak(anchor) == anchor = NoText \/ Size[anchor] < AnchorMinChars

MarkersAt(doc, i) ==
    [k \in DOMAIN doc[i].marks |-> [line |-> i, kind |-> doc[i].marks[k]]]

MarkersOf(doc) ==
    FoldLeft(LAMBDA markers, i : markers \o MarkersAt(doc, i), <<>>, Whole(doc))

Block(doc, begin, end) == [start |-> PreAnchor(doc, begin), end |-> end]

\* The block that is open has no end.
Unended(doc, st) == Append(st.blocks, Block(doc, st.begin, NoText))

\* parse_template_marker_blocks: a BEGIN before the END of another closes that
\* one without an end anchor, an END without BEGIN counts for nothing.
TakeMarker(doc, st, m) ==
    IF m.kind = "BEGIN"
    THEN [begin |-> m.line,
          blocks |-> IF st.begin = 0 THEN st.blocks ELSE Unended(doc, st)]
    ELSE IF st.begin = 0 THEN st
    ELSE [begin |-> 0,
          blocks |-> Append(st.blocks, Block(doc, st.begin, PostAnchor(doc, m.line)))]

MarkerBlocks(doc) ==
    LET last == FoldLeft(LAMBDA st, m : TakeMarker(doc, st, m),
                         [begin |-> 0, blocks |-> <<>>], MarkersOf(doc))
    IN  IF last.begin = 0 THEN last.blocks ELSE Unended(doc, last)

-----------------------------------------------------------------------------
(* The cut of the report.                                                  *)

\* slice_by_markers.
TakeLine(doc, st, i) ==
    LET begins == HasMark(doc[i], "BEGIN")
        ends == HasMark(doc[i], "END")
        keeps == st.active \/ begins
    IN  [active |-> keeps /\ ~ends,
         found  |-> st.found \/ begins \/ ends,
         kept   |-> IF keeps /\ doc[i].text # NoText THEN Append(st.kept, i) ELSE st.kept]

SliceByMarkers(doc) ==
    FoldLeft(LAMBDA st, i : TakeLine(doc, st, i),
             [active |-> FALSE, found |-> FALSE, kept |-> <<>>], Whole(doc))

Similarity(anchor, text, model) ==
    IF text = NoText THEN 0
    ELSE IF Weak(anchor) \/ ~model THEN Lexical[anchor][text] ELSE Semantic[anchor][text]

\* _find_best_anchor_index: the first of the best lines from a line on, or 0.
BestAnchorIndex(doc, anchor, from, base, model) ==
    LET score(i) == Similarity(anchor, doc[i].text, model)
        scored == {i \in from..Len(doc) : score(i) > 0}
        best == CHOOSE i \in scored :
                    \A j \in scored : /\ score(i) >= score(j)
                                      /\ score(i) = score(j) => i <= j
    IN  IF scored = {} \/ score(best) < (IF Weak(anchor) THEN WeakMinSim ELSE base)
        THEN 0 ELSE best

\* What is cut out is too short for a segment.
TooShort(doc, lines) == JoinedChars(doc, lines) < MinSliceChars

\* apply_template_segments: the segments one after another, each searched from
\* where the one before ended.
ApplySegment(doc, base, model, st, seg) ==
    LET n == Len(doc)
        found(anchor, from) == BestAnchorIndex(doc, anchor, from, base, model)
        Apply(lines, cursor) ==
            [cursor |-> cursor, applied |-> st.applied + 1, lines |-> st.lines \cup lines]
        Between(start, end) ==
            LET lines == (start + 1)..(end - 1)
            IN  IF lines = {} \/ TooShort(doc, lines) THEN [st EXCEPT !.cursor = end + 1]
                ELSE Apply(lines, end + 1)
        Below(start) == Apply((start + 1)..n, n + 1)
        Upto(start, end) == IF end = 0 THEN Below(start) ELSE Between(start, end)
        After(start) ==
            IF start = 0 THEN st
            ELSE IF seg.end # NoText THEN Upto(start, found(seg.end, start + 1))
            ELSE IF TooShort(doc, (start + 1)..n) THEN st
            ELSE Below(start)
    IN  IF seg.start = NoText THEN st ELSE After(found(seg.start, st.cursor))

ApplySegments(doc, segments, base, model) ==
    FoldLeft(LAMBDA st, seg : ApplySegment(doc, base, model, st, seg),
             [cursor |-> 1, applied |-> 0, lines |-> {}], segments)

\* Mutant: the markers decide even if nothing is between them.
MarkersFound(marked) == marked.found

MarkersDecide(marked) == marked.found /\ marked.kept # <<>>

\* A cut that misses a segment is kept if it has anything and the report is long.
ByAnchors(doc, wanted, cut) ==
    LET missing == cut.applied < wanted
        limited == cut.lines # {} /\ Len(doc) > FallbackMaxElements
    IN  IF missing /\ ~limited
        THEN [kept |-> Whole(doc), by |-> "none"]
        ELSE [kept |-> InOrder(doc, cut.lines),
              by |-> IF missing THEN "none" ELSE "template_anchors"]

\* slice_elements_for_run.  A template has its file, a document, and its
\* threshold, 0 for one that is not set.
SliceForRun(doc, template, model) ==
    LET marked == SliceByMarkers(doc)
        segments == MarkerBlocks(template.file)
        base == IF template.threshold = 0 THEN StartMinSim ELSE template.threshold
    IN  IF template = NoTemplate THEN [kept |-> Whole(doc), by |-> "none"]
        ELSE IF MarkersDecide(marked) THEN [kept |-> marked.kept, by |-> "report_markers"]
        ELSE IF segments = <<>> THEN [kept |-> Whole(doc), by |-> "none"]
        ELSE ByAnchors(doc, Len(segments), ApplySegments(doc, segments, base, model))

-----------------------------------------------------------------------------
(* Events: sets of lines, in the order they are analysed.                  *)

LongEnough(doc, lines) ==
    Filter(lines, {i \in ToSet(lines) : Chars(doc[i]) >= MinEventChars})

\* parse_docx.
DocxEvents(doc, kept) ==
    LET long == LongEnough(doc, kept) IN [k \in DOMAIN long |-> {long[k]}]

\* parse_uploaded_document for odt and pdf: without any event the whole text
\* becomes one, the cut notwithstanding.
EventsOf(doc, kept, isDocx) ==
    LET events == DocxEvents(doc, kept)
    IN  IF isDocx \/ events # <<>> THEN events
        ELSE IF JoinedChars(doc, DOMAIN doc) >= MinEventChars
             THEN <<DOMAIN doc>>
             ELSE <<>>

-----------------------------------------------------------------------------
(* What the cut promises, about a marked report written into a template.  *)

\* The report without its markers, and without the lines that hold nothing else.
Said(doc) == InOrder(doc, {i \in DOMAIN doc : doc[i].text # NoText})
Unmarked(doc) ==
    LET said == Said(doc)
    IN  [k \in DOMAIN said |-> [text |-> doc[said[k]].text, marks |-> <<>>]]

\* Every END closes what the marker before it began.
Paired(doc) ==
    LET markers == MarkersOf(doc)
    IN  \A k \in DOMAIN markers :
           markers[k].kind = "BEGIN" <=> k = 1 \/ markers[k - 1].kind = "END"

Resembles(anchor, text, base, model) ==
    Similarity(anchor, text, model) >= (IF Weak(anchor) THEN WeakMinSim ELSE base)

\* Every anchor is the text of one line outside the blocks, no other resembles
\* it, and no two are the same.
OwnAnchors(doc, blocks, base, model) ==
    LET inside == ToSet(SliceByMarkers(doc).kept)
        anchor(x) == blocks[x[1]][x[2]]
        like(a) == {i \in DOMAIN doc : Resembles(a, doc[i].text, base, model)}
        anchors == {x \in (DOMAIN blocks) \X {"start", "end"} :
                        x[2] = "start" \/ anchor(x) # NoText}
    IN  \A x \in anchors :
           /\ anchor(x) # NoText
           /\ \E i \in DOMAIN doc \ inside :
                 doc[i].text = anchor(x) /\ like(anchor(x)) = {i}
           /\ \A y \in anchors : anchor(x) = anchor(y) => x = y

\* Every block says enough to be taken for one.
BigBlocks(plain, blocks) ==
    LET at(a) == CHOOSE i \in DOMAIN plain : plain[i].text = a
        last(b) == IF b.end = NoText THEN Len(plain) ELSE at(b.end) - 1
        lines(b) == (at(b.start) + 1)..last(b)
    IN  \A k \in DOMAIN blocks :
           lines(blocks[k]) # {} /\ ~TooShort(plain, lines(blocks[k]))

TextsAt(doc, lines) == [k \in DOMAIN lines |-> doc[lines[k]].text]
=============================================================================
