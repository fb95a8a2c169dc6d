----------------------- MODULE ReportAnalysis_proofs ------------------------
(***************************************************************************)
(* What the analysis of a report promises for every report, template,      *)
(* case, portal and limit. The cut is a fold over the markers or segments, *)
(* and what the steps keep (Reading, Slicing, Sound) says what is left of  *)
(* the report (SliceLeaves). The blocks of a report lie between its        *)
(* anchors (FramedCuts), and that is what the anchors alone find in the    *)
(* report without its markers (AnchorsCut): the two ways to slice agree    *)
(* (CutsAgree). The stages of an event hand on what they computed: the     *)
(* invariant Bound says that the attributes are those of the event, and    *)
(* the result and the colours those of these attributes. The rest follows  *)
(* from the operators alone, by the lemmas of EventMatching_proofs.        *)
(***************************************************************************)
EXTENDS ReportAnalysis, EventMatching_proofs

-----------------------------------------------------------------------------
(* What is known of an event while it is analysed.                         *)

Bound ==
    /\ stage \in {"read", "matched"} => \E kind \in DOMAIN Cases : case \in Cases[kind]
    /\ stage = "read" => attrs = ExtractAttributes(case)
    /\ stage = "matched" =>
          /\ predicted = Classify(case.types, case.patterns, EmbeddedOf(case),
                                  KnownOf(case), case.text)
          /\ result = MatchEvent(case.portal, ExtractAttributes(case), predicted)
          /\ attrs = [ExtractAttributes(case) EXCEPT !.people = result.people,
                                                     !.staff = result.staff]
          /\ shown = Card(case.text, attrs, predicted, result, case.portal)

\* The invariant holds before the first event,
LEMMA InitBound == Init => Bound
  BY DEF Init, Bound

\* and every step of the pipeline keeps it.
LEMMA NextBound == Bound /\ [Next]_vars => Bound'
  <1> SUFFICES ASSUME Bound, [Next]_vars
               PROVE  Bound'
    OBVIOUS
  <1>1. CASE Parse
    BY <1>1 DEF Parse, Bound
  <1>2. CASE Announce
    BY <1>2 DEF Announce, Bound
  <1>3. CASE Read
    BY <1>3 DEF Read, Bound
  <1>4. CASE Match
    <2>1. attrs = ExtractAttributes(case) /\ \E kind \in DOMAIN Cases : case \in Cases[kind]
      BY <1>4 DEF Match, Bound
    <2>2. /\ result' = MatchEvent(case.portal, attrs, predicted')
          /\ attrs' = [attrs EXCEPT !.people = result'.people, !.staff = result'.staff]
          /\ stage' = "matched" /\ case' = case
          /\ predicted' = Classify(case.types, case.patterns, EmbeddedOf(case),
                                   KnownOf(case), case.text)
      BY <1>4 DEF Match
    <2>3. shown' = Card(case.text, attrs', predicted', result', case.portal)
      BY <1>4 DEF Match
    <2> QED
      BY <2>1, <2>2, <2>3 DEF Bound
  <1>5. CASE Store
    BY <1>5 DEF Store, Bound
  <1>6. CASE Finish
    BY <1>6 DEF Finish, Bound
  <1>7. CASE UNCHANGED vars
    BY <1>7 DEF vars, Bound
  <1> QED
    BY <1>1, <1>2, <1>3, <1>4, <1>5, <1>6, <1>7 DEF Next

\* What is matched and stored always is what was extracted from the same event,
\* whatever the report and the portal are.
THEOREM AlwaysBound == Spec => []Bound
  BY InitBound, NextBound, PTL DEF Spec

\* The attributes of an event can be matched with its portal.
LEMMA ExtractedType ==
    ASSUME NEW kind \in DOMAIN Cases, NEW c \in Cases[kind]
    PROVE  /\ Matchable(c.portal, ExtractAttributes(c))
           /\ ExtractAttributes(c).text = c.text
           /\ ExtractAttributes(c).dateAt = DateTime(c.text).date
           /\ ExtractAttributes(c).timeAt = DateTime(c.text).time
           /\ {"people", "staff"} \subseteq DOMAIN ExtractAttributes(c)
  <1> DEFINE a == ExtractAttributes(c)
             found == People(c.text)
             when == DateTime(c.text)
             where == Subdivision(c.cached, c.text, c.pu, c.model)
  <1>1. ListsIn(c.text) /\ DatesIn(c.text) /\ IsPortal(c.portal)
    BY CasesAssumption
  <1>2. a = Extracted(c, found, when, where)
    BY Zenon DEF ExtractAttributes
  <1>3. ArePeople(found)
    BY <1>1, PeopleList
  <1>4. when.at = NoTime \/ when.at \in Int
    BY <1>1, WhenItWas
  <1> HIDE DEF a, found, when, where
  <1>5. /\ a.text = c.text /\ a.at = when.at /\ a.dateAt = when.date /\ a.timeAt = when.time
        /\ a.people = EligibleBySpan(c.text, found)
        /\ a.staff = StaffOf(c.text, found)
        /\ {"people", "staff"} \subseteq DOMAIN a
    BY <1>2 DEF Extracted
  <1>6. /\ ArePeople(a.people)
        /\ \A p \in ToSet(a.people) : ~IsEmployee(c.text, p)
    BY <1>3, <1>5, EligibleList DEF ArePeople
  <1>7. AreStaff(a.staff)
    BY <1>1, <1>3, <1>5, StaffOfList
  <1> QED
    BY <1>1, <1>4, <1>5, <1>6, <1>7 DEF Matchable, a, when

-----------------------------------------------------------------------------
(* The markers and blocks of a document.                                   *)

IsDoc(doc) == doc \in Seq(Line)

LineNo(doc) == 1..Len(doc)

\* The lines of a document are numbered from one.
LEMMA WholeList ==
    ASSUME NEW doc, IsDoc(doc)
    PROVE  /\ Len(doc) \in Nat /\ DOMAIN doc = LineNo(doc)
           /\ Whole(doc) \in Seq(LineNo(doc))
           /\ Len(Whole(doc)) = Len(doc)
           /\ \A i \in LineNo(doc) : Whole(doc)[i] = i
           /\ \A i \in LineNo(doc) : doc[i] \in Line
           /\ \A i \in LineNo(doc) : doc[i].text \in Texts \cup {NoText}
  <1>1. Len(doc) \in Nat /\ DOMAIN doc = LineNo(doc) /\ \A i \in LineNo(doc) : doc[i] \in Line
    BY DEF IsDoc, LineNo
  <1>2. \A i \in LineNo(doc) : doc[i].text \in Texts \cup {NoText}
    BY <1>1 DEF Line
  <1>3. Whole(doc) = [i \in 1..Len(doc) |-> i]
    BY <1>1 DEF Whole, LineNo
  <1>4. Whole(doc) \in Seq(LineNo(doc)) /\ Len(Whole(doc)) = Len(doc)
    BY <1>1, <1>3 DEF LineNo
  <1> QED
    BY <1>1, <1>2, <1>3, <1>4 DEF LineNo

Marker(doc) == [line : LineNo(doc), kind : {"BEGIN", "END"}]

\* The markers of one line more.
MoreMarkers(doc, markers, i) == markers \o MarkersAt(doc, i)

\* The markers on a line.
LEMMA MarkersHere ==
    ASSUME NEW doc, IsDoc(doc), NEW i \in LineNo(doc)
    PROVE  MarkersAt(doc, i) \in Seq(Marker(doc))
  <1>1. doc[i].marks \in Seq({"BEGIN", "END"})
    <2>1. doc[i] \in Line
      BY WholeList
    <2> QED
      BY <2>1, Zenon DEF Line
  <1> DEFINE marks == doc[i].marks
  <1>2. Len(marks) \in Nat /\ DOMAIN marks = 1..Len(marks)
        /\ \A k \in 1..Len(marks) : marks[k] \in {"BEGIN", "END"}
    BY <1>1
  <1>3. MarkersAt(doc, i) = [k \in 1..Len(marks) |-> [line |-> i, kind |-> marks[k]]]
    BY <1>2 DEF MarkersAt
  <1> HIDE DEF marks
  <1> QED
    BY <1>2, <1>3 DEF Marker

\* The markers of a document are those of its lines, one line after another.
LEMMA MarkersSteps ==
    ASSUME NEW doc, IsDoc(doc)
    PROVE  \E f : /\ f[0] = <<>> /\ MarkersOf(doc) = f[Len(Whole(doc))]
                  /\ \A k \in 1..Len(Whole(doc)) : f[k] = MoreMarkers(doc, f[k - 1], Whole(doc)[k])
  <1> DEFINE n == Len(Whole(doc))
             A == Seq(Marker(doc))
             G == [k \in 1..n |-> [t \in A |-> MoreMarkers(doc, t, Whole(doc)[k])]]
             Body(g) == [d \in SUBSET DOMAIN Whole(doc) |->
                           IF d = {} THEN <<>> ELSE MoreMarkers(doc, g[d \ {Max(d)}], Whole(doc)[Max(d)])]
  <1>1. n \in Nat /\ DOMAIN Whole(doc) = 1..n /\ \A k \in 1..n : Whole(doc)[k] \in LineNo(doc)
    BY WholeList DEF LineNo
  <1>2. ASSUME NEW k \in 1..n, NEW t \in A
        PROVE  MoreMarkers(doc, t, Whole(doc)[k]) \in A
    <2> HIDE DEF n
    <2>1. MarkersAt(doc, Whole(doc)[k]) \in Seq(Marker(doc))
      BY <1>1, MarkersHere
    <2> QED
      BY <2>1 DEF MoreMarkers
  <1>3. G \in [1..n -> [A -> A]]
    <2> HIDE DEF A
    <2> QED
      BY <1>2
  <1>4. PICK g \in [SUBSET (1..n) -> A] :
           \A d \in SUBSET (1..n) : Unfolds(g, d, n, A, <<>>, G)
    <2>1. <<>> \in A
      OBVIOUS
    <2> HIDE DEF G, A, n
    <2> QED
      BY <1>1, <1>3, <2>1, FoldUnfolds
  <1>5. ASSUME NEW d \in SUBSET (1..n)
        PROVE  g[d] = Body(g)[d]
    <2> HIDE DEF A, n
    <2> QED
      BY <1>1, <1>4 DEF Unfolds
  <1>6. g = Body(g)
    <2> HIDE DEF A
    <2> QED
      BY <1>1, <1>5
  <1>7. PICK h : h = Body(h) /\ MarkersOf(doc) = h[DOMAIN Whole(doc)]
    <2> HIDE <1>4, <1>5
    <2> QED
      BY <1>6, Zenon DEF MarkersOf, MoreMarkers, FoldLeft, MapThenFoldSet
  <1> HIDE DEF A, G, n
  <1> DEFINE f == [k \in 0..n |-> h[1..k]]
  <1>8. \A d \in SUBSET (1..n) :
           h[d] = IF d = {} THEN <<>> ELSE MoreMarkers(doc, h[d \ {Max(d)}], Whole(doc)[Max(d)])
    BY <1>1, <1>7
  <1>9. f[0] = <<>> /\ MarkersOf(doc) = f[n]
    <2>1. f[0] = h[{}] /\ f[n] = h[1..n] /\ {} \in SUBSET (1..n)
      BY <1>1
    <2>2. h[{}] = <<>>
      BY <1>8, <2>1
    <2>3. MarkersOf(doc) = h[1..n]
      BY <1>1, <1>7
    <2> HIDE DEF f
    <2> QED
      BY <2>1, <2>2, <2>3
  <1>10. ASSUME NEW k \in 1..n
         PROVE  f[k] = MoreMarkers(doc, f[k - 1], Whole(doc)[k])
    <2>1. Max(1..k) = k /\ (1..k) \ {k} = 1..(k - 1) /\ 1..k # {}
      BY MaxOfInterval
    <2>2. 1..k \in SUBSET (1..n) /\ k \in 0..n /\ k - 1 \in 0..n
      BY <1>1
    <2> QED
      BY <1>1, <1>8, <2>1, <2>2
  <1> QED
    <2> HIDE DEF f
    <2> QED
      BY <1>9, <1>10 DEF n

\* Each of them is on a line of the document.
LEMMA MarkersType ==
    ASSUME NEW doc, IsDoc(doc)
    PROVE  MarkersOf(doc) \in Seq(Marker(doc))
  <1> DEFINE n == Len(Whole(doc))
  <1>1. PICK f : /\ f[0] = <<>> /\ MarkersOf(doc) = f[n]
                 /\ \A k \in 1..n : f[k] = MoreMarkers(doc, f[k - 1], Whole(doc)[k])
    BY MarkersSteps
  <1>2. n \in Nat /\ \A k \in 1..n : Whole(doc)[k] \in LineNo(doc)
    BY WholeList DEF LineNo
  <1>3. ASSUME NEW k \in 1..n, f[k - 1] \in Seq(Marker(doc))
        PROVE  f[k] \in Seq(Marker(doc))
    <2>1. MarkersAt(doc, Whole(doc)[k]) \in Seq(Marker(doc))
      BY <1>2, MarkersHere
    <2>2. f[k] = f[k - 1] \o MarkersAt(doc, Whole(doc)[k])
      BY <1>1, Zenon DEF MoreMarkers
    <2>3. \A V : \A a, b \in Seq(V) : a \o b \in Seq(V)
      OBVIOUS
    <2> QED
      BY <1>3, <2>1, <2>2, <2>3, Zenon
  <1>4. f[0] \in Seq(Marker(doc))
    BY <1>1
  <1> HIDE DEF n
  <1> QED
    BY <1>1, <1>2, <1>3, <1>4, ListStays DEF Keeps

SegmentOf == [start : Texts \cup {NoText}, end : Texts \cup {NoText}]

\* The anchor before a line, and the one after it, are texts of the document.
LEMMA AnchorType ==
    ASSUME NEW doc, IsDoc(doc), NEW i \in LineNo(doc)
    PROVE  /\ PreAnchor(doc, i) \in Texts \cup {NoText}
           /\ PostAnchor(doc, i) \in Texts \cup {NoText}
  <1> DEFINE above == Filled(doc, 1, i - 1)
             below == Filled(doc, i + 1, Len(doc))
  <1>1. Len(doc) \in Nat /\ \A k \in LineNo(doc) : doc[k].text \in Texts \cup {NoText}
    BY WholeList
  <1>2. i \in 1..Len(doc)
    BY DEF LineNo
  <1>3. above \in SUBSET (1..Len(doc)) /\ below \in SUBSET (1..Len(doc))
    BY <1>1, <1>2 DEF Filled
  <1> HIDE DEF above, below
  <1>4. above # {} => Max(above) \in LineNo(doc)
    BY <1>1, <1>3, MaxBelow DEF LineNo
  <1>5. below # {} => Min(below) \in LineNo(doc)
    BY <1>1, <1>3, MinIs DEF LineNo
  <1>6. PreAnchor(doc, i) = IF above = {} THEN NoText ELSE doc[Max(above)].text
    BY DEF PreAnchor, above
  <1>7. PostAnchor(doc, i) = IF below = {} THEN NoText ELSE doc[Min(below)].text
    BY DEF PostAnchor, TextFrom, below
  <1> QED
    BY <1>1, <1>4, <1>5, <1>6, <1>7

\* What parse_template_marker_blocks goes on with after a marker.
Reading(doc) == [begin : 0..Len(doc), blocks : Seq(SegmentOf)]

\* A marker opens a block, closes one, or does nothing.
LEMMA MarkerTaken ==
    ASSUME NEW doc, IsDoc(doc), NEW st \in Reading(doc), NEW m \in Marker(doc)
    PROVE  TakeMarker(doc, st, m) \in Reading(doc)
  <1>1. Len(doc) \in Nat /\ m.line \in 1..Len(doc) /\ m.line \in LineNo(doc)
    BY WholeList DEF Marker, LineNo
  <1>2. st.begin \in 0..Len(doc) /\ st.blocks \in Seq(SegmentOf)
    BY DEF Reading
  <1>3. ASSUME st.begin # 0, NEW end \in Texts \cup {NoText}
        PROVE  Append(st.blocks, Block(doc, st.begin, end)) \in Seq(SegmentOf)
    <2>1. st.begin \in LineNo(doc)
      BY <1>1, <1>2, <1>3 DEF LineNo
    <2>2. Block(doc, st.begin, end) \in SegmentOf
      BY <2>1, AnchorType DEF Block, SegmentOf
    <2> QED
      BY <1>2, <2>2
  <1>4. st.begin # 0 => Unended(doc, st) \in Seq(SegmentOf)
    BY <1>3 DEF Unended
  <1>5. PostAnchor(doc, m.line) \in Texts \cup {NoText}
    BY <1>1, AnchorType
  <1> DEFINE ended == Append(st.blocks, Block(doc, st.begin, PostAnchor(doc, m.line)))
  <1>6. st.begin # 0 => ended \in Seq(SegmentOf)
    BY <1>3, <1>5
  <1> HIDE DEF ended
  <1>7. TakeMarker(doc, st, m) =
           IF m.kind = "BEGIN"
           THEN [begin |-> m.line,
                 blocks |-> IF st.begin = 0 THEN st.blocks ELSE Unended(doc, st)]
           ELSE IF st.begin = 0 THEN st ELSE [begin |-> 0, blocks |-> ended]
    BY DEF TakeMarker, ended
  <1> QED
    BY <1>1, <1>2, <1>4, <1>6, <1>7 DEF Reading

NoneRead == [begin |-> 0, blocks |-> <<>>]

LastRead(doc) ==
    FoldLeft(LAMBDA st, m : TakeMarker(doc, st, m), NoneRead, MarkersOf(doc))

\* The blocks are read one marker after another.
LEMMA BlockSteps ==
    ASSUME NEW doc, IsDoc(doc)
    PROVE  \E f : /\ f[0] = NoneRead /\ LastRead(doc) = f[Len(MarkersOf(doc))]
                  /\ \A k \in 1..Len(MarkersOf(doc)) : f[k] = TakeMarker(doc, f[k - 1], MarkersOf(doc)[k])
  <1> DEFINE n == Len(MarkersOf(doc))
             A == Reading(doc)
             G == [k \in 1..n |-> [t \in A |-> TakeMarker(doc, t, MarkersOf(doc)[k])]]
             Body(g) == [d \in SUBSET DOMAIN MarkersOf(doc) |->
                           IF d = {} THEN NoneRead ELSE TakeMarker(doc, g[d \ {Max(d)}], MarkersOf(doc)[Max(d)])]
  <1>1. n \in Nat /\ DOMAIN MarkersOf(doc) = 1..n /\ \A k \in 1..n : MarkersOf(doc)[k] \in Marker(doc)
    BY MarkersType
  <1>2. ASSUME NEW k \in 1..n, NEW t \in A
        PROVE  TakeMarker(doc, t, MarkersOf(doc)[k]) \in A
    <2> HIDE DEF n
    <2> QED
      BY <1>1, MarkerTaken
  <1>3. G \in [1..n -> [A -> A]]
    <2> HIDE DEF A
    <2> QED
      BY <1>2
  <1>4. PICK g \in [SUBSET (1..n) -> A] :
           \A d \in SUBSET (1..n) : Unfolds(g, d, n, A, NoneRead, G)
    <2>1. NoneRead \in A
      BY WholeList DEF NoneRead, Reading
    <2> HIDE DEF G, A, n
    <2> QED
      BY <1>1, <1>3, <2>1, FoldUnfolds
  <1>5. ASSUME NEW d \in SUBSET (1..n)
        PROVE  g[d] = Body(g)[d]
    <2> HIDE DEF A, n
    <2> QED
      BY <1>1, <1>4 DEF Unfolds
  <1>6. g = Body(g)
    <2> HIDE DEF A
    <2> QED
      BY <1>1, <1>5
  <1>7. PICK h : h = Body(h) /\ LastRead(doc) = h[DOMAIN MarkersOf(doc)]
    <2> HIDE <1>4, <1>5
    <2> QED
      BY <1>6, Zenon DEF LastRead, FoldLeft, MapThenFoldSet
  <1> HIDE DEF A, G, n
  <1> DEFINE f == [k \in 0..n |-> h[1..k]]
  <1>8. \A d \in SUBSET (1..n) :
           h[d] = IF d = {} THEN NoneRead ELSE TakeMarker(doc, h[d \ {Max(d)}], MarkersOf(doc)[Max(d)])
    BY <1>1, <1>7
  <1>9. f[0] = NoneRead /\ LastRead(doc) = f[n]
    <2>1. f[0] = h[{}] /\ f[n] = h[1..n] /\ {} \in SUBSET (1..n)
      BY <1>1
    <2>2. h[{}] = NoneRead
      BY <1>8, <2>1
    <2>3. LastRead(doc) = h[1..n]
      BY <1>1, <1>7
    <2> HIDE DEF f
    <2> QED
      BY <2>1, <2>2, <2>3
  <1>10. ASSUME NEW k \in 1..n
         PROVE  f[k] = TakeMarker(doc, f[k - 1], MarkersOf(doc)[k])
    <2>1. Max(1..k) = k /\ (1..k) \ {k} = 1..(k - 1) /\ 1..k # {}
      BY MaxOfInterval
    <2>2. 1..k \in SUBSET (1..n) /\ k \in 0..n /\ k - 1 \in 0..n
      BY <1>1
    <2> QED
      BY <1>1, <1>8, <2>1, <2>2
  <1> QED
    <2> HIDE DEF f
    <2> QED
      BY <1>9, <1>10 DEF n

\* The anchors of a template are texts of its file, or missing.
LEMMA BlocksType ==
    ASSUME NEW doc, IsDoc(doc)
    PROVE  MarkerBlocks(doc) \in Seq(SegmentOf)
  <1> DEFINE n == Len(MarkersOf(doc))
             last == LastRead(doc)
  <1>1. PICK f : /\ f[0] = NoneRead /\ last = f[n]
                 /\ \A k \in 1..n : f[k] = TakeMarker(doc, f[k - 1], MarkersOf(doc)[k])
    BY BlockSteps
  <1>2. n \in Nat /\ \A k \in 1..n : MarkersOf(doc)[k] \in Marker(doc)
    BY MarkersType
  <1>3. f[0] \in Reading(doc)
    BY <1>1, WholeList DEF NoneRead, Reading
  <1>4. Keeps(f, n, Reading(doc))
    <2> HIDE DEF n, last
    <2> QED
      BY <1>1, <1>2, MarkerTaken DEF Keeps
  <1>5. last \in Reading(doc)
    <2> HIDE DEF n, last
    <2>1. n \in 0..n
      BY <1>2
    <2> QED
      BY <1>1, <1>2, <1>3, <1>4, <2>1, Stays
  <1>6. MarkerBlocks(doc) = IF last.begin = 0 THEN last.blocks ELSE Unended(doc, last)
    BY Zenon DEF MarkerBlocks, LastRead, NoneRead
  <1> HIDE DEF last
  <1>7. last.begin # 0 => Unended(doc, last) \in Seq(SegmentOf)
    <2> SUFFICES ASSUME last.begin # 0
                 PROVE  Unended(doc, last) \in Seq(SegmentOf)
      OBVIOUS
    <2>1. last.begin \in LineNo(doc) /\ last.blocks \in Seq(SegmentOf)
      BY <1>5, WholeList DEF Reading, LineNo
    <2>2. Block(doc, last.begin, NoText) \in SegmentOf
      BY <2>1, AnchorType DEF Block, SegmentOf
    <2> QED
      BY <2>1, <2>2 DEF Unended
  <1> QED
    BY <1>5, <1>6, <1>7 DEF Reading

-----------------------------------------------------------------------------
(* The cut of a report.                                                    *)

\* What slice_by_markers goes on with after a line.
Slicing(doc) == [active : BOOLEAN, found : BOOLEAN, kept : Seq(LineNo(doc))]

Unsliced == [active |-> FALSE, found |-> FALSE, kept |-> <<>>]

\* Nothing is kept before the first line.
LEMMA UnslicedType ==
    ASSUME NEW doc
    PROVE  Unsliced \in Slicing(doc)
  <1>1. <<>> \in Seq(LineNo(doc))
    OBVIOUS
  <1> QED
    BY <1>1, Zenon DEF Unsliced, Slicing

\* A line is kept or not.
LEMMA LineTaken ==
    ASSUME NEW doc, NEW st \in Slicing(doc), NEW i \in LineNo(doc)
    PROVE  TakeLine(doc, st, i) \in Slicing(doc)
  <1> DEFINE begins == HasMark(doc[i], "BEGIN")
             ends == HasMark(doc[i], "END")
             active == (st.active \/ begins) /\ ~ends
             found == st.found \/ begins \/ ends
             kept == IF (st.active \/ begins) /\ doc[i].text # NoText
                     THEN Append(st.kept, i) ELSE st.kept
  <1>1. TakeLine(doc, st, i) = [active |-> active, found |-> found, kept |-> kept]
    BY Zenon DEF TakeLine
  <1>2. begins \in BOOLEAN /\ ends \in BOOLEAN
    BY DEF HasMark
  <1>3. active \in BOOLEAN /\ found \in BOOLEAN
    OBVIOUS
  <1>4. st.kept \in Seq(LineNo(doc))
    BY Zenon DEF Slicing
  <1>5. kept \in Seq(LineNo(doc))
    <2>1. Append(st.kept, i) \in Seq(LineNo(doc))
      BY <1>4
    <2> QED
      BY <1>4, <2>1
  <1>6. \A a, b \in BOOLEAN : \A k \in Seq(LineNo(doc)) :
           [active |-> a, found |-> b, kept |-> k] \in Slicing(doc)
    BY DEF Slicing
  <1> HIDE DEF active, found, kept
  <1> QED
    BY <1>1, <1>3, <1>5, <1>6, Zenon

\* The lines are taken one after another.
LEMMA LineSteps ==
    ASSUME NEW doc, IsDoc(doc)
    PROVE  \E f : /\ f[0] = Unsliced /\ SliceByMarkers(doc) = f[Len(Whole(doc))]
                  /\ \A k \in 1..Len(Whole(doc)) : f[k] = TakeLine(doc, f[k - 1], Whole(doc)[k])
  <1> DEFINE n == Len(Whole(doc))
             A == Slicing(doc)
             G == [k \in 1..n |-> [t \in A |-> TakeLine(doc, t, Whole(doc)[k])]]
             Body(g) == [d \in SUBSET DOMAIN Whole(doc) |->
                           IF d = {} THEN Unsliced ELSE TakeLine(doc, g[d \ {Max(d)}], Whole(doc)[Max(d)])]
  <1>1. n \in Nat /\ DOMAIN Whole(doc) = 1..n /\ \A k \in 1..n : Whole(doc)[k] \in LineNo(doc)
    BY WholeList DEF LineNo
  <1>2. ASSUME NEW k \in 1..n, NEW t \in A
        PROVE  TakeLine(doc, t, Whole(doc)[k]) \in A
    <2> HIDE DEF n
    <2> QED
      BY <1>1, LineTaken
  <1>3. G \in [1..n -> [A -> A]]
    <2> HIDE DEF A
    <2> QED
      BY <1>2
  <1>4. PICK g \in [SUBSET (1..n) -> A] :
           \A d \in SUBSET (1..n) : Unfolds(g, d, n, A, Unsliced, G)
    <2>1. Unsliced \in A
      BY UnslicedType
    <2> HIDE DEF G, A, n
    <2> QED
      BY <1>1, <1>3, <2>1, FoldUnfolds
  <1>5. ASSUME NEW d \in SUBSET (1..n)
        PROVE  g[d] = Body(g)[d]
    <2> HIDE DEF A, n
    <2> QED
      BY <1>1, <1>4 DEF Unfolds
  <1>6. g = Body(g)
    <2> HIDE DEF A
    <2> QED
      BY <1>1, <1>5
  <1>7. PICK h : h = Body(h) /\ SliceByMarkers(doc) = h[DOMAIN Whole(doc)]
    <2> HIDE <1>4, <1>5
    <2> QED
      BY <1>6, Zenon DEF SliceByMarkers, Unsliced, FoldLeft, MapThenFoldSet
  <1> HIDE DEF A, G, n
  <1> DEFINE f == [k \in 0..n |-> h[1..k]]
  <1>8. \A d \in SUBSET (1..n) :
           h[d] = IF d = {} THEN Unsliced ELSE TakeLine(doc, h[d \ {Max(d)}], Whole(doc)[Max(d)])
    BY <1>1, <1>7
  <1>9. f[0] = Unsliced /\ SliceByMarkers(doc) = f[n]
    <2>1. f[0] = h[{}] /\ f[n] = h[1..n] /\ {} \in SUBSET (1..n)
      BY <1>1
    <2>2. h[{}] = Unsliced
      BY <1>8, <2>1
    <2>3. SliceByMarkers(doc) = h[1..n]
      BY <1>1, <1>7
    <2> HIDE DEF f
    <2> QED
      BY <2>1, <2>2, <2>3
  <1>10. ASSUME NEW k \in 1..n
         PROVE  f[k] = TakeLine(doc, f[k - 1], Whole(doc)[k])
    <2>1. Max(1..k) = k /\ (1..k) \ {k} = 1..(k - 1) /\ 1..k # {}
      BY MaxOfInterval
    <2>2. 1..k \in SUBSET (1..n) /\ k \in 0..n /\ k - 1 \in 0..n
      BY <1>1
    <2> QED
      BY <1>1, <1>8, <2>1, <2>2
  <1> QED
    <2> HIDE DEF f
    <2> QED
      BY <1>9, <1>10 DEF n

\* What the markers keep are lines of the document.
LEMMA MarkedKept ==
    ASSUME NEW doc, IsDoc(doc)
    PROVE  SliceByMarkers(doc).kept \in Seq(LineNo(doc))
  <1> DEFINE n == Len(Whole(doc))
             last == SliceByMarkers(doc)
  <1>1. PICK f : /\ f[0] = Unsliced /\ last = f[n]
                 /\ \A k \in 1..n : f[k] = TakeLine(doc, f[k - 1], Whole(doc)[k])
    BY LineSteps
  <1>2. n \in Nat /\ \A k \in 1..n : Whole(doc)[k] \in LineNo(doc)
    BY WholeList DEF LineNo
  <1>3. f[0] \in Slicing(doc)
    BY <1>1, UnslicedType
  <1> HIDE DEF n, last
  <1>4. Keeps(f, n, Slicing(doc))
    BY <1>1, <1>2, LineTaken DEF Keeps
  <1>5. last \in Slicing(doc)
    <2>1. n \in 0..n
      BY <1>2
    <2> QED
      BY <1>1, <1>2, <1>3, <1>4, <2>1, Stays
  <1>6. last.kept \in Seq(LineNo(doc))
    BY <1>5, Zenon DEF Slicing
  <1> QED
    BY <1>6 DEF last

\* An anchor and a text are compared by a number.
LEMMA SimilarityType ==
    ASSUME NEW anchor \in Texts, NEW text \in Texts \cup {NoText}, NEW model
    PROVE  Similarity(anchor, text, model) \in Int
  <1>1. Lexical[anchor] \in [Texts -> 0..100] /\ Semantic[anchor] \in [Texts -> -100..100]
    BY SlicingAssumption
  <1>2. ASSUME text \in Texts
        PROVE  Lexical[anchor][text] \in Int /\ Semantic[anchor][text] \in Int
    BY <1>1, <1>2
  <1>3. CASE text = NoText
    BY <1>3 DEF Similarity
  <1>4. CASE text # NoText
    BY <1>2, <1>4 DEF Similarity
  <1> QED
    BY <1>3, <1>4

Limit(anchor, base) == IF Weak(anchor) THEN WeakMinSim ELSE base

\* The line that is found for an anchor is one that resembles it.
LEMMA AnchorFound ==
    ASSUME NEW doc, IsDoc(doc), NEW anchor \in Texts, NEW from \in Nat \ {0},
           NEW base \in Int, NEW model
    PROVE  \/ BestAnchorIndex(doc, anchor, from, base, model) = 0
           \/ /\ BestAnchorIndex(doc, anchor, from, base, model) \in from..Len(doc)
              /\ Resembles(anchor, doc[BestAnchorIndex(doc, anchor, from, base, model)].text,
                           base, model)
  <1> DEFINE score(i) == Similarity(anchor, doc[i].text, model)
             scored == {i \in from..Len(doc) : score(i) > 0}
             better(i, j) == /\ score(i) >= score(j)
                             /\ score(i) = score(j) => i <= j
             best == CHOOSE i \in scored : \A j \in scored : better(i, j)
             R == {p \in scored \X scored : better(p[1], p[2])}
             found == BestAnchorIndex(doc, anchor, from, base, model)
  <1>1. /\ Len(doc) \in Nat
        /\ \A i \in 1..Len(doc) : doc[i].text \in Texts \cup {NoText}
    BY WholeList DEF LineNo
  <1>2. \A i \in from..Len(doc) : i \in 1..Len(doc)
    BY <1>1
  <1>3. \A i \in scored : score(i) \in Int
    BY <1>1, <1>2, SimilarityType
  <1>4. found = IF scored = {} \/ score(best) < Limit(anchor, base) THEN 0 ELSE best
    BY Zenon DEF BestAnchorIndex, Limit
  <1>5. scored \in SUBSET (1..Len(doc))
    BY <1>2
  <1>6. IsFiniteSet(scored)
    BY <1>1, <1>5, FinitePart
  <1>7. Compares(R, scored)
    <2>1. \A i, j \in scored : better(i, j) \/ better(j, i)
      BY <1>3, <1>5
    <2>2. \A i, j, k \in scored : better(i, j) /\ better(j, k) => better(i, k)
      BY <1>3, <1>5
    <2>3. \A i, j \in scored : <<i, j>> \in R <=> better(i, j)
      OBVIOUS
    <2> HIDE DEF scored, R, better
    <2> QED
      BY <2>1, <2>2, <2>3 DEF Compares
  <1>8. ASSUME scored # {}
        PROVE  best \in scored
    <2>1. \E i \in scored : Least(R, scored, i)
      <3> HIDE DEF scored, R
      <3> QED
        BY <1>6, <1>7, <1>8, LeastExists DEF Least
    <2>2. \E i \in scored : \A j \in scored : better(i, j)
      <3>1. \A i, j \in scored : <<i, j>> \in R => better(i, j)
        OBVIOUS
      <3> HIDE DEF scored, R, better
      <3> QED
        BY <2>1, <3>1 DEF Least
    <2> HIDE DEF scored, better
    <2> QED
      BY <2>2, Zenon
  <1>9. Limit(anchor, base) \in Int
    BY SlicingAssumption DEF Limit
  <1> SUFFICES ASSUME found # 0
               PROVE  /\ found \in from..Len(doc)
                      /\ Resembles(anchor, doc[found].text, base, model)
    OBVIOUS
  <1>10. scored # {} /\ ~(score(best) < Limit(anchor, base)) /\ found = best
    <2> HIDE DEF scored, best, found, score
    <2> QED
      BY <1>4
  <1>11. best \in scored /\ score(best) \in Int
    <2> HIDE DEF scored, best, score
    <2> QED
      BY <1>3, <1>8, <1>10
  <1>12. best \in from..Len(doc)
    <2> HIDE DEF best
    <2> QED
      BY <1>11
  <1>13. score(best) >= Limit(anchor, base)
    <2> HIDE DEF best, score
    <2> QED
      BY <1>9, <1>10, <1>11
  <1> HIDE DEF best, found
  <1> QED
    BY <1>10, <1>12, <1>13 DEF Resembles, Limit

\* What apply_template_segments goes on with after a segment.
Applying(doc) == [cursor : Nat \ {0}, applied : Nat, lines : SUBSET LineNo(doc)]

\* The last line is taken for the beginning of a block.
BeginsAtEnd(doc, segments, base, model) ==
    \E b \in ToSet(segments) : Resembles(b.start, doc[Len(doc)].text, base, model)

\* A segment is applied to no line at all only there.
Sound(doc, segments, base, model) ==
    {st \in Applying(doc) :
        st.applied > 0 /\ st.lines = {} => BeginsAtEnd(doc, segments, base, model)}

\* One segment more.
LEMMA SegmentApplied ==
    ASSUME NEW doc, IsDoc(doc), NEW segments, NEW base \in Int, NEW model,
           NEW st \in Sound(doc, segments, base, model),
           NEW seg \in SegmentOf, seg \in ToSet(segments)
    PROVE  ApplySegment(doc, base, model, st, seg) \in Sound(doc, segments, base, model)
  <1> DEFINE n == Len(doc)
             found(anchor, from) == BestAnchorIndex(doc, anchor, from, base, model)
             start == found(seg.start, st.cursor)
             end == found(seg.end, start + 1)
             between == (start + 1)..(end - 1)
             after == (start + 1)..n
             none == [st EXCEPT !.cursor = end + 1]
             closed == [cursor |-> end + 1, applied |-> st.applied + 1,
                        lines |-> st.lines \cup between]
             below == [cursor |-> n + 1, applied |-> st.applied + 1,
                       lines |-> st.lines \cup after]
             S == Sound(doc, segments, base, model)
  <1>1. ApplySegment(doc, base, model, st, seg) =
           IF seg.start = NoText THEN st
           ELSE IF start = 0 THEN st
           ELSE IF seg.end # NoText
                THEN IF end = 0 THEN below
                     ELSE IF between = {} \/ TooShort(doc, between) THEN none ELSE closed
           ELSE IF TooShort(doc, after) THEN st
           ELSE below
    BY Zenon DEF ApplySegment
  <1>2. n \in Nat /\ LineNo(doc) = 1..n
    BY WholeList DEF LineNo
  <1>3. /\ st \in Applying(doc)
        /\ st.applied > 0 /\ st.lines = {} => BeginsAtEnd(doc, segments, base, model)
    BY DEF Sound
  <1>4. st.cursor \in Nat \ {0} /\ st.applied \in Nat /\ st.lines \in SUBSET (1..n)
    BY <1>2, <1>3 DEF Applying
  <1>5. ASSUME seg.start # NoText, start # 0
        PROVE  /\ start \in st.cursor..n
               /\ Resembles(seg.start, doc[start].text, base, model)
    <2>1. seg.start \in Texts
      BY <1>5 DEF SegmentOf
    <2> QED
      BY <1>4, <1>5, <2>1, AnchorFound
  <1> SUFFICES ASSUME seg.start # NoText, start # 0
               PROVE  ApplySegment(doc, base, model, st, seg) \in S
    <2> HIDE DEF start, end, between, after, none, closed, below
    <2> QED
      BY <1>1
  <1> HIDE DEF found
  <1>6. start \in 1..n /\ Resembles(seg.start, doc[start].text, base, model)
    <2>1. start \in st.cursor..n /\ Resembles(seg.start, doc[start].text, base, model)
      BY <1>5
    <2> HIDE DEF start, n
    <2> QED
      BY <1>2, <1>4, <2>1
  <1>7. below \in S
    <2>1. n + 1 \in Nat \ {0} /\ st.applied + 1 \in Nat
      BY <1>2, <1>4
    <2>2. st.lines \cup after \in SUBSET (1..n)
      <3> HIDE DEF start, n
      <3> QED
        BY <1>2, <1>4, <1>6
    <2>3. below \in Applying(doc)
      <3> HIDE DEF after, n
      <3> QED
        BY <1>2, <2>1, <2>2 DEF Applying
    <2>4. ASSUME after = {}
          PROVE  BeginsAtEnd(doc, segments, base, model)
      <3>1. start = n
        <4> HIDE DEF start, n
        <4> QED
          BY <1>2, <1>6, <2>4
      <3> HIDE DEF start
      <3> QED
        BY <1>6, <3>1 DEF BeginsAtEnd
    <2> HIDE DEF after, n
    <2> QED
      BY <2>3, <2>4 DEF Sound
  <1>8. ASSUME seg.end # NoText, end # 0
        PROVE  end \in (start + 1)..n
    <2>1. seg.end \in Texts
      BY <1>8 DEF SegmentOf
    <2>2. start + 1 \in Nat \ {0}
      <3> HIDE DEF start, n
      <3> QED
        BY <1>2, <1>6
    <2>3. \/ found(seg.end, start + 1) = 0
          \/ found(seg.end, start + 1) \in (start + 1)..n
      <3> HIDE DEF start
      <3> QED
        BY <2>1, <2>2, AnchorFound DEF found
    <2> HIDE DEF start
    <2> QED
      BY <1>8, <2>3
  <1>9. ASSUME seg.end # NoText, end # 0
        PROVE  none \in S
    <2> HIDE DEF end, start
    <2>1. end + 1 \in Nat \ {0}
      BY <1>2, <1>6, <1>8, <1>9
    <2> DEFINE c == end + 1
    <2> HIDE DEF c
    <2>2. [st EXCEPT !.cursor = c] = [cursor |-> c, applied |-> st.applied, lines |-> st.lines]
      BY <1>3 DEF Applying
    <2> QED
      BY <1>2, <1>3, <1>4, <2>1, <2>2 DEF Sound, Applying, c
  <1>10. ASSUME seg.end # NoText, end # 0, between # {}
         PROVE  closed \in S
    <2> HIDE DEF end, start
    <2>1. /\ end + 1 \in Nat \ {0} /\ st.applied + 1 \in Nat
          /\ st.lines \cup between \in SUBSET (1..n)
      BY <1>2, <1>4, <1>6, <1>8, <1>10
    <2> HIDE DEF between
    <2> QED
      BY <1>2, <1>10, <2>1 DEF Sound, Applying
  <1> HIDE DEF start, end, between, after, none, closed, below, S
  <1>11. st \in S
    BY DEF S
  <1> QED
    BY <1>1, <1>7, <1>9, <1>10, <1>11

NothingApplied == [cursor |-> 1, applied |-> 0, lines |-> {}]

\* No segment, no line.
LEMMA NothingIsSound ==
    ASSUME NEW doc, NEW segments, NEW base, NEW model
    PROVE  NothingApplied \in Sound(doc, segments, base, model)
  BY DEF NothingApplied, Sound, Applying

\* The segments are applied one after another.
LEMMA SegmentSteps ==
    ASSUME NEW doc, IsDoc(doc), NEW segments \in Seq(SegmentOf), NEW base \in Int, NEW model
    PROVE  \E f : /\ f[0] = NothingApplied /\ ApplySegments(doc, segments, base, model) = f[Len(segments)]
                  /\ \A k \in 1..Len(segments) : f[k] = ApplySegment(doc, base, model, f[k - 1], segments[k])
  <1> DEFINE n == Len(segments)
             A == Sound(doc, segments, base, model)
             G == [k \in 1..n |-> [t \in A |-> ApplySegment(doc, base, model, t, segments[k])]]
             Body(g) == [d \in SUBSET DOMAIN segments |->
                           IF d = {} THEN NothingApplied ELSE ApplySegment(doc, base, model, g[d \ {Max(d)}], segments[Max(d)])]
  <1>1. n \in Nat /\ DOMAIN segments = 1..n /\ \A k \in 1..n : segments[k] \in SegmentOf \cap ToSet(segments)
    BY DEF ToSet
  <1>2. ASSUME NEW k \in 1..n, NEW t \in A
        PROVE  ApplySegment(doc, base, model, t, segments[k]) \in A
    <2> HIDE DEF n
    <2> QED
      BY <1>1, SegmentApplied
  <1>3. G \in [1..n -> [A -> A]]
    <2> HIDE DEF A
    <2> QED
      BY <1>2
  <1>4. PICK g \in [SUBSET (1..n) -> A] :
           \A d \in SUBSET (1..n) : Unfolds(g, d, n, A, NothingApplied, G)
    <2>1. NothingApplied \in A
      BY NothingIsSound
    <2> HIDE DEF G, A, n
    <2> QED
      BY <1>1, <1>3, <2>1, FoldUnfolds
  <1>5. ASSUME NEW d \in SUBSET (1..n)
        PROVE  g[d] = Body(g)[d]
    <2> HIDE DEF A, n
    <2> QED
      BY <1>1, <1>4 DEF Unfolds
  <1>6. g = Body(g)
    <2> HIDE DEF A
    <2> QED
      BY <1>1, <1>5
  <1>7. PICK h : h = Body(h) /\ ApplySegments(doc, segments, base, model) = h[DOMAIN segments]
    <2> HIDE <1>4, <1>5
    <2> QED
      BY <1>6, Zenon DEF ApplySegments, NothingApplied, FoldLeft, MapThenFoldSet
  <1> HIDE DEF A, G, n
  <1> DEFINE f == [k \in 0..n |-> h[1..k]]
  <1>8. \A d \in SUBSET (1..n) :
           h[d] = IF d = {} THEN NothingApplied ELSE ApplySegment(doc, base, model, h[d \ {Max(d)}], segments[Max(d)])
    BY <1>1, <1>7
  <1>9. f[0] = NothingApplied /\ ApplySegments(doc, segments, base, model) = f[n]
    <2>1. f[0] = h[{}] /\ f[n] = h[1..n] /\ {} \in SUBSET (1..n)
      BY <1>1
    <2>2. h[{}] = NothingApplied
      BY <1>8, <2>1
    <2>3. ApplySegments(doc, segments, base, model) = h[1..n]
      BY <1>1, <1>7
    <2> HIDE DEF f
    <2> QED
      BY <2>1, <2>2, <2>3
  <1>10. ASSUME NEW k \in 1..n
         PROVE  f[k] = ApplySegment(doc, base, model, f[k - 1], segments[k])
    <2>1. Max(1..k) = k /\ (1..k) \ {k} = 1..(k - 1) /\ 1..k # {}
      BY MaxOfInterval
    <2>2. 1..k \in SUBSET (1..n) /\ k \in 0..n /\ k - 1 \in 0..n
      BY <1>1
    <2> QED
      BY <1>1, <1>8, <2>1, <2>2
  <1> QED
    <2> HIDE DEF f
    <2> QED
      BY <1>9, <1>10 DEF n

\* The anchors give lines of the document, and no line to a segment that was
\* applied only below a last line that is taken for a beginning.
LEMMA AppliedSound ==
    ASSUME NEW doc, IsDoc(doc), NEW segments \in Seq(SegmentOf), NEW base \in Int, NEW model
    PROVE  ApplySegments(doc, segments, base, model) \in Sound(doc, segments, base, model)
  <1> DEFINE n == Len(segments)
             last == ApplySegments(doc, segments, base, model)
             S == Sound(doc, segments, base, model)
  <1>1. PICK f : /\ f[0] = NothingApplied /\ last = f[n]
                 /\ \A k \in 1..n : f[k] = ApplySegment(doc, base, model, f[k - 1], segments[k])
    BY SegmentSteps
  <1>2. n \in Nat /\ \A k \in 1..n : segments[k] \in SegmentOf /\ segments[k] \in ToSet(segments)
    BY DEF ToSet
  <1>3. f[0] \in S
    BY <1>1, NothingIsSound
  <1>4. Keeps(f, n, S)
    <2> HIDE DEF n, last
    <2> QED
      BY <1>1, <1>2, SegmentApplied DEF Keeps
  <1> HIDE DEF n, last, S
  <1>5. n \in 0..n
    BY <1>2
  <1>6. last \in S
    BY <1>1, <1>2, <1>3, <1>4, <1>5, Stays
  <1> QED
    BY <1>6 DEF last, S

\* Some lines of a report, in their order.
LEMMA InOrderList ==
    ASSUME NEW doc, IsDoc(doc), NEW lines
    PROVE  /\ InOrder(doc, lines) \in Seq(LineNo(doc))
           /\ \A i \in lines \cap LineNo(doc) : InOrder(doc, lines) # <<>>
  <1> DEFINE s == Whole(doc)
             t == InOrder(doc, lines)
  <1>1. /\ Len(doc) \in Nat /\ LineNo(doc) = 1..Len(doc) /\ s \in Seq(LineNo(doc))
        /\ Len(s) = Len(doc) /\ \A i \in LineNo(doc) : s[i] = i
    BY WholeList DEF LineNo
  <1>2. t = Filter(s, lines)
    BY DEF InOrder
  <1> HIDE DEF s, t
  <1>3. t \in Seq(LineNo(doc)) /\ \A x : In(x, t) <=> x \in lines /\ In(x, s)
    BY <1>1, <1>2, FilterMembers
  <1>4. ASSUME NEW i \in lines \cap LineNo(doc)
        PROVE  t # <<>>
    <2>1. In(i, s)
      BY <1>1 DEF In
    <2>2. In(i, t)
      BY <1>3, <2>1
    <2> QED
      BY <1>3, <2>2 DEF In
  <1> QED
    BY <1>3, <1>4 DEF t

\* What the whole report, its markers or the anchors of a template leave of it;
\* they leave something, except where a block begins on the last line.
Leaves(doc, template, model, slice) ==
    /\ slice.kept \in Seq(LineNo(doc))
    /\ doc # <<>> /\ slice.kept = <<>> =>
          /\ slice.by = "template_anchors"
          /\ BeginsAtEnd(doc, MarkerBlocks(template.file), Threshold(template), model)

\* slice_elements_for_run, each of its returns.
LEMMA SliceLeaves ==
    ASSUME NEW doc, IsDoc(doc), NEW template, template = NoTemplate \/ IsTemplate(template),
           NEW model
    PROVE  Leaves(doc, template, model, SliceForRun(doc, template, model))
  <1> DEFINE marked == SliceByMarkers(doc)
             segments == MarkerBlocks(template.file)
             base == Threshold(template)
             all == [kept |-> Whole(doc), by |-> "none"]
             applied == ApplySegments(doc, segments, base, model)
             slice == SliceForRun(doc, template, model)
  <1>1. slice = IF template = NoTemplate THEN all
                ELSE IF MarkersDecide(marked) THEN [kept |-> marked.kept, by |-> "report_markers"]
                ELSE IF segments = <<>> THEN all
                ELSE ByAnchors(doc, Len(segments), applied)
    BY Zenon DEF SliceForRun, Threshold
  <1>2. /\ Len(doc) \in Nat /\ LineNo(doc) = 1..Len(doc) /\ Whole(doc) \in Seq(LineNo(doc))
        /\ Len(Whole(doc)) = Len(doc)
    BY WholeList DEF LineNo
  <1>3. all.kept \in Seq(LineNo(doc)) /\ (doc # <<>> => all.kept # <<>>)
    BY <1>2 DEF IsDoc
  <1> SUFFICES Leaves(doc, template, model, slice)
    OBVIOUS
  <1> HIDE DEF slice, marked, all
  <1>4. CASE template = NoTemplate
    <2> HIDE DEF segments, applied
    <2> QED
      BY <1>1, <1>3, <1>4 DEF Leaves
  <1>5. CASE template # NoTemplate /\ MarkersDecide(marked)
    <2>1. marked.kept \in Seq(LineNo(doc))
      BY MarkedKept DEF marked
    <2> HIDE DEF segments, applied
    <2>2. slice.kept = marked.kept /\ marked.kept # <<>>
      BY <1>1, <1>5 DEF MarkersDecide
    <2> QED
      BY <2>1, <2>2 DEF Leaves
  <1>6. CASE template # NoTemplate /\ ~MarkersDecide(marked) /\ segments = <<>>
    <2> HIDE DEF segments, applied
    <2> QED
      BY <1>1, <1>3, <1>6 DEF Leaves
  <1>7. CASE template # NoTemplate /\ ~MarkersDecide(marked) /\ segments # <<>>
    <2>1. segments \in Seq(SegmentOf) /\ base \in Int
      <3>1. IsDoc(template.file) /\ template.threshold \in Int
        BY <1>7 DEF IsTemplate, IsDoc
      <3>2. segments \in Seq(SegmentOf)
        BY <3>1, BlocksType
      <3>3. StartMinSim \in Int
        BY SlicingAssumption
      <3>4. base \in Int
        BY <3>1, <3>3 DEF Threshold
      <3> QED
        BY <3>2, <3>4
    <2> HIDE DEF segments, base
    <2>2. applied \in Sound(doc, segments, base, model)
      BY <2>1, AppliedSound
    <2> HIDE DEF applied
    <2>3. /\ applied.applied \in Nat /\ applied.lines \in SUBSET LineNo(doc)
          /\ applied.applied > 0 /\ applied.lines = {} =>
                BeginsAtEnd(doc, segments, base, model)
      BY <2>2 DEF Sound, Applying
    <2>4. Len(segments) \in Nat \ {0}
      BY <1>7, <2>1
    <2> DEFINE lines == InOrder(doc, applied.lines)
               missing == applied.applied < Len(segments)
               limited == applied.lines # {} /\ Len(doc) > FallbackMaxElements
    <2>5. slice = IF missing /\ ~limited THEN all
                  ELSE [kept |-> lines, by |-> IF missing THEN "none" ELSE "template_anchors"]
      <3>1. slice = ByAnchors(doc, Len(segments), applied)
        BY <1>1, <1>7
      <3> QED
        BY <3>1, Zenon DEF ByAnchors, all
    <2>6. lines \in Seq(LineNo(doc)) /\ (applied.lines # {} => lines # <<>>)
      BY <2>3, InOrderList
    <2> HIDE DEF lines
    <2>7. CASE missing /\ ~limited
      BY <1>3, <2>5, <2>7 DEF Leaves
    <2>8. CASE ~(missing /\ ~limited)
      <3>1. slice.kept = lines /\ (~missing => slice.by = "template_anchors")
        BY <2>5, <2>8
      <3>2. ASSUME lines = <<>>
            PROVE  ~missing /\ BeginsAtEnd(doc, segments, base, model)
        BY <2>3, <2>4, <2>6, <2>8, <3>2
      <3> QED
        BY <2>6, <3>1, <3>2 DEF Leaves, segments, base
    <2> QED
      BY <2>7, <2>8
  <1> QED
    BY <1>4, <1>5, <1>6, <1>7

\* get_template_for_run finds none or a template that is there.
LEMMA TemplateType ==
    ASSUME NEW templates, IsFiniteSet(templates), \A t \in templates : IsTemplate(t), NEW choice
    PROVE  \/ TemplateFor(templates, choice) = NoTemplate
           \/ IsTemplate(TemplateFor(templates, choice))
  <1> DEFINE fits == {t \in templates : t.active /\ t.of = choice}
             R == {p \in fits \X fits : p[1].updated >= p[2].updated}
             newest(t) == \A u \in fits : t.updated >= u.updated
             found == CHOOSE t \in fits : newest(t)
  <1>1. TemplateFor(templates, choice) =
           IF choice = Unchosen \/ fits = {} THEN NoTemplate ELSE found
    BY Zenon DEF TemplateFor
  <1>2. IsFiniteSet(fits) /\ fits \subseteq templates
    <2>1. fits \subseteq templates
      OBVIOUS
    <2> HIDE DEF fits
    <2> QED
      BY <2>1, FS_Subset
  <1>3. \A t \in fits : t.updated \in Int /\ IsTemplate(t)
    BY <1>2 DEF IsTemplate
  <1> HIDE DEF fits
  <1>4. Compares(R, fits)
    BY <1>3 DEF Compares
  <1>5. \A t \in fits : Least(R, fits, t) => newest(t)
    BY DEF Least
  <1> HIDE DEF R
  <1>6. ASSUME fits # {}
        PROVE  found \in fits
    <2>1. \E t \in fits : newest(t)
      <3> HIDE DEF newest
      <3> QED
        BY <1>2, <1>4, <1>5, <1>6, LeastExists DEF Least
    <2> HIDE DEF newest
    <2> QED
      BY <2>1, Zenon
  <1> HIDE DEF found
  <1> QED
    BY <1>1, <1>3, <1>6

\* The events of a report can be counted.
LEMMA EventCount ==
    ASSUME NEW doc, IsDoc(doc), NEW kept \in Seq(LineNo(doc)), NEW isDocx
    PROVE  Len(EventsOf(doc, kept, isDocx)) \in Nat
  <1> DEFINE long == LongEnough(doc, kept)
             events == DocxEvents(doc, kept)
             whole == <<DOMAIN doc>>
  <1>1. long \in Seq(LineNo(doc))
    BY FilterMembers DEF LongEnough
  <1>2. events = [k \in DOMAIN long |-> {long[k]}]
    BY DEF DocxEvents
  <1>3. Len(events) \in Nat
    <2> HIDE DEF long, events
    <2>1. Len(long) \in Nat /\ DOMAIN long = 1..Len(long)
      BY <1>1
    <2> QED
      BY <1>2, <2>1
  <1>4. EventsOf(doc, kept, isDocx) =
           IF isDocx \/ events # <<>> THEN events
           ELSE IF JoinedChars(doc, DOMAIN doc) >= MinEventChars THEN whole ELSE <<>>
    BY Zenon DEF EventsOf
  <1>5. Len(whole) \in Nat /\ Len(<<>>) \in Nat
    OBVIOUS
  <1> HIDE DEF events, whole
  <1> QED
    BY <1>3, <1>4, <1>5

\* The report is there until it is cut, and it is cut as slice_elements_for_run
\* says.
Given ==
    /\ stage \in {"uploaded", "parsed"} => \E kind \in DOMAIN Reports : report \in Reports[kind]
    /\ stage = "parsed" =>
          cut = WithEvents(SliceForRun(report.doc, TemplateInForce, report.model))

\* A report that is given is a document, with a template or without.
LEMMA GivenType ==
    ASSUME Given, stage \in {"uploaded", "parsed"}
    PROVE  /\ report # NoReport
           /\ IsDoc(report.doc)
           /\ TemplateInForce = NoTemplate \/ IsTemplate(TemplateInForce)
  <1>1. PICK kind \in DOMAIN Reports : report \in Reports[kind]
    BY DEF Given
  <1>2. /\ report # NoReport /\ IsDoc(report.doc)
        /\ IsFiniteSet(report.templates) /\ \A t \in report.templates : IsTemplate(t)
    BY <1>1, ReportsAssumption DEF IsDoc
  <1> QED
    BY <1>2, TemplateType DEF TemplateInForce

\* The types, with what they follow from.
Typed == TypeOK /\ Given

\* The types hold of a report that was uploaded,
LEMMA InitTyped == Init => Typed
  BY ReportsAssumption DEF Init, Typed, TypeOK, Given, Nothing

\* and every step of the pipeline keeps them.
LEMMA NextTyped == Typed /\ Bound /\ [Next]_vars => Typed'
  <1> SUFFICES ASSUME Typed, Bound, [Next]_vars
               PROVE  Typed'
    OBVIOUS
  <1>1. CASE Parse
    <2>1. IsDoc(report.doc) /\ (TemplateInForce = NoTemplate \/ IsTemplate(TemplateInForce))
      BY <1>1, GivenType DEF Parse, Typed
    <2> DEFINE slice == SliceForRun(report.doc, TemplateInForce, report.model)
    <2>2. slice.kept \in Seq(LineNo(report.doc))
      BY <2>1, SliceLeaves DEF Leaves
    <2>3. /\ cut' = WithEvents(slice) /\ left' = Len(cut'.events) /\ stage' = "parsed"
          /\ UNCHANGED <<report, case, attrs, predicted, result, shown>>
          /\ stage = "uploaded"
      BY <1>1 DEF Parse
    <2> HIDE DEF slice
    <2>4. cut'.events = EventsOf(report.doc, slice.kept, report.docx)
      BY <2>3 DEF WithEvents
    <2>5. left' \in Nat
      BY <2>1, <2>2, <2>3, <2>4, EventCount
    <2>6. TypeOK'
      BY <2>3, <2>5 DEF Typed, TypeOK
    <2>7. cut' = WithEvents(SliceForRun(report.doc, TemplateInForce, report.model))'
      BY <2>3 DEF slice, WithEvents, TemplateInForce
    <2>8. Given'
      BY <2>3, <2>7 DEF Typed, Given
    <2> QED
      BY <2>6, <2>8 DEF Typed
  <1>2. CASE Announce
    BY <1>2 DEF Announce, Typed, TypeOK, Given
  <1>3. CASE Read
    <2>1. PICK kind \in DOMAIN Cases : \E c \in Cases[kind] :
             case' = c /\ attrs' = ExtractAttributes(c)
      BY <1>3 DEF Read
    <2>2. case' # NoCase
      BY <2>1, CasesAssumption
    <2>3. attrs' # Nothing
      BY <2>1, ExtractedType DEF Nothing
    <2> QED
      BY <1>3, <2>2, <2>3 DEF Read, Typed, TypeOK, Given
  <1>4. CASE Match
    <2>1. /\ stage = "read" /\ stage' = "matched"
          /\ attrs' = [attrs EXCEPT !.people = result'.people, !.staff = result'.staff]
          /\ UNCHANGED <<report, cut, left, case>>
      BY <1>4 DEF Match
    <2>2. PICK kind \in DOMAIN Cases : case \in Cases[kind]
      BY <2>1 DEF Bound
    <2>3. attrs = ExtractAttributes(case)
      BY <2>1 DEF Bound
    <2>4. "people" \in DOMAIN attrs
      BY <2>2, <2>3, ExtractedType
    <2>5. DOMAIN attrs' = DOMAIN attrs
      BY <2>1
    <2>6. attrs' # Nothing
      BY <2>4, <2>5 DEF Nothing
    <2>7. TypeOK'
      BY <2>1, <2>6 DEF Typed, TypeOK
    <2> QED
      BY <2>1, <2>7 DEF Typed, Given
  <1>5. CASE Store
    <2>1. /\ stage = "matched" /\ stage' = "ready" /\ left' = left - 1
          /\ case' = NoCase /\ attrs' = Nothing /\ UNCHANGED report
      BY <1>5 DEF Store
    <2>2. left' \in Nat
      BY <2>1 DEF Typed, TypeOK
    <2> QED
      BY <2>1, <2>2 DEF Typed, TypeOK, Given
  <1>6. CASE Finish
    BY <1>6 DEF Finish, Typed, TypeOK, Given
  <1>7. CASE UNCHANGED vars
    BY <1>7 DEF vars, Typed, TypeOK, Given, WithEvents, TemplateInForce
  <1> QED
    BY <1>1, <1>2, <1>3, <1>4, <1>5, <1>6, <1>7 DEF Next

\* Every stage has what it needs, and the events are counted down to none.
THEOREM TypeCorrect == Spec => []TypeOK
  <1>1. Typed => TypeOK
    BY DEF Typed
  <1> QED
    BY <1>1, InitTyped, NextTyped, AlwaysBound, PTL DEF Spec

\* slice_elements_for_run leaves something of every report that has a line,
\* except below a last line that is taken for the beginning of a block.
THEOREM SomethingIsKept == Spec => []CutKeepsSomething
  <1>1. ASSUME Typed
        PROVE  CutKeepsSomething
    <2> DEFINE slice == SliceForRun(report.doc, TemplateInForce, report.model)
               blocks == MarkerBlocks(TemplateInForce.file)
    <2> SUFFICES ASSUME stage = "parsed", report.doc # <<>>, cut.kept = <<>>
                 PROVE  /\ cut.by = "template_anchors"
                        /\ \E b \in ToSet(blocks) :
                              Resembles(b.start, Last(report.doc).text,
                                        Threshold(TemplateInForce), report.model)
      BY DEF CutKeepsSomething
    <2>1. IsDoc(report.doc) /\ (TemplateInForce = NoTemplate \/ IsTemplate(TemplateInForce))
      BY <1>1, GivenType DEF Typed
    <2>2. Leaves(report.doc, TemplateInForce, report.model, slice)
      BY <2>1, SliceLeaves
    <2>3. cut = WithEvents(slice)
      BY <1>1 DEF Typed, Given
    <2> HIDE DEF slice
    <2>4. cut.kept = slice.kept /\ cut.by = slice.by
      BY <2>3 DEF WithEvents
    <2> QED
      BY <2>2, <2>4 DEF Leaves, BeginsAtEnd, Last
  <1>2. Spec => []Typed
    BY InitTyped, NextTyped, AlwaysBound, PTL DEF Spec
  <1> QED
    BY <1>1, <1>2, PTL

\* The result of the event that is matched, as the lemmas speak of it.
Judged ==
    LET before == ExtractAttributes(case)
    IN  /\ Matchable(case.portal, before)
        /\ IsResult(case.portal, before, result)
        /\ attrs.at = before.at
        /\ shown.status.offenders = OffendersStatus(result)

\* The invariant says enough of the result.
LEMMA MatchedIsJudged ==
    ASSUME Bound, stage = "matched"
    PROVE  Judged
  <1> DEFINE before == ExtractAttributes(case)
  <1>1. PICK kind \in DOMAIN Cases : case \in Cases[kind]
    BY DEF Bound
  <1>2. Matchable(case.portal, before)
    BY <1>1, ExtractedType
  <1>3. IsResult(case.portal, before, result)
    BY <1>2, MatchResult DEF Bound
  <1> HIDE DEF before
  <1>4. attrs = [before EXCEPT !.people = result.people, !.staff = result.staff]
    BY DEF Bound, before
  <1>5. attrs.at = before.at
    <2>1. "at" \in DOMAIN before
      BY DEF before, ExtractAttributes, Extracted
    <2> QED
      BY <1>4, <2>1
  <1>6. shown.status.offenders = OffendersStatus(result)
    <2>1. shown.status = StatusFields(result, attrs.score)
      BY DEF Bound, Card
    <2> QED
      BY <2>1 DEF StatusFields
  <1> QED
    BY <1>2, <1>3, <1>5, <1>6 DEF Judged, before

\* The comparison in a result tells everything of everybody.
LEMMA JudgedPeople ==
    ASSUME Judged, result.matched
    PROVE  TellsAll(case.portal, ExtractAttributes(case), result)
  BY MatchedPeople DEF Judged

\* The first window and the others are not searched in vain for want of rows.
LEMMA UnlimitedStage == Unlimited /\ Len(case.portal) \in Nat => Len(case.portal) <= StageLimit
  <1> DEFINE S == {StageLimit, OffenderLimit, NoDobLimit}
  <1>1. StageLimit \in Nat /\ OffenderLimit \in Nat /\ NoDobLimit \in Nat
    BY SearchAssumption
  <1>2. \E x \in S : \A y \in S : x <= y
    BY <1>1
  <1>3. Min(S) \in S /\ \A y \in S : Min(S) <= y
    <2> HIDE DEF S
    <2> QED
      BY <1>2, Zenon DEF Min
  <1>4. Min(S) \in Nat /\ Min(S) <= StageLimit
    BY <1>1, <1>3
  <1>5. Unlimited <=> Len(case.portal) <= Min(S)
    BY DEF Unlimited
  <1> HIDE DEF S
  <1> QED
    BY <1>1, <1>4, <1>5

-----------------------------------------------------------------------------
(* The blocks of a document whose markers come in pairs.                   *)

\* The markers of the first lines, in the order of the lines.
Listed(doc, markers, last) ==
    /\ markers \in Seq(Marker(doc))
    /\ \A a \in 1..Len(markers) : markers[a].line <= last
    /\ \A a, b \in 1..Len(markers) : a < b => markers[a].line <= markers[b].line
    /\ \A i \in 1..last : \A kind \in {"BEGIN", "END"} :
          HasMark(doc[i], kind) <=>
             \E a \in 1..Len(markers) : markers[a].line = i /\ markers[a].kind = kind

\* The markers of one line more.
LEMMA ListedNext ==
    ASSUME NEW doc, IsDoc(doc), NEW markers, NEW k \in LineNo(doc),
           Listed(doc, markers, k - 1)
    PROVE  Listed(doc, MoreMarkers(doc, markers, k), k)
  <1> DEFINE here == MarkersAt(doc, k)
             more == markers \o here
  <1>1. /\ here \in Seq(Marker(doc)) /\ Len(here) \in Nat
        /\ \A j \in 1..Len(here) : here[j].line = k /\ here[j].kind \in {"BEGIN", "END"}
        /\ \A kind \in {"BEGIN", "END"} :
              HasMark(doc[k], kind) <=> \E j \in 1..Len(here) : here[j].kind = kind
    <2>1. here \in Seq(Marker(doc))
      BY MarkersHere
    <2>2. doc[k].marks \in Seq({"BEGIN", "END"})
      <3>1. doc[k] \in Line
        BY WholeList
      <3> QED
        BY <3>1, Zenon DEF Line
    <2> DEFINE marks == doc[k].marks
    <2>3. Len(marks) \in Nat /\ DOMAIN marks = 1..Len(marks)
          /\ \A j \in 1..Len(marks) : marks[j] \in {"BEGIN", "END"}
      BY <2>2
    <2>4. here = [j \in 1..Len(marks) |-> [line |-> k, kind |-> marks[j]]]
      BY <2>3 DEF MarkersAt
    <2>5. \A kind \in {"BEGIN", "END"} :
             HasMark(doc[k], kind) <=> \E j \in 1..Len(marks) : marks[j] = kind
      BY <2>3 DEF HasMark, ToSet
    <2> HIDE DEF marks, here
    <2>6. Len(here) = Len(marks)
      BY <2>3, <2>4
    <2>7. \A j \in 1..Len(marks) : here[j].line = k /\ here[j].kind = marks[j]
      BY <2>4
    <2> QED
      BY <2>1, <2>3, <2>5, <2>6, <2>7
  <1>2. /\ markers \in Seq(Marker(doc)) /\ Len(markers) \in Nat
        /\ \A a \in 1..Len(markers) : markers[a].line <= k - 1 /\ markers[a].line \in Int
    <2>1. markers \in Seq(Marker(doc)) /\ \A a \in 1..Len(markers) : markers[a].line <= k - 1
      BY DEF Listed
    <2>2. Len(markers) \in Nat /\ \A a \in 1..Len(markers) : markers[a] \in Marker(doc)
      BY <2>1
    <2>3. \A m \in Marker(doc) : m.line \in Int
      BY WholeList DEF Marker, LineNo
    <2> QED
      BY <2>1, <2>2, <2>3
  <1>3. k \in Int /\ k > 0
    BY WholeList DEF LineNo
  <1> HIDE DEF here
  <1>4. /\ more \in Seq(Marker(doc)) /\ Len(more) = Len(markers) + Len(here)
        /\ \A a \in 1..Len(markers) : more[a] = markers[a]
        /\ \A j \in 1..Len(here) : more[Len(markers) + j] = here[j]
    BY <1>1, <1>2
  <1>5. \A a \in 1..Len(more) :
           \/ a \in 1..Len(markers) /\ more[a] = markers[a]
           \/ \E j \in 1..Len(here) : a = Len(markers) + j /\ more[a] = here[j]
    <2> SUFFICES ASSUME NEW a \in 1..Len(more), a \notin 1..Len(markers)
                 PROVE  \E j \in 1..Len(here) : a = Len(markers) + j /\ more[a] = here[j]
      BY <1>4
    <2>1. a - Len(markers) \in 1..Len(here) /\ a = Len(markers) + (a - Len(markers))
      BY <1>1, <1>2, <1>4
    <2> QED
      BY <1>4, <2>1
  <1> HIDE DEF more
  <1>6. ASSUME NEW a \in 1..Len(more)
        PROVE  more[a].line <= k
    <2>1. CASE a \in 1..Len(markers) /\ more[a] = markers[a]
      BY <1>2, <1>3, <2>1
    <2>2. CASE \E j \in 1..Len(here) : a = Len(markers) + j /\ more[a] = here[j]
      BY <1>1, <1>3, <2>2
    <2> QED
      BY <1>5, <2>1, <2>2
  <1>7. ASSUME NEW a \in 1..Len(more), NEW b \in 1..Len(more), a < b
        PROVE  more[a].line <= more[b].line
    <2>1. CASE b \in 1..Len(markers) /\ more[b] = markers[b]
      <3>1. a \in 1..Len(markers) /\ more[a] = markers[a]
        BY <1>2, <1>4, <1>7, <2>1
      <3> QED
        BY <1>7, <2>1, <3>1 DEF Listed
    <2>2. CASE \E j \in 1..Len(here) : b = Len(markers) + j /\ more[b] = here[j]
      BY <1>1, <1>6, <2>2
    <2> QED
      BY <1>5, <2>1, <2>2
  <1>8. ASSUME NEW i \in 1..k, NEW kind \in {"BEGIN", "END"}
        PROVE  HasMark(doc[i], kind) <=>
                  \E a \in 1..Len(more) : more[a].line = i /\ more[a].kind = kind
    <2>1. \A a \in 1..Len(markers) : a \in 1..Len(more)
      BY <1>1, <1>2, <1>4
    <2>2. \A j \in 1..Len(here) : Len(markers) + j \in 1..Len(more)
      BY <1>1, <1>2, <1>4
    <2>3. CASE i = k
      <3>1. ASSUME NEW j \in 1..Len(here), here[j].kind = kind
            PROVE  \E a \in 1..Len(more) : more[a].line = i /\ more[a].kind = kind
        <4>1. more[Len(markers) + j] = here[j] /\ here[j].line = k
          BY <1>1, <1>4, Zenon
        <4> QED
          BY <2>2, <2>3, <3>1, <4>1
      <3>2. ASSUME NEW a \in 1..Len(more), more[a].line = i, more[a].kind = kind
            PROVE  \E j \in 1..Len(here) : here[j].kind = kind
        <4>1. ~(a \in 1..Len(markers) /\ more[a] = markers[a])
          BY <1>2, <1>3, <2>3, <3>2
        <4> QED
          BY <1>5, <3>2, <4>1
      <3> QED
        BY <1>1, <2>3, <3>1, <3>2
    <2>4. CASE i # k
      <3>1. i \in 1..(k - 1)
        BY <1>3, <2>4
      <3>2. HasMark(doc[i], kind) <=>
               \E a \in 1..Len(markers) : markers[a].line = i /\ markers[a].kind = kind
        BY <3>1 DEF Listed
      <3>3. ASSUME NEW a \in 1..Len(more), more[a].line = i
            PROVE  a \in 1..Len(markers) /\ more[a] = markers[a]
        <4>1. \A j \in 1..Len(here) : here[j].line # more[a].line
          BY <1>1, <2>4, <3>3, Zenon
        <4> QED
          BY <1>5, <4>1, Zenon
      <3> QED
        BY <1>4, <2>1, <3>2, <3>3
    <2> QED
      BY <2>3, <2>4
  <1>9. MoreMarkers(doc, markers, k) = more
    BY DEF MoreMarkers, more, here
  <1>10. /\ \A a, c \in 1..Len(more) : a < c => more[a].line <= more[c].line
         /\ \A i \in 1..k : \A kind \in {"BEGIN", "END"} :
               HasMark(doc[i], kind) <=>
                  \E a \in 1..Len(more) : more[a].line = i /\ more[a].kind = kind
    BY <1>7, <1>8
  <1>11. Listed(doc, more, k)
    BY <1>4, <1>6, <1>10, Zenon DEF Listed
  <1> QED
    BY <1>9, <1>11

\* The markers of a document are those on its lines, in the order of the lines.
LEMMA MarkersListed ==
    ASSUME NEW doc, IsDoc(doc)
    PROVE  Listed(doc, MarkersOf(doc), Len(doc))
  <1> DEFINE n == Len(doc)
  <1>1. /\ n \in Nat /\ LineNo(doc) = 1..n /\ Len(Whole(doc)) = n
        /\ \A i \in 1..n : Whole(doc)[i] = i
    BY WholeList DEF LineNo
  <1>2. PICK f : /\ f[0] = <<>> /\ MarkersOf(doc) = f[n]
                 /\ \A k \in 1..n : f[k] = MoreMarkers(doc, f[k - 1], k)
    BY <1>1, MarkersSteps
  <1> HIDE DEF n
  <1> DEFINE P == {k \in 0..n : Listed(doc, f[k], k)}
  <1>3. 0 \in P
    <2>1. f[0] \in Seq(Marker(doc)) /\ Len(f[0]) = 0
      BY <1>2
    <2>2. 1..Len(f[0]) = {} /\ 1..0 = {}
      BY <2>1
    <2>3. Listed(doc, f[0], 0)
      BY <2>1, <2>2, Zenon DEF Listed
    <2> QED
      BY <1>1, <2>3
  <1>4. ASSUME NEW k \in P, k < n
        PROVE  k + 1 \in P
    <2>1. k + 1 \in 1..n /\ k + 1 \in 0..n /\ (k + 1) - 1 = k /\ Listed(doc, f[k], k)
      BY <1>1, <1>4
    <2>2. k + 1 \in LineNo(doc) /\ Listed(doc, f[k], (k + 1) - 1)
      BY <1>1, <2>1
    <2>3. Listed(doc, MoreMarkers(doc, f[k], k + 1), k + 1)
      BY <2>2, ListedNext
    <2> QED
      BY <1>2, <2>1, <2>3
  <1>5. n \in P
    <2>1. P \in SUBSET (0..n) /\ n \in 0..n
      BY <1>1
    <2> HIDE DEF P
    <2>2. n \in Nat
      BY <1>1
    <2> QED
      BY <1>3, <1>4, <2>1, <2>2, UpTo
  <1> QED
    BY <1>2, <1>5 DEF n

\* A number is even or odd.
LEMMA EvenOrOdd ==
    ASSUME NEW a \in Nat
    PROVE  \E h \in Nat : a = 2 * h \/ a = 2 * h + 1
  <1> DEFINE P == {k \in Nat : \E h \in Nat : k = 2 * h \/ k = 2 * h + 1}
  <1>1. 0 \in P
    <2>1. 0 \in Nat /\ 0 = 2 * 0
      OBVIOUS
    <2> QED
      BY <2>1
  <1>2. ASSUME NEW k \in P
        PROVE  k + 1 \in P
    <2>1. PICK h \in Nat : k = 2 * h \/ k = 2 * h + 1
      OBVIOUS
    <2>2. k + 1 = 2 * h + 1 \/ k + 1 = 2 * (h + 1)
      BY <2>1
    <2>3. h + 1 \in Nat /\ k + 1 \in Nat
      OBVIOUS
    <2> QED
      BY <2>2, <2>3
  <1>3. P = Nat
    <2>1. P \in SUBSET Nat
      OBVIOUS
    <2> HIDE DEF P
    <2> QED
      BY <1>1, <1>2, <2>1, NatSets
  <1> QED
    BY <1>3

\* What is read of a document whose markers come in pairs: a block of every pair
\* before the m-th marker, and a block that is open if that is a BEGIN.
ReadTo(doc, st, m, h) ==
    LET markers == MarkersOf(doc)
    IN  /\ Len(st.blocks) = h
        /\ \/ m = 2 * h /\ st.begin = 0 /\ (m > 0 => markers[m].kind = "END")
           \/ m = 2 * h + 1 /\ st.begin = markers[m].line /\ markers[m].kind = "BEGIN"
        /\ \A j \in 1..h :
              /\ markers[2 * j - 1].kind = "BEGIN" /\ markers[2 * j].kind = "END"
              /\ st.blocks[j] = Block(doc, markers[2 * j - 1].line,
                                      PostAnchor(doc, markers[2 * j].line))

\* One marker more.
LEMMA ReadNext ==
    ASSUME NEW doc, IsDoc(doc), Paired(doc), NEW st \in Reading(doc),
           NEW m \in Nat, m + 1 \in 1..Len(MarkersOf(doc)), NEW h \in Nat, ReadTo(doc, st, m, h)
    PROVE  \E g \in Nat : ReadTo(doc, TakeMarker(doc, st, MarkersOf(doc)[m + 1]), m + 1, g)
  <1> DEFINE ms == MarkersOf(doc)
             next == TakeMarker(doc, st, ms[m + 1])
  <1>1. /\ ms \in Seq(Marker(doc)) /\ Len(ms) \in Nat /\ DOMAIN ms = 1..Len(ms)
        /\ \A a \in 1..Len(ms) : /\ ms[a] \in Marker(doc) /\ ms[a].line \in Nat \ {0}
                                 /\ ms[a].kind \in {"BEGIN", "END"}
    <2>1. ms \in Seq(Marker(doc))
      BY MarkersType
    <2>2. \A x \in Marker(doc) : x.line \in Nat \ {0} /\ x.kind \in {"BEGIN", "END"}
      BY WholeList DEF Marker, LineNo
    <2> HIDE DEF ms
    <2> QED
      BY <2>1, <2>2
  <1>2. ms[m + 1].kind = "BEGIN" <=> m + 1 = 1 \/ ms[(m + 1) - 1].kind = "END"
    BY <1>1 DEF Paired
  <1>3. (m + 1) - 1 = m
    OBVIOUS
  <1>4. st.blocks \in Seq(SegmentOf) /\ Len(st.blocks) = h
    BY DEF ReadTo, Reading
  <1>5. next =
           IF ms[m + 1].kind = "BEGIN"
           THEN [begin |-> ms[m + 1].line,
                 blocks |-> IF st.begin = 0 THEN st.blocks ELSE Unended(doc, st)]
           ELSE IF st.begin = 0 THEN st
           ELSE [begin |-> 0,
                 blocks |-> Append(st.blocks, Block(doc, st.begin, PostAnchor(doc, ms[m + 1].line)))]
    BY DEF TakeMarker
  <1> DEFINE done(blocks, g) ==
                \A j \in 1..g :
                   /\ ms[2 * j - 1].kind = "BEGIN" /\ ms[2 * j].kind = "END"
                   /\ blocks[j] = Block(doc, ms[2 * j - 1].line, PostAnchor(doc, ms[2 * j].line))
  <1>6. done(st.blocks, h)
    BY DEF ReadTo
  <1>7. \A s, k, g : ReadTo(doc, s, k, g) <=>
           /\ Len(s.blocks) = g
           /\ \/ k = 2 * g /\ s.begin = 0 /\ (k > 0 => ms[k].kind = "END")
              \/ k = 2 * g + 1 /\ s.begin = ms[k].line /\ ms[k].kind = "BEGIN"
           /\ done(s.blocks, g)
    BY Zenon DEF ReadTo
  <1>8. \/ m = 2 * h /\ st.begin = 0 /\ (m > 0 => ms[m].kind = "END")
        \/ m = 2 * h + 1 /\ st.begin = ms[m].line /\ ms[m].kind = "BEGIN"
    BY <1>7, Zenon
  <1> HIDE DEF ms, next, done
  <1>9. CASE m = 2 * h /\ st.begin = 0 /\ (m > 0 => ms[m].kind = "END")
    <2>1. ms[m + 1].kind = "BEGIN"
      BY <1>2, <1>3, <1>9
    <2>2. next = [begin |-> ms[m + 1].line, blocks |-> st.blocks]
      BY <1>5, <1>9, <2>1
    <2>3. next.begin = ms[m + 1].line /\ next.blocks = st.blocks
      BY <2>2
    <2>4. m + 1 = 2 * h + 1
      BY <1>9
    <2>5. ReadTo(doc, next, m + 1, h)
      BY <1>4, <1>6, <1>7, <2>1, <2>3, <2>4, Zenon
    <2> QED
      BY <2>5 DEF next, ms
  <1>10. CASE m = 2 * h + 1 /\ st.begin = ms[m].line /\ ms[m].kind = "BEGIN"
    <2>1. m \in 1..Len(ms) /\ m + 1 # 1
      BY <1>1, <1>10 DEF ms
    <2>2. ms[m + 1].kind = "END"
      <3>1. ms[m + 1].kind # "BEGIN" /\ m + 1 \in 1..Len(ms)
        BY <1>2, <1>3, <1>10, <2>1 DEF ms
      <3> QED
        BY <1>1, <3>1
    <2>3. st.begin # 0
      BY <1>1, <1>10, <2>1
    <2> DEFINE block == Block(doc, ms[m].line, PostAnchor(doc, ms[m + 1].line))
    <2>4. next = [begin |-> 0, blocks |-> Append(st.blocks, block)]
      BY <1>5, <1>10, <2>2, <2>3
    <2> HIDE DEF block
    <2>5. next.begin = 0 /\ next.blocks = Append(st.blocks, block)
      BY <2>4
    <2>6. /\ Len(next.blocks) = h + 1 /\ next.blocks[h + 1] = block
          /\ \A j \in 1..h : next.blocks[j] = st.blocks[j]
      BY <1>4, <2>5
    <2>7. m + 1 = 2 * (h + 1) /\ 2 * (h + 1) - 1 = m
      BY <1>10
    <2>8. \A j \in 1..(h + 1) : j \in 1..h \/ j = h + 1
      OBVIOUS
    <2>9. done(next.blocks, h + 1)
      <3>1. ASSUME NEW j \in 1..h
            PROVE  /\ ms[2 * j - 1].kind = "BEGIN" /\ ms[2 * j].kind = "END"
                   /\ next.blocks[j] = Block(doc, ms[2 * j - 1].line, PostAnchor(doc, ms[2 * j].line))
        BY <1>6, <2>6 DEF done
      <3>2. /\ ms[2 * (h + 1) - 1].kind = "BEGIN" /\ ms[2 * (h + 1)].kind = "END"
            /\ next.blocks[h + 1] = Block(doc, ms[2 * (h + 1) - 1].line, PostAnchor(doc, ms[2 * (h + 1)].line))
        BY <1>10, <2>2, <2>6, <2>7 DEF block
      <3> QED
        BY <2>8, <3>1, <3>2 DEF done
    <2>10. ReadTo(doc, next, m + 1, h + 1)
      BY <1>7, <2>2, <2>5, <2>6, <2>7, <2>9, Zenon
    <2>11. h + 1 \in Nat
      OBVIOUS
    <2> QED
      BY <2>10, <2>11 DEF next, ms
  <1> QED
    BY <1>8, <1>9, <1>10

\* After the last marker.
LEMMA ReadAll ==
    ASSUME NEW doc, IsDoc(doc), Paired(doc)
    PROVE  /\ LastRead(doc) \in Reading(doc)
           /\ \E h \in Nat : ReadTo(doc, LastRead(doc), Len(MarkersOf(doc)), h)
  <1> DEFINE n == Len(MarkersOf(doc))
             last == LastRead(doc)
  <1>1. PICK f : /\ f[0] = NoneRead /\ last = f[n]
                 /\ \A k \in 1..n : f[k] = TakeMarker(doc, f[k - 1], MarkersOf(doc)[k])
    BY BlockSteps
  <1>2. n \in Nat /\ \A k \in 1..n : MarkersOf(doc)[k] \in Marker(doc)
    BY MarkersType
  <1> HIDE DEF last
  <1> DEFINE P == {k \in 0..n : f[k] \in Reading(doc) /\ \E h \in Nat : ReadTo(doc, f[k], k, h)}
  <1>3. 0 \in P
    <2>1. f[0] \in Reading(doc)
      BY <1>1, WholeList DEF NoneRead, Reading
    <2>2. f[0].blocks = <<>> /\ f[0].begin = 0 /\ Len(<<>>) = 0
      BY <1>1 DEF NoneRead
    <2>3. 0 = 2 * 0 /\ ~(0 > 0) /\ 1..0 = {} /\ 0 \in Nat
      OBVIOUS
    <2>4. ReadTo(doc, f[0], 0, 0)
      BY <2>2, <2>3, Zenon DEF ReadTo
    <2> QED
      BY <1>2, <2>1, <2>3, <2>4
  <1>4. ASSUME NEW k \in P, k < n
        PROVE  k + 1 \in P
    <2>1. k + 1 \in 1..n /\ k + 1 \in 0..n /\ (k + 1) - 1 = k /\ k \in Nat
      BY <1>2, <1>4
    <2>2. PICK h \in Nat : ReadTo(doc, f[k], k, h)
      OBVIOUS
    <2>3. f[k + 1] = TakeMarker(doc, f[k], MarkersOf(doc)[k + 1])
      BY <1>1, <2>1
    <2>4. f[k + 1] \in Reading(doc)
      BY <1>2, <2>1, <2>3, MarkerTaken
    <2>5. \E g \in Nat : ReadTo(doc, f[k + 1], k + 1, g)
      BY <2>1, <2>2, <2>3, ReadNext
    <2> QED
      BY <2>1, <2>4, <2>5
  <1>5. n \in P
    <2>1. P \in SUBSET (0..n) /\ n \in 0..n /\ n \in Nat
      BY <1>2
    <2> HIDE DEF P, n
    <2> QED
      BY <1>3, <1>4, <2>1, UpTo
  <1> QED
    BY <1>1, <1>5 DEF n, last

\* The lines on which the blocks begin and end, the last of them perhaps never.
BlockLines(doc, b, e) ==
    LET blocks == MarkerBlocks(doc)
        count == Len(blocks)
    IN  /\ b \in [1..count -> LineNo(doc)]
        /\ e \in [1..count -> 1..(Len(doc) + 1)]
        /\ \A k \in 1..count : /\ b[k] <= e[k]
                               /\ blocks[k] = Block(doc, b[k], PostAnchor(doc, e[k]))
        /\ \A j, k \in 1..count : j < k => e[j] <= b[k]
        /\ \A i \in LineNo(doc) :
              /\ HasMark(doc[i], "BEGIN") <=> \E k \in 1..count : b[k] = i
              /\ HasMark(doc[i], "END") <=> \E k \in 1..count : e[k] = i

\* Below the last line there is no anchor.
LEMMA NothingBelow ==
    ASSUME NEW doc, IsDoc(doc)
    PROVE  PostAnchor(doc, Len(doc) + 1) = NoText
  <1>1. Len(doc) \in Nat
    BY WholeList
  <1>2. ((Len(doc) + 1) + 1)..Len(doc) = {}
    BY <1>1
  <1>3. Filled(doc, (Len(doc) + 1) + 1, Len(doc)) = {}
    BY <1>2 DEF Filled
  <1> QED
    BY <1>3, Zenon DEF PostAnchor, TextFrom

\* The blocks lie between their markers.
LEMMA BlocksAre ==
    ASSUME NEW doc, IsDoc(doc), Paired(doc)
    PROVE  \E b, e : BlockLines(doc, b, e)
  <1> DEFINE ms == MarkersOf(doc)
             n == Len(ms)
             last == LastRead(doc)
             blocks == MarkerBlocks(doc)
             count == Len(blocks)
  <1>1. /\ n \in Nat /\ \A a \in 1..n : ms[a].line \in LineNo(doc)
        /\ Len(doc) \in Nat /\ LineNo(doc) = 1..Len(doc)
    <2>1. ms \in Seq(Marker(doc))
      BY MarkersType
    <2>2. \A x \in Marker(doc) : x.line \in LineNo(doc)
      BY DEF Marker
    <2>3. Len(doc) \in Nat /\ LineNo(doc) = 1..Len(doc)
      BY WholeList DEF LineNo
    <2> HIDE DEF ms
    <2> QED
      BY <2>1, <2>2, <2>3
  <1>2. /\ \A a, c \in 1..n : a < c => ms[a].line <= ms[c].line
        /\ \A i \in LineNo(doc) : \A kind \in {"BEGIN", "END"} :
              HasMark(doc[i], kind) <=> \E a \in 1..n : ms[a].line = i /\ ms[a].kind = kind
    <2>1. Listed(doc, ms, Len(doc))
      BY MarkersListed
    <2> QED
      BY <1>1, <2>1, Zenon DEF Listed
  <1>3. last \in Reading(doc)
    BY ReadAll
  <1>4. PICK h \in Nat : ReadTo(doc, last, n, h)
    BY ReadAll
  <1>5. blocks = IF last.begin = 0 THEN last.blocks ELSE Unended(doc, last)
    BY Zenon DEF MarkerBlocks, LastRead, NoneRead
  <1>6. /\ Len(last.blocks) = h
        /\ \/ n = 2 * h /\ last.begin = 0
           \/ n = 2 * h + 1 /\ last.begin = ms[n].line /\ ms[n].kind = "BEGIN"
        /\ \A j \in 1..h :
              /\ ms[2 * j - 1].kind = "BEGIN" /\ ms[2 * j].kind = "END"
              /\ last.blocks[j] = Block(doc, ms[2 * j - 1].line, PostAnchor(doc, ms[2 * j].line))
    BY <1>4 DEF ReadTo
  <1>7. last.blocks \in Seq(SegmentOf)
    BY <1>3 DEF Reading
  <1> DEFINE begin(k) == ms[2 * k - 1].line
             end(k) == IF 2 * k <= n THEN ms[2 * k].line ELSE Len(doc) + 1
  <1> HIDE DEF ms, n, last, blocks
  <1>8. /\ count \in Nat
        /\ \A k \in 1..count :
              /\ 2 * k - 1 \in 1..n /\ ms[2 * k - 1].kind = "BEGIN"
              /\ 2 * k <= n => 2 * k \in 1..n /\ ms[2 * k].kind = "END"
              /\ blocks[k] = Block(doc, begin(k), PostAnchor(doc, end(k)))
        /\ n = 2 * count \/ n = 2 * count - 1
    <2>1. CASE n = 2 * h /\ last.begin = 0
      <3>1. blocks = last.blocks /\ count = h
        BY <1>5, <1>6, <2>1
      <3>2. ASSUME NEW k \in 1..count
            PROVE  /\ 2 * k - 1 \in 1..n /\ 2 * k \in 1..n
                   /\ ms[2 * k - 1].kind = "BEGIN" /\ ms[2 * k].kind = "END"
                   /\ blocks[k] = Block(doc, begin(k), PostAnchor(doc, end(k)))
        BY <1>1, <1>6, <2>1, <3>1
      <3> QED
        BY <2>1, <3>1, <3>2
    <2>2. CASE n = 2 * h + 1 /\ last.begin = ms[n].line /\ ms[n].kind = "BEGIN"
      <3>1. last.begin # 0 /\ n \in 1..n
        BY <1>1, <2>2
      <3>2. blocks = Append(last.blocks, Block(doc, last.begin, NoText))
        BY <1>5, <3>1 DEF Unended
      <3>3. /\ count = h + 1 /\ blocks[h + 1] = Block(doc, last.begin, NoText)
            /\ \A j \in 1..h : blocks[j] = last.blocks[j]
        BY <1>6, <1>7, <3>2
      <3>4. ASSUME NEW k \in 1..h
            PROVE  /\ 2 * k - 1 \in 1..n /\ 2 * k \in 1..n
                   /\ ms[2 * k - 1].kind = "BEGIN" /\ ms[2 * k].kind = "END"
                   /\ blocks[k] = Block(doc, begin(k), PostAnchor(doc, end(k)))
        BY <1>1, <1>6, <2>2, <3>3
      <3>5. 2 * (h + 1) - 1 = n /\ ~(2 * (h + 1) <= n)
        BY <2>2
      <3>6. begin(h + 1) = last.begin /\ end(h + 1) = Len(doc) + 1
        BY <2>2, <3>5
      <3>7. blocks[h + 1] = Block(doc, begin(h + 1), PostAnchor(doc, end(h + 1)))
        BY <3>3, <3>6, NothingBelow
      <3>8. \A k \in 1..(h + 1) : k \in 1..h \/ k = h + 1
        OBVIOUS
      <3>9. ms[2 * (h + 1) - 1].kind = "BEGIN"
        BY <2>2, <3>5
      <3> HIDE DEF begin, end
      <3>10. ASSUME NEW k \in 1..count
             PROVE  /\ 2 * k - 1 \in 1..n /\ ms[2 * k - 1].kind = "BEGIN"
                    /\ 2 * k <= n => 2 * k \in 1..n /\ ms[2 * k].kind = "END"
                    /\ blocks[k] = Block(doc, begin(k), PostAnchor(doc, end(k)))
        <4>1. CASE k \in 1..h
          BY <3>4, <4>1
        <4>2. CASE k = h + 1
          BY <3>1, <3>5, <3>7, <3>9, <4>2
        <4> QED
          BY <3>3, <3>8, <4>1, <4>2
      <3> QED
        BY <2>2, <3>3, <3>10
    <2> QED
      BY <1>6, <2>1, <2>2
  <1> HIDE DEF count
  <1>9. ASSUME NEW k \in 1..count
        PROVE  /\ begin(k) \in LineNo(doc) /\ end(k) \in 1..(Len(doc) + 1)
               /\ begin(k) <= end(k)
    <2>1. 2 * k - 1 \in 1..n /\ (2 * k <= n => 2 * k \in 1..n) /\ k \in Int
      BY <1>8
    <2>2. ms[2 * k - 1].line \in 1..Len(doc) /\ (2 * k <= n => ms[2 * k].line \in 1..Len(doc))
      BY <1>1, <2>1
    <2>3. 2 * k <= n => ms[2 * k - 1].line <= ms[2 * k].line
      BY <1>2, <2>1
    <2> QED
      BY <1>1, <2>2, <2>3
  <1>10. ASSUME NEW j \in 1..count, NEW k \in 1..count, j < k
         PROVE  end(j) <= begin(k)
    <2>1. 2 * j \in 1..n /\ 2 * k - 1 \in 1..n /\ 2 * j < 2 * k - 1 /\ 2 * j <= n
      BY <1>1, <1>8, <1>10
    <2> QED
      BY <1>2, <2>1
  <1>11. ASSUME NEW a \in 1..n
         PROVE  \E k \in 1..count : \/ a = 2 * k - 1 /\ ms[a].kind = "BEGIN"
                                    \/ a = 2 * k /\ ms[a].kind = "END"
    <2>1. a \in Nat
      BY <1>1
    <2>2. PICK g \in Nat : a = 2 * g \/ a = 2 * g + 1
      BY <2>1, EvenOrOdd
    <2>3. CASE a = 2 * g
      <3>1. g \in 1..count /\ 2 * g <= n
        BY <1>1, <1>8, <2>1, <2>3
      <3> QED
        BY <1>8, <2>3, <3>1
    <2>4. CASE a = 2 * g + 1
      <3>1. g + 1 \in 1..count /\ a = 2 * (g + 1) - 1
        BY <1>1, <1>8, <2>1, <2>4
      <3> QED
        BY <1>8, <3>1
    <2> QED
      BY <2>2, <2>3, <2>4
  <1>12. ASSUME NEW i \in LineNo(doc)
         PROVE  /\ HasMark(doc[i], "BEGIN") <=> \E k \in 1..count : begin(k) = i
                /\ HasMark(doc[i], "END") <=> \E k \in 1..count : end(k) = i
    <2>1. HasMark(doc[i], "BEGIN") <=> \E a \in 1..n : ms[a].line = i /\ ms[a].kind = "BEGIN"
      BY <1>2
    <2>2. HasMark(doc[i], "END") <=> \E a \in 1..n : ms[a].line = i /\ ms[a].kind = "END"
      BY <1>2
    <2>3. ASSUME NEW a \in 1..n, ms[a].line = i, ms[a].kind = "BEGIN"
          PROVE  \E k \in 1..count : begin(k) = i
      BY <1>11, <2>3
    <2>4. ASSUME NEW a \in 1..n, ms[a].line = i, ms[a].kind = "END"
          PROVE  \E k \in 1..count : end(k) = i
      <3>1. PICK k \in 1..count : a = 2 * k
        BY <1>11, <2>4
      <3>2. end(k) = i
        BY <1>1, <2>4, <3>1
      <3> QED
        BY <3>2
    <2>5. ASSUME NEW k \in 1..count, begin(k) = i
          PROVE  \E a \in 1..n : ms[a].line = i /\ ms[a].kind = "BEGIN"
      BY <1>8, <2>5
    <2>6. ASSUME NEW k \in 1..count, end(k) = i
          PROVE  \E a \in 1..n : ms[a].line = i /\ ms[a].kind = "END"
      <3>1. 2 * k <= n /\ ms[2 * k].line = i
        BY <1>1, <2>6
      <3> QED
        BY <1>8, <3>1
    <2> QED
      BY <2>1, <2>2, <2>3, <2>4, <2>5, <2>6
  <1> DEFINE b == [k \in 1..count |-> begin(k)]
             e == [k \in 1..count |-> end(k)]
  <1> HIDE DEF begin, end
  <1>13. b \in [1..count -> LineNo(doc)] /\ e \in [1..count -> 1..(Len(doc) + 1)]
    BY <1>9
  <1>14. \A k \in 1..count : b[k] = begin(k) /\ e[k] = end(k)
    OBVIOUS
  <1> HIDE DEF b, e
  <1>15. /\ \A k \in 1..count : /\ b[k] <= e[k]
                                /\ blocks[k] = Block(doc, b[k], PostAnchor(doc, e[k]))
         /\ \A j, k \in 1..count : j < k => e[j] <= b[k]
         /\ \A i \in LineNo(doc) :
               /\ HasMark(doc[i], "BEGIN") <=> \E k \in 1..count : b[k] = i
               /\ HasMark(doc[i], "END") <=> \E k \in 1..count : e[k] = i
    <2>1. ASSUME NEW k \in 1..count
          PROVE  b[k] <= e[k] /\ blocks[k] = Block(doc, b[k], PostAnchor(doc, e[k]))
      BY <1>8, <1>9, <1>14 DEF begin, end
    <2>2. \A j, k \in 1..count : j < k => e[j] <= b[k]
      BY <1>10, <1>14
    <2>3. ASSUME NEW i \in LineNo(doc)
          PROVE  /\ HasMark(doc[i], "BEGIN") <=> \E k \in 1..count : b[k] = i
                 /\ HasMark(doc[i], "END") <=> \E k \in 1..count : e[k] = i
      BY <1>12, <1>14
    <2> QED
      BY <2>1, <2>2, <2>3
  <1>16. BlockLines(doc, b, e)
    BY <1>13, <1>15, Zenon DEF BlockLines, count, blocks
  <1> QED
    BY <1>16

-----------------------------------------------------------------------------
(* What the markers of a report keep.                                      *)

\* The line is in a block, or begins one.
Holds(doc, active, i) == active[i - 1] \/ HasMark(doc[i], "BEGIN")

\* The lines kept of the first ones, and whether a block is open after them.
KeptTo(doc, active, st, last) ==
    /\ st \in Slicing(doc) /\ st.active = active[last]
    /\ \A a, c \in 1..Len(st.kept) : a < c => st.kept[a] < st.kept[c]
    /\ \A x : In(x, st.kept) <=> x \in 1..last /\ Holds(doc, active, x) /\ doc[x].text # NoText

\* A line opens a block, closes one, or does nothing.
Follows(doc, active, i) == active[i] <=> Holds(doc, active, i) /\ ~HasMark(doc[i], "END")

\* One line more.
LEMMA KeptNext ==
    ASSUME NEW doc, IsDoc(doc), NEW active, NEW st, NEW i \in LineNo(doc),
           KeptTo(doc, active, st, i - 1), active[i] = TakeLine(doc, st, i).active
    PROVE  KeptTo(doc, active, TakeLine(doc, st, i), i) /\ Follows(doc, active, i)
  <1> DEFINE next == TakeLine(doc, st, i)
             holds == st.active \/ HasMark(doc[i], "BEGIN")
  <1>1. next = [active |-> holds /\ ~HasMark(doc[i], "END"),
                found |-> st.found \/ HasMark(doc[i], "BEGIN") \/ HasMark(doc[i], "END"),
                kept |-> IF holds /\ doc[i].text # NoText THEN Append(st.kept, i) ELSE st.kept]
    BY Zenon DEF TakeLine
  <1>2. st \in Slicing(doc) /\ next \in Slicing(doc)
    BY LineTaken DEF KeptTo
  <1>3. /\ (next.active <=> holds /\ ~HasMark(doc[i], "END"))
        /\ next.kept = IF holds /\ doc[i].text # NoText THEN Append(st.kept, i) ELSE st.kept
    <2> DEFINE open == holds /\ ~HasMark(doc[i], "END")
               found == st.found \/ HasMark(doc[i], "BEGIN") \/ HasMark(doc[i], "END")
               kept == IF holds /\ doc[i].text # NoText THEN Append(st.kept, i) ELSE st.kept
    <2>1. next = [active |-> open, found |-> found, kept |-> kept]
      BY <1>1, Zenon
    <2> HIDE DEF open, found, kept, next
    <2>2. next.active = open /\ next.kept = kept
      BY <2>1
    <2> QED
      BY <2>2, Zenon DEF open, kept
  <1>4. holds <=> Holds(doc, active, i)
    BY DEF KeptTo, Holds
  <1>5. /\ st.kept \in Seq(LineNo(doc)) /\ Len(st.kept) \in Nat
        /\ i \in Nat \ {0} /\ Len(doc) \in Nat /\ LineNo(doc) = 1..Len(doc)
    <2>1. st.kept \in Seq(LineNo(doc))
      BY <1>2, Zenon DEF Slicing
    <2>2. Len(doc) \in Nat /\ LineNo(doc) = 1..Len(doc)
      BY WholeList DEF LineNo
    <2> QED
      BY <2>1, <2>2
  <1>6. /\ \A a, c \in 1..Len(st.kept) : a < c => st.kept[a] < st.kept[c]
        /\ \A x : In(x, st.kept) <=> x \in 1..(i - 1) /\ Holds(doc, active, x) /\ doc[x].text # NoText
    BY Zenon DEF KeptTo
  <1>7. \A a \in 1..Len(st.kept) : st.kept[a] < i
    <2>1. \A a \in 1..Len(st.kept) : In(st.kept[a], st.kept)
      BY DEF In
    <2> QED
      BY <1>5, <1>6, <2>1
  <1>8. \A x : x \in 1..i <=> x \in 1..(i - 1) \/ x = i
    BY <1>5
  <1> HIDE DEF next, holds
  <1>9. /\ \A a, c \in 1..Len(next.kept) : a < c => next.kept[a] < next.kept[c]
        /\ \A x : In(x, next.kept) <=> x \in 1..i /\ Holds(doc, active, x) /\ doc[x].text # NoText
    <2>1. CASE holds /\ doc[i].text # NoText
      <3>1. /\ Len(next.kept) = Len(st.kept) + 1 /\ next.kept[Len(st.kept) + 1] = i
            /\ \A a \in 1..Len(st.kept) : next.kept[a] = st.kept[a]
        BY <1>3, <1>5, <2>1
      <3>2. \A a : a \in 1..(Len(st.kept) + 1) <=> a \in 1..Len(st.kept) \/ a = Len(st.kept) + 1
        BY <1>5
      <3>3. \A a, c \in 1..Len(next.kept) : a < c => next.kept[a] < next.kept[c]
        <4>1. ASSUME NEW a \in 1..Len(next.kept), NEW c \in 1..Len(next.kept), a < c
              PROVE  next.kept[a] < next.kept[c]
          <5>1. a \in 1..Len(st.kept) /\ next.kept[a] = st.kept[a]
            BY <1>5, <3>1, <3>2, <4>1
          <5>2. CASE c \in 1..Len(st.kept)
            BY <1>6, <3>1, <4>1, <5>1, <5>2
          <5>3. CASE c = Len(st.kept) + 1
            BY <1>7, <3>1, <5>1, <5>3
          <5> QED
            BY <3>1, <3>2, <5>2, <5>3
        <4> QED
          BY <4>1
      <3>4. \A x : In(x, next.kept) <=> In(x, st.kept) \/ x = i
        BY <3>1, <3>2 DEF In
      <3> QED
        BY <1>4, <1>6, <1>8, <2>1, <3>3, <3>4
    <2>2. CASE ~(holds /\ doc[i].text # NoText)
      BY <1>3, <1>4, <1>6, <1>8, <2>2
    <2> QED
      BY <2>1, <2>2
  <1>10. Follows(doc, active, i)
    BY <1>3, <1>4, Zenon DEF Follows, next
  <1> QED
    BY <1>2, <1>9, <1>10, Zenon DEF KeptTo, next

\* The kept lines are those in a block, in their order.
LEMMA KeptAre ==
    ASSUME NEW doc, IsDoc(doc)
    PROVE  \E active : /\ ~active[0]
                       /\ \A i \in LineNo(doc) : Follows(doc, active, i)
                       /\ KeptTo(doc, active, SliceByMarkers(doc), Len(doc))
  <1> DEFINE n == Len(doc)
  <1>1. /\ n \in Nat /\ LineNo(doc) = 1..n /\ Len(Whole(doc)) = n
        /\ \A i \in 1..n : Whole(doc)[i] = i
    BY WholeList DEF LineNo
  <1>2. PICK f : /\ f[0] = Unsliced /\ SliceByMarkers(doc) = f[n]
                 /\ \A k \in 1..n : f[k] = TakeLine(doc, f[k - 1], k)
    BY <1>1, LineSteps
  <1> HIDE DEF n
  <1> DEFINE active == [k \in 0..n |-> f[k].active]
  <1>3. \A k \in 0..n : active[k] = f[k].active
    OBVIOUS
  <1> HIDE DEF active
  <1> DEFINE P == {k \in 0..n : /\ KeptTo(doc, active, f[k], k)
                                /\ \A i \in 1..k : Follows(doc, active, i)}
  <1>4. 0 \in P /\ ~active[0]
    <2>1. f[0] \in Slicing(doc) /\ f[0].kept = <<>> /\ ~f[0].active /\ Len(<<>>) = 0
      BY <1>2, UnslicedType DEF Unsliced
    <2>2. 0 \in 0..n /\ 1..0 = {}
      BY <1>1
    <2>3. active[0] = f[0].active
      BY <1>3, <2>2
    <2>4. KeptTo(doc, active, f[0], 0)
      BY <2>1, <2>2, <2>3, Zenon DEF KeptTo, In
    <2> QED
      BY <2>1, <2>2, <2>3, <2>4
  <1>5. ASSUME NEW k \in P, k < n
        PROVE  k + 1 \in P
    <2>1. /\ k + 1 \in 1..n /\ k + 1 \in 0..n /\ (k + 1) - 1 = k
          /\ \A i \in 1..(k + 1) : i \in 1..k \/ i = k + 1
      BY <1>1, <1>5
    <2>2. KeptTo(doc, active, f[k], (k + 1) - 1)
      BY <2>1
    <2>3. f[k + 1] = TakeLine(doc, f[k], k + 1) /\ active[k + 1] = f[k + 1].active
      BY <1>2, <1>3, <2>1
    <2>4. k + 1 \in LineNo(doc) /\ active[k + 1] = TakeLine(doc, f[k], k + 1).active
      BY <1>1, <2>1, <2>3
    <2>5. KeptTo(doc, active, TakeLine(doc, f[k], k + 1), k + 1) /\ Follows(doc, active, k + 1)
      BY <2>2, <2>4, KeptNext
    <2> QED
      BY <2>1, <2>3, <2>5
  <1>6. n \in P
    <2>1. P \in SUBSET (0..n) /\ n \in 0..n /\ n \in Nat
      BY <1>1
    <2> HIDE DEF P
    <2> QED
      BY <1>4, <1>5, <2>1, UpTo
  <1> QED
    BY <1>1, <1>2, <1>4, <1>6 DEF n

-----------------------------------------------------------------------------
(* Where the anchors of a report lie.                                      *)

StartLine(doc, i) == Max(Filled(doc, 1, i - 1))

EndLine(doc, i) ==
    LET below == Filled(doc, i + 1, Len(doc))
    IN  IF below = {} THEN Len(doc) + 1 ELSE Min(below)

\* Between an anchor above a line and that line nothing is said.
LEMMA StartLineIs ==
    ASSUME NEW doc, IsDoc(doc), NEW i \in LineNo(doc), PreAnchor(doc, i) # NoText
    PROVE  /\ StartLine(doc, i) \in 1..(i - 1)
           /\ doc[StartLine(doc, i)].text = PreAnchor(doc, i)
           /\ \A j \in 1..(i - 1) : ~Blank(doc[j]) => j <= StartLine(doc, i)
  <1> DEFINE above == Filled(doc, 1, i - 1)
  <1>1. Len(doc) \in Nat /\ i \in 1..Len(doc)
    BY WholeList DEF LineNo
  <1>2. above \in SUBSET (1..Len(doc)) /\ \A j : j \in above <=> j \in 1..(i - 1) /\ ~Blank(doc[j])
    BY <1>1 DEF Filled
  <1>3. PreAnchor(doc, i) = IF above = {} THEN NoText ELSE doc[Max(above)].text
    BY DEF PreAnchor
  <1>4. StartLine(doc, i) = Max(above)
    BY DEF StartLine
  <1> HIDE DEF above
  <1>5. above # {}
    BY <1>3
  <1>6. Max(above) \in above /\ \A y \in above : Max(above) >= y
    BY <1>1, <1>2, <1>5, MaxBelow
  <1> DEFINE s == Max(above)
  <1> HIDE DEF s
  <1>7. s \in above /\ \A y \in above : s >= y
    BY <1>6 DEF s
  <1>8. \A j \in 1..(i - 1) : ~Blank(doc[j]) => j <= s
    BY <1>1, <1>2, <1>7
  <1> QED
    BY <1>2, <1>3, <1>4, <1>5, <1>7, <1>8 DEF s

\* Between a line and an anchor below it nothing is said.
LEMMA EndLineIs ==
    ASSUME NEW doc, IsDoc(doc), NEW i \in 1..(Len(doc) + 1)
    PROVE  /\ EndLine(doc, i) \in 1..(Len(doc) + 1)
           /\ \A j \in (i + 1)..Len(doc) : ~Blank(doc[j]) => EndLine(doc, i) <= j
           /\ \/ EndLine(doc, i) = Len(doc) + 1 /\ PostAnchor(doc, i) = NoText
              \/ /\ EndLine(doc, i) \in (i + 1)..Len(doc)
                 /\ ~Blank(doc[EndLine(doc, i)])
                 /\ doc[EndLine(doc, i)].text = PostAnchor(doc, i)
  <1> DEFINE below == Filled(doc, i + 1, Len(doc))
  <1>1. Len(doc) \in Nat
    BY WholeList
  <1>2. below \in SUBSET (1..Len(doc)) /\ \A j : j \in below <=> j \in (i + 1)..Len(doc) /\ ~Blank(doc[j])
    BY <1>1 DEF Filled
  <1>3. PostAnchor(doc, i) = IF below = {} THEN NoText ELSE doc[Min(below)].text
    BY DEF PostAnchor, TextFrom
  <1>4. EndLine(doc, i) = IF below = {} THEN Len(doc) + 1 ELSE Min(below)
    BY DEF EndLine
  <1> HIDE DEF below
  <1>5. CASE below = {}
    <2>1. EndLine(doc, i) = Len(doc) + 1 /\ PostAnchor(doc, i) = NoText
      BY <1>3, <1>4, <1>5
    <2>2. \A j \in (i + 1)..Len(doc) : Blank(doc[j])
      BY <1>2, <1>5
    <2> QED
      BY <1>1, <2>1, <2>2
  <1>6. CASE below # {}
    <2>1. Min(below) \in below /\ \A y \in below : Min(below) <= y
      BY <1>1, <1>2, <1>6, MinIs
    <2> DEFINE t == Min(below)
    <2> HIDE DEF t
    <2>2. t \in below /\ \A y \in below : t <= y
      BY <2>1 DEF t
    <2>3. EndLine(doc, i) = t /\ PostAnchor(doc, i) = doc[t].text
      BY <1>3, <1>4, <1>6 DEF t
    <2>4. t \in (i + 1)..Len(doc) /\ ~Blank(doc[t]) /\ t \in 1..(Len(doc) + 1)
      BY <1>1, <1>2, <2>2
    <2> QED
      BY <1>2, <2>2, <2>3, <2>4
  <1> QED
    BY <1>5, <1>6

\* The text of one line outside the blocks, which no other line resembles.
Own(doc, base, model, a) ==
    /\ a # NoText
    /\ \E i \in LineNo(doc) :
          /\ ~In(i, SliceByMarkers(doc).kept)
          /\ doc[i].text = a
          /\ \A j \in LineNo(doc) : Resembles(a, doc[j].text, base, model) <=> j = i

\* The anchors of all blocks are such texts, and those of the starts are no others'.
AllOwn(doc, base, model) ==
    LET blocks == MarkerBlocks(doc)
    IN  \A k \in 1..Len(blocks) :
           /\ Own(doc, base, model, blocks[k].start)
           /\ blocks[k].end # NoText => Own(doc, base, model, blocks[k].end)
           /\ \A j \in 1..Len(blocks) :
                 /\ blocks[j].start = blocks[k].start => j = k
                 /\ blocks[j].end # blocks[k].start

\* The same, of the anchors one by one.
LEMMA AnchorsAreOwn ==
    ASSUME NEW doc, IsDoc(doc), NEW base, NEW model,
           OwnAnchors(doc, MarkerBlocks(doc), base, model)
    PROVE  AllOwn(doc, base, model)
  <1> DEFINE blocks == MarkerBlocks(doc)
             inside == ToSet(SliceByMarkers(doc).kept)
             anchor(x) == blocks[x[1]][x[2]]
             like(a) == {i \in DOMAIN doc : Resembles(a, doc[i].text, base, model)}
             anchors == {x \in (DOMAIN blocks) \X {"start", "end"} :
                            x[2] = "start" \/ anchor(x) # NoText}
  <1>1. \A x \in anchors :
           /\ anchor(x) # NoText
           /\ \E i \in DOMAIN doc \ inside :
                 doc[i].text = anchor(x) /\ like(anchor(x)) = {i}
           /\ \A y \in anchors : anchor(x) = anchor(y) => x = y
    BY Zenon DEF OwnAnchors
  <1>2. DOMAIN blocks = 1..Len(blocks)
    BY BlocksType
  <1>3. DOMAIN doc = LineNo(doc) /\ \A i : i \in inside <=> In(i, SliceByMarkers(doc).kept)
    <2>1. SliceByMarkers(doc).kept \in Seq(LineNo(doc))
      BY MarkedKept
    <2> DEFINE kept == SliceByMarkers(doc).kept
    <2> HIDE DEF kept
    <2>2. kept \in Seq(LineNo(doc))
      BY <2>1 DEF kept
    <2>3. \A i : i \in ToSet(kept) <=> In(i, kept)
      BY <2>2 DEF ToSet, In
    <2> QED
      BY <2>3, WholeList DEF kept
  <1> HIDE DEF inside, blocks
  <1>4. \A k \in 1..Len(blocks) :
           /\ anchor(<<k, "start">>) = blocks[k].start /\ <<k, "start">> \in anchors
           /\ anchor(<<k, "end">>) = blocks[k].end
           /\ blocks[k].end # NoText => <<k, "end">> \in anchors
    BY <1>2
  <1> HIDE DEF anchor, anchors
  <1>5. ASSUME NEW x \in anchors
        PROVE  Own(doc, base, model, anchor(x))
    <2>1. PICK i \in DOMAIN doc \ inside : doc[i].text = anchor(x) /\ like(anchor(x)) = {i}
      BY <1>1
    <2>2. \A j \in LineNo(doc) : Resembles(anchor(x), doc[j].text, base, model) <=> j = i
      BY <1>3, <2>1
    <2>3. i \in LineNo(doc) /\ ~In(i, SliceByMarkers(doc).kept)
      BY <1>3, <2>1
    <2> QED
      BY <1>1, <2>1, <2>2, <2>3 DEF Own
  <1>6. ASSUME NEW k \in 1..Len(blocks), NEW j \in 1..Len(blocks)
        PROVE  /\ blocks[j].start = blocks[k].start => j = k
               /\ blocks[j].end # blocks[k].start
    <2>1. blocks[k].start # NoText
      BY <1>1, <1>4
    <2>2. blocks[j].start = blocks[k].start => <<j, "start">> = <<k, "start">>
      <3>1. /\ <<j, "start">> \in anchors /\ anchor(<<j, "start">>) = blocks[j].start
            /\ <<k, "start">> \in anchors /\ anchor(<<k, "start">>) = blocks[k].start
        BY <1>4
      <3> QED
        BY <1>1, <3>1, Zenon
    <2>3. blocks[j].end = blocks[k].start => <<j, "end">> = <<k, "start">>
      <3>1. /\ blocks[j].end # NoText => <<j, "end">> \in anchors
            /\ anchor(<<j, "end">>) = blocks[j].end
            /\ <<k, "start">> \in anchors /\ anchor(<<k, "start">>) = blocks[k].start
        BY <1>4
      <3> QED
        BY <1>1, <2>1, <3>1, Zenon
    <2>4. "end" # "start"
      OBVIOUS
    <2> QED
      BY <2>2, <2>3, <2>4
  <1>7. \A k \in 1..Len(blocks) :
           /\ Own(doc, base, model, blocks[k].start)
           /\ blocks[k].end # NoText => Own(doc, base, model, blocks[k].end)
    BY <1>4, <1>5
  <1> QED
    BY <1>6, <1>7 DEF AllOwn, blocks

\* An anchor is the text of no kept line, and of no line but one.
LEMMA OwnText ==
    ASSUME NEW doc, NEW base, NEW model, NEW a, Own(doc, base, model, a),
           NEW i \in LineNo(doc), doc[i].text = a
    PROVE  /\ ~In(i, SliceByMarkers(doc).kept)
           /\ \A j \in LineNo(doc) : Resembles(a, doc[j].text, base, model) <=> j = i
  <1>1. PICK k \in LineNo(doc) :
           /\ ~In(k, SliceByMarkers(doc).kept)
           /\ doc[k].text = a
           /\ \A j \in LineNo(doc) : Resembles(a, doc[j].text, base, model) <=> j = k
    BY DEF Own
  <1>2. i = k
    BY <1>1
  <1> QED
    BY <1>1, <1>2

\* The blocks of a report and the lines they keep, if the anchors are its own.
Framed(doc, base, model, b, e, active) ==
    /\ IsDoc(doc) /\ BlockLines(doc, b, e) /\ AllOwn(doc, base, model)
    /\ ~active[0] /\ \A i \in LineNo(doc) : Follows(doc, active, i)
    /\ KeptTo(doc, active, SliceByMarkers(doc), Len(doc))

\* What is used of it, line by line.
LEMMA FramedMeans ==
    ASSUME NEW doc, NEW base, NEW model, NEW b, NEW e, NEW active,
           Framed(doc, base, model, b, e, active)
    PROVE  LET blocks == MarkerBlocks(doc)
               count == Len(blocks)
           IN  /\ Len(doc) \in Nat /\ LineNo(doc) = 1..Len(doc)
               /\ \A k \in 1..count : /\ b[k] \in 1..Len(doc) /\ e[k] \in 1..(Len(doc) + 1)
                                      /\ b[k] <= e[k]
                                      /\ blocks[k].start = PreAnchor(doc, b[k])
                                      /\ blocks[k].end = PostAnchor(doc, e[k])
               /\ \A j, k \in 1..count : j < k => e[j] <= b[k]
               /\ \A i \in 1..Len(doc) :
                     /\ HasMark(doc[i], "BEGIN") <=> \E k \in 1..count : b[k] = i
                     /\ HasMark(doc[i], "END") <=> \E k \in 1..count : e[k] = i
               /\ \A i \in 1..Len(doc) :
                     /\ active[i] <=> Holds(doc, active, i) /\ ~HasMark(doc[i], "END")
                     /\ Holds(doc, active, i) <=> active[i - 1] \/ HasMark(doc[i], "BEGIN")
                     /\ In(i, SliceByMarkers(doc).kept)
                           <=> Holds(doc, active, i) /\ doc[i].text # NoText
  <1> DEFINE blocks == MarkerBlocks(doc)
             count == Len(blocks)
  <1>1. Len(doc) \in Nat /\ LineNo(doc) = 1..Len(doc)
    BY WholeList DEF Framed, LineNo
  <1>2. /\ b \in [1..count -> LineNo(doc)]
        /\ e \in [1..count -> 1..(Len(doc) + 1)]
        /\ \A k \in 1..count : /\ b[k] <= e[k]
                               /\ blocks[k] = Block(doc, b[k], PostAnchor(doc, e[k]))
        /\ \A j, k \in 1..count : j < k => e[j] <= b[k]
        /\ \A i \in LineNo(doc) :
              /\ HasMark(doc[i], "BEGIN") <=> \E k \in 1..count : b[k] = i
              /\ HasMark(doc[i], "END") <=> \E k \in 1..count : e[k] = i
    BY Zenon DEF Framed, BlockLines
  <1> HIDE DEF count, blocks
  <1>3. \A k \in 1..count : blocks[k].start = PreAnchor(doc, b[k]) /\ blocks[k].end = PostAnchor(doc, e[k])
    <2>1. \A i, x : Block(doc, i, x).start = PreAnchor(doc, i) /\ Block(doc, i, x).end = x
      BY DEF Block
    <2> QED
      BY <1>2, <2>1
  <1>4. /\ \A i \in LineNo(doc) : Follows(doc, active, i)
        /\ \A x : In(x, SliceByMarkers(doc).kept) <=>
                     x \in 1..Len(doc) /\ Holds(doc, active, x) /\ doc[x].text # NoText
    BY Zenon DEF Framed, KeptTo
  <1>5. ASSUME NEW i \in 1..Len(doc)
        PROVE  /\ active[i] <=> Holds(doc, active, i) /\ ~HasMark(doc[i], "END")
               /\ Holds(doc, active, i) <=> active[i - 1] \/ HasMark(doc[i], "BEGIN")
               /\ In(i, SliceByMarkers(doc).kept)
                     <=> Holds(doc, active, i) /\ doc[i].text # NoText
    <2>1. Follows(doc, active, i)
      BY <1>1, <1>4
    <2> QED
      BY <1>4, <2>1, Zenon DEF Follows, Holds
  <1>6. \A k \in 1..count : b[k] \in 1..Len(doc) /\ e[k] \in 1..(Len(doc) + 1) /\ b[k] <= e[k]
    BY <1>1, <1>2
  <1>7. \A i \in 1..Len(doc) :
           /\ HasMark(doc[i], "BEGIN") <=> \E k \in 1..count : b[k] = i
           /\ HasMark(doc[i], "END") <=> \E k \in 1..count : e[k] = i
    BY <1>1, <1>2
  <1> QED
    BY <1>1, <1>2, <1>3, <1>5, <1>6, <1>7, Zenon DEF count, blocks

\* The anchor before a block is a line above it, in no block; between them
\* nothing is said.
LEMMA StartsAbove ==
    ASSUME NEW doc, NEW base, NEW model, NEW b, NEW e, NEW active,
           Framed(doc, base, model, b, e, active),
           NEW k \in 1..Len(MarkerBlocks(doc))
    PROVE  /\ StartLine(doc, b[k]) \in 1..(b[k] - 1)
           /\ doc[StartLine(doc, b[k])].text = MarkerBlocks(doc)[k].start
           /\ doc[StartLine(doc, b[k])].text # NoText
           /\ ~Holds(doc, active, StartLine(doc, b[k]))
           /\ \A j \in 1..(b[k] - 1) : ~Blank(doc[j]) => j <= StartLine(doc, b[k])
  <1> DEFINE s == StartLine(doc, b[k])
             start == MarkerBlocks(doc)[k].start
  <1>1. /\ Len(doc) \in Nat /\ LineNo(doc) = 1..Len(doc) /\ b[k] \in 1..Len(doc)
        /\ start = PreAnchor(doc, b[k])
        /\ \A i \in 1..Len(doc) : In(i, SliceByMarkers(doc).kept)
                                     <=> Holds(doc, active, i) /\ doc[i].text # NoText
    BY FramedMeans
  <1>2. Own(doc, base, model, start) /\ start # NoText
    BY DEF Framed, AllOwn, Own
  <1>3. IsDoc(doc)
    BY DEF Framed
  <1>4. /\ s \in 1..(b[k] - 1) /\ doc[s].text = start
        /\ \A j \in 1..(b[k] - 1) : ~Blank(doc[j]) => j <= s
    BY <1>1, <1>2, <1>3, StartLineIs
  <1> HIDE DEF s, start
  <1>5. s \in LineNo(doc) /\ s \in 1..Len(doc)
    BY <1>1, <1>4
  <1>6. ~In(s, SliceByMarkers(doc).kept)
    BY <1>2, <1>4, <1>5, OwnText
  <1>7. ~Holds(doc, active, s)
    BY <1>1, <1>2, <1>4, <1>5, <1>6
  <1> QED
    BY <1>2, <1>4, <1>7 DEF s, start

\* A block is open after the line.
Open(doc, b, e, i) == \E k \in 1..Len(MarkerBlocks(doc)) : b[k] <= i /\ i < e[k]

\* A line with a marker is not empty.
LEMMA MarkedIsFilled ==
    ASSUME NEW doc, IsDoc(doc), NEW i \in LineNo(doc), NEW kind, HasMark(doc[i], kind)
    PROVE  ~Blank(doc[i])
  <1>1. doc[i].marks # <<>>
    <2> SUFFICES ASSUME doc[i].marks = <<>> PROVE FALSE
      OBVIOUS
    <2>1. ToSet(<<>>) = {}
      BY DEF ToSet
    <2> QED
      BY <2>1 DEF HasMark
  <1> QED
    BY <1>1 DEF Blank

\* No block begins where another ends, as far as the lines are known.
LEMMA NoTouch ==
    ASSUME NEW doc, NEW base, NEW model, NEW b, NEW e, NEW active,
           Framed(doc, base, model, b, e, active),
           NEW j \in 1..Len(MarkerBlocks(doc)), NEW k \in 1..Len(MarkerBlocks(doc)),
           j < k, \A i \in 0..(b[k] - 1) : active[i] <=> Open(doc, b, e, i)
    PROVE  e[j] < StartLine(doc, b[k]) /\ StartLine(doc, b[k]) < b[k]
  <1> DEFINE s == StartLine(doc, b[k])
             blocks == MarkerBlocks(doc)
             count == Len(blocks)
             n == Len(doc)
  <1>1. /\ n \in Nat /\ LineNo(doc) = 1..n
        /\ \A m \in 1..count : /\ b[m] \in 1..n /\ e[m] \in 1..(n + 1) /\ b[m] <= e[m]
                               /\ blocks[m].start = PreAnchor(doc, b[m])
        /\ \A l, m \in 1..count : l < m => e[l] <= b[m]
        /\ \A i \in 1..n : /\ HasMark(doc[i], "BEGIN") <=> \E m \in 1..count : b[m] = i
                           /\ HasMark(doc[i], "END") <=> \E m \in 1..count : e[m] = i
        /\ \A i \in 1..n : Holds(doc, active, i) <=> active[i - 1] \/ HasMark(doc[i], "BEGIN")
    BY FramedMeans
  <1>2. /\ s \in 1..(b[k] - 1) /\ ~Holds(doc, active, s)
        /\ \A i \in 1..(b[k] - 1) : ~Blank(doc[i]) => i <= s
    BY StartsAbove
  <1>3. IsDoc(doc) /\ (blocks[j].start = blocks[k].start => j = k)
    BY DEF Framed, AllOwn
  <1>4. \A i \in 0..(b[k] - 1) : active[i] <=> \E m \in 1..count : b[m] <= i /\ i < e[m]
    BY DEF Open
  <1> HIDE DEF s, blocks, count, n
  <1>5. j \in 1..count /\ k \in 1..count /\ j \in Int /\ k \in Int
    BY <1>1 DEF count, blocks
  <1>6. b[j] # b[k]
    BY <1>1, <1>3, <1>5
  <1>7. b[j] \in 1..n /\ b[k] \in 1..n /\ e[j] \in 1..n /\ b[j] <= e[j] /\ e[j] <= b[k] /\ b[j] < b[k]
    BY <1>1, <1>5, <1>6
  <1>8. s \in 1..n /\ s < b[k] /\ s \in Int
    BY <1>1, <1>2, <1>7
  <1>9. b[j] <= s
    <2>1. ~Blank(doc[b[j]])
      BY <1>1, <1>3, <1>5, <1>7, MarkedIsFilled
    <2> QED
      BY <1>2, <1>7, <2>1
  <1>10. ~(s <= e[j])
    <2> SUFFICES ASSUME s <= e[j] PROVE FALSE
      OBVIOUS
    <2>1. CASE b[j] = s
      BY <1>1, <1>2, <1>5, <1>8, <2>1
    <2>2. CASE b[j] # s
      <3>1. b[j] <= s - 1 /\ s - 1 < e[j] /\ s - 1 \in 0..(b[k] - 1)
        BY <1>7, <1>8, <1>9, <2>2
      <3>2. active[s - 1]
        BY <1>4, <1>5, <3>1
      <3> QED
        BY <1>1, <1>2, <1>8, <3>2
    <2> QED
      BY <2>1, <2>2
  <1> QED
    BY <1>7, <1>8, <1>10 DEF s

\* A line is in a block if it lies between the markers of one.
LEMMA OpenBetween ==
    ASSUME NEW doc, NEW base, NEW model, NEW b, NEW e, NEW active,
           Framed(doc, base, model, b, e, active)
    PROVE  \A i \in 0..Len(doc) : active[i] <=> Open(doc, b, e, i)
  <1> DEFINE count == Len(MarkerBlocks(doc))
             n == Len(doc)
             P == {m \in 0..n : \A i \in 0..m : active[i] <=> Open(doc, b, e, i)}
  <1>1. /\ n \in Nat
        /\ \A m \in 1..count : b[m] \in 1..n /\ e[m] \in 1..(n + 1) /\ b[m] <= e[m]
        /\ \A l, m \in 1..count : l < m => e[l] <= b[m]
        /\ \A i \in 1..n : /\ HasMark(doc[i], "BEGIN") <=> \E m \in 1..count : b[m] = i
                           /\ HasMark(doc[i], "END") <=> \E m \in 1..count : e[m] = i
        /\ \A i \in 1..n :
              /\ active[i] <=> Holds(doc, active, i) /\ ~HasMark(doc[i], "END")
              /\ Holds(doc, active, i) <=> active[i - 1] \/ HasMark(doc[i], "BEGIN")
    BY FramedMeans
  <1>2. \A i : Open(doc, b, e, i) <=> \E m \in 1..count : b[m] <= i /\ i < e[m]
    BY DEF Open
  <1>3. 0 \in P
    <2>1. ~Open(doc, b, e, 0)
      BY <1>1, <1>2
    <2>2. ~active[0]
      BY DEF Framed
    <2>3. \A i \in 0..0 : i = 0
      OBVIOUS
    <2>4. \A i \in 0..0 : active[i] <=> Open(doc, b, e, i)
      BY <2>1, <2>2, <2>3
    <2> QED
      BY <1>1, <2>4
  <1>4. ASSUME NEW m \in P, m < n
        PROVE  m + 1 \in P
    <2> DEFINE i == m + 1
    <2>1. /\ i \in 1..n /\ i - 1 = m /\ i \in 0..n /\ m \in 0..m
          /\ \A l \in 0..i : l \in 0..m \/ l = i
      BY <1>1, <1>4
    <2>2. \A l \in 0..m : active[l] <=> Open(doc, b, e, l)
      OBVIOUS
    <2> HIDE DEF i, P
    <2>3. active[i - 1] <=> Open(doc, b, e, i - 1)
      BY <2>1, <2>2
    <2>4. ASSUME active[i]
          PROVE  Open(doc, b, e, i)
      <3>1. ~HasMark(doc[i], "END") /\ (active[i - 1] \/ HasMark(doc[i], "BEGIN"))
        BY <1>1, <2>1, <2>4
      <3>2. PICK k \in 1..count : b[k] <= i /\ i <= e[k]
        <4>1. CASE active[i - 1]
          <5>1. PICK k \in 1..count : b[k] <= i - 1 /\ i - 1 < e[k]
            BY <1>2, <2>3, <4>1
          <5> QED
            BY <1>1, <2>1, <5>1
        <4>2. CASE HasMark(doc[i], "BEGIN")
          BY <1>1, <2>1, <4>2
        <4> QED
          BY <3>1, <4>1, <4>2
      <3>3. e[k] # i
        BY <1>1, <2>1, <3>1
      <3> QED
        BY <1>1, <1>2, <2>1, <3>2, <3>3
    <2>5. ASSUME NEW k \in 1..count, b[k] <= i, i < e[k]
          PROVE  active[i]
      <3>1. active[i - 1] \/ HasMark(doc[i], "BEGIN")
        <4>1. CASE b[k] = i
          BY <1>1, <2>1, <4>1
        <4>2. CASE b[k] # i
          <5>1. b[k] <= i - 1 /\ i - 1 < e[k]
            BY <1>1, <2>1, <2>5, <4>2
          <5> QED
            BY <1>2, <2>3, <5>1
        <4> QED
          BY <4>1, <4>2
      <3>2. ASSUME NEW j \in 1..count, e[j] = i
            PROVE  FALSE
        <4>1. j < k
          <5>1. b[j] \in Int /\ e[j] \in Int /\ e[k] \in Int /\ b[j] <= e[j] /\ j \in Int /\ k \in Int
            BY <1>1
          <5>2. ~(k < j)
            <6> SUFFICES ASSUME k < j PROVE FALSE
              OBVIOUS
            <6>1. e[k] <= b[j]
              BY <1>1
            <6> QED
              BY <2>1, <2>5, <3>2, <5>1, <6>1
          <5>3. j # k
            BY <2>1, <2>5, <3>2, <5>1
          <5> QED
            BY <5>1, <5>2, <5>3
        <4>2. b[k] = i
          BY <1>1, <2>1, <2>5, <3>2, <4>1
        <4>3. \A l \in 0..(b[k] - 1) : active[l] <=> Open(doc, b, e, l)
          BY <2>1, <2>2, <4>2
        <4>4. e[j] < StartLine(doc, b[k]) /\ StartLine(doc, b[k]) < b[k]
          BY <4>1, <4>3, NoTouch
        <4>5. StartLine(doc, b[k]) \in Int
          BY <1>1, StartsAbove
        <4> QED
          BY <2>1, <3>2, <4>2, <4>4, <4>5
      <3>3. ~HasMark(doc[i], "END")
        BY <1>1, <2>1, <3>2
      <3> QED
        BY <1>1, <2>1, <3>1, <3>3
    <2>6. active[i] <=> Open(doc, b, e, i)
      BY <1>2, <2>4, <2>5
    <2>7. \A l \in 0..i : active[l] <=> Open(doc, b, e, l)
      BY <2>1, <2>2, <2>6
    <2> QED
      BY <2>1, <2>7 DEF P, i
  <1>5. n \in P
    <2>1. P \in SUBSET (0..n) /\ n \in 0..n /\ n \in Nat
      BY <1>1
    <2> HIDE DEF P, n
    <2> QED
      BY <1>3, <1>4, <2>1, UpTo
  <1> QED
    BY <1>5

\* Where the anchors of the blocks are: in order, and what is said between the
\* two of a block is what the markers keep.
Cuts(doc, s, t) ==
    LET blocks == MarkerBlocks(doc)
        count == Len(blocks)
        n == Len(doc)
    IN  /\ \A k \in 1..count :
              /\ s[k] \in 1..n /\ t[k] \in 1..(n + 1) /\ s[k] < t[k]
              /\ doc[s[k]].text = blocks[k].start /\ blocks[k].start # NoText
              /\ t[k] <= n => doc[t[k]].text = blocks[k].end /\ blocks[k].end # NoText
              /\ t[k] = n + 1 => blocks[k].end = NoText
        /\ \A j, k \in 1..count : j < k => t[j] < s[k]
        /\ \A i \in 1..n : doc[i].text # NoText =>
              (In(i, SliceByMarkers(doc).kept) <=> \E k \in 1..count : s[k] < i /\ i < t[k])

\* The anchors of a framed report.
LEMMA FramedCuts ==
    ASSUME NEW doc, NEW base, NEW model, NEW b, NEW e, NEW active,
           Framed(doc, base, model, b, e, active)
    PROVE  Cuts(doc, [k \in 1..Len(MarkerBlocks(doc)) |-> StartLine(doc, b[k])],
                     [k \in 1..Len(MarkerBlocks(doc)) |-> EndLine(doc, e[k])])
  <1> DEFINE blocks == MarkerBlocks(doc)
             count == Len(blocks)
             n == Len(doc)
             s == [k \in 1..count |-> StartLine(doc, b[k])]
             t == [k \in 1..count |-> EndLine(doc, e[k])]
  <1>1. /\ n \in Nat /\ LineNo(doc) = 1..n
        /\ \A m \in 1..count : /\ b[m] \in 1..n /\ e[m] \in 1..(n + 1) /\ b[m] <= e[m]
                               /\ blocks[m].end = PostAnchor(doc, e[m])
        /\ \A l, m \in 1..count : l < m => e[l] <= b[m]
        /\ \A i \in 1..n : /\ HasMark(doc[i], "BEGIN") <=> \E m \in 1..count : b[m] = i
                           /\ HasMark(doc[i], "END") <=> \E m \in 1..count : e[m] = i
        /\ \A i \in 1..n :
              /\ Holds(doc, active, i) <=> active[i - 1] \/ HasMark(doc[i], "BEGIN")
              /\ In(i, SliceByMarkers(doc).kept)
                    <=> Holds(doc, active, i) /\ doc[i].text # NoText
    BY FramedMeans
  <1>2. \A i \in 0..n : active[i] <=> \E m \in 1..count : b[m] <= i /\ i < e[m]
    BY OpenBetween DEF Open
  <1>3. \A k \in 1..count :
           /\ s[k] \in 1..(b[k] - 1)
           /\ doc[s[k]].text = blocks[k].start /\ blocks[k].start # NoText
           /\ \A j \in 1..(b[k] - 1) : ~Blank(doc[j]) => j <= s[k]
    BY StartsAbove
  <1>4. IsDoc(doc)
    BY DEF Framed
  <1>5. \A k \in 1..count :
           /\ t[k] \in 1..(n + 1)
           /\ \A j \in (e[k] + 1)..n : ~Blank(doc[j]) => t[k] <= j
           /\ \/ t[k] = n + 1 /\ blocks[k].end = NoText
              \/ t[k] \in (e[k] + 1)..n /\ ~Blank(doc[t[k]]) /\ doc[t[k]].text = blocks[k].end
    BY <1>1, <1>4, EndLineIs
  <1>6. \A j, k \in 1..count : j < k => e[j] < s[k]
    <2> SUFFICES ASSUME NEW j \in 1..count, NEW k \in 1..count, j < k
                 PROVE  e[j] < StartLine(doc, b[k])
      OBVIOUS
    <2>1. \A i \in 0..(b[k] - 1) : active[i] <=> Open(doc, b, e, i)
      BY <1>1, OpenBetween
    <2> QED
      BY <2>1, NoTouch
  <1>7. \A j, k \in 1..count : blocks[j].end # blocks[k].start
    BY DEF Framed, AllOwn
  <1>8. \A i \in 1..n : doc[i].text # NoText \/ (\E kind \in {"BEGIN", "END"} : HasMark(doc[i], kind)) \/ Blank(doc[i])
    <2> SUFFICES ASSUME NEW i \in 1..n, doc[i].text = NoText, ~Blank(doc[i])
                 PROVE  \E kind \in {"BEGIN", "END"} : HasMark(doc[i], kind)
      OBVIOUS
    <2>1. doc[i].marks # <<>>
      BY DEF Blank
    <2>2. doc[i].marks \in Seq({"BEGIN", "END"})
      <3>1. doc[i] \in Line
        BY <1>1, <1>4, WholeList
      <3> QED
        BY <3>1, Zenon DEF Line
    <2> DEFINE marks == doc[i].marks
    <2> HIDE DEF marks
    <2>3. marks # <<>> /\ marks \in Seq({"BEGIN", "END"})
      BY <2>1, <2>2 DEF marks
    <2>4. 1 \in DOMAIN marks /\ marks[1] \in {"BEGIN", "END"}
      BY <2>3
    <2> QED
      BY <2>4 DEF HasMark, ToSet, marks
  <1>9. \A i \in 1..n : doc[i].text # NoText => ~Blank(doc[i])
    BY DEF Blank
  <1> HIDE DEF s, t, count, blocks, n
  <1>10. \A j, k \in 1..count : j < k => t[j] <= s[k] /\ s[k] \in 1..n /\ s[k] < b[k]
    <2> SUFFICES ASSUME NEW j \in 1..count, NEW k \in 1..count, j < k
                 PROVE  t[j] <= s[k] /\ s[k] \in 1..n /\ s[k] < b[k]
      OBVIOUS
    <2>1. s[k] \in 1..n /\ s[k] < b[k] /\ e[j] < s[k] /\ e[j] \in Int
      BY <1>1, <1>3, <1>6
    <2>2. ~Blank(doc[s[k]]) /\ s[k] \in (e[j] + 1)..n
      BY <1>3, <1>9, <2>1
    <2> QED
      BY <1>5, <2>1, <2>2
  <1>11. \A j \in 1..count : t[j] \in 1..n => blocks[j].end # NoText
    <2> SUFFICES ASSUME NEW j \in 1..count, t[j] \in 1..n, doc[t[j]].text = NoText,
                        ~Blank(doc[t[j]]), t[j] > e[j]
                 PROVE  FALSE
      BY <1>1, <1>5
    <2>1. PICK k \in 1..count : b[k] = t[j] \/ e[k] = t[j]
      BY <1>1, <1>8
    <2>2. j < k
      BY <1>1, <2>1
    <2>3. t[j] <= s[k] /\ s[k] \in 1..n /\ s[k] < b[k] /\ b[k] <= e[k] /\ b[k] \in Int /\ e[k] \in Int
      BY <1>1, <1>10, <2>2
    <2> QED
      BY <2>1, <2>3
  <1>12. \A k \in 1..count :
            /\ s[k] \in 1..n /\ t[k] \in 1..(n + 1) /\ s[k] < t[k]
            /\ doc[s[k]].text = blocks[k].start /\ blocks[k].start # NoText
            /\ t[k] <= n => doc[t[k]].text = blocks[k].end /\ blocks[k].end # NoText
            /\ t[k] = n + 1 => blocks[k].end = NoText
    <2> SUFFICES ASSUME NEW k \in 1..count
                 PROVE  /\ s[k] \in 1..n /\ t[k] \in 1..(n + 1) /\ s[k] < t[k]
                        /\ t[k] <= n => doc[t[k]].text = blocks[k].end /\ blocks[k].end # NoText
                        /\ t[k] = n + 1 => blocks[k].end = NoText
      BY <1>3
    <2>1. s[k] \in 1..(b[k] - 1) /\ b[k] \in 1..n /\ e[k] \in 1..(n + 1) /\ b[k] <= e[k]
      BY <1>1, <1>3
    <2>2. CASE t[k] = n + 1 /\ blocks[k].end = NoText
      BY <1>1, <2>1, <2>2
    <2>3. CASE t[k] \in (e[k] + 1)..n /\ ~Blank(doc[t[k]]) /\ doc[t[k]].text = blocks[k].end
      <3>1. t[k] \in 1..n /\ s[k] < t[k] /\ t[k] # n + 1
        BY <1>1, <2>1, <2>3
      <3> QED
        BY <1>1, <1>11, <2>1, <2>3, <3>1
    <2> QED
      BY <1>5, <2>2, <2>3
  <1>13. \A j, k \in 1..count : j < k => t[j] < s[k]
    <2> SUFFICES ASSUME NEW j \in 1..count, NEW k \in 1..count, j < k, t[j] = s[k]
                 PROVE  FALSE
      BY <1>1, <1>10, <1>12
    <2>1. t[j] <= n
      BY <1>1, <1>12
    <2>2. blocks[j].end = blocks[k].start
      BY <1>12, <2>1
    <2> QED
      BY <1>7, <2>2
  <1>14. ASSUME NEW i \in 1..n, doc[i].text # NoText
         PROVE  In(i, SliceByMarkers(doc).kept) <=> \E k \in 1..count : s[k] < i /\ i < t[k]
    <2>1. ~Blank(doc[i])
      BY <1>9, <1>14
    <2>2. In(i, SliceByMarkers(doc).kept) <=> \E k \in 1..count : b[k] <= i /\ i <= e[k]
      <3>1. In(i, SliceByMarkers(doc).kept) <=> active[i - 1] \/ \E k \in 1..count : b[k] = i
        BY <1>1, <1>14
      <3>2. active[i - 1] <=> \E k \in 1..count : b[k] <= i - 1 /\ i - 1 < e[k]
        BY <1>1, <1>2
      <3>3. \A k \in 1..count : b[k] <= i /\ i <= e[k] <=> (b[k] <= i - 1 /\ i - 1 < e[k]) \/ b[k] = i
        BY <1>1
      <3> QED
        BY <3>1, <3>2, <3>3
    <2>3. ASSUME NEW k \in 1..count
          PROVE  b[k] <= i /\ i <= e[k] <=> s[k] < i /\ i < t[k]
      <3>1. /\ s[k] \in 1..(b[k] - 1) /\ b[k] \in 1..n /\ e[k] \in 1..(n + 1) /\ t[k] \in 1..(n + 1)
            /\ t[k] = n + 1 \/ t[k] > e[k]
        BY <1>1, <1>3, <1>5
      <3>2. i < b[k] => i <= s[k]
        BY <1>1, <1>3, <2>1, <3>1
      <3>3. i > e[k] => t[k] <= i
        BY <1>1, <1>5, <2>1, <3>1
      <3> QED
        BY <1>1, <3>1, <3>2, <3>3
    <2> QED
      BY <2>2, <2>3
  <1>15. Cuts(doc, s, t)
    BY <1>12, <1>13, <1>14, Zenon DEF Cuts, count, blocks, n
  <1> QED
    BY <1>15 DEF s, t, count, blocks

-----------------------------------------------------------------------------
(* The report without its markers.                                         *)

\* A list of lines in their order.
Rising(s) == \A a, c \in 1..Len(s) : a < c => s[a] < s[c]

\* Some lines of a report, in their order.
LEMMA InOrderIs ==
    ASSUME NEW doc, IsDoc(doc), NEW lines
    PROVE  /\ InOrder(doc, lines) \in Seq(LineNo(doc)) /\ Rising(InOrder(doc, lines))
           /\ \A x : In(x, InOrder(doc, lines)) <=> x \in lines /\ x \in LineNo(doc)
  <1> DEFINE s == Whole(doc)
             t == InOrder(doc, lines)
  <1>1. /\ Len(doc) \in Nat /\ LineNo(doc) = 1..Len(doc) /\ s \in Seq(LineNo(doc))
        /\ Len(s) = Len(doc) /\ \A i \in LineNo(doc) : s[i] = i
    BY WholeList DEF LineNo
  <1>2. t = Filter(s, lines)
    BY DEF InOrder
  <1> HIDE DEF s, t
  <1>3. Once(s)
    BY <1>1 DEF Once
  <1>4. /\ t \in Seq(LineNo(doc)) /\ \A x : In(x, t) <=> x \in lines /\ In(x, s)
        /\ \A x, y : Precedes(t, x, y) <=> x \in lines /\ y \in lines /\ Precedes(s, x, y)
        /\ Once(t)
    BY <1>1, <1>2, <1>3, FilterMembers
  <1>5. \A x : In(x, s) <=> x \in LineNo(doc)
    BY <1>1 DEF In
  <1>6. \A x, y : Precedes(s, x, y) => x < y
    BY <1>1 DEF Precedes
  <1>7. \A a, c \in 1..Len(t) : a < c => Precedes(t, t[a], t[c])
    BY DEF Precedes
  <1>8. Rising(t)
    BY <1>4, <1>6, <1>7 DEF Rising
  <1> QED
    BY <1>4, <1>5, <1>8 DEF t

\* Two such lists of the same lines are the same.
LEMMA RisingSame ==
    ASSUME NEW n \in Nat, NEW u \in Seq(1..n), NEW v \in Seq(1..n), Rising(u), Rising(v),
           \A x : In(x, u) <=> In(x, v)
    PROVE  u = v
  <1>1. ASSUME NEW s \in Seq(1..n), Rising(s)
        PROVE  Once(s) /\ \A x, y : Precedes(s, x, y) <=> In(x, s) /\ In(y, s) /\ x < y
    <2>1. Len(s) \in Nat /\ \A a \in 1..Len(s) : s[a] \in Int
      OBVIOUS
    <2>2. Once(s)
      <3>1. \A a, c \in 1..Len(s) : a < c \/ c < a \/ a = c
        BY <2>1
      <3> QED
        BY <1>1, <2>1, <3>1 DEF Rising, Once
    <2>3. ASSUME NEW x, NEW y, Precedes(s, x, y)
          PROVE  In(x, s) /\ In(y, s) /\ x < y
      BY <1>1, <2>3 DEF Precedes, In, Rising
    <2>4. ASSUME NEW x, NEW y, In(x, s), In(y, s), x < y
          PROVE  Precedes(s, x, y)
      <3>1. PICK a \in 1..Len(s), c \in 1..Len(s) : s[a] = x /\ s[c] = y
        BY <2>4 DEF In
      <3>2. ~(c < a) /\ c # a
        BY <1>1, <2>1, <2>4, <3>1 DEF Rising
      <3>3. a < c
        BY <2>1, <3>2
      <3> QED
        BY <3>1, <3>3 DEF Precedes
    <2> QED
      BY <2>2, <2>3, <2>4
  <1>2. Once(u) /\ Once(v)
    BY <1>1
  <1>3. \A x, y : Precedes(u, x, y) <=> Precedes(v, x, y)
    BY <1>1
  <1>4. ASSUME NEW i \in 1..Len(u)
        PROVE  i \in 1..Len(v) /\ v[i] = u[i]
    <2>1. PICK j \in 1..Len(v) : v[j] = u[i]
      <3>1. In(u[i], u)
        BY DEF In
      <3>2. In(u[i], v)
        BY <3>1
      <3> QED
        BY <3>2 DEF In
    <2>2. i <= j
      BY <1>2, <1>3, <2>1, NoEarlier
    <2>3. j <= i
      BY <1>2, <1>3, <2>1, NoEarlier
    <2> QED
      BY <2>1, <2>2, <2>3
  <1>5. ASSUME NEW i \in 1..Len(v)
        PROVE  i \in 1..Len(u)
    <2>1. PICK j \in 1..Len(u) : u[j] = v[i]
      <3>1. In(v[i], v)
        BY DEF In
      <3>2. In(v[i], u)
        BY <3>1
      <3> QED
        BY <3>2 DEF In
    <2>2. i <= j
      BY <1>2, <1>3, <2>1, NoEarlier
    <2>3. j <= i
      BY <1>2, <1>3, <2>1, NoEarlier
    <2> QED
      BY <2>1, <2>2, <2>3
  <1>6. Len(u) \in Nat /\ Len(v) \in Nat
    OBVIOUS
  <1>7. Len(u) <= Len(v) /\ Len(v) <= Len(u)
    <2>1. Len(u) # 0 => Len(u) \in 1..Len(u)
      BY <1>6
    <2>2. Len(v) # 0 => Len(v) \in 1..Len(v)
      BY <1>6
    <2> QED
      BY <1>4, <1>5, <1>6, <2>1, <2>2
  <1>8. Len(u) = Len(v)
    BY <1>6, <1>7
  <1>9. u = [i \in 1..Len(u) |-> u[i]] /\ v = [i \in 1..Len(v) |-> v[i]]
    OBVIOUS
  <1> QED
    BY <1>4, <1>8, <1>9

\* The lines that say something.
LEMMA PlainIs ==
    ASSUME NEW doc, IsDoc(doc)
    PROVE  /\ Said(doc) \in Seq(LineNo(doc)) /\ Rising(Said(doc))
           /\ \A x : In(x, Said(doc)) <=> x \in LineNo(doc) /\ doc[x].text # NoText
           /\ IsDoc(Unmarked(doc)) /\ Len(Unmarked(doc)) = Len(Said(doc))
           /\ \A l \in 1..Len(Said(doc)) : /\ Unmarked(doc)[l].text = doc[Said(doc)[l]].text
                                           /\ Unmarked(doc)[l].text \in Texts
                                           /\ Unmarked(doc)[l].marks = <<>>
  <1> DEFINE p == Said(doc)
             spoken == {i \in DOMAIN doc : doc[i].text # NoText}
             line(l) == [text |-> doc[p[l]].text, marks |-> <<>>]
  <1>1. /\ DOMAIN doc = LineNo(doc) /\ \A i \in LineNo(doc) : doc[i].text \in Texts \cup {NoText}
    BY WholeList
  <1>2. p = InOrder(doc, spoken)
    BY DEF Said
  <1>3. /\ p \in Seq(LineNo(doc)) /\ Rising(p)
        /\ \A x : In(x, p) <=> x \in spoken /\ x \in LineNo(doc)
    BY <1>2, InOrderIs
  <1>4. Unmarked(doc) = [l \in DOMAIN p |-> line(l)]
    BY DEF Unmarked
  <1> HIDE DEF p
  <1>5. \A x : In(x, p) <=> x \in LineNo(doc) /\ doc[x].text # NoText
    BY <1>1, <1>3
  <1>6. ASSUME NEW l \in 1..Len(p)
        PROVE  doc[p[l]].text \in Texts
    <2>1. In(p[l], p)
      BY DEF In
    <2> QED
      BY <1>1, <1>5, <2>1
  <1>7. DOMAIN p = 1..Len(p) /\ Len(p) \in Nat
    BY <1>3
  <1>8. \A l \in 1..Len(p) : line(l) \in Line /\ line(l).text = doc[p[l]].text /\ line(l).marks = <<>>
    <2>1. <<>> \in Seq({"BEGIN", "END"})
      OBVIOUS
    <2> QED
      BY <1>6, <2>1 DEF Line
  <1> HIDE DEF line
  <1>9. Unmarked(doc) \in [1..Len(p) -> Line] /\ \A l \in 1..Len(p) : Unmarked(doc)[l] = line(l)
    BY <1>4, <1>7, <1>8
  <1>10. Unmarked(doc) \in Seq(Line) /\ Len(Unmarked(doc)) = Len(p)
    BY <1>7, <1>9
  <1> QED
    BY <1>3, <1>5, <1>6, <1>8, <1>9, <1>10 DEF p, IsDoc

\* No marker is found in it.
LEMMA PlainHasNoMarkers ==
    ASSUME NEW doc, IsDoc(doc), \A i \in LineNo(doc) : doc[i].marks = <<>>
    PROVE  ~SliceByMarkers(doc).found
  <1> DEFINE n == Len(doc)
             A == {st \in Slicing(doc) : ~st.found}
  <1>1. /\ n \in Nat /\ LineNo(doc) = 1..n /\ Len(Whole(doc)) = n
        /\ \A i \in 1..n : Whole(doc)[i] = i
    BY WholeList DEF LineNo
  <1>2. PICK f : /\ f[0] = Unsliced /\ SliceByMarkers(doc) = f[n]
                 /\ \A k \in 1..n : f[k] = TakeLine(doc, f[k - 1], k)
    BY <1>1, LineSteps
  <1> HIDE DEF n
  <1>3. f[0] \in A
    BY <1>2, UnslicedType DEF Unsliced
  <1>4. ASSUME NEW k \in 1..n, f[k - 1] \in A
        PROVE  f[k] \in A
    <2>1. k \in LineNo(doc) /\ f[k - 1] \in Slicing(doc) /\ ~f[k - 1].found /\ f[k] = TakeLine(doc, f[k - 1], k)
      BY <1>1, <1>2, <1>4
    <2>2. f[k] \in Slicing(doc)
      BY <2>1, LineTaken
    <2>3. ~HasMark(doc[k], "BEGIN") /\ ~HasMark(doc[k], "END")
      BY <2>1 DEF HasMark, ToSet
    <2>4. ~f[k].found
      <3> DEFINE st == f[k - 1]
                 open == (st.active \/ HasMark(doc[k], "BEGIN")) /\ ~HasMark(doc[k], "END")
                 found == st.found \/ HasMark(doc[k], "BEGIN") \/ HasMark(doc[k], "END")
                 kept == IF (st.active \/ HasMark(doc[k], "BEGIN")) /\ doc[k].text # NoText
                         THEN Append(st.kept, k) ELSE st.kept
      <3>1. f[k] = [active |-> open, found |-> found, kept |-> kept]
        BY <2>1, Zenon DEF TakeLine
      <3> HIDE DEF open, found, kept
      <3>2. f[k].found = found
        BY <3>1
      <3> QED
        BY <2>1, <2>3, <3>2, Zenon DEF found
    <2> QED
      BY <2>2, <2>4
  <1>5. f[n] \in A
    <2> HIDE DEF A
    <2>1. n \in 0..n
      BY <1>1
    <2> QED
      BY <1>1, <1>3, <1>4, <2>1, Stays DEF Keeps
  <1> QED
    BY <1>2, <1>5

-----------------------------------------------------------------------------
(* The report without its markers, cut by the anchors.                     *)

\* One line of the report says what the anchor says, and no other resembles it.
Sole(doc, base, model, anchor, i) ==
    /\ anchor \in Texts /\ i \in 1..Len(doc)
    /\ \A j \in 1..Len(doc) : Resembles(anchor, doc[j].text, base, model) <=> j = i

\* That line is found, wherever the search begins above it.
LEMMA SoleIsFound ==
    ASSUME NEW doc, IsDoc(doc), NEW base \in Nat \ {0}, NEW model, NEW anchor, NEW i,
           Sole(doc, base, model, anchor, i), NEW from \in Nat \ {0}, from <= i
    PROVE  BestAnchorIndex(doc, anchor, from, base, model) = i
  <1> DEFINE score(j) == Similarity(anchor, doc[j].text, model)
             scored == {j \in from..Len(doc) : score(j) > 0}
             better(j, k) == /\ score(j) >= score(k)
                             /\ score(j) = score(k) => j <= k
             best == CHOOSE j \in scored : \A k \in scored : better(j, k)
             limit == Limit(anchor, base)
  <1>1. /\ Len(doc) \in Nat /\ anchor \in Texts /\ i \in 1..Len(doc)
        /\ \A j \in 1..Len(doc) : doc[j].text \in Texts \cup {NoText}
        /\ \A j \in 1..Len(doc) : Resembles(anchor, doc[j].text, base, model) <=> j = i
    BY WholeList DEF LineNo, Sole
  <1>2. \A j \in 1..Len(doc) : score(j) \in Int
    BY <1>1, SimilarityType
  <1>3. limit \in Nat \ {0}
    BY SlicingAssumption DEF Limit
  <1>4. BestAnchorIndex(doc, anchor, from, base, model) =
           IF scored = {} \/ score(best) < limit THEN 0 ELSE best
    BY Zenon DEF BestAnchorIndex, Limit
  <1>5. \A j \in 1..Len(doc) : score(j) >= limit <=> j = i
    BY <1>1 DEF Resembles, Limit
  <1>6. \A j \in scored : j \in 1..Len(doc)
    BY <1>1
  <1>7. i \in from..Len(doc)
    BY <1>1
  <1> HIDE DEF score, limit
  <1>8. score(i) >= limit /\ score(i) > 0 /\ score(i) \in Int
    BY <1>1, <1>2, <1>3, <1>5
  <1>9. i \in scored
    BY <1>7, <1>8
  <1>10. \A j \in scored : j = i \/ score(j) < score(i)
    BY <1>2, <1>3, <1>5, <1>6, <1>8
  <1> HIDE DEF scored
  <1>11. \A k \in scored : better(i, k)
    BY <1>1, <1>2, <1>6, <1>8, <1>10
  <1>12. \A j \in scored : (\A k \in scored : better(j, k)) => j = i
    <2> SUFFICES ASSUME NEW j \in scored, better(j, i) PROVE j = i
      BY <1>9
    <2> QED
      BY <1>2, <1>6, <1>8, <1>10
  <1> HIDE DEF better
  <1>13. best = i
    BY <1>9, <1>11, <1>12
  <1> HIDE DEF best
  <1>14. ~(score(best) < limit) /\ scored # {}
    BY <1>3, <1>8, <1>9, <1>13
  <1> QED
    BY <1>4, <1>13, <1>14

\* The anchors of the blocks stand in a report in their order, each on a line of
\* its own, and enough is said between the two of a block.
PlainCuts(doc, blocks, base, model, a, z) ==
    /\ \A k \in 1..Len(blocks) :
          /\ a[k] \in 1..Len(doc) /\ z[k] \in 1..(Len(doc) + 1) /\ a[k] < z[k]
          /\ blocks[k].start # NoText /\ Sole(doc, base, model, blocks[k].start, a[k])
          /\ z[k] <= Len(doc) =>
                blocks[k].end # NoText /\ Sole(doc, base, model, blocks[k].end, z[k])
          /\ z[k] = Len(doc) + 1 => blocks[k].end = NoText
          /\ (a[k] + 1)..(z[k] - 1) # {} /\ ~TooShort(doc, (a[k] + 1)..(z[k] - 1))
    /\ \A j, k \in 1..Len(blocks) : j < k => z[j] < a[k]

\* The first segments are applied.
AppliedTo(doc, blocks, a, z, st, k) ==
    /\ st.cursor \in Nat \ {0} /\ \A j \in 1..Len(blocks) : j > k => st.cursor <= a[j]
    /\ st.applied = k
    /\ st.lines = {l \in 1..Len(doc) : \E j \in 1..k : a[j] < l /\ l < z[j]}

\* One segment more.
LEMMA AppliedNext ==
    ASSUME NEW doc, IsDoc(doc), NEW blocks, Len(blocks) \in Nat,
           NEW base \in Nat \ {0}, NEW model, NEW a, NEW z,
           PlainCuts(doc, blocks, base, model, a, z),
           NEW k \in Nat, k + 1 \in 1..Len(blocks), NEW st, AppliedTo(doc, blocks, a, z, st, k)
    PROVE  AppliedTo(doc, blocks, a, z, ApplySegment(doc, base, model, st, blocks[k + 1]), k + 1)
  <1> DEFINE n == Len(doc)
             seg == blocks[k + 1]
             found(anchor, from) == BestAnchorIndex(doc, anchor, from, base, model)
             start == found(seg.start, st.cursor)
             end == found(seg.end, start + 1)
             between == (start + 1)..(end - 1)
             after == (start + 1)..n
             next == ApplySegment(doc, base, model, st, seg)
             closed == [cursor |-> end + 1, applied |-> st.applied + 1,
                        lines |-> st.lines \cup between]
             below == [cursor |-> n + 1, applied |-> st.applied + 1,
                       lines |-> st.lines \cup after]
             A == a[k + 1]
             Z == z[k + 1]
  <1>1. next =
           IF seg.start = NoText THEN st
           ELSE IF start = 0 THEN st
           ELSE IF seg.end # NoText
                THEN IF end = 0 THEN below
                     ELSE IF between = {} \/ TooShort(doc, between)
                          THEN [st EXCEPT !.cursor = end + 1] ELSE closed
           ELSE IF TooShort(doc, after) THEN st
           ELSE below
    BY Zenon DEF ApplySegment
  <1>2. n \in Nat
    BY WholeList
  <1>3. /\ A \in 1..n /\ Z \in 1..(n + 1) /\ A < Z
        /\ seg.start # NoText /\ Sole(doc, base, model, seg.start, A)
        /\ Z <= n => seg.end # NoText /\ Sole(doc, base, model, seg.end, Z)
        /\ Z = n + 1 => seg.end = NoText
        /\ (A + 1)..(Z - 1) # {} /\ ~TooShort(doc, (A + 1)..(Z - 1))
        /\ \A j \in 1..Len(blocks) : a[j] \in 1..n
    BY DEF PlainCuts
  <1>4. \A j \in 1..Len(blocks) : j > k + 1 => Z < a[j]
    BY DEF PlainCuts
  <1>5. /\ st.cursor \in Nat \ {0} /\ st.cursor <= A /\ st.applied = k
        /\ st.lines = {l \in 1..n : \E j \in 1..k : a[j] < l /\ l < z[j]}
    BY DEF AppliedTo
  <1>6. start = A
    BY <1>3, <1>5, SoleIsFound
  <1> HIDE DEF found, start, A, Z, seg, next, n
  <1>7. /\ next.cursor = (IF Z <= n THEN Z + 1 ELSE n + 1) /\ next.applied = k + 1
        /\ next.lines = st.lines \cup ((A + 1)..(Z - 1))
    <2>1. start # 0
      BY <1>2, <1>3, <1>6
    <2>2. CASE Z <= n
      <3>1. end = Z
        <4>1. start + 1 \in Nat \ {0} /\ start + 1 <= Z
          BY <1>2, <1>3, <1>6
        <4> QED
          BY <1>3, <2>2, <4>1, SoleIsFound DEF found
      <3> HIDE DEF end
      <3>2. next = closed /\ between = (A + 1)..(Z - 1)
        <4>1. end # 0
          BY <1>2, <1>3, <3>1
        <4>2. between = (A + 1)..(Z - 1)
          BY <1>6, <3>1
        <4>3. ~(between = {} \/ TooShort(doc, between))
          BY <1>3, <4>2
        <4> HIDE DEF between, closed, below
        <4> QED
          BY <1>1, <1>3, <2>1, <2>2, <4>1, <4>2, <4>3
      <3> HIDE DEF between
      <3>3. next.cursor = end + 1 /\ next.applied = st.applied + 1 /\ next.lines = st.lines \cup between
        BY <3>2
      <3> QED
        BY <1>5, <2>2, <3>1, <3>2, <3>3
    <2>3. CASE Z = n + 1
      <3>1. after = (A + 1)..(Z - 1)
        BY <1>2, <1>6, <2>3
      <3>2. ~TooShort(doc, after)
        BY <1>3, <3>1
      <3> HIDE DEF end, between, after, closed
      <3>3. next = below
        <4> HIDE DEF below
        <4> QED
          BY <1>1, <1>3, <2>1, <2>3, <3>2
      <3>4. next.cursor = n + 1 /\ next.applied = st.applied + 1 /\ next.lines = st.lines \cup after
        BY <3>3
      <3>5. ~(Z <= n)
        BY <1>2, <2>3
      <3> QED
        BY <1>5, <3>1, <3>4, <3>5
    <2>4. Z <= n \/ Z = n + 1
      <3>1. Z \in 1..(n + 1)
        BY <1>3
      <3> QED
        BY <1>2, <3>1
    <2> QED
      BY <2>2, <2>3, <2>4
  <1>8. next.cursor \in Nat \ {0} /\ \A j \in 1..Len(blocks) : j > k + 1 => next.cursor <= a[j]
    <2>1. Z \in 1..(n + 1) /\ next.cursor = (IF Z <= n THEN Z + 1 ELSE n + 1)
      BY <1>3, <1>7
    <2>2. next.cursor \in Nat \ {0} /\ next.cursor <= Z + 1
      BY <1>2, <2>1
    <2>3. ASSUME NEW j \in 1..Len(blocks), j > k + 1
          PROVE  next.cursor <= a[j]
      <3>1. Z < a[j] /\ a[j] \in 1..n
        BY <1>3, <1>4, <2>3
      <3> QED
        BY <1>2, <2>1, <2>2, <3>1
    <2> QED
      BY <2>2, <2>3
  <1>9. next.lines = {l \in 1..n : \E j \in 1..(k + 1) : a[j] < l /\ l < z[j]}
    <2>1. \A j : j \in 1..(k + 1) <=> j \in 1..k \/ j = k + 1
      OBVIOUS
    <2>2. \A l : l \in (A + 1)..(Z - 1) <=> l \in 1..n /\ a[k + 1] < l /\ l < z[k + 1]
      <3>1. A \in 1..n /\ Z \in 1..(n + 1)
        BY <1>3
      <3>2. \A l : l \in (A + 1)..(Z - 1) <=> l \in 1..n /\ A < l /\ l < Z
        BY <1>2, <3>1
      <3> QED
        BY <3>2 DEF A, Z
    <2>3. \A l : l \in next.lines <=> l \in 1..n /\ \E j \in 1..(k + 1) : a[j] < l /\ l < z[j]
      BY <1>5, <1>7, <2>1, <2>2
    <2>4. next.lines \subseteq 1..n
      BY <2>3
    <2> QED
      BY <2>3, <2>4
  <1> QED
    BY <1>7, <1>8, <1>9 DEF AppliedTo, next, seg, n

\* The anchors cut out what is said between them.
LEMMA AnchorsCut ==
    ASSUME NEW doc, IsDoc(doc), NEW blocks \in Seq(SegmentOf),
           NEW base \in Nat \ {0}, NEW model, NEW a, NEW z,
           PlainCuts(doc, blocks, base, model, a, z)
    PROVE  LET cutOut == ApplySegments(doc, blocks, base, model)
           IN  /\ cutOut.applied = Len(blocks)
               /\ cutOut.lines = {l \in 1..Len(doc) :
                                     \E j \in 1..Len(blocks) : a[j] < l /\ l < z[j]}
  <1> DEFINE n == Len(blocks)
             last == ApplySegments(doc, blocks, base, model)
  <1>1. PICK f : /\ f[0] = NothingApplied /\ last = f[n]
                 /\ \A k \in 1..n : f[k] = ApplySegment(doc, base, model, f[k - 1], blocks[k])
    BY SegmentSteps
  <1>2. n \in Nat
    OBVIOUS
  <1> HIDE DEF n, last
  <1> DEFINE P == {k \in 0..n : AppliedTo(doc, blocks, a, z, f[k], k)}
  <1>3. 0 \in P
    <2>1. \A j \in 1..n : a[j] \in Nat \ {0} /\ 1 <= a[j]
      BY WholeList DEF PlainCuts, n
    <2>2. f[0].cursor = 1 /\ f[0].applied = 0 /\ f[0].lines = {}
      BY <1>1 DEF NothingApplied
    <2>3. {} = {l \in 1..Len(doc) : \E j \in 1..0 : a[j] < l /\ l < z[j]}
      OBVIOUS
    <2>4. AppliedTo(doc, blocks, a, z, f[0], 0)
      BY <2>1, <2>2, <2>3 DEF AppliedTo, n
    <2> QED
      BY <1>2, <2>4
  <1>4. ASSUME NEW k \in P, k < n
        PROVE  k + 1 \in P
    <2>1. k \in Nat /\ k + 1 \in 1..n /\ k + 1 \in 0..n /\ (k + 1) - 1 = k
      BY <1>2, <1>4
    <2>2. f[k + 1] = ApplySegment(doc, base, model, f[k], blocks[k + 1])
      BY <1>1, <2>1
    <2>3. AppliedTo(doc, blocks, a, z, f[k], k)
      OBVIOUS
    <2>4. AppliedTo(doc, blocks, a, z, f[k + 1], k + 1)
      BY <1>2, <2>1, <2>2, <2>3, AppliedNext DEF n
    <2> QED
      BY <2>1, <2>4
  <1>5. n \in P
    <2>1. P \in SUBSET (0..n) /\ n \in 0..n
      BY <1>2
    <2> HIDE DEF P
    <2> QED
      BY <1>2, <1>3, <1>4, <2>1, UpTo
  <1>6. AppliedTo(doc, blocks, a, z, last, n)
    BY <1>1, <1>5
  <1> QED
    BY <1>6 DEF AppliedTo, n, last

\* Where a line that says something stands in the report without markers, and
\* what lies behind its end.
At(doc, i) ==
    IF i > Len(doc) THEN Len(Said(doc)) + 1
    ELSE CHOOSE l \in 1..Len(Said(doc)) : Said(doc)[l] = i

\* The lines keep their order there.
LEMMA AtIs ==
    ASSUME NEW doc, IsDoc(doc)
    PROVE  /\ Len(Said(doc)) \in Nat /\ Len(doc) \in Nat /\ LineNo(doc) = 1..Len(doc)
           /\ \A l \in 1..Len(Said(doc)) :
                 /\ Said(doc)[l] \in 1..Len(doc) /\ doc[Said(doc)[l]].text # NoText
                 /\ At(doc, Said(doc)[l]) = l
           /\ \A i \in 1..Len(doc) : doc[i].text # NoText =>
                 /\ At(doc, i) \in 1..Len(Said(doc)) /\ Said(doc)[At(doc, i)] = i
           /\ \A l \in 1..Len(Said(doc)) : \A i \in 1..(Len(doc) + 1) :
                 i = Len(doc) + 1 \/ doc[i].text # NoText =>
                    /\ Said(doc)[l] < i <=> l < At(doc, i)
                    /\ i < Said(doc)[l] <=> At(doc, i) < l
           /\ At(doc, Len(doc) + 1) = Len(Said(doc)) + 1
  <1> DEFINE p == Said(doc)
             n == Len(doc)
             m == Len(p)
  <1>1. n \in Nat /\ LineNo(doc) = 1..n
    BY WholeList DEF LineNo
  <1>2. /\ p \in Seq(1..n) /\ \A a, c \in 1..m : a < c => p[a] < p[c]
        /\ \A x : In(x, p) <=> x \in 1..n /\ doc[x].text # NoText
    BY <1>1, PlainIs DEF Rising
  <1> HIDE DEF p, n
  <1>3. m \in Nat /\ \A l \in 1..m : p[l] \in 1..n
    <2>1. p \in Seq(1..n)
      BY <1>2
    <2>2. \A S : \A q \in Seq(S) : Len(q) \in Nat /\ \A l \in 1..Len(q) : q[l] \in S
      OBVIOUS
    <2> QED
      BY <2>1, <2>2, Zenon
  <1>4. \A l \in 1..m : p[l] \in 1..n /\ doc[p[l]].text # NoText
    BY <1>2 DEF In
  <1>5. \A i : At(doc, i) = IF i > n THEN m + 1 ELSE CHOOSE l \in 1..m : p[l] = i
    BY DEF At, n, p
  <1>6. ASSUME NEW i \in 1..n, doc[i].text # NoText
        PROVE  At(doc, i) \in 1..m /\ p[At(doc, i)] = i
    <2>1. \E l \in 1..m : p[l] = i
      BY <1>2, <1>6 DEF In
    <2>2. ~(i > n)
      BY <1>1
    <2> QED
      BY <1>5, <2>1, <2>2
  <1>7. At(doc, n + 1) = m + 1
    BY <1>1, <1>5
  <1> HIDE DEF m
  <1>8. \A a, c \in 1..m : (a < c <=> p[a] < p[c]) /\ (p[a] = p[c] => a = c)
    <2> SUFFICES ASSUME NEW a \in 1..m, NEW c \in 1..m
                 PROVE  (a < c <=> p[a] < p[c]) /\ (p[a] = p[c] => a = c)
      OBVIOUS
    <2>1. a < c => p[a] < p[c]
      BY <1>2 DEF m
    <2>2. c < a => p[c] < p[a]
      BY <1>2 DEF m
    <2>3. p[a] \in Int /\ p[c] \in Int /\ a \in Int /\ c \in Int
      BY <1>3 DEF m
    <2> QED
      BY <2>1, <2>2, <2>3
  <1>9. ASSUME NEW l \in 1..m
        PROVE  At(doc, p[l]) = l
    <2>1. p[l] \in 1..n /\ doc[p[l]].text # NoText
      BY <1>4 DEF m
    <2> QED
      BY <1>6, <1>8, <2>1
  <1>10. ASSUME NEW l \in 1..m, NEW i \in 1..(n + 1), i = n + 1 \/ doc[i].text # NoText
         PROVE  (p[l] < i <=> l < At(doc, i)) /\ (i < p[l] <=> At(doc, i) < l)
    <2>1. CASE i = n + 1
      BY <1>1, <1>3, <1>7, <2>1 DEF m
    <2>2. CASE i # n + 1
      <3>1. i \in 1..n
        BY <1>1, <2>2
      <3> QED
        BY <1>6, <1>8, <1>10, <2>2, <3>1
    <2> QED
      BY <2>1, <2>2
  <1> QED
    BY <1>1, <1>3, <1>4, <1>6, <1>7, <1>9, <1>10 DEF p, n, m

\* The anchors stand there as they do in the report.
LEMMA PlainIsCut ==
    ASSUME NEW doc, IsDoc(doc), NEW base, NEW model, AllOwn(doc, base, model),
           NEW s, NEW t, Cuts(doc, s, t),
           BigBlocks(Unmarked(doc), MarkerBlocks(doc))
    PROVE  /\ PlainCuts(Unmarked(doc), MarkerBlocks(doc), base, model,
                        [k \in 1..Len(MarkerBlocks(doc)) |-> At(doc, s[k])],
                        [k \in 1..Len(MarkerBlocks(doc)) |-> At(doc, t[k])])
           /\ \A l \in 1..Len(Said(doc)) :
                 In(Said(doc)[l], SliceByMarkers(doc).kept) <=>
                    \E k \in 1..Len(MarkerBlocks(doc)) : At(doc, s[k]) < l /\ l < At(doc, t[k])
  <1> DEFINE blocks == MarkerBlocks(doc)
             count == Len(blocks)
             plain == Unmarked(doc)
             p == Said(doc)
             n == Len(doc)
             m == Len(plain)
             a == [k \in 1..count |-> At(doc, s[k])]
             z == [k \in 1..count |-> At(doc, t[k])]
  <1>1. /\ n \in Nat /\ LineNo(doc) = 1..n /\ m \in Nat /\ m = Len(p)
        /\ \A l \in 1..m : p[l] \in 1..n /\ doc[p[l]].text # NoText
        /\ \A i \in 1..n : doc[i].text # NoText => At(doc, i) \in 1..m /\ p[At(doc, i)] = i
        /\ \A l \in 1..m : \A i \in 1..(n + 1) : i = n + 1 \/ doc[i].text # NoText =>
                    /\ p[l] < i <=> l < At(doc, i)
                    /\ i < p[l] <=> At(doc, i) < l
        /\ At(doc, n + 1) = m + 1
        /\ \A l \in 1..m : At(doc, p[l]) = l
    <2>1. m = Len(p)
      BY PlainIs
    <2>2. /\ n \in Nat /\ LineNo(doc) = 1..n /\ Len(p) \in Nat
          /\ \A l \in 1..Len(p) : /\ p[l] \in 1..n /\ doc[p[l]].text # NoText
                                  /\ At(doc, p[l]) = l
          /\ \A i \in 1..n : doc[i].text # NoText => At(doc, i) \in 1..Len(p) /\ p[At(doc, i)] = i
          /\ \A l \in 1..Len(p) : \A i \in 1..(n + 1) : i = n + 1 \/ doc[i].text # NoText =>
                    /\ p[l] < i <=> l < At(doc, i)
                    /\ i < p[l] <=> At(doc, i) < l
          /\ At(doc, n + 1) = Len(p) + 1
      BY AtIs, Zenon
    <2> HIDE DEF p, n, m
    <2> QED
      BY <2>1, <2>2
  <1>2. /\ DOMAIN plain = 1..m
        /\ \A l \in 1..m : plain[l].text = doc[p[l]].text /\ plain[l].text \in Texts
    <2>1. IsDoc(plain) /\ Len(plain) = Len(p)
      BY PlainIs
    <2>2. DOMAIN plain = 1..m
      <3> HIDE DEF plain
      <3> QED
        BY <2>1 DEF IsDoc
    <2> QED
      BY <2>1, <2>2, PlainIs
  <1>3. /\ \A k \in 1..count :
              /\ s[k] \in 1..n /\ t[k] \in 1..(n + 1) /\ s[k] < t[k]
              /\ doc[s[k]].text = blocks[k].start /\ blocks[k].start # NoText
              /\ t[k] <= n => doc[t[k]].text = blocks[k].end /\ blocks[k].end # NoText
              /\ t[k] = n + 1 => blocks[k].end = NoText
    BY Zenon DEF Cuts
  <1>4. /\ \A j, k \in 1..count : j < k => t[j] < s[k]
        /\ \A i \in 1..n : doc[i].text # NoText =>
              (In(i, SliceByMarkers(doc).kept) <=> \E k \in 1..count : s[k] < i /\ i < t[k])
    BY Zenon DEF Cuts
  <1>5. \A k \in 1..count : /\ Own(doc, base, model, blocks[k].start)
                            /\ blocks[k].end # NoText => Own(doc, base, model, blocks[k].end)
    BY DEF AllOwn
  <1>6. DOMAIN blocks = 1..count
    BY BlocksType
  <1> DEFINE at(x) == CHOOSE i \in DOMAIN plain : plain[i].text = x
             last(x) == IF x.end = NoText THEN Len(plain) ELSE at(x.end) - 1
             lines(x) == (at(x.start) + 1)..last(x)
  <1>7. \A k \in 1..count : lines(blocks[k]) # {} /\ ~TooShort(plain, lines(blocks[k]))
    <2>1. \A k \in DOMAIN blocks : lines(blocks[k]) # {} /\ ~TooShort(plain, lines(blocks[k]))
      BY Zenon DEF BigBlocks
    <2> HIDE DEF lines, blocks
    <2> QED
      BY <1>6, <2>1
  <1> HIDE DEF blocks, plain, p, n, count
  <1>8. ASSUME NEW i \in 1..n, doc[i].text # NoText, Own(doc, base, model, doc[i].text)
        PROVE  /\ Sole(plain, base, model, doc[i].text, At(doc, i))
               /\ at(doc[i].text) = At(doc, i)
    <2> DEFINE x == doc[i].text
               l == At(doc, i)
    <2>1. l \in 1..m /\ p[l] = i /\ plain[l].text = x /\ x \in Texts
      BY <1>1, <1>2, <1>8
    <2>2. \A j \in 1..n : Resembles(x, doc[j].text, base, model) <=> j = i
      <3>1. i \in LineNo(doc)
        BY <1>1
      <3>2. \A j \in LineNo(doc) : Resembles(x, doc[j].text, base, model) <=> j = i
        BY <1>8, <3>1, OwnText
      <3> QED
        BY <1>1, <3>2
    <2> HIDE DEF x, l
    <2>3. ASSUME NEW j \in 1..m
          PROVE  Resembles(x, plain[j].text, base, model) <=> j = l
      <3>1. p[j] = i <=> j = l
        BY <1>1, <2>1 DEF l
      <3> QED
        BY <1>1, <1>2, <2>2, <3>1
    <2>4. \A j \in 1..m : plain[j].text = x => j = l
      BY <2>1, <2>3
    <2>5. at(x) = l
      BY <1>2, <2>1, <2>4
    <2> QED
      BY <2>1, <2>3, <2>5 DEF Sole, x, l
  <1> HIDE DEF m, at
  <1>9. ASSUME NEW k \in 1..count
        PROVE  /\ a[k] \in 1..m /\ z[k] \in 1..(m + 1) /\ a[k] < z[k]
               /\ blocks[k].start # NoText /\ Sole(plain, base, model, blocks[k].start, a[k])
               /\ z[k] <= m => blocks[k].end # NoText /\ Sole(plain, base, model, blocks[k].end, z[k])
               /\ z[k] = m + 1 => blocks[k].end = NoText
               /\ lines(blocks[k]) = (a[k] + 1)..(z[k] - 1)
    <2>1. /\ s[k] \in 1..n /\ t[k] \in 1..(n + 1) /\ s[k] < t[k]
          /\ doc[s[k]].text = blocks[k].start /\ blocks[k].start # NoText
          /\ t[k] <= n => doc[t[k]].text = blocks[k].end /\ blocks[k].end # NoText
          /\ t[k] = n + 1 => blocks[k].end = NoText
          /\ a[k] = At(doc, s[k]) /\ z[k] = At(doc, t[k])
      BY <1>3
    <2> HIDE DEF a, z
    <2>2. a[k] \in 1..m /\ p[a[k]] = s[k]
      BY <1>1, <2>1
    <2>3. Sole(plain, base, model, blocks[k].start, a[k]) /\ at(blocks[k].start) = a[k]
      BY <1>5, <1>8, <2>1
    <2>4. CASE t[k] = n + 1
      <3>1. z[k] = m + 1 /\ blocks[k].end = NoText
        BY <1>1, <2>1, <2>4
      <3>2. last(blocks[k]) = m /\ m = (m + 1) - 1
        BY <1>1, <3>1 DEF m
      <3> QED
        BY <1>1, <2>1, <2>2, <2>3, <3>1, <3>2
    <2>5. CASE t[k] <= n
      <3>1. t[k] \in 1..n /\ doc[t[k]].text = blocks[k].end /\ blocks[k].end # NoText
        BY <1>1, <2>1, <2>5
      <3>2. z[k] \in 1..m /\ p[z[k]] = t[k]
        BY <1>1, <2>1, <3>1
      <3>3. Sole(plain, base, model, blocks[k].end, z[k]) /\ at(blocks[k].end) = z[k]
        BY <1>5, <1>8, <2>1, <3>1
      <3>4. a[k] < z[k]
        BY <1>1, <2>1, <2>2, <3>1
      <3>5. last(blocks[k]) = z[k] - 1
        BY <3>1, <3>3
      <3> QED
        BY <1>1, <2>1, <2>2, <2>3, <3>1, <3>2, <3>3, <3>4, <3>5
    <2>6. t[k] = n + 1 \/ t[k] <= n
      BY <1>1, <2>1
    <2> QED
      BY <2>4, <2>5, <2>6
  <1>10. ASSUME NEW j \in 1..count, NEW k \in 1..count, j < k
         PROVE  z[j] < a[k]
    <2>1. t[j] < s[k] /\ t[j] \in 1..n /\ s[k] \in 1..n
      <3>1. t[j] < s[k] /\ t[j] \in 1..(n + 1) /\ s[k] \in 1..n
        BY <1>3, <1>4, <1>10
      <3> QED
        BY <1>1, <3>1
    <2>2. doc[t[j]].text # NoText /\ doc[s[k]].text # NoText
      <3>1. t[j] <= n
        BY <1>1, <2>1
      <3> QED
        BY <1>3, <3>1
    <2>3. At(doc, t[j]) \in 1..m /\ p[At(doc, t[j])] = t[j]
      BY <1>1, <2>1, <2>2
    <2>4. At(doc, t[j]) < At(doc, s[k])
      BY <1>1, <2>1, <2>2, <2>3
    <2> QED
      BY <2>4
  <1>11. \A k \in 1..count :
            (a[k] + 1)..(z[k] - 1) # {} /\ ~TooShort(plain, (a[k] + 1)..(z[k] - 1))
    BY <1>7, <1>9
  <1>12. ASSUME NEW l \in 1..m
         PROVE  In(p[l], SliceByMarkers(doc).kept) <=>
                   \E k \in 1..count : At(doc, s[k]) < l /\ l < At(doc, t[k])
    <2>1. p[l] \in 1..n /\ doc[p[l]].text # NoText
      BY <1>1
    <2>2. In(p[l], SliceByMarkers(doc).kept) <=> \E k \in 1..count : s[k] < p[l] /\ p[l] < t[k]
      BY <1>4, <2>1
    <2>3. \A k \in 1..count : /\ s[k] < p[l] <=> At(doc, s[k]) < l
                              /\ p[l] < t[k] <=> l < At(doc, t[k])
      <3> SUFFICES ASSUME NEW k \in 1..count
                   PROVE  /\ s[k] < p[l] <=> At(doc, s[k]) < l
                          /\ p[l] < t[k] <=> l < At(doc, t[k])
        OBVIOUS
      <3>1. s[k] \in 1..(n + 1) /\ doc[s[k]].text # NoText
        <4>1. s[k] \in 1..n /\ doc[s[k]].text # NoText
          BY <1>3
        <4> QED
          BY <1>1, <4>1
      <3>2. t[k] \in 1..(n + 1) /\ (t[k] = n + 1 \/ doc[t[k]].text # NoText)
        <4>1. t[k] \in 1..(n + 1) /\ (t[k] <= n => doc[t[k]].text # NoText)
          BY <1>3
        <4> QED
          BY <1>1, <4>1
      <3> QED
        BY <1>1, <3>1, <3>2
    <2> QED
      BY <2>2, <2>3
  <1> HIDE DEF a, z, lines
  <1>13. PlainCuts(plain, blocks, base, model, a, z)
    <2>1. \A k \in 1..Len(blocks) :
             /\ a[k] \in 1..Len(plain) /\ z[k] \in 1..(Len(plain) + 1) /\ a[k] < z[k]
             /\ blocks[k].start # NoText /\ Sole(plain, base, model, blocks[k].start, a[k])
             /\ z[k] <= Len(plain) =>
                   blocks[k].end # NoText /\ Sole(plain, base, model, blocks[k].end, z[k])
             /\ z[k] = Len(plain) + 1 => blocks[k].end = NoText
             /\ (a[k] + 1)..(z[k] - 1) # {} /\ ~TooShort(plain, (a[k] + 1)..(z[k] - 1))
      BY <1>9, <1>11, Zenon DEF m, count
    <2>2. \A j, k \in 1..Len(blocks) : j < k => z[j] < a[k]
      BY <1>10, Zenon DEF count
    <2> QED
      BY <2>1, <2>2, Zenon DEF PlainCuts
  <1> QED
    BY <1>1, <1>12, <1>13 DEF a, z, count, blocks, plain, p, m

\* The same lines are cut out of both, and say the same.
LEMMA SameTexts ==
    ASSUME NEW doc, IsDoc(doc), NEW lines \in SUBSET (1..Len(Unmarked(doc))),
           NEW kept \in Seq(LineNo(doc)), Rising(kept),
           \A x : In(x, kept) => doc[x].text # NoText,
           \A l \in 1..Len(Said(doc)) : In(Said(doc)[l], kept) <=> l \in lines
    PROVE  TextsAt(Unmarked(doc), InOrder(Unmarked(doc), lines)) = TextsAt(doc, kept)
  <1> DEFINE plain == Unmarked(doc)
             p == Said(doc)
             q == InOrder(plain, lines)
             r == [c \in 1..Len(q) |-> p[q[c]]]
             n == Len(doc)
             m == Len(p)
  <1>1. /\ n \in Nat /\ LineNo(doc) = 1..n /\ m \in Nat /\ Len(plain) = m /\ IsDoc(plain)
        /\ \A l \in 1..m : p[l] \in 1..n /\ plain[l].text = doc[p[l]].text
        /\ \A x : In(x, p) <=> x \in 1..n /\ doc[x].text # NoText
    <2>1. n \in Nat /\ LineNo(doc) = 1..n /\ m \in Nat /\ \A l \in 1..m : p[l] \in 1..n
      BY AtIs, Zenon
    <2>2. /\ Len(plain) = m /\ IsDoc(plain)
          /\ \A l \in 1..m : plain[l].text = doc[p[l]].text
          /\ \A x : In(x, p) <=> x \in LineNo(doc) /\ doc[x].text # NoText
      BY PlainIs, Zenon
    <2> HIDE DEF plain, p, n, m
    <2> QED
      BY <2>1, <2>2
  <1>2. \A a, c \in 1..m : a < c => p[a] < p[c]
    BY PlainIs DEF Rising
  <1>3. /\ q \in Seq(1..m) /\ Rising(q)
        /\ \A x : In(x, q) <=> x \in lines /\ x \in 1..m
    <2>1. LineNo(plain) = 1..m
      BY <1>1 DEF LineNo
    <2> HIDE DEF plain, p, m
    <2> QED
      BY <1>1, <2>1, InOrderIs
  <1>4. lines \in SUBSET (1..m)
    BY <1>1
  <1> HIDE DEF plain, p, q, n, m
  <1>5. Len(q) \in Nat /\ DOMAIN q = 1..Len(q) /\ \A c \in 1..Len(q) : q[c] \in 1..m /\ q[c] \in lines
    <2>1. \A S : \A u \in Seq(S) : /\ Len(u) \in Nat /\ DOMAIN u = 1..Len(u)
                                   /\ \A c \in 1..Len(u) : u[c] \in S
      OBVIOUS
    <2>2. \A c \in 1..Len(q) : In(q[c], q)
      BY DEF In
    <2> QED
      BY <1>3, <2>1, <2>2, Zenon
  <1>6. /\ r \in Seq(1..n) /\ Len(r) = Len(q) /\ DOMAIN r = 1..Len(q)
        /\ \A c \in 1..Len(q) : r[c] = p[q[c]]
    BY <1>1, <1>5
  <1> HIDE DEF r
  <1>7. Rising(r)
    <2> SUFFICES ASSUME NEW a \in 1..Len(q), NEW c \in 1..Len(q), a < c
                 PROVE  r[a] < r[c]
      BY <1>6 DEF Rising
    <2>1. q[a] < q[c] /\ q[a] \in 1..m /\ q[c] \in 1..m
      BY <1>3, <1>5 DEF Rising
    <2> QED
      BY <1>2, <1>6, <2>1
  <1>8. ASSUME NEW x
        PROVE  In(x, r) <=> In(x, kept)
    <2>1. ASSUME In(x, r)
          PROVE  In(x, kept)
      <3>1. PICK c \in 1..Len(q) : r[c] = x
        BY <1>6, <2>1 DEF In
      <3>2. q[c] \in 1..m /\ q[c] \in lines /\ x = p[q[c]]
        BY <1>5, <1>6, <3>1
      <3> QED
        BY <3>2 DEF p, m
    <2>2. ASSUME In(x, kept)
          PROVE  In(x, r)
      <3>1. x \in 1..n
        <4>1. \A S : \A u \in Seq(S) : \A c \in 1..Len(u) : u[c] \in S
          OBVIOUS
        <4> QED
          BY <1>1, <2>2, <4>1, Zenon DEF In
      <3>2. In(x, p)
        BY <1>1, <2>2, <3>1
      <3>3. PICK l \in 1..m : p[l] = x
        BY <3>2 DEF In, m
      <3>4. l \in lines
        BY <2>2, <3>3 DEF p, m
      <3>5. PICK c \in 1..Len(q) : q[c] = l
        BY <1>3, <3>4 DEF In
      <3> QED
        BY <1>6, <3>3, <3>5 DEF In
    <2> QED
      BY <2>1, <2>2
  <1>9. r = kept
    <2>1. kept \in Seq(1..n)
      BY <1>1
    <2> QED
      BY <1>1, <1>6, <1>7, <1>8, <2>1, RisingSame
  <1>10. \A c \in 1..Len(q) : plain[q[c]].text = doc[r[c]].text
    BY <1>1, <1>5, <1>6
  <1>11. TextsAt(plain, q) = [c \in 1..Len(q) |-> plain[q[c]].text]
    BY <1>5 DEF TextsAt
  <1>12. TextsAt(doc, r) = [c \in 1..Len(q) |-> doc[r[c]].text]
    BY <1>6 DEF TextsAt
  <1>13. TextsAt(plain, q) = TextsAt(doc, r)
    BY <1>10, <1>11, <1>12
  <1> QED
    BY <1>9, <1>13 DEF plain, q

\* A report and the same report without its markers are cut to the same text.
LEMMA CutsAgree ==
    ASSUME NEW doc, IsDoc(doc), NEW template, template = NoTemplate \/ IsTemplate(template),
           NEW model, SliceForRun(doc, template, model).by = "report_markers",
           MarkerBlocks(doc) = MarkerBlocks(template.file), Paired(doc),
           OwnAnchors(doc, MarkerBlocks(doc), Threshold(template), model),
           BigBlocks(Unmarked(doc), MarkerBlocks(doc))
    PROVE  /\ SliceForRun(Unmarked(doc), template, model).by = "template_anchors"
           /\ TextsAt(Unmarked(doc), SliceForRun(Unmarked(doc), template, model).kept) =
                 TextsAt(doc, SliceForRun(doc, template, model).kept)
  <1> DEFINE marked == SliceByMarkers(doc)
             plain == Unmarked(doc)
             blocks == MarkerBlocks(doc)
             base == Threshold(template)
             count == Len(blocks)
             all(d) == [kept |-> Whole(d), by |-> "none"]
             applied(d) == ApplySegments(d, blocks, base, model)
             slice == SliceForRun(doc, template, model)
             again == SliceForRun(plain, template, model)
  <1>1. \A d : SliceForRun(d, template, model) =
           IF template = NoTemplate THEN all(d)
           ELSE IF MarkersDecide(SliceByMarkers(d))
                THEN [kept |-> SliceByMarkers(d).kept, by |-> "report_markers"]
           ELSE IF blocks = <<>> THEN all(d)
           ELSE ByAnchors(d, count, applied(d))
    BY Zenon DEF SliceForRun, Threshold
  <1>2. \A d, wanted, cutOut : ByAnchors(d, wanted, cutOut).by \in {"none", "template_anchors"}
    BY DEF ByAnchors
  <1>3. template # NoTemplate /\ MarkersDecide(marked) /\ slice.kept = marked.kept
    <2> HIDE DEF blocks, count, applied, base
    <2>1. slice.by = "report_markers"
      OBVIOUS
    <2>2. all(doc).by # "report_markers"
      OBVIOUS
    <2>3. ByAnchors(doc, count, applied(doc)).by # "report_markers"
      BY <1>2
    <2>4. slice =
           IF template = NoTemplate THEN all(doc)
           ELSE IF MarkersDecide(marked)
                THEN [kept |-> marked.kept, by |-> "report_markers"]
           ELSE IF blocks = <<>> THEN all(doc)
           ELSE ByAnchors(doc, count, applied(doc))
      BY <1>1, Zenon
    <2> HIDE DEF slice, all, marked
    <2>5. template # NoTemplate /\ MarkersDecide(marked)
      BY <2>1, <2>2, <2>3, <2>4
    <2> QED
      BY <2>4, <2>5
  <1>4. base \in Nat \ {0}
    <2>1. template.threshold \in Nat
      BY <1>3 DEF IsTemplate
    <2>2. StartMinSim \in 1..100
      BY SlicingAssumption
    <2> QED
      BY <2>1, <2>2 DEF Threshold
  <1>5. PICK b, e : BlockLines(doc, b, e)
    BY BlocksAre
  <1>6. PICK active : /\ ~active[0] /\ \A i \in LineNo(doc) : Follows(doc, active, i)
                      /\ KeptTo(doc, active, marked, Len(doc))
    BY KeptAre
  <1>7. AllOwn(doc, base, model)
    BY AnchorsAreOwn
  <1>8. Framed(doc, base, model, b, e, active)
    BY <1>5, <1>6, <1>7 DEF Framed
  <1>9. PICK s, t : Cuts(doc, s, t)
    BY <1>8, FramedCuts
  <1> DEFINE a == [k \in 1..count |-> At(doc, s[k])]
             z == [k \in 1..count |-> At(doc, t[k])]
  <1>10. /\ PlainCuts(plain, blocks, base, model, a, z)
         /\ \A l \in 1..Len(Said(doc)) :
               In(Said(doc)[l], marked.kept) <=>
                  \E k \in 1..count : At(doc, s[k]) < l /\ l < At(doc, t[k])
    BY <1>7, <1>9, PlainIsCut
  <1>11. IsDoc(plain) /\ blocks \in Seq(SegmentOf) /\ Len(plain) = Len(Said(doc))
         /\ \A i \in LineNo(plain) : plain[i].marks = <<>>
    BY BlocksType, PlainIs DEF LineNo
  <1> DEFINE lines == {l \in 1..Len(plain) : \E k \in 1..count : a[k] < l /\ l < z[k]}
  <1>12. applied(plain).applied = count /\ applied(plain).lines = lines
    <2> HIDE DEF a, z, base, plain, blocks
    <2> QED
      BY <1>4, <1>10, <1>11, AnchorsCut
  <1>13. /\ marked.kept \in Seq(LineNo(doc)) /\ Rising(marked.kept)
         /\ \A x : In(x, marked.kept) => x \in LineNo(doc) /\ doc[x].text # NoText
    <2>1. LineNo(doc) = 1..Len(doc)
      BY DEF LineNo
    <2>2. marked.kept \in Seq(LineNo(doc))
      BY MarkedKept
    <2> HIDE DEF marked
    <2> QED
      BY <1>6, <2>1, <2>2, Zenon DEF KeptTo, Rising
  <1>14. \A l \in 1..Len(Said(doc)) : In(Said(doc)[l], marked.kept) <=> l \in lines
    <2>1. \A k \in 1..count : a[k] = At(doc, s[k]) /\ z[k] = At(doc, t[k])
      OBVIOUS
    <2> HIDE DEF a, z, marked, plain, count
    <2> QED
      BY <1>10, <1>11, <2>1
  <1>15. blocks # <<>>
    <2>1. marked.kept # <<>>
      BY <1>3 DEF MarkersDecide
    <2> DEFINE kept == marked.kept
    <2> HIDE DEF kept
    <2>2. kept # <<>> /\ kept \in Seq(LineNo(doc))
      BY <1>13, <2>1 DEF kept
    <2>3. 1 \in 1..Len(kept)
      BY <2>2
    <2>4. In(kept[1], marked.kept)
      BY <2>3 DEF In, kept
    <2>5. kept[1] \in LineNo(doc) /\ doc[kept[1]].text # NoText
      BY <1>13, <2>4
    <2>6. \E k \in 1..count : s[k] < kept[1] /\ kept[1] < t[k]
      <3>1. \A i \in 1..Len(doc) : doc[i].text # NoText =>
               (In(i, marked.kept) <=> \E k \in 1..count : s[k] < i /\ i < t[k])
        BY <1>9, Zenon DEF Cuts
      <3> QED
        BY <2>4, <2>5, <3>1 DEF LineNo
    <2>7. Len(<<>>) = 0
      OBVIOUS
    <2> HIDE DEF blocks
    <2> QED
      BY <2>6, <2>7
  <1>16. again = [kept |-> InOrder(plain, lines), by |-> "template_anchors"]
    <2>1. ~MarkersDecide(SliceByMarkers(plain))
      BY <1>11, PlainHasNoMarkers DEF MarkersDecide
    <2>2. again = IF template = NoTemplate THEN all(plain)
                  ELSE IF MarkersDecide(SliceByMarkers(plain))
                       THEN [kept |-> SliceByMarkers(plain).kept, by |-> "report_markers"]
                  ELSE IF blocks = <<>> THEN all(plain)
                  ELSE ByAnchors(plain, count, applied(plain))
      BY <1>1, Zenon
    <2> HIDE DEF again, plain, blocks, applied, lines, all
    <2>3. again = ByAnchors(plain, count, applied(plain))
      BY <1>3, <1>15, <2>1, <2>2
    <2>4. count \in Nat
      BY <1>11
    <2>5. ~(applied(plain).applied < count)
      BY <1>12, <2>4
    <2> HIDE DEF count
    <2>6. ByAnchors(plain, count, applied(plain)) =
             [kept |-> InOrder(plain, applied(plain).lines), by |-> "template_anchors"]
      BY <2>5 DEF ByAnchors
    <2> QED
      BY <1>12, <2>3, <2>6
  <1>17. lines \in SUBSET (1..Len(plain))
    OBVIOUS
  <1> HIDE DEF lines, again, slice, marked
  <1>18. TextsAt(plain, InOrder(plain, lines)) = TextsAt(doc, marked.kept)
    BY <1>13, <1>14, <1>17, SameTexts
  <1>19. again.by = "template_anchors" /\ again.kept = InOrder(plain, lines)
    BY <1>16
  <1> QED
    BY <1>3, <1>18, <1>19 DEF again, slice

-----------------------------------------------------------------------------
(* The words of the card.                                                  *)

\* The flags of a result say what the attributes and the event have in common.
LEMMA FlagsMean ==
    ASSUME NEW portal, NEW attrs0, Matchable(portal, attrs0),
           NEW r, IsResult(portal, attrs0, r), r.matched
    PROVE  /\ r.event.delta \in Nat
           /\ "time" \in r.flags => r.event.delta <= DeltaMinutes
           /\ "subdivision" \in r.flags => attrs0.sub # NoSubdivision
           /\ r.method = Method(r.flags)
           /\ r.flags \in SUBSET Flag
  <1>1. PICK e \in DOMAIN portal : /\ r.event = Score(portal, attrs0, e)
                                   /\ r.flags = r.event.flags
                                   /\ r.method = Method(r.event.flags)
    BY DEF IsResult
  <1>2. attrs0.at # NoTime
    BY DEF IsResult
  <1>3. IsScore(r.event)
    BY <1>1, <1>2, SearchableIf, ScoreType DEF Searchable
  <1>4. PICK delta, overlap : Score(portal, attrs0, e)
             = [event |-> e, flags |-> Agreement(attrs0, portal[e], delta, overlap),
                delta |-> delta, overlap |-> overlap]
    BY Zenon DEF Score
  <1>5. /\ r.event.delta = delta
        /\ r.flags = Agreement(attrs0, portal[e], delta, overlap)
    BY <1>1, <1>4
  <1>6. /\ "time" \in Agreement(attrs0, portal[e], delta, overlap) => delta <= DeltaMinutes
        /\ "subdivision" \in Agreement(attrs0, portal[e], delta, overlap)
           => attrs0.sub # NoSubdivision
    <2>1. "time" # "subdivision" /\ "time" # "offenders" /\ "subdivision" # "offenders"
      OBVIOUS
    <2> QED
      BY <2>1 DEF Agreement
  <1> QED
    BY <1>1, <1>3, <1>5, <1>6 DEF IsScore

\* Offenders that are not green have a line, if no two of the event are equal.
LEMMA OffendersReported ==
    ASSUME NEW portal, NEW attrs0, Matchable(portal, attrs0),
           NEW r, IsResult(portal, attrs0, r), r.matched,
           OffenderReport(r, portal) = {},
           IsInjective(portal[r.event.event].people)
    PROVE  OffendersStatus(r) = "green"
  <1> DEFINE people == portal[r.event.event].people
             found == r.found
             c == r.counts
             n == Len(people)
             m == Len(found.pairs)
  <1>1. /\ Told(found.all, people, found)
        /\ c = Counts(found, r.people, people)
        /\ IsList(people)
    <2>1. TellsAll(portal, attrs0, r)
      BY MatchedPeople
    <2> QED
      BY <2>1 DEF TellsAll
  <1>2. /\ \A x \in ToSet(found.possible) : FALSE
        /\ \A i \in found.ambiguous : FALSE
        /\ \A i \in found.missingInPortal : FALSE
        /\ \A o \in found.missingInSvodka : FALSE
    BY DEF OffenderReport
  <1> HIDE DEF people
  <1>3. /\ found.pairs \in Seq(PairOf(found.all, people))
        /\ found.possible \in Seq(PairOf(found.all, people))
        /\ OneToOne(found, people) /\ AllTold(found, people)
    BY <1>1 DEF Told
  <1> HIDE DEF found, c
  <1>4. Len(found.possible) = 0
    <2>1. DOMAIN found.possible = 1..Len(found.possible) /\ Len(found.possible) \in Nat
      BY <1>3
    <2>2. 1 \notin DOMAIN found.possible
      BY <1>2 DEF ToSet
    <2> QED
      BY <2>1, <2>2
  <1>5. /\ c.matched = m /\ c.portal_total = n
        /\ c.dob_mismatch = 0 /\ c.missing_in_portal = 0 /\ c.missing_in_svodka = 0
    <2>1. found.missingInPortal = {} /\ found.missingInSvodka = {}
      BY <1>2
    <2> QED
      BY <1>1, <1>4, <2>1, FS_EmptySet DEF Counts
  <1>6. n \in Nat /\ DOMAIN people = 1..n /\ m \in Nat /\ DOMAIN found.pairs = 1..m
        /\ \A i \in 1..m : found.pairs[i].portal \in 1..n
    <2>1. n \in Nat /\ DOMAIN people = 1..n
      BY <1>1 DEF IsList
    <2>2. m \in Nat /\ DOMAIN found.pairs = 1..m
          /\ \A i \in 1..m : found.pairs[i] \in PairOf(found.all, people)
      BY <1>3
    <2> QED
      BY <2>1, <2>2 DEF PairOf
  <1> HIDE DEF n, m
  <1>7. IsInjective(people)
    BY DEF people
  <1> DEFINE f == [i \in 1..m |-> found.pairs[i].portal]
  <1>8. \A j \in 1..n : \E i \in 1..m : found.pairs[i].portal = j
    <2> SUFFICES ASSUME NEW j \in 1..n
                 PROVE  \E i \in 1..m : found.pairs[i].portal = j
      OBVIOUS
    <2>1. PICK x \in ToSet(found.pairs) : people[x.portal] = people[j]
      BY <1>2, <1>3, <1>6 DEF AllTold
    <2>2. PICK i \in 1..m : x = found.pairs[i]
      BY <1>6, <2>1 DEF ToSet
    <2>3. x.portal \in 1..n
      BY <1>6, <2>2
    <2> QED
      BY <1>6, <1>7, <2>1, <2>2, <2>3 DEF IsInjective
  <1>9. f \in Surjection(1..m, 1..n) /\ f \in Injection(1..m, 1..n)
    <2>1. \A i \in 1..m : found.pairs[i].portal \in 1..n
      BY <1>6
    <2>2. \A i, j \in 1..m : found.pairs[i].portal = found.pairs[j].portal => i = j
      BY <1>6, <1>7, <1>3 DEF OneToOne
    <2> QED
      BY <1>8, <2>1, <2>2 DEF Injection, Surjection, IsInjective
  <1>10. m = n
    <2> HIDE DEF f, m, n
    <2>1. \A k \in Nat : IsFiniteSet(1..k) /\ Cardinality(1..k) = k
      <3> SUFFICES ASSUME NEW k \in Nat
                   PROVE  IsFiniteSet(1..k) /\ Cardinality(1..k) = k
        OBVIOUS
      <3>1. IsFiniteSet(1..k) /\ Cardinality(1..k) = IF 1 > k THEN 0 ELSE k - 1 + 1
        BY FS_Interval
      <3> QED
        BY <3>1
    <2> QED
      BY <1>6, <1>9, <2>1, FS_Surjection
  <1>11. Issues(c) = 0
    BY <1>5 DEF Issues
  <1> QED
    BY <1>5, <1>6, <1>10, <1>11 DEF OffendersStatus, c

\* What the comments say, as far as the colours ask for it.
LEMMA CommentsSay ==
    ASSUME NEW a, NEW p, NEW r, NEW diffs
    PROVE  /\ "no_differences" \in Comments(a, p, r, diffs) => r.matched /\ diffs = {}
           /\ ~r.matched => "not_found" \in Comments(a, p, r, diffs)
           /\ a.sub = NoSubdivision => "no_subdivision" \in Comments(a, p, r, diffs)
           /\ r.matched /\ r.event.delta > TimeErrorMinutes
              => "time_error" \in Comments(a, p, r, diffs)
  <1> DEFINE say(condition, comment) == IF condition THEN {comment} ELSE {}
             law == IF p.best = NoType THEN NoArticle ELSE p.best.row.article
             asClassified == a.article # NoArticle /\ a.article = law
             unnamed == say(a.sub = NoSubdivision, "no_subdivision")
             untimed == say(a.at # NoTime /\ ~a.timeFound, "no_time")
             all == Comments(a, p, r, diffs)
  <1>1. all = IF ~r.matched THEN {"not_found", "search"} \cup unnamed \cup untimed
              ELSE {"matched_of"} \cup unnamed \cup untimed
                   \cup say(diffs = {}, "no_differences")
                   \cup say("subdivision" \in diffs /\ a.sub # NoSubdivision, "subdivision")
                   \cup say("offenders" \in diffs, "offenders")
                   \cup say(r.typeOk = "no", "event_type")
                   \cup say(r.article = "red", "article")
                   \cup say(r.article # "red" /\ ~asClassified, "article_of_classifier")
                   \cup say(~asClassified /\ law # NoArticle, "expected")
                   \cup say(a.article = NoArticle, "no_article")
                   \cup say("date_time" \in diffs, "date_time")
                   \cup say(r.event.delta > TimeErrorMinutes, "time_error")
    BY Zenon DEF Comments
  <1> HIDE DEF all, asClassified, law
  <1> QED
    BY <1>1 DEF all

\* Without a difference every respect agrees that a difference would name.
LEMMA NoDiffs ==
    ASSUME NEW r, r.matched, Diffs(r) = {}
    PROVE  /\ r.typeOk # "no" /\ r.article # "red"
           /\ "subdivision" \in r.flags /\ "offenders" \in r.flags
           /\ r.method # "subdivision+offenders"
  BY DEF Diffs

\* A result found by the time has the time among its flags.
LEMMA FoundByTime ==
    ASSUME NEW flags, Method(flags) # "subdivision+offenders"
    PROVE  "time" \in flags
  BY DEF Method

\* What is red among the colours.
LEMMA RedMeans ==
    ASSUME NEW r, NEW score
    PROVE  /\ TimestampStatus(r) = "red" /\ r.matched /\ r.event.delta \in Nat
              => r.event.delta > TimeErrorMinutes
           /\ SubdivisionStatus(score) = "red" /\ score \in Int => score < YellowThreshold
           /\ OffendersStatus(r) = "red" /\ r.matched /\ r.counts.matched \in Nat
              => r.counts.matched = 0
           /\ TypeStatus(r) = "red" => r.typeOk = "no"
  <1>1. GreenThreshold \in Int /\ YellowThreshold \in Int /\ TimeErrorMinutes \in Nat
    BY SearchAssumption
  <1>2. "red" # "green" /\ "red" # "yellow" /\ "red" # "neutral"
    OBVIOUS
  <1>3. TimestampStatus(r) = "red" /\ r.matched /\ r.event.delta \in Nat
        => r.event.delta > TimeErrorMinutes
    BY <1>1, <1>2 DEF TimestampStatus
  <1>4. SubdivisionStatus(score) = "red" /\ score \in Int => score < YellowThreshold
    BY <1>1, <1>2 DEF SubdivisionStatus
  <1>5. OffendersStatus(r) = "red" /\ r.matched /\ r.counts.matched \in Nat
        => r.counts.matched = 0
    BY <1>2 DEF OffendersStatus
  <1>6. TypeStatus(r) = "red" => r.typeOk = "no"
    BY <1>2 DEF TypeStatus
  <1> QED
    BY <1>3, <1>4, <1>5, <1>6

\* The words of a card agree with its colours.
LEMMA CardAgrees ==
    ASSUME ThresholdsAgree,
           NEW portal, NEW attrs0, Matchable(portal, attrs0),
           NEW r, IsResult(portal, attrs0, r),
           attrs0.sub # NoSubdivision => GoodScore(attrs0.score),
           NEW a, a.sub = attrs0.sub, a.score = attrs0.score,
           NEW p, NEW comments, comments = Comments(a, p, r, Diffs(r)),
           NEW status, status = StatusFields(r, a.score)
    PROVE  /\ "no_differences" \in comments => \A f \in DOMAIN status : status[f] # "red"
           /\ status.timestamp = "red" => "not_found" \in comments \/ "time_error" \in comments
           /\ status.subdivision = "red" => "no_subdivision" \in comments
  <1>1. /\ DOMAIN status = {"timestamp", "subdivision", "offenders", "event_type", "article"}
        /\ status.timestamp = TimestampStatus(r)
        /\ status.subdivision = SubdivisionStatus(a.score)
        /\ status.offenders = OffendersStatus(r)
        /\ status.event_type = TypeStatus(r)
        /\ status.article = r.article
    BY DEF StatusFields
  <1>2. /\ YellowThreshold \in Int /\ DeltaMinutes \in Nat /\ TimeErrorMinutes \in Nat
        /\ AcceptThreshold \in Int
    BY SearchAssumption, SubdivisionAssumption
  <1>3. ASSUME status.subdivision = "red", a.sub # NoSubdivision
        PROVE  FALSE
    <2>1. GoodScore(a.score)
      BY <1>3
    <2>2. a.score \in Int /\ a.score >= YellowThreshold
      BY <1>2, <2>1 DEF GoodScore, ThresholdsAgree
    <2>3. a.score < YellowThreshold
      BY <1>1, <1>3, <2>2, RedMeans
    <2> QED
      BY <1>2, <2>2, <2>3
  <1>4. r.matched => /\ r.event.delta \in Nat
                     /\ "time" \in r.flags => r.event.delta <= DeltaMinutes
                     /\ "subdivision" \in r.flags => a.sub # NoSubdivision
                     /\ r.method = Method(r.flags)
    BY FlagsMean
  <1>5. status.timestamp = "red" /\ r.matched => r.event.delta > TimeErrorMinutes
    BY <1>1, <1>4, RedMeans
  <1>6. ASSUME "no_differences" \in comments
        PROVE  \A f \in DOMAIN status : status[f] # "red"
    <2>1. r.matched /\ Diffs(r) = {}
      BY <1>6, CommentsSay
    <2>2. /\ r.typeOk # "no" /\ r.article # "red"
          /\ "subdivision" \in r.flags /\ "offenders" \in r.flags
          /\ "time" \in r.flags
      BY <1>4, <2>1, NoDiffs, FoundByTime
    <2>3. status.timestamp # "red"
      BY <1>2, <1>4, <1>5, <2>1, <2>2 DEF ThresholdsAgree
    <2>4. status.subdivision # "red"
      BY <1>3, <1>4, <2>1, <2>2
    <2>5. status.offenders # "red"
      <3>1. r.counts.matched > 0
        BY <2>2, PairStays
      <3>2. r.counts.matched \in Nat
        <4>1. TellsAll(portal, attrs0, r)
          BY <2>1, MatchedPeople
        <4>2. r.counts.matched = Len(r.found.pairs)
          BY <4>1 DEF TellsAll, Counts
        <4>3. \E all, people : r.found.pairs \in Seq(PairOf(all, people))
          BY <4>1 DEF TellsAll, Told
        <4>4. Len(r.found.pairs) \in Nat
          BY <4>3
        <4> QED
          BY <4>2, <4>4
      <3> QED
        BY <1>1, <2>1, <3>1, <3>2, RedMeans
    <2>6. status.event_type # "red" /\ status.article # "red"
      BY <1>1, <2>2, RedMeans
    <2> QED
      BY <1>1, <2>3, <2>4, <2>5, <2>6
  <1> QED
    BY <1>3, <1>5, <1>6, CommentsSay

-----------------------------------------------------------------------------
(* What is highlighted.                                                    *)

\* Marks have places in the text, and no two the same place among the marks.
AreMarks(marks) ==
    /\ IsFiniteSet(marks)
    /\ \A x \in marks : IsSpan(x.span) /\ x.at \in Int \X Int
    /\ \A x, y \in marks : x.at = y.at => x = y

InMarkOrder(marks) == {x \in marks \X marks : MarkBefore(x[1], x[2])}

\* Two spans have a character in common.
LEMMA SharedMeans ==
    ASSUME NEW a, IsSpan(a), NEW b, IsSpan(b)
    PROVE  Shared(a, b) <=> a[1] < b[2] /\ b[1] < a[2]
  <1>1. a[1] \in Int /\ a[2] \in Int /\ b[1] \in Int /\ b[2] \in Int
        /\ a[1] < a[2] /\ b[1] < b[2]
    BY DEF IsSpan
  <1> DEFINE low == Min({a[2], b[2]})
             high == Max({a[1], b[1]})
  <1>2. low = IF a[2] <= b[2] THEN a[2] ELSE b[2]
    <2>1. \A x \in {a[2], b[2]} : (\A y \in {a[2], b[2]} : x <= y)
                                     <=> x = IF a[2] <= b[2] THEN a[2] ELSE b[2]
      BY <1>1
    <2>2. \E x \in {a[2], b[2]} : \A y \in {a[2], b[2]} : x <= y
      BY <1>1
    <2>3. low \in {a[2], b[2]} /\ \A y \in {a[2], b[2]} : low <= y
      BY <2>2, Zenon DEF Min
    <2> HIDE DEF low
    <2> QED
      BY <2>1, <2>3
  <1>3. high = IF a[1] >= b[1] THEN a[1] ELSE b[1]
    <2>1. \A x \in {a[1], b[1]} : (\A y \in {a[1], b[1]} : x >= y)
                                     <=> x = IF a[1] >= b[1] THEN a[1] ELSE b[1]
      BY <1>1
    <2>2. \E x \in {a[1], b[1]} : \A y \in {a[1], b[1]} : x >= y
      BY <1>1
    <2>3. high \in {a[1], b[1]} /\ \A y \in {a[1], b[1]} : high >= y
      BY <2>2, Zenon DEF Max
    <2> HIDE DEF high
    <2> QED
      BY <2>1, <2>3
  <1>4. Shared(a, b) <=> low - high > 0
    BY DEF Shared
  <1> HIDE DEF low, high
  <1> QED
    BY <1>1, <1>2, <1>3, <1>4

\* The order of the marks is total.
LEMMA MarksInOrder ==
    ASSUME NEW marks, AreMarks(marks)
    PROVE  Orders(InMarkOrder(marks), marks)
  <1> DEFINE R == InMarkOrder(marks)
  <1>1. \A x \in marks : /\ x.span \in Int \X Int /\ x.at \in Int \X Int
                         /\ Length(x.span) = x.span[2] - x.span[1]
    BY DEF AreMarks, IsSpan, Length
  <1>2. \A x, y \in marks : <<x, y>> \in R <=> MarkBefore(x, y)
    BY DEF InMarkOrder
  <1> HIDE DEF R
  <1>3. ASSUME NEW x \in marks
        PROVE  ~MarkBefore(x, x)
    BY <1>1 DEF MarkBefore
  <1>4. ASSUME NEW x \in marks, NEW y \in marks, x # y
        PROVE  MarkBefore(x, y) \/ MarkBefore(y, x)
    <2>1. x.at # y.at
      BY <1>4 DEF AreMarks
    <2>2. CASE x.span = y.span
      BY <1>1, <2>1, <2>2 DEF MarkBefore
    <2>3. CASE x.span # y.span
      BY <1>1, <2>3 DEF MarkBefore
    <2> QED
      BY <2>2, <2>3
  <1>5. ASSUME NEW x \in marks, NEW y \in marks, NEW z \in marks,
               MarkBefore(x, y), MarkBefore(y, z)
        PROVE  MarkBefore(x, z)
    BY <1>1, <1>5 DEF MarkBefore
  <1>6. Orders(R, marks)
    BY <1>2, <1>3, <1>4, <1>5 DEF Orders
  <1> QED
    BY <1>6 DEF R

\* One mark more.
OneShown(shownSoFar, m) ==
    IF shownSoFar # <<>> /\ m.span[1] < Last(shownSoFar).span[2]
    THEN shownSoFar ELSE Append(shownSoFar, m)

\* What is shown is the last of one list per mark.
LEMMA ShownSteps ==
    ASSUME NEW marks, AreMarks(marks)
    PROVE  LET order == Sorted(marks, InMarkOrder(marks))
           IN  \E f : /\ f[0] = <<>> /\ Shown(marks) = f[Len(order)]
                      /\ \A k \in 1..Len(order) : f[k] = OneShown(f[k - 1], order[k])
  <1> DEFINE order == Sorted(marks, InMarkOrder(marks))
             n == Len(order)
             A == Seq(marks)
             G == [k \in 1..n |-> [t \in A |-> OneShown(t, order[k])]]
             Body(g) == [d \in SUBSET DOMAIN order |->
                           IF d = {} THEN <<>>
                           ELSE OneShown(g[d \ {Max(d)}], order[Max(d)])]
  <1>1. n \in Nat /\ DOMAIN order = 1..n /\ \A k \in 1..n : order[k] \in marks
    <2>1. order \in [1..Cardinality(marks) -> marks] /\ Cardinality(marks) \in Nat
      BY MarksInOrder, Sorting DEF AreMarks
    <2> HIDE DEF order
    <2> QED
      BY <2>1
  <1>2. Shown(marks) = FoldLeft(LAMBDA shownSoFar, m : OneShown(shownSoFar, m), <<>>, order)
    BY Zenon DEF Shown, OneShown, InMarkOrder
  <1> HIDE DEF order
  <1>3. G \in [1..n -> [A -> A]]
    BY <1>1 DEF OneShown
  <1>4. PICK g \in [SUBSET (1..n) -> A] :
           \A d \in SUBSET (1..n) : Unfolds(g, d, n, A, <<>>, G)
    <2>1. <<>> \in A
      OBVIOUS
    <2> HIDE DEF G, A, n
    <2> QED
      BY <1>1, <1>3, <2>1, FoldUnfolds
  <1>5. ASSUME NEW d \in SUBSET (1..n)
        PROVE  g[d] = Body(g)[d]
    <2> HIDE DEF A, n
    <2> QED
      BY <1>1, <1>4 DEF Unfolds
  <1>6. g = Body(g)
    <2> HIDE DEF A, n
    <2> QED
      BY <1>1, <1>5
  <1>7. PICK h : h = Body(h) /\ Shown(marks) = h[DOMAIN order]
    <2> HIDE <1>4, <1>5
    <2> QED
      BY <1>2, <1>6, Zenon DEF FoldLeft, MapThenFoldSet
  <1> HIDE DEF A, G, n
  <1> DEFINE f == [k \in 0..n |-> h[1..k]]
  <1>8. \A d \in SUBSET (1..n) :
           h[d] = IF d = {} THEN <<>>
                  ELSE OneShown(h[d \ {Max(d)}], order[Max(d)])
    BY <1>1, <1>7
  <1>9. f[0] = <<>> /\ Shown(marks) = f[n]
    BY <1>1, <1>7, <1>8
  <1>10. ASSUME NEW k \in 1..n
         PROVE  f[k] = OneShown(f[k - 1], order[k])
    <2>1. Max(1..k) = k /\ (1..k) \ {k} = 1..(k - 1) /\ 1..k # {}
      BY MaxOfInterval
    <2>2. 1..k \in SUBSET (1..n) /\ k \in 0..n /\ k - 1 \in 0..n
      BY <1>1
    <2> QED
      BY <1>1, <1>8, <2>1, <2>2
  <1> QED
    <2> HIDE DEF f
    <2> QED
      BY <1>9, <1>10 DEF n, order

\* x is highlighted, or a mark before it that reaches into it.
Covered(marks, list, x) ==
    \E y \in ToSet(list) : /\ y \in marks
                           /\ y = x \/ (/\ MarkBefore(y, x)
                                        /\ y.span[1] <= x.span[1]
                                        /\ x.span[1] < y.span[2])

\* One step, to the mark m from those until it.
LEMMA OneCovers ==
    ASSUME NEW marks, AreMarks(marks), NEW list \in Seq(marks), NEW m \in marks,
           list # <<>> => MarkBefore(Last(list), m)
    PROVE  LET after == OneShown(list, m)
           IN  /\ after \in Seq(marks) /\ after # <<>>
               /\ Last(after) = m \/ (list # <<>> /\ Last(after) = Last(list))
               /\ ToSet(list) \subseteq ToSet(after)
               /\ Covered(marks, after, m)
  <1>1. \A x \in marks : IsSpan(x.span) /\ x.at \in Int \X Int
    BY DEF AreMarks
  <1>2. CASE list # <<>> /\ m.span[1] < Last(list).span[2]
    <2> DEFINE y == Last(list)
    <2>1. y = list[Len(list)] /\ Len(list) \in DOMAIN list /\ y \in marks
      BY <1>2 DEF Last
    <2>2. y \in ToSet(list)
      BY <2>1 DEF ToSet
    <2>3. m.span[1] < y.span[2] /\ MarkBefore(y, m)
      BY <1>2
    <2> HIDE DEF y
    <2>4. y.span[1] <= m.span[1]
      BY <1>1, <2>1, <2>3 DEF MarkBefore, IsSpan
    <2>5. Covered(marks, list, m)
      BY <2>1, <2>2, <2>3, <2>4 DEF Covered
    <2> QED
      BY <1>2, <2>5 DEF OneShown
  <1>3. CASE ~(list # <<>> /\ m.span[1] < Last(list).span[2])
    <2> DEFINE after == Append(list, m)
    <2>1. OneShown(list, m) = after
      BY <1>3 DEF OneShown
    <2>2. /\ after \in Seq(marks) /\ after # <<>> /\ Last(after) = m
          /\ \A k \in DOMAIN list : k \in DOMAIN after /\ after[k] = list[k]
          /\ Len(after) \in DOMAIN after /\ after[Len(after)] = m
      <3>1. Len(list) \in Nat /\ DOMAIN list = 1..Len(list)
        OBVIOUS
      <3>2. /\ after \in Seq(marks)
            /\ Len(after) = Len(list) + 1 /\ DOMAIN after = 1..Len(after)
            /\ after[Len(list) + 1] = m
            /\ \A k \in 1..Len(list) : after[k] = list[k]
        OBVIOUS
      <3> HIDE DEF after
      <3>3. after # <<>>
        BY <3>1, <3>2
      <3>4. Last(after) = after[Len(after)]
        BY DEF Last
      <3> QED
        BY <3>1, <3>2, <3>3, <3>4
    <2> HIDE DEF after
    <2>3. ToSet(list) \subseteq ToSet(after) /\ m \in ToSet(after)
      BY <2>2 DEF ToSet
    <2>4. Covered(marks, after, m)
      BY <2>3 DEF Covered
    <2> QED
      BY <2>1, <2>2, <2>3, <2>4
  <1> QED
    BY <1>2, <1>3

\* No mark is lost but to one before it that reaches into it.
LEMMA ShownCovers ==
    ASSUME NEW marks, AreMarks(marks)
    PROVE  /\ \A x \in marks : Covered(marks, Shown(marks), x)
           /\ Shown(marks) \in Seq(marks)
  <1> DEFINE order == Sorted(marks, InMarkOrder(marks))
             n == Len(order)
  <1>1. /\ n \in Nat /\ DOMAIN order = 1..n
        /\ \A k \in 1..n : order[k] \in marks
        /\ \A i, j \in 1..n : i < j => MarkBefore(order[i], order[j])
        /\ \A x \in marks : \E i \in 1..n : order[i] = x
    <2> DEFINE R == InMarkOrder(marks)
               c == Cardinality(marks)
    <2>1. IsFiniteSet(marks) /\ Orders(R, marks)
      BY MarksInOrder DEF AreMarks
    <2> HIDE DEF R
    <2>2. /\ c \in Nat
          /\ Sorted(marks, R) \in [1..c -> marks]
          /\ \A i, j \in 1..c : i < j => <<Sorted(marks, R)[i], Sorted(marks, R)[j]>> \in R
          /\ \A x \in marks : \E i \in 1..c : Sorted(marks, R)[i] = x
      BY <2>1, Sorting
    <2> HIDE DEF c
    <2>3. order = Sorted(marks, R)
      BY DEF R
    <2> HIDE DEF order
    <2>4. Len(order) = c /\ DOMAIN order = 1..c
      BY <2>2, <2>3
    <2>5. \A x, y : <<x, y>> \in R => MarkBefore(x, y)
      BY DEF R, InMarkOrder
    <2> QED
      BY <2>2, <2>3, <2>4, <2>5
  <1>2. PICK f : /\ f[0] = <<>> /\ Shown(marks) = f[n]
                 /\ \A k \in 1..n : f[k] = OneShown(f[k - 1], order[k])
    BY ShownSteps
  <1> HIDE DEF order, n
  <1> DEFINE Good(k) == /\ f[k] \in Seq(marks)
                        /\ f[k] # <<>> => \E i \in 1..k : Last(f[k]) = order[i]
                        /\ \A i \in 1..k : Covered(marks, f[k], order[i])
             P == {k \in 0..n : Good(k)}
  <1>3. P \in SUBSET (0..n) /\ 0 \in P
    <2>1. f[0] \in Seq(marks) /\ f[0] = <<>>
      BY <1>2
    <2>2. Good(0) /\ 0 \in 0..n
      BY <1>1, <2>1
    <2> HIDE DEF Good
    <2> QED
      BY <2>2
  <1>4. ASSUME NEW k \in P, k < n
        PROVE  k + 1 \in P
    <2>1. k \in 0..n /\ k + 1 \in 1..n /\ k + 1 \in 0..n /\ (k + 1) - 1 = k /\ Good(k)
      BY <1>1, <1>4
    <2> DEFINE list == f[k]
               m == order[k + 1]
    <2>2. f[k + 1] = OneShown(list, m) /\ m \in marks /\ list \in Seq(marks)
      BY <1>1, <1>2, <2>1
    <2>3. list # <<>> => MarkBefore(Last(list), m)
      <3>1. ASSUME list # <<>>
            PROVE  MarkBefore(Last(list), m)
        <4>1. PICK i \in 1..k : Last(list) = order[i]
          BY <2>1, <3>1
        <4>2. i \in 1..n /\ i < k + 1
          BY <1>1, <2>1
        <4> QED
          BY <1>1, <2>1, <4>1, <4>2
      <3> QED
        BY <3>1
    <2> HIDE DEF list, m
    <2> DEFINE after == OneShown(list, m)
    <2>4. /\ after \in Seq(marks) /\ after # <<>>
          /\ Last(after) = m \/ (list # <<>> /\ Last(after) = Last(list))
          /\ ToSet(list) \subseteq ToSet(after)
          /\ Covered(marks, after, m)
      BY <2>2, <2>3, OneCovers
    <2>5. f[k + 1] = after
      BY <2>2
    <2> HIDE DEF after
    <2>6. \A i \in 1..(k + 1) : i = k + 1 \/ i \in 1..k
      BY <2>1
    <2>7. \A i \in 1..(k + 1) : Covered(marks, after, order[i])
      <3>1. \A i \in 1..k : Covered(marks, list, order[i])
        BY <2>1 DEF list
      <3>2. \A i \in 1..k : Covered(marks, after, order[i])
        BY <2>4, <3>1 DEF Covered
      <3> QED
        BY <2>4, <2>6, <3>2 DEF m
    <2>8. \E i \in 1..(k + 1) : Last(after) = order[i]
      <3>1. k + 1 \in 1..(k + 1) /\ \A i \in 1..k : i \in 1..(k + 1)
        BY <2>1
      <3>2. list # <<>> => \E i \in 1..k : Last(list) = order[i]
        BY <2>1 DEF list
      <3> QED
        BY <2>4, <3>1, <3>2 DEF m
    <2>9. Good(k + 1)
      BY <2>4, <2>5, <2>7, <2>8
    <2> HIDE DEF Good
    <2> QED
      BY <2>1, <2>9
  <1>5. n \in P
    <2>1. n \in 0..n
      BY <1>1
    <2> HIDE DEF P
    <2> QED
      BY <1>1, <1>3, <1>4, <2>1, UpTo
  <1>6. /\ f[n] \in Seq(marks)
        /\ \A i \in 1..n : Covered(marks, f[n], order[i])
    BY <1>5
  <1> HIDE DEF P
  <1> QED
    BY <1>1, <1>2, <1>6

\* A part of the text is not NoSpan.
LEMMA SpanIsSome ==
    ASSUME NEW span, IsSpan(span)
    PROVE  span # NoSpan
  <1>1. span \in Int \X Int
    BY DEF IsSpan
  <1>2. DOMAIN span = 1..2 /\ DOMAIN NoSpan = {}
    BY <1>1 DEF NoSpan
  <1> QED
    BY <1>2

SpanOrNone(span) == span = NoSpan \/ span \in Int \X Int

\* The one element of a set is a mark of something, at a place among the marks.
Single(set, of, at) ==
    /\ \A x \in set : IsSpan(x.span) /\ x.of = of /\ x.at = at
    /\ \A x, y \in set : x = y

\* What is marked is a part of the text.
LEMMA MarkIs ==
    ASSUME NEW span, SpanOrNone(span), NEW css, NEW of, NEW at
    PROVE  /\ Single(Mark(span, css, of, at), of, at)
           /\ \A x \in Mark(span, css, of, at) : x.span = span /\ x.css = css
           /\ IsSpan(span) => Mark(span, css, of, at) # {}
  <1> DEFINE m == [span |-> span, css |-> css, of |-> of, at |-> at]
  <1>1. Mark(span, css, of, at) = IF span = NoSpan THEN {}
                                  ELSE IF Length(span) <= 0 THEN {} ELSE {m}
    BY Zenon DEF Mark
  <1>2. m.span = span /\ m.css = css /\ m.of = of /\ m.at = at
    OBVIOUS
  <1> HIDE DEF m
  <1>3. ASSUME span # NoSpan, ~(Length(span) <= 0)
        PROVE  IsSpan(span)
    BY <1>3 DEF SpanOrNone, Length, IsSpan
  <1>4. ASSUME IsSpan(span)
        PROVE  span # NoSpan /\ ~(Length(span) <= 0)
    BY <1>4, SpanIsSome DEF Length, IsSpan
  <1>5. \/ Mark(span, css, of, at) = {} /\ ~IsSpan(span)
        \/ Mark(span, css, of, at) = {m} /\ IsSpan(span)
    BY <1>1, <1>3, <1>4
  <1> QED
    BY <1>2, <1>5 DEF Single

\* The least of some places after one and not far from it.
LEMMA FirstOfPlaces ==
    ASSUME NEW a, a \in Int, NEW b, b \in Int, NEW S, S \in SUBSET (a..b), S # {}
    PROVE  Min(S) \in Int
  <1> DEFINE R == {p \in S \X S : p[1] <= p[2]}
  <1>1. Compares(R, S)
    BY DEF Compares
  <1>2. IsFiniteSet(S)
    <2>1. IsFiniteSet(a..b)
      BY FS_Interval
    <2> QED
      BY <2>1, FS_Subset
  <1>3. PICK x \in S : Least(R, S, x)
    BY <1>1, <1>2, LeastExists
  <1>4. \A y \in S : x <= y
    BY <1>3 DEF Least
  <1> HIDE DEF R
  <1>5. Min(S) \in S
    BY <1>4, Zenon DEF Min
  <1>6. \A y \in S : y \in Int
    OBVIOUS
  <1> QED
    BY <1>5, <1>6

\* What can be highlighted.
Highlights(text, read) ==
    /\ SpansIn(text)
    /\ read.dateAt # NoDate => read.dateAt.span \in Int \X Int
    /\ read.timeAt # NoDate => read.timeAt.span \in Int \X Int
    /\ IsList(read.people) /\ AreStaff(read.staff)
    /\ \A p \in ToSet(read.people) : p.span = NoSpan \/ IsSpan(p.span)

\* A name is somewhere or nowhere in the text,
LEMMA NameSpanType ==
    ASSUME NEW text, SpansIn(text), NEW p, p.span = NoSpan \/ IsSpan(p.span)
    PROVE  /\ SpanOrNone(NameSpan(text, p))
           /\ IsSpan(p.span) => NameSpan(text, p) = p.span
  <1> DEFINE hits == Filter(text.spelled, {s \in ToSet(text.spelled) : s.key = PersonKey(p)})
  <1>1. IsList(hits) /\ ToSet(hits) \subseteq ToSet(text.spelled)
    BY ListMembers DEF SpansIn
  <1>2. \A s \in ToSet(text.spelled) : IsSpan(s.span)
    BY DEF SpansIn
  <1>3. NameSpan(text, p) = CASE p.span # NoSpan -> p.span
                              [] p.span = NoSpan /\ hits # <<>> -> Head(hits).span
                              [] OTHER -> NoSpan
    BY Zenon DEF NameSpan
  <1> HIDE DEF hits
  <1>4. CASE p.span # NoSpan
    BY <1>3, <1>4 DEF SpanOrNone, IsSpan
  <1>5. CASE p.span = NoSpan /\ hits # <<>>
    <2>1. IsSpan(Head(hits).span)
      BY <1>1, <1>2, <1>5, HeadIsIn
    <2>2. NameSpan(text, p) = Head(hits).span
      BY <1>3, <1>5
    <2> QED
      BY <1>5, <2>1, <2>2, SpanIsSome DEF SpanOrNone, IsSpan
  <1>6. CASE p.span = NoSpan /\ hits = <<>>
    BY <1>3, <1>6, SpanIsSome DEF SpanOrNone
  <1> QED
    BY <1>4, <1>5, <1>6

\* and so is a birth.
LEMMA DobSpanType ==
    ASSUME NEW text, SpansIn(text), NEW p, p.span = NoSpan \/ IsSpan(p.span)
    PROVE  SpanOrNone(DobSpan(text, p))
  <1> DEFINE of(patterns) == {b.at : b \in {b \in text.births : b.pattern \in patterns}}
             inside(starts, size) ==
                 {at \in starts : at >= p.span[2] /\ at + size <= p.span[2] + BirthWindow}
             dates == inside(of({1, 2}) \cup {d.span[1] : d \in ToSet(text.numeric)}, DateChars)
             years(n) == inside(of({n}), YearChars)
             span(starts, size) == <<Min(starts), Min(starts) + size>>
  <1>1. CASE p.span = NoSpan
    BY <1>1, Zenon DEF DobSpan, SpanOrNone
  <1>2. CASE p.span # NoSpan
    <2> DEFINE a == p.span[2]
               near == a..(a + BirthWindow)
    <2>1. a \in Int /\ a + BirthWindow \in Int /\ DateChars \in Nat /\ YearChars \in Nat
      BY <1>2, WindowAssumption DEF IsSpan, DateChars, YearChars
    <2> DEFINE starts == {b.at : b \in text.births} \cup {d.span[1] : d \in ToSet(text.numeric)}
    <2>2. starts \subseteq Int
      BY DEF SpansIn
    <2>3. \A n : of(n) \subseteq starts
      OBVIOUS
    <2>4. {d.span[1] : d \in ToSet(text.numeric)} \subseteq starts
      OBVIOUS
    <2>5. ASSUME NEW S, S \in SUBSET Int, NEW size, size \in Nat, inside(S, size) # {}
          PROVE  span(inside(S, size), size) \in Int \X Int
      <3> DEFINE T == inside(S, size)
      <3>1. T \in SUBSET near
        <4>1. \A at \in T : at \in Int /\ at >= a /\ at + size <= a + BirthWindow
          BY <2>5
        <4> HIDE DEF T, a
        <4>2. \A at \in T : at <= a + BirthWindow
          BY <2>1, <2>5, <4>1
        <4> QED
          BY <2>1, <4>1, <4>2
      <3>2. T # {}
        BY <2>5
      <3> HIDE DEF T
      <3>3. Min(T) \in Int
        BY <2>1, <3>1, <3>2, FirstOfPlaces
      <3>4. span(T, size) \in Int \X Int
        BY <2>5, <3>3
      <3> QED
        BY <3>4 DEF T
    <2> DEFINE all == of({1, 2}) \cup {d.span[1] : d \in ToSet(text.numeric)}
    <2>6. all \in SUBSET Int /\ of({3}) \in SUBSET Int /\ of({4}) \in SUBSET Int
      <3> HIDE DEF starts, of
      <3> QED
        BY <2>2, <2>3, <2>4
    <2>7. DobSpan(text, p) =
             CASE p.span = NoSpan   -> NoSpan
               [] p.span # NoSpan /\ dates # {} -> span(dates, DateChars)
               [] p.span # NoSpan /\ dates = {} /\ years(3) # {} -> span(years(3), YearChars)
               [] p.span # NoSpan /\ dates \cup years(3) = {} /\ years(4) # {} ->
                     span(years(4), YearChars)
               [] OTHER -> NoSpan
      BY Zenon DEF DobSpan
    <2>8. /\ dates = inside(all, DateChars)
          /\ years(3) = inside(of({3}), YearChars) /\ years(4) = inside(of({4}), YearChars)
      OBVIOUS
    <2> HIDE DEF of, all, inside, near
    <2>9. /\ dates # {} => span(dates, DateChars) \in Int \X Int
          /\ years(3) # {} => span(years(3), YearChars) \in Int \X Int
          /\ years(4) # {} => span(years(4), YearChars) \in Int \X Int
      BY <2>1, <2>5, <2>6, <2>8
    <2>10. dates \cup years(3) = {} <=> dates = {} /\ years(3) = {}
      OBVIOUS
    <2> HIDE DEF dates, years, span
    <2>11. CASE dates # {}
      BY <1>2, <2>7, <2>9, <2>11, <2>10 DEF SpanOrNone
    <2>12. CASE dates = {} /\ years(3) # {}
      BY <1>2, <2>7, <2>9, <2>12, <2>10 DEF SpanOrNone
    <2>13. CASE dates = {} /\ years(3) = {} /\ years(4) # {}
      BY <1>2, <2>7, <2>9, <2>13, <2>10 DEF SpanOrNone
    <2>14. CASE dates = {} /\ years(3) = {} /\ years(4) = {}
      BY <1>2, <2>7, <2>9, <2>14, <2>10 DEF SpanOrNone
    <2> QED
      BY <2>11, <2>12, <2>13, <2>14
  <1> QED
    BY <1>1, <1>2

\* Where the marks come from: a date, a time and a subdivision, one mark for each
\* article, two for each person, one for each employee who stands beside the
\* names, and the words closest in meaning to a type of event.
Source(text, a, x) ==
    \/ x.of = "date" /\ x.at = <<1, 1>>
    \/ x.of = "time" /\ x.at = <<2, 1>>
    \/ x.of = "subdivision" /\ x.at = <<3, 1>>
    \/ x.of = "article" /\ \E k \in DOMAIN text.laws : x.at = <<4, k>>
    \/ x.of = "offender" /\ \E k \in DOMAIN a.people : x.at = <<5, 2 * k>>
    \/ x.of = "birth" /\ \E k \in DOMAIN a.people : x.at = <<5, 2 * k + 1>>
    \/ x.of = "staff" /\ \E k \in StaffBeside(a.staff, NamesAt(text, a.people)) :
                            x.at = <<6, k>>
    \/ x.of = "eventpattern" /\ x.at = <<7, 1>>

\* The mark of a name,
OfName(text, a, colours, k, x) ==
    /\ x.of = "offender" /\ x.at = <<5, 2 * k>>
    /\ x.span = NameSpan(text, a.people[k])
    /\ x.css = NameColour(colours, a.people[k])

\* and what is promised of all marks but the last.
StrongMarked(text, a, colours, marks) ==
    /\ \A x \in marks : IsSpan(x.span) /\ Source(text, a, x) /\ x.of # "eventpattern"
    /\ \A x, y \in marks : x.at = y.at => x = y
    /\ \A x \in marks : x.of = "offender" =>
          \E k \in DOMAIN a.people : OfName(text, a, colours, k, x)
    /\ \A k \in DOMAIN a.people : IsSpan(a.people[k].span) =>
          \E x \in marks : OfName(text, a, colours, k, x)
    /\ \A x \in marks, n \in NamesAt(text, a.people) :
          x.of = "staff" => ~Shared(x.span, n)

\* One family of marks after another.
LEMMA StrongMarksAre ==
    ASSUME NEW text, NEW a, Highlights(text, a), NEW r, NEW colours
    PROVE  StrongMarked(text, a, colours, StrongMarks(text, a, r, colours))
  <1> DEFINE when == TimestampStatus(r)
             date == IF a.dateAt = NoDate THEN text.anyDate ELSE a.dateAt.span
             time == IF a.timeAt = NoDate THEN NoSpan ELSE a.timeAt.span
             place == IF a.score = 0 THEN NoSpan ELSE text.place
             people == a.people
             staff == a.staff
             names == NamesAt(text, people)
             beside == StaffBeside(staff, names)
             colour(k) == NameColour(colours, people[k])
             D == Mark(date, when, "date", <<1, 1>>)
             T == Mark(time, when, "time", <<2, 1>>)
             P == Mark(place, SubdivisionStatus(a.score), "subdivision", <<3, 1>>)
             L(k) == Mark(text.laws[k], r.article, "article", <<4, k>>)
             O(k) == Mark(NameSpan(text, people[k]), colour(k), "offender", <<5, 2 * k>>)
             B(k) == Mark(DobSpan(text, people[k]), colour(k), "birth", <<5, 2 * k + 1>>)
             S(k) == Mark(staff[k].span, "green", "staff", <<6, k>>)
             articles == UNION {L(k) : k \in DOMAIN text.laws}
             persons == UNION {O(k) \cup B(k) : k \in DOMAIN people}
             employees == UNION {S(k) : k \in beside}
             all == StrongMarks(text, a, r, colours)
  <1>1. all = D \cup T \cup P \cup articles \cup persons \cup employees
    BY Zenon DEF StrongMarks, PersonMarks
  <1>2. SpanOrNone(date) /\ SpanOrNone(time) /\ SpanOrNone(place)
    BY DEF Highlights, SpansIn, SpanOrNone, IsSpan
  <1>3. \A k \in DOMAIN text.laws : SpanOrNone(text.laws[k])
    BY DEF Highlights, SpansIn, SpanOrNone, IsSpan, ToSet
  <1>4. \A k \in DOMAIN people : people[k].span = NoSpan \/ IsSpan(people[k].span)
    BY DEF Highlights, ToSet
  <1>5. \A k \in DOMAIN people : /\ SpanOrNone(NameSpan(text, people[k]))
                                 /\ SpanOrNone(DobSpan(text, people[k]))
                                 /\ IsSpan(people[k].span)
                                    => NameSpan(text, people[k]) = people[k].span
    BY <1>4, NameSpanType, DobSpanType DEF Highlights
  <1>6. \A k \in DOMAIN staff : SpanOrNone(staff[k].span)
    BY DEF Highlights, AreStaff, SpanOrNone, ToSet
  <1>7. /\ beside \subseteq DOMAIN staff
        /\ \A k \in beside : \A n \in names : ~Shared(staff[k].span, n)
    BY DEF StaffBeside
  <1>8. /\ \A k \in DOMAIN text.laws : k \in Int
        /\ \A k \in DOMAIN people : k \in Int
        /\ \A k \in DOMAIN staff : k \in Int
    BY DEF Highlights, SpansIn, AreStaff, IsList
  <1> HIDE DEF date, time, place
  <1>9. Single(D, "date", <<1, 1>>)
    BY <1>2, MarkIs
  <1>10. Single(T, "time", <<2, 1>>)
    BY <1>2, MarkIs
  <1>11. Single(P, "subdivision", <<3, 1>>)
    BY <1>2, MarkIs
  <1>12. \A k \in DOMAIN text.laws : Single(L(k), "article", <<4, k>>)
    <2> TAKE k \in DOMAIN text.laws
    <2> QED
      BY <1>3, MarkIs
  <1>13. \A k \in DOMAIN people : Single(B(k), "birth", <<5, 2 * k + 1>>)
    <2> TAKE k \in DOMAIN people
    <2> HIDE DEF colour, people
    <2> QED
      BY <1>5, MarkIs
  <1>14. \A k \in DOMAIN people : /\ Single(O(k), "offender", <<5, 2 * k>>)
                                  /\ \A x \in O(k) : OfName(text, a, colours, k, x)
                                  /\ IsSpan(people[k].span) => O(k) # {}
    <2> TAKE k \in DOMAIN people
    <2>1. /\ Single(O(k), "offender", <<5, 2 * k>>)
          /\ \A x \in O(k) : x.span = NameSpan(text, people[k]) /\ x.css = colour(k)
          /\ IsSpan(NameSpan(text, people[k])) => O(k) # {}
      <3> HIDE DEF colour, people
      <3> QED
        BY <1>5, MarkIs
    <2> HIDE DEF O
    <2>2. \A x \in O(k) : x.of = "offender" /\ x.at = <<5, 2 * k>>
      BY <2>1 DEF Single
    <2> QED
      BY <1>5, <2>1, <2>2 DEF OfName
  <1>15. \A k \in beside : /\ Single(S(k), "staff", <<6, k>>)
                           /\ \A x \in S(k) : x.span = staff[k].span
    <2> TAKE k \in beside
    <2> HIDE DEF staff
    <2> QED
      BY <1>6, <1>7, MarkIs
  <1> HIDE DEF D, T, P, L, O, B, S, beside, names, all
  <1>16. \A x : x \in all <=>
            \/ x \in D \/ x \in T \/ x \in P
            \/ \E k \in DOMAIN text.laws : x \in L(k)
            \/ \E k \in DOMAIN people : x \in O(k)
            \/ \E k \in DOMAIN people : x \in B(k)
            \/ \E k \in beside : x \in S(k)
    <2>1. \A x : x \in articles <=> \E k \in DOMAIN text.laws : x \in L(k)
      OBVIOUS
    <2>2. \A x : x \in persons <=> \E k \in DOMAIN people : x \in O(k) \/ x \in B(k)
      OBVIOUS
    <2>3. \A x : x \in employees <=> \E k \in beside : x \in S(k)
      OBVIOUS
    <2> HIDE DEF articles, persons, employees
    <2> QED
      BY <1>1, <2>1, <2>2, <2>3
  <1>17. ASSUME NEW x \in all
         PROVE  IsSpan(x.span) /\ Source(text, a, x) /\ x.of # "eventpattern"
    BY <1>9, <1>10, <1>11, <1>12, <1>13, <1>14, <1>15, <1>16 DEF Source, Single, beside, names
  <1>18. ASSUME NEW x \in all, NEW y \in all, x.at = y.at
         PROVE  x = y
    <2>1. CASE x \in D
      BY <1>8, <1>9, <1>10, <1>11, <1>12, <1>13, <1>14, <1>15, <1>16, <1>18, <2>1 DEF Single
    <2>2. CASE x \in T
      BY <1>8, <1>9, <1>10, <1>11, <1>12, <1>13, <1>14, <1>15, <1>16, <1>18, <2>2 DEF Single
    <2>3. CASE x \in P
      BY <1>8, <1>9, <1>10, <1>11, <1>12, <1>13, <1>14, <1>15, <1>16, <1>18, <2>3 DEF Single
    <2>4. CASE \E k \in DOMAIN text.laws : x \in L(k)
      BY <1>8, <1>9, <1>10, <1>11, <1>12, <1>13, <1>14, <1>15, <1>16, <1>18, <2>4 DEF Single
    <2>5. CASE \E k \in DOMAIN people : x \in O(k)
      BY <1>8, <1>9, <1>10, <1>11, <1>12, <1>13, <1>14, <1>15, <1>16, <1>18, <2>5 DEF Single
    <2>6. CASE \E k \in DOMAIN people : x \in B(k)
      BY <1>8, <1>9, <1>10, <1>11, <1>12, <1>13, <1>14, <1>15, <1>16, <1>18, <2>6 DEF Single
    <2>7. CASE \E k \in beside : x \in S(k)
      BY <1>8, <1>9, <1>10, <1>11, <1>12, <1>13, <1>14, <1>15, <1>16, <1>18, <2>7 DEF Single
    <2> QED
      BY <1>16, <2>1, <2>2, <2>3, <2>4, <2>5, <2>6, <2>7
  <1>19. ASSUME NEW x \in all, x.of = "offender"
         PROVE  \E k \in DOMAIN people : OfName(text, a, colours, k, x)
    BY <1>9, <1>10, <1>11, <1>12, <1>13, <1>14, <1>15, <1>16, <1>19 DEF Single
  <1>20. ASSUME NEW k \in DOMAIN people, IsSpan(people[k].span)
         PROVE  \E x \in all : OfName(text, a, colours, k, x)
    <2>1. O(k) \subseteq all
      BY <1>16
    <2> QED
      BY <1>14, <1>20, <2>1
  <1>21. ASSUME NEW x \in all, x.of = "staff", NEW n \in names
         PROVE  ~Shared(x.span, n)
    <2>1. PICK k \in beside : x \in S(k)
      BY <1>9, <1>10, <1>11, <1>12, <1>13, <1>14, <1>15, <1>16, <1>21 DEF Single
    <2> QED
      BY <1>7, <1>15, <2>1
  <1> QED
    BY <1>17, <1>18, <1>19, <1>20, <1>21 DEF StrongMarked, all, names

\* Finitely many places, each for a few marks.
LEMMA GridIsFinite ==
    ASSUME NEW n \in Nat, NEW m \in Nat
    PROVE  IsFiniteSet((0..n) \X (0..m))
  <1>1. IsFiniteSet(0..n)
    BY FS_Interval
  <1>2. IsFiniteSet(0..m)
    BY FS_Interval
  <1> QED
    BY <1>1, <1>2, FS_Product

\* There are only so many marks, each in a place of its own.
LEMMA SourcesAreFew ==
    ASSUME NEW text, NEW a, Highlights(text, a), NEW marks,
           \A x \in marks : Source(text, a, x),
           \A x, y \in marks : x.at = y.at => x = y
    PROVE  IsFiniteSet(marks) /\ \A x \in marks : x.at \in Int \X Int
  <1> DEFINE l == Len(text.laws)
             n == Len(a.people)
             s == Len(a.staff)
             m == l + 2 * n + 1 + s
             grid == (0..7) \X (0..m)
             f == [x \in marks |-> x.at]
  <1>1. /\ l \in Nat /\ DOMAIN text.laws = 1..l
        /\ n \in Nat /\ DOMAIN a.people = 1..n
        /\ s \in Nat /\ DOMAIN a.staff = 1..s
    BY DEF Highlights, SpansIn, AreStaff, IsList
  <1> HIDE DEF l, n, s
  <1>2. m \in Nat /\ m >= 1
    BY <1>1
  <1>3. IsFiniteSet(grid)
    <2> HIDE DEF m
    <2> QED
      BY <1>2, GridIsFinite
  <1>4. \A k \in StaffBeside(a.staff, NamesAt(text, a.people)) : k \in DOMAIN a.staff
    BY DEF StaffBeside
  <1>5. \A x \in marks : x.at \in grid
    <2> TAKE x \in marks
    <2>1. Source(text, a, x)
      OBVIOUS
    <2>2. /\ \A k \in 1..l : k \in 0..m
          /\ \A k \in 1..n : 2 * k \in 0..m /\ 2 * k + 1 \in 0..m
          /\ \A k \in 1..s : k \in 0..m
      BY <1>1
    <2>3. 1 \in 0..m
      BY <1>2
    <2> HIDE DEF m
    <2>4. \E i \in 0..7, j \in 0..m : x.at = <<i, j>>
      BY <1>1, <1>4, <2>1, <2>2, <2>3 DEF Source
    <2> QED
      BY <2>4
  <1>6. f \in Injection(marks, grid)
    <2>1. f \in [marks -> grid]
      <3> HIDE DEF grid
      <3> QED
        BY <1>5
    <2>2. \A x, y \in marks : f[x] = f[y] => x = y
      OBVIOUS
    <2> HIDE DEF f, grid
    <2> QED
      BY <2>1, <2>2 DEF Injection, IsInjective
  <1>7. IsFiniteSet(marks)
    <2> HIDE DEF f, grid
    <2> QED
      BY <1>3, <1>6, FS_Injection
  <1>8. \A at \in grid : at \in Int \X Int
    BY <1>2
  <1> HIDE DEF grid
  <1> QED
    BY <1>5, <1>7, <1>8

\* All marks: the words closest in meaning share with none of the others.
LEMMA HighlightsAre ==
    ASSUME NEW text, NEW a, Highlights(text, a), NEW p, NEW r, NEW colours
    PROVE  LET strong == StrongMarks(text, a, r, colours)
               marks == HighlightSpans(text, a, p, r, colours)
           IN  /\ AreMarks(marks)
               /\ strong \subseteq marks
               /\ \A x \in marks \ strong : /\ x.of = "eventpattern"
                                            /\ \A y \in strong : ~Shared(x.span, y.span)
  <1> DEFINE strong == StrongMarks(text, a, r, colours)
             marks == HighlightSpans(text, a, p, r, colours)
             closest == Mark(text.closest, "green", "eventpattern", <<7, 1>>)
             free == \A m \in strong : ~Shared(text.closest, m.span)
             byMeaning == p.best # NoType /\ p.best.fragment = NoFragment
  <1>1. marks = strong \cup IF byMeaning /\ text.closest # NoSpan /\ free
                            THEN closest ELSE {}
    BY Zenon DEF HighlightSpans
  <1>2. SpanOrNone(text.closest)
    BY DEF Highlights, SpansIn, SpanOrNone, IsSpan
  <1>3. /\ Single(closest, "eventpattern", <<7, 1>>)
        /\ \A x \in closest : x.span = text.closest
    BY <1>2, MarkIs
  <1>4. StrongMarked(text, a, colours, strong)
    BY StrongMarksAre
  <1> HIDE DEF strong, marks, closest, byMeaning
  <1>5. /\ \A x \in strong : IsSpan(x.span) /\ Source(text, a, x) /\ x.of # "eventpattern"
        /\ \A x, y \in strong : x.at = y.at => x = y
    BY <1>4 DEF StrongMarked
  <1>6. \A x \in marks \ strong : x \in closest /\ free
    BY <1>1
  <1>7. /\ \A x \in marks : IsSpan(x.span) /\ Source(text, a, x)
        /\ \A x \in marks \ strong : x.of = "eventpattern" /\ x.at = <<7, 1>>
    BY <1>3, <1>5, <1>6 DEF Single, Source
  <1>8. \A x \in strong : x.at[1] # 7
    BY <1>5 DEF Source
  <1>9. ASSUME NEW x \in marks, NEW y \in marks, x.at = y.at
        PROVE  x = y
    <2>1. CASE x \in strong /\ y \in strong
      BY <1>5, <1>9, <2>1
    <2>2. CASE x \in strong /\ y \notin strong
      BY <1>7, <1>8, <1>9, <2>2
    <2>3. CASE x \notin strong /\ y \in strong
      BY <1>7, <1>8, <1>9, <2>3
    <2>4. CASE x \notin strong /\ y \notin strong
      BY <1>3, <1>6, <2>4 DEF Single
    <2> QED
      BY <2>1, <2>2, <2>3, <2>4
  <1>10. IsFiniteSet(marks) /\ \A x \in marks : x.at \in Int \X Int
    BY <1>7, <1>9, SourcesAreFew
  <1>11. AreMarks(marks)
    BY <1>7, <1>9, <1>10 DEF AreMarks
  <1>12. strong \subseteq marks
    BY <1>1
  <1>13. \A x \in marks \ strong : \A y \in strong : ~Shared(x.span, y.span)
    BY <1>3, <1>6
  <1> QED
    BY <1>7, <1>11, <1>12, <1>13 DEF strong, marks

\* The name of somebody before whom nobody without a place is listed: where it
\* stands something is highlighted that is no employee and no words about the
\* type, and that is red if it is the name itself.
LEMMA NameIsShown ==
    ASSUME NEW text, NEW a, Highlights(text, a), NEW p, NEW r, NEW colours,
           NEW k \in DOMAIN a.people,
           \A j \in DOMAIN a.people : j <= k => IsSpan(a.people[j].span),
           \A j \in DOMAIN a.people :
               a.people[j].span = a.people[k].span => NameColour(colours, a.people[j]) = "red"
    PROVE  \E x \in ToSet(Shown(HighlightSpans(text, a, p, r, colours))) :
              /\ Shared(x.span, a.people[k].span)
              /\ x.of \notin {"staff", "eventpattern"}
              /\ x.of = "offender" /\ x.span = a.people[k].span => x.css = "red"
  <1> DEFINE strong == StrongMarks(text, a, r, colours)
             marks == HighlightSpans(text, a, p, r, colours)
             span == a.people[k].span
  <1>1. /\ AreMarks(marks)
        /\ strong \subseteq marks
        /\ \A x \in marks \ strong : /\ x.of = "eventpattern"
                                     /\ \A y \in strong : ~Shared(x.span, y.span)
    BY HighlightsAre
  <1>2. StrongMarked(text, a, colours, strong)
    BY StrongMarksAre
  <1> HIDE DEF strong, marks
  <1>3. /\ k \in Int /\ IsSpan(span)
        /\ \A j \in DOMAIN a.people : j \in Int
        /\ \A j \in DOMAIN a.people : a.people[j].span = NoSpan \/ IsSpan(a.people[j].span)
    BY DEF Highlights, IsList, ToSet
  <1>4. ASSUME NEW j \in DOMAIN a.people, IsSpan(a.people[j].span)
        PROVE  NameSpan(text, a.people[j]) = a.people[j].span
    BY <1>4, NameSpanType DEF Highlights
  <1>5. PICK m \in strong : OfName(text, a, colours, k, m)
    BY <1>2, <1>3 DEF StrongMarked
  <1>6. m.span = span /\ m.at = <<5, 2 * k>> /\ m.css = "red" /\ m.of = "offender"
    BY <1>3, <1>4, <1>5 DEF OfName
  <1>7. PICK x \in ToSet(Shown(marks)) :
           /\ x \in marks
           /\ x = m \/ (/\ MarkBefore(x, m)
                        /\ x.span[1] <= m.span[1]
                        /\ m.span[1] < x.span[2])
    <2>1. Covered(marks, Shown(marks), m)
      BY <1>1, <1>5, ShownCovers
    <2> QED
      BY <2>1 DEF Covered
  <1>8. IsSpan(x.span)
    BY <1>1, <1>7 DEF AreMarks
  <1>9. Shared(x.span, span)
    <2>1. x.span[1] < span[2] /\ span[1] < x.span[2]
      BY <1>3, <1>6, <1>7, <1>8 DEF IsSpan
    <2> HIDE DEF span
    <2> QED
      BY <1>3, <1>8, <2>1, SharedMeans
  <1>10. x \in strong
    BY <1>1, <1>5, <1>6, <1>7, <1>9
  <1>11. x.of # "eventpattern"
    BY <1>2, <1>10 DEF StrongMarked
  <1>12. x.of # "staff"
    <2>1. span \in NamesAt(text, a.people)
      BY <1>3, <1>4, SpanIsSome DEF NamesAt
    <2> QED
      BY <1>2, <1>9, <1>10, <2>1 DEF StrongMarked
  <1>13. ASSUME x.of = "offender", x.span = span
         PROVE  x.css = "red"
    <2>1. CASE x = m
      BY <1>6, <2>1
    <2>2. CASE x # m
      <3>1. PICK j \in DOMAIN a.people : OfName(text, a, colours, j, x)
        BY <1>2, <1>10, <1>13 DEF StrongMarked
      <3>2. x.at = <<5, 2 * j>> /\ MarkBefore(x, m) /\ x.span = m.span
        BY <1>6, <1>7, <1>13, <2>2, <3>1 DEF OfName
      <3>3. x.at[1] = 5 /\ x.at[2] = 2 * j /\ m.at[1] = 5 /\ m.at[2] = 2 * k
        BY <1>6, <3>2
      <3>4. j < k
        <4>1. ~(x.span[1] < m.span[1]) /\ ~(Length(x.span) > Length(m.span))
          BY <1>3, <1>6, <1>13 DEF IsSpan, Length
        <4>2. x.at[2] < m.at[2]
          BY <3>2, <3>3, <4>1 DEF MarkBefore
        <4> QED
          BY <1>3, <3>3, <4>2
      <3>5. IsSpan(a.people[j].span)
        BY <1>3, <3>4
      <3>6. a.people[j].span = span
        BY <1>4, <1>13, <3>1, <3>5 DEF OfName
      <3> QED
        BY <3>1, <3>6 DEF OfName
    <2> QED
      BY <2>1, <2>2
  <1> QED
    BY <1>7, <1>9, <1>11, <1>12, <1>13 DEF marks

\* Whoever the portal does not have has a line in the report.
LEMMA MissingIsReported ==
    ASSUME NEW r, r.matched, NEW portal, NEW i, i \in r.found.missingInPortal
    PROVE  <<"missing_in_portal", PersonKey(r.found.all[i])>> \in OffenderReport(r, portal)
  BY DEF OffenderReport

\* After the match there is something to highlight, and the names that were
\* extracted come first.
LEMMA MatchedHighlights ==
    ASSUME Bound, stage = "matched", result.matched
    PROVE  LET before == ExtractAttributes(case)
           IN  /\ Highlights(case.text, attrs)
               /\ \A k \in 1..Len(before.people) :
                     /\ k \in DOMAIN attrs.people
                     /\ attrs.people[k] = before.people[k]
                     /\ IsSpan(attrs.people[k].span)
  <1> DEFINE before == ExtractAttributes(case)
             when == DateTime(case.text)
  <1>1. PICK kind \in DOMAIN Cases : case \in Cases[kind]
    BY DEF Bound
  <1>2. SpansIn(case.text) /\ DatesIn(case.text)
    BY <1>1, CasesAssumption
  <1>3. /\ Matchable(case.portal, before)
        /\ before.dateAt = when.date /\ before.timeAt = when.time
        /\ {"people", "staff"} \subseteq DOMAIN before
    BY <1>1, ExtractedType
  <1>4. IsResult(case.portal, before, result)
    BY <1>3, MatchResult DEF Bound
  <1>5. PlacesStay(before, result)
    BY <1>3, <1>4, MatchedPlaces
  <1>6. /\ when.date # NoDate => when.date.span \in Int \X Int
        /\ when.time # NoDate => when.time.span \in Int \X Int
    BY <1>2, WhenItWas
  <1>7. attrs = [before EXCEPT !.people = result.people, !.staff = result.staff]
    BY DEF Bound
  <1> HIDE DEF before, when
  <1>8. /\ attrs.people = result.people /\ attrs.staff = result.staff
        /\ attrs.dateAt = before.dateAt /\ attrs.timeAt = before.timeAt
    <2>1. {"dateAt", "timeAt"} \subseteq DOMAIN before
      BY DEF before, ExtractAttributes, Extracted
    <2> QED
      BY <1>3, <1>7, <2>1
  <1>9. IsList(before.people) /\ \A p \in ToSet(before.people) : IsSpan(p.span)
    BY <1>3 DEF Matchable, ArePeople
  <1>10. Highlights(case.text, attrs)
    BY <1>2, <1>3, <1>5, <1>6, <1>8, <1>9 DEF Highlights, PlacesStay
  <1>11. ASSUME NEW k \in 1..Len(before.people)
         PROVE  /\ k \in DOMAIN attrs.people
                /\ attrs.people[k] = before.people[k]
                /\ IsSpan(attrs.people[k].span)
    <2>1. /\ Len(before.people) <= Len(attrs.people)
          /\ attrs.people[k] = before.people[k]
          /\ IsList(attrs.people)
      BY <1>5, <1>8 DEF PlacesStay, GoesOn
    <2>2. /\ DOMAIN attrs.people = 1..Len(attrs.people) /\ Len(attrs.people) \in Nat
          /\ DOMAIN before.people = 1..Len(before.people) /\ Len(before.people) \in Nat
      BY <1>9, <2>1 DEF IsList
    <2>3. before.people[k] \in ToSet(before.people)
      BY <2>2 DEF ToSet
    <2> QED
      BY <1>9, <2>1, <2>2, <2>3
  <1> QED
    BY <1>10, <1>11 DEF before

-----------------------------------------------------------------------------
(* The theorems.                                                           *)

\* One pair for a mention, and for an offender if no two are equal.
THEOREM OnePairEach == Spec => []PairsOneToOne
  <1>1. ASSUME Bound
        PROVE  PairsOneToOne
    <2> SUFFICES ASSUME stage = "matched", result.matched
                 PROVE  OneToOne(result.found, EventPeople)
      BY DEF PairsOneToOne, OneToOne
    <2>1. TellsAll(case.portal, ExtractAttributes(case), result)
      BY <1>1, MatchedIsJudged, JudgedPeople
    <2> QED
      BY <2>1 DEF TellsAll, Told, EventPeople
  <1> QED
    BY <1>1, AlwaysBound, PTL

\* The pairing is maximal.
THEOREM NobodyIsLeft == Spec => []NoPairIsLeft
  <1>1. ASSUME Bound
        PROVE  NoPairIsLeft
    <2> SUFFICES ASSUME stage = "matched", result.matched
                 PROVE  LET pairs == ToSet(result.found.pairs)
                        IN  \A i \in DOMAIN result.found.all \ {x.mention : x \in pairs},
                               j \in DOMAIN EventPeople \ {x.portal : x \in pairs} :
                              \/ NameMatch(result.found.all[i], EventPeople[j]) = "none"
                              \/ ~DobCompatible(result.found.all[i].dob, EventPeople[j].dob)
      BY Zenon DEF NoPairIsLeft
    <2>1. TellsAll(case.portal, ExtractAttributes(case), result)
      BY <1>1, MatchedIsJudged, JudgedPeople
    <2>2. NoneLeft(result.found, EventPeople)
      BY <2>1 DEF TellsAll, Told, EventPeople
    <2> DEFINE pairs == result.found.pairs
    <2>3. {x.mention : x \in ToSet(pairs)} = MentionsOf(pairs)
          /\ {x.portal : x \in ToSet(pairs)} = PortalsOf(pairs)
      BY DEF ToSet, MentionsOf, PortalsOf
    <2> QED
      BY <2>2, <2>3 DEF NoneLeft, Fits
  <1> QED
    BY <1>1, AlwaysBound, PTL

\* Green offenders hide nobody.
THEOREM GreenHidesNobody == Spec => []GreenOffendersAreComplete
  <1>1. ASSUME Bound
        PROVE  GreenOffendersAreComplete
    <2> SUFFICES ASSUME stage = "matched", shown.status.offenders = "green"
                 PROVE  LET found == result.found
                            pairs == ToSet(found.pairs)
                        IN  /\ ToSet(EventPeople) \subseteq {EventPeople[x.portal] : x \in pairs}
                            /\ \A i \in DOMAIN found.all :
                                  \/ MentionKey(found.all[i])
                                        \in {MentionKey(found.all[x.mention]) : x \in pairs}
                                  \/ i \in found.ambiguous
      BY Zenon DEF GreenOffendersAreComplete
    <2>1. Judged
      BY <1>1, MatchedIsJudged
    <2> QED
      BY <2>1, GreenIsComplete DEF Judged, EventPeople
  <1> QED
    BY <1>1, AlwaysBound, PTL

\* An event chosen for its offenders has a pair.
THEOREM ChosenHasPair == Spec => []MatchedByOffendersHasPair
  <1>1. ASSUME Bound
        PROVE  MatchedByOffendersHasPair
    <2> SUFFICES ASSUME stage = "matched", "offenders" \in result.flags
                 PROVE  result.counts.matched > 0
      BY DEF MatchedByOffendersHasPair
    <2> QED
      BY <1>1, MatchedIsJudged, PairStays DEF Judged
  <1> QED
    BY <1>1, AlwaysBound, PTL

\* The rule of two out of three misses nothing within its windows.
THEOREM TwoAreEnough == Spec => []TwoOfThreeIsFound
  <1>1. ASSUME Bound
        PROVE  TwoOfThreeIsFound
    <2> DEFINE before == ExtractAttributes(case)
    <2> SUFFICES ASSUME stage = "matched", Unlimited, attrs.at # NoTime,
                        NEW e \in InWindow(case.portal, attrs.at, FallbackMinutes),
                        Cardinality(Score(case.portal, before, e).flags) >= 2
                 PROVE  result.matched
      BY Zenon DEF TwoOfThreeIsFound
    <2>1. Judged
      BY <1>1, MatchedIsJudged
    <2> HIDE DEF before
    <2>2. Matchable(case.portal, before) /\ IsResult(case.portal, before, result)
          /\ attrs.at = before.at
      BY <2>1 DEF Judged, before
    <2>3. Searchable(case.portal, before)
      BY <2>2, SearchableIf
    <2>4. Len(case.portal) <= StageLimit
      BY <2>3, UnlimitedStage DEF Searchable, IsPortal, IsList
    <2>5. Chosen(Candidates(case.portal, before)) # NoEvent
      BY <2>2, <2>3, <2>4, FoundIfTwoAgree
    <2> QED
      BY <2>2, <2>5 DEF IsResult
  <1> QED
    BY <1>1, AlwaysBound, PTL

\* No event that agrees in the same respects is closer in time.
THEOREM ClosestIsChosen == Spec => []ClosestOfEqual
  <1>1. ASSUME Bound
        PROVE  ClosestOfEqual
    <2> DEFINE before == ExtractAttributes(case)
    <2> SUFFICES ASSUME stage = "matched", result.matched, Unlimited,
                        NEW e \in InWindow(case.portal, attrs.at, FallbackMinutes),
                        Score(case.portal, before, e).flags = result.flags
                 PROVE  Score(case.portal, before, e).delta >= result.event.delta
      BY Zenon DEF ClosestOfEqual
    <2>1. Judged
      BY <1>1, MatchedIsJudged
    <2> HIDE DEF before
    <2>2. Matchable(case.portal, before) /\ IsResult(case.portal, before, result)
          /\ attrs.at = before.at
      BY <2>1 DEF Judged, before
    <2>3. /\ before.at # NoTime
          /\ result.event = Chosen(Candidates(case.portal, before)) /\ result.event # NoEvent
          /\ result.flags = result.event.flags
      BY <2>2 DEF IsResult
    <2>4. Searchable(case.portal, before)
      BY <2>2, <2>3, SearchableIf
    <2>5. Len(case.portal) <= StageLimit
      BY <2>4, UnlimitedStage DEF Searchable, IsPortal, IsList
    <2> QED
      BY <2>2, <2>3, <2>4, <2>5, ClosestIsFound
  <1> QED
    BY <1>1, AlwaysBound, PTL

\* No pattern in use fits the text better than the one it is taken for.
THEOREM PredictedFitsBest == Spec => []PredictedIsBest
  <1>1. ASSUME Bound
        PROVE  PredictedIsBest
    <2> DEFINE usable == ToSet(ActiveRows(case.types, case.patterns))
               fit(r) == Candidate(case.text, r).score
    <2> SUFFICES ASSUME stage = "matched", predicted.best # NoType
                 PROVE  IF \E r \in usable : fit(r) >= MinScore
                        THEN /\ predicted.best.row \in usable
                             /\ \A r \in usable : fit(r) <= fit(predicted.best.row)
                        ELSE predicted.best.row \in ToSet(EmbeddedOf(case))
      BY Zenon DEF PredictedIsBest
    <2>1. predicted = Classify(case.types, case.patterns, EmbeddedOf(case), KnownOf(case),
                               case.text)
      BY <1>1 DEF Bound
    <2>2. Classifiable(case.text, case.types, case.patterns, EmbeddedOf(case))
      BY <1>1, CasesAssumption DEF Bound
    <2> QED
      BY <2>1, <2>2, PredictedFits
  <1> QED
    BY <1>1, AlwaysBound, PTL

\* The words of the card agree with its colours, for thresholds that agree.
THEOREM ColoursAreExplained ==
    ASSUME ThresholdsAgree
    PROVE  Spec => []CommentsExplainColours
  <1>1. ASSUME Bound
        PROVE  CommentsExplainColours
    <2> DEFINE status == shown.status
               red == {f \in DOMAIN status : status[f] = "red"}
               says(some) == shown.comments \cap some # {}
               before == ExtractAttributes(case)
               where == Subdivision(case.cached, case.text, case.pu, case.model)
    <2> SUFFICES ASSUME stage = "matched"
                 PROVE  /\ says({"no_differences"}) => red = {}
                        /\ "timestamp" \in red => says({"not_found", "date_time", "time_error"})
                        /\ "subdivision" \in red => says({"no_subdivision", "subdivision"})
                        /\ result.matched /\ status.offenders # "green" =>
                              shown.details # {} \/ ~IsInjective(EventPeople)
      BY Zenon DEF CommentsExplainColours
    <2>1. Matchable(case.portal, before) /\ IsResult(case.portal, before, result)
      BY <1>1, MatchedIsJudged DEF Judged
    <2>2. /\ shown = Card(case.text, attrs, predicted, result, case.portal)
          /\ attrs = [before EXCEPT !.people = result.people, !.staff = result.staff]
      BY <1>1 DEF Bound
    <2>3. before = Extracted(case, People(case.text), DateTime(case.text), where)
      BY Zenon DEF ExtractAttributes
    <2>4. Searches(case.cached, case.text)
      BY <1>1, CasesAssumption DEF Bound
    <2>5. where.id # NoSubdivision => GoodScore(where.score)
      BY <2>4, AcceptedScore
    <2> HIDE DEF before, where
    <2>6. attrs.sub = before.sub /\ attrs.score = before.score
          /\ before.sub = where.id /\ before.score = where.score
      BY <2>2, <2>3 DEF Extracted
    <2>7. /\ status = StatusFields(result, attrs.score)
          /\ shown.comments = Comments(attrs, predicted, result, Diffs(result))
          /\ shown.details = OffenderReport(result, case.portal)
      BY <2>2 DEF Card
    <2>8. status.offenders = OffendersStatus(result)
      BY <2>7 DEF StatusFields
    <2> HIDE DEF status
    <2>9. /\ "no_differences" \in shown.comments => \A f \in DOMAIN status : status[f] # "red"
          /\ status.timestamp = "red"
             => "not_found" \in shown.comments \/ "time_error" \in shown.comments
          /\ status.subdivision = "red" => "no_subdivision" \in shown.comments
      BY <2>1, <2>5, <2>6, <2>7, CardAgrees
    <2>10. result.matched /\ status.offenders # "green" =>
              shown.details # {} \/ ~IsInjective(EventPeople)
      BY <2>1, <2>7, <2>8, OffendersReported DEF EventPeople
    <2>11. "timestamp" \in red => status.timestamp = "red"
      OBVIOUS
    <2>12. "subdivision" \in red => status.subdivision = "red"
      OBVIOUS
    <2>13. says({"no_differences"}) => red = {}
      BY <2>9
    <2> HIDE DEF red
    <2> QED
      BY <2>9, <2>10, <2>11, <2>12, <2>13
  <1> QED
    BY <1>1, AlwaysBound, PTL

\* Whoever the portal does not have is seen.
THEOREM MissingIsSeen == Spec => []MissingIsShown
  <1>1. ASSUME Bound
        PROVE  MissingIsShown
    <2> DEFINE before == ExtractAttributes(case)
               colours == SpanColours(result, case.portal)
               m(i) == result.found.all[i]
    <2> SUFFICES ASSUME stage = "matched", result.matched,
                        NEW i, i \in result.found.missingInPortal
                 PROVE  /\ <<"missing_in_portal", PersonKey(m(i))>> \in shown.details
                        /\ m(i).span # NoSpan =>
                              \E x \in ToSet(shown.marks) :
                                 /\ Shared(x.span, m(i).span)
                                 /\ x.of \notin {"staff", "eventpattern"}
                                 /\ x.of = "offender" /\ x.span = m(i).span => x.css = "red"
      BY DEF MissingIsShown
    <2>1. /\ shown.details = OffenderReport(result, case.portal)
          /\ shown.marks = Shown(HighlightSpans(case.text, attrs, predicted, result, colours))
      BY <1>1 DEF Bound, Card
    <2>2. <<"missing_in_portal", PersonKey(m(i))>> \in shown.details
      BY <2>1, MissingIsReported
    <2>3. Matchable(case.portal, before) /\ IsResult(case.portal, before, result)
      BY <1>1, MatchedIsJudged DEF Judged
    <2>4. /\ Highlights(case.text, attrs)
          /\ \A k \in 1..Len(before.people) : /\ k \in DOMAIN attrs.people
                                              /\ attrs.people[k] = before.people[k]
                                              /\ IsSpan(attrs.people[k].span)
      BY <1>1, MatchedHighlights
    <2> HIDE DEF before
    <2>5. ASSUME m(i).span # NoSpan
          PROVE  \E x \in ToSet(shown.marks) :
                    /\ Shared(x.span, m(i).span)
                    /\ x.of \notin {"staff", "eventpattern"}
                    /\ x.of = "offender" /\ x.span = m(i).span => x.css = "red"
      <3>1. /\ \E k \in 1..Len(before.people) : before.people[k].span = m(i).span
            /\ <<m(i).span, "err">> \in colours
            /\ <<m(i).span, "ok">> \notin colours
        BY <2>3, <2>5, MissingIsNamed
      <3>2. PICK k \in 1..Len(before.people) : before.people[k].span = m(i).span
        BY <3>1
      <3> HIDE DEF colours, m
      <3>3. k \in DOMAIN attrs.people /\ attrs.people[k].span = m(i).span
        BY <2>4, <3>2
      <3>4. \A j \in DOMAIN attrs.people : j <= k => IsSpan(attrs.people[j].span)
        <4>1. \A j \in DOMAIN attrs.people : j \in 1..Len(attrs.people)
          BY <2>4 DEF Highlights, IsList
        <4>2. \A j \in DOMAIN attrs.people : j <= k => j \in 1..Len(before.people)
          BY <3>2, <4>1
        <4> QED
          BY <2>4, <4>2
      <3>5. \A j \in DOMAIN attrs.people :
               attrs.people[j].span = attrs.people[k].span =>
                  NameColour(colours, attrs.people[j]) = "red"
        BY <3>1, <3>3 DEF NameColour
      <3>6. \E x \in ToSet(Shown(HighlightSpans(case.text, attrs, predicted, result, colours))) :
               /\ Shared(x.span, attrs.people[k].span)
               /\ x.of \notin {"staff", "eventpattern"}
               /\ x.of = "offender" /\ x.span = attrs.people[k].span => x.css = "red"
        BY <2>4, <3>3, <3>4, <3>5, NameIsShown
      <3> QED
        BY <2>1, <3>3, <3>6
    <2> QED
      BY <2>2, <2>5
  <1> QED
    BY <1>1, AlwaysBound, PTL

\* A time that no preposition announces is not read out of the date.
THEOREM TimeBesideDate == Spec => []TimeOutsideDate
  <1>1. ASSUME Bound
        PROVE  TimeOutsideDate
    <2> SUFFICES ASSUME stage = "read"
                 PROVE  TimeOutsideDate
      BY DEF TimeOutsideDate
    <2>1. PICK kind \in DOMAIN Cases : case \in Cases[kind]
      BY <1>1 DEF Bound
    <2>2. attrs = ExtractAttributes(case)
      BY <1>1 DEF Bound
    <2>3. /\ attrs.text = case.text
          /\ attrs.dateAt = DateTime(case.text).date
          /\ attrs.timeAt = DateTime(case.text).time
      BY <2>1, <2>2, ExtractedType
    <2>4. DatesIn(case.text)
      BY <2>1, CasesAssumption
    <2> QED
      BY <2>3, <2>4, WhenItWas DEF TimeOutsideDate
  <1> QED
    BY <1>1, AlwaysBound, PTL

\* The match with the portal loses nobody.
THEOREM StaffOverrideKeeps == Spec => NobodyIsDropped
  <1>1. ASSUME Bound, [Next]_vars, stage = "read" /\ stage' = "matched"
        PROVE  /\ NamesIn(attrs.people, attrs.staff) \subseteq NamesIn(attrs'.people, attrs'.staff)
               /\ Len(attrs.people) <= Len(attrs'.people)
    <2>1. Match
      BY <1>1 DEF Next, Parse, Announce, Read, Store, Finish, vars
    <2>2. attrs = ExtractAttributes(case) /\ \E kind \in DOMAIN Cases : case \in Cases[kind]
      BY <1>1 DEF Bound
    <2>3. Matchable(case.portal, attrs) /\ {"people", "staff"} \subseteq DOMAIN attrs
      BY <2>2, ExtractedType
    <2>4. /\ result' = MatchEvent(case.portal, attrs, predicted')
          /\ attrs' = [attrs EXCEPT !.people = result'.people, !.staff = result'.staff]
      BY <2>1 DEF Match
    <2>5. attrs'.people = result'.people /\ attrs'.staff = result'.staff
      BY <2>3, <2>4
    <2>6. IsResult(case.portal, attrs, result')
      BY <2>3, <2>4, MatchResult
    <2> QED
      BY <2>3, <2>5, <2>6, NamesStay
  <1>2. ASSUME Bound, [Next]_vars
        PROVE  stage = "read" /\ stage' = "matched" =>
                  /\ NamesIn(attrs.people, attrs.staff) \subseteq NamesIn(attrs'.people, attrs'.staff)
                  /\ Len(attrs.people) <= Len(attrs'.people)
    BY <1>1, <1>2
  <1> QED
    BY <1>2, AlwaysBound, PTL DEF Spec, NobodyIsDropped, NamesIn

\* The subdivision that is accepted has a word in the text, and its name is not
\* within another's, if the factor of names without a word is low.
THEOREM AcceptedHasName ==
    ASSUME LowIsNotEnough
    PROVE  Spec => []AcceptedIsNamed
  <1>1. ASSUME Bound
        PROVE  AcceptedIsNamed
    <2> DEFINE where == Subdivision(case.cached, case.text, case.pu, case.model)
               rows == Rows(case.cached, case.pu)
    <2> SUFFICES ASSUME stage = "read", attrs.sub # NoSubdivision
                 PROVE  AcceptedIsNamed
      BY DEF AcceptedIsNamed
    <2>1. Searches(case.cached, case.text)
      BY <1>1, CasesAssumption DEF Bound
    <2>2. attrs = Extracted(case, People(case.text), DateTime(case.text), where)
      BY <1>1, Zenon DEF Bound, ExtractAttributes
    <2> HIDE DEF where
    <2>3. attrs.sub = where.id /\ attrs.text = case.text
      BY <2>2 DEF Extracted
    <2>4. PICK r : NamedRow(case.text, rows, r) /\ r.id = attrs.sub
      BY <2>1, <2>3, AcceptedNamed DEF where
    <2> HIDE DEF rows
    <2>5. Evident(r, attrs.text) /\ r \in rows /\ \A s \in rows : ~Within(r, s, attrs.text.words)
      BY <2>3, <2>4 DEF NamedRow
    <2> QED
      BY <2>4, <2>5, Zenon DEF AcceptedIsNamed, Evident, Within, rows
  <1> QED
    BY <1>1, AlwaysBound, PTL

\* Whoever has the rank of an employee is on the staff and no offender, in plain
\* texts: the name is kept of which repetition ever.
THEOREM EmployeesAreStaff ==
    ASSUME TextsArePlain
    PROVE  Spec => []RankedAreStaff
  <1>1. ASSUME Bound
        PROVE  RankedAreStaff
    <2> DEFINE people == People(attrs.text)
               rank(p) == RankBefore(attrs.text, p.span[1])
    <2> SUFFICES ASSUME stage = "read", NEW p \in ToSet(people), rank(p).words # NoRank,
                        ToSet(rank(p).words) \cap EmployeeMarkers # {}
                 PROVE  /\ p \notin ToSet(attrs.people)
                        /\ \E s \in ToSet(attrs.staff) : s.surname = p.lead
      BY Zenon DEF RankedAreStaff
    <2>1. PICK kind \in DOMAIN Cases : case \in Cases[kind]
      BY <1>1 DEF Bound
    <2>2. attrs = ExtractAttributes(case)
      BY <1>1 DEF Bound
    <2>3. /\ attrs.text = case.text
          /\ attrs.people = EligibleBySpan(case.text, People(case.text))
          /\ attrs.staff = StaffOf(case.text, People(case.text))
      BY <2>2 DEF ExtractAttributes, Extracted
    <2>4. ListsIn(case.text) /\ PlainRanks(case.text)
      BY <2>1, CasesAssumption DEF TextsArePlain
    <2>5. PICK w \in ToSet(rank(p).words) : w \in EmployeeMarkers
      OBVIOUS
    <2> QED
      BY <2>3, <2>4, <2>5, RankedOnStaff
  <1> QED
    BY <1>1, AlwaysBound, PTL

\* A report with the blocks of the template, with its markers or without them,
\* is cut to the same text by slice_by_markers and by apply_template_segments.
THEOREM MarkersAndAnchorsAgree == Spec => []AnchorsAgreeWithMarkers
  <1>1. ASSUME Typed
        PROVE  AnchorsAgreeWithMarkers
    <2> DEFINE doc == report.doc
               plain == Unmarked(doc)
               blocks == MarkerBlocks(doc)
               slice == SliceForRun(doc, TemplateInForce, report.model)
               again == SliceForRun(plain, TemplateInForce, report.model)
    <2> SUFFICES ASSUME stage = "parsed", cut.by = "report_markers",
                        blocks = MarkerBlocks(TemplateInForce.file), Paired(doc),
                        OwnAnchors(doc, blocks, Threshold(TemplateInForce), report.model),
                        BigBlocks(plain, blocks)
                 PROVE  /\ again.by = "template_anchors"
                        /\ TextsAt(plain, again.kept) = TextsAt(doc, cut.kept)
      BY Zenon DEF AnchorsAgreeWithMarkers
    <2>1. IsDoc(doc) /\ (TemplateInForce = NoTemplate \/ IsTemplate(TemplateInForce))
      BY <1>1, GivenType DEF Typed
    <2>2. cut = WithEvents(slice)
      BY <1>1 DEF Typed, Given
    <2> HIDE DEF slice
    <2>3. cut.kept = slice.kept /\ cut.by = slice.by
      BY <2>2 DEF WithEvents
    <2>4. slice.by = "report_markers"
      BY <2>3
    <2>5. SliceForRun(doc, TemplateInForce, report.model).by = "report_markers"
      BY <2>4 DEF slice
    <2>6. /\ MarkerBlocks(doc) = MarkerBlocks(TemplateInForce.file)
          /\ OwnAnchors(doc, MarkerBlocks(doc), Threshold(TemplateInForce), report.model)
          /\ BigBlocks(Unmarked(doc), MarkerBlocks(doc))
      OBVIOUS
    <2> HIDE DEF doc, plain, blocks, again
    <2>7. /\ SliceForRun(Unmarked(doc), TemplateInForce, report.model).by = "template_anchors"
          /\ TextsAt(Unmarked(doc), SliceForRun(Unmarked(doc), TemplateInForce, report.model).kept) =
                TextsAt(doc, SliceForRun(doc, TemplateInForce, report.model).kept)
      BY <2>1, <2>5, <2>6, CutsAgree
    <2> QED
      BY <2>3, <2>7 DEF slice, again, plain
  <1>2. Spec => []Typed
    BY InitTyped, NextTyped, AlwaysBound, PTL DEF Spec
  <1> QED
    BY <1>1, <1>2, PTL
=============================================================================
