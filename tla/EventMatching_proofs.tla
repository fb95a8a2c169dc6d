------------------------ MODULE EventMatching_proofs ------------------------
(***************************************************************************)
(* What the search of the portal promises for any portal and any           *)
(* attributes. The queries of get_event_candidates give events of the      *)
(* portal, and all they ask for when no limit cuts them (LatestEvents,     *)
(* EventsInWindow); the stages look at all of a window or end with two of  *)
(* three that agree (SearchedEvents); the scores are ordered by five       *)
(* numbers, so that a best one exists and is chosen (BetterIsAbove,        *)
(* ChosenIsBest). Then the rule of two out of three misses nothing         *)
(* (FoundIfTwoAgree), nothing equal is closer (ClosestIsFound), and the    *)
(* staff override, which comes between the choice and the comparison,      *)
(* loses nobody (NamesStay, PairStays).                                    *)
(***************************************************************************)
EXTENDS EventMatching, OffenderMatching_proofs

-----------------------------------------------------------------------------
(* Queries.                                                                *)

\* A query answers with events of those asked for; with all of them, if they are
\* not too many.
LEMMA LatestEvents ==
    ASSUME NEW portal, IsPortal(portal), NEW events \in SUBSET DOMAIN portal,
           NEW limit \in Nat
    PROVE  /\ Latest(portal, events, limit) \in Seq(events)
           /\ Len(portal) <= limit => ToSet(Latest(portal, events, limit)) = events
  <1> DEFINE later(a, b) == \/ portal[a].at > portal[b].at
                            \/ portal[a].at = portal[b].at /\ a < b
             R == {p \in events \X events : later(p[1], p[2])}
             order == Sorted(events, R)
             n == Cardinality(events)
             m == Min({limit, Len(order)})
  <1>1. Len(portal) \in Nat /\ DOMAIN portal = 1..Len(portal)
    BY DEF IsPortal, IsList
  <1>2. IsFiniteSet(events)
    BY <1>1, FinitePart
  <1>3. n <= Len(portal)
    <2>1. IsFiniteSet(1..Len(portal)) /\ Cardinality(1..Len(portal)) = Len(portal)
      BY <1>1, FS_Interval
    <2> QED
      BY <1>1, <2>1, FS_Subset
  <1>4. \A a \in events : portal[a].at \in Int /\ a \in Int
    BY <1>1 DEF IsPortal
  <1>5. Orders(R, events)
    BY <1>4 DEF Orders
  <1> HIDE DEF R
  <1>6. /\ n \in Nat
        /\ order \in [1..n -> events]
        /\ \A x \in events : \E i \in 1..n : order[i] = x
    BY <1>2, <1>5, Sorting
  <1> HIDE DEF order, n
  <1>7. order \in Seq(events) /\ Len(order) = n /\ DOMAIN order = 1..n
    BY <1>6
  <1>8. m \in Nat /\ m <= n /\ (n <= limit => m = n)
    BY <1>6, <1>7, MinOfTwo
  <1> HIDE DEF m
  <1>9. Latest(portal, events, limit) = SubSeq(order, 1, m)
    BY DEF Latest, order, m, R
  <1>10. SubSeq(order, 1, m) = [i \in 1..m |-> order[i]]
    BY <1>6, <1>7, <1>8
  <1>11. [i \in 1..m |-> order[i]] \in Seq(events)
    BY <1>6, <1>8
  <1>12. ASSUME Len(portal) <= limit
         PROVE  ToSet(Latest(portal, events, limit)) = events
    <2>1. m = n
      BY <1>1, <1>3, <1>6, <1>8, <1>12
    <2>2. ToSet([i \in 1..n |-> order[i]]) = {order[i] : i \in 1..n}
      BY DEF ToSet
    <2>3. {order[i] : i \in 1..n} = events
      BY <1>6
    <2> QED
      BY <1>9, <1>10, <2>1, <2>2, <2>3
  <1> QED
    BY <1>9, <1>10, <1>11, <1>12

\* One event more is collected.
Collected(list, e) == IF e \in ToSet(list) THEN list ELSE Append(list, e)

\* The collection is the last of one list per event.
LEMMA CollectSteps ==
    ASSUME NEW S, NEW base \in Seq(S), NEW s \in Seq(S)
    PROVE  \E f : /\ f[0] = base /\ Collect(base, s) = f[Len(s)]
                  /\ \A k \in 1..Len(s) : f[k] = Collected(f[k - 1], s[k])
  <1> DEFINE n == Len(s)
             A == Seq(S)
             G == [k \in 1..n |-> [t \in A |-> Collected(t, s[k])]]
             Body(g) == [d \in SUBSET DOMAIN s |->
                           IF d = {} THEN base ELSE Collected(g[d \ {Max(d)}], s[Max(d)])]
  <1>1. n \in Nat /\ DOMAIN s = 1..n /\ \A k \in 1..n : s[k] \in S
    OBVIOUS
  <1>2. ASSUME NEW k \in 1..n, NEW t \in A
        PROVE  Collected(t, s[k]) \in A
    BY <1>1 DEF Collected
  <1>3. G \in [1..n -> [A -> A]]
    <2> HIDE DEF A
    <2> QED
      BY <1>2
  <1>4. PICK g \in [SUBSET (1..n) -> A] :
           \A d \in SUBSET (1..n) : Unfolds(g, d, n, A, base, G)
    <2>1. base \in A
      OBVIOUS
    <2> HIDE DEF G, A, n
    <2> QED
      BY <1>1, <1>3, <2>1, FoldUnfolds
  <1>5. ASSUME NEW d \in SUBSET (1..n)
        PROVE  g[d] = Body(g)[d]
    <2> HIDE DEF A, n
    <2> QED
      BY <1>1, <1>4 DEF Unfolds
  <1>6. g = Body(g)
    <2> HIDE DEF A
    <2> QED
      BY <1>1, <1>5
  <1>7. PICK h : h = Body(h) /\ Collect(base, s) = h[DOMAIN s]
    <2> HIDE <1>4, <1>5
    <2> QED
      BY <1>6, Zenon DEF Collect, Collected, FoldLeft, MapThenFoldSet
  <1> HIDE DEF A, G, n
  <1> DEFINE f == [k \in 0..n |-> h[1..k]]
  <1>8. \A d \in SUBSET (1..n) :
           h[d] = IF d = {} THEN base ELSE Collected(h[d \ {Max(d)}], s[Max(d)])
    BY <1>1, <1>7
  <1>9. f[0] = base /\ Collect(base, s) = f[n]
    <2>1. f[0] = h[{}] /\ f[n] = h[1..n] /\ {} \in SUBSET (1..n)
      BY <1>1
    <2>2. h[{}] = base
      BY <1>8, <2>1
    <2>3. Collect(base, s) = h[1..n]
      BY <1>1, <1>7
    <2> HIDE DEF f
    <2> QED
      BY <2>1, <2>2, <2>3
  <1>10. ASSUME NEW k \in 1..n
         PROVE  f[k] = Collected(f[k - 1], s[k])
    <2>1. Max(1..k) = k /\ (1..k) \ {k} = 1..(k - 1) /\ 1..k # {}
      BY MaxOfInterval
    <2>2. 1..k \in SUBSET (1..n) /\ k \in 0..n /\ k - 1 \in 0..n
      BY <1>1
    <2> QED
      BY <1>1, <1>8, <2>1, <2>2
  <1> QED
    <2> HIDE DEF f
    <2> QED
      BY <1>9, <1>10 DEF n

\* What is collected is what was there and what came, in one list.
LEMMA Collecting ==
    ASSUME NEW S, NEW base \in Seq(S), NEW s \in Seq(S)
    PROVE  /\ Collect(base, s) \in Seq(S)
           /\ ToSet(s) \subseteq ToSet(Collect(base, s))
  <1> DEFINE n == Len(s)
  <1>1. PICK f : /\ f[0] = base /\ Collect(base, s) = f[n]
                 /\ \A k \in 1..n : f[k] = Collected(f[k - 1], s[k])
    BY CollectSteps
  <1>2. n \in Nat /\ \A k \in 1..n : s[k] \in S
    OBVIOUS
  <1>3. ASSUME NEW t \in Seq(S), NEW x \in S
        PROVE  /\ Collected(t, x) \in Seq(S)
               /\ x \in ToSet(Collected(t, x))
               /\ ToSet(t) \subseteq ToSet(Collected(t, x))
    <2>1. ToSet(Append(t, x)) = ToSet(t) \cup {x}
      <3>1. DOMAIN Append(t, x) = 1..(Len(t) + 1) /\ DOMAIN t = 1..Len(t)
        OBVIOUS
      <3>2. /\ \A i \in 1..Len(t) : Append(t, x)[i] = t[i]
            /\ Append(t, x)[Len(t) + 1] = x
        OBVIOUS
      <3> QED
        BY <3>1, <3>2 DEF ToSet
    <2> QED
      BY <1>3, <2>1 DEF Collected
  <1> DEFINE P == {k \in 0..n : /\ f[k] \in Seq(S)
                                /\ \A i \in 1..k : s[i] \in ToSet(f[k])}
  <1>4. P \in SUBSET (0..n) /\ 0 \in P
    BY <1>1, <1>2
  <1>5. ASSUME NEW k \in P, k < n
        PROVE  k + 1 \in P
    <2>1. k + 1 \in 1..n /\ k + 1 \in 0..n /\ (k + 1) - 1 = k /\ k \in 0..n
      BY <1>2, <1>5
    <2>2. f[k] \in Seq(S) /\ \A i \in 1..k : s[i] \in ToSet(f[k])
      OBVIOUS
    <2>3. f[k + 1] = Collected(f[k], s[k + 1]) /\ s[k + 1] \in S
      BY <1>1, <1>2, <2>1
    <2>4. /\ f[k + 1] \in Seq(S)
          /\ s[k + 1] \in ToSet(f[k + 1])
          /\ ToSet(f[k]) \subseteq ToSet(f[k + 1])
      BY <1>3, <2>2, <2>3
    <2>5. \A i \in 1..(k + 1) : i \in 1..k \/ i = k + 1
      BY <2>1
    <2>6. \A i \in 1..(k + 1) : s[i] \in ToSet(f[k + 1])
      BY <2>2, <2>4, <2>5
    <2> QED
      BY <2>1, <2>4, <2>6
  <1>6. n \in P
    <2>1. n \in Nat /\ n \in 0..n
      BY <1>2
    <2> HIDE DEF P, n
    <2> QED
      BY <1>4, <1>5, <2>1, UpTo
  <1>7. f[n] \in Seq(S) /\ \A i \in 1..n : s[i] \in ToSet(f[n])
    BY <1>6
  <1> HIDE DEF P
  <1>8. ToSet(s) \subseteq ToSet(f[n])
    <2>1. DOMAIN s = 1..n
      OBVIOUS
    <2> HIDE DEF n
    <2> QED
      BY <1>7, <2>1 DEF ToSet
  <1> QED
    BY <1>1, <1>7, <1>8

\* The events around a time: those with the subdivision, then all of them.
LEMMA EventsInWindow ==
    ASSUME NEW portal, IsPortal(portal), NEW attrs, NEW minutes, NEW bySub
    PROVE  /\ InWindow(portal, attrs.at, minutes) \in SUBSET DOMAIN portal
           /\ WindowEvents(portal, attrs, minutes, bySub)
                 \in Seq(InWindow(portal, attrs.at, minutes))
           /\ Len(portal) <= StageLimit =>
                 InWindow(portal, attrs.at, minutes)
                    \subseteq ToSet(WindowEvents(portal, attrs, minutes, bySub))
  <1> DEFINE near == InWindow(portal, attrs.at, minutes)
             of == {e \in near : portal[e].sub = attrs.sub}
             first == IF bySub /\ attrs.sub # NoSubdivision
                      THEN BySubdivision(portal, attrs.at, minutes, attrs.sub) ELSE <<>>
             then == ByTime(portal, attrs.at, minutes)
  <1>1. near \in SUBSET DOMAIN portal
    BY DEF InWindow
  <1>2. StageLimit \in Nat
    BY SearchAssumption
  <1> HIDE DEF near
  <1>3. /\ then \in Seq(near)
        /\ Len(portal) <= StageLimit => ToSet(then) = near
    BY <1>1, <1>2, LatestEvents DEF ByTime, near
  <1>4. Latest(portal, of, StageLimit) \in Seq(of)
    <2>1. of \in SUBSET DOMAIN portal
      BY <1>1
    <2> HIDE DEF of
    <2> QED
      BY <1>2, <2>1, LatestEvents
  <1>5. first \in Seq(near)
    <2>1. Latest(portal, of, StageLimit) \in Seq(near)
      BY <1>4
    <2>2. first \in {Latest(portal, of, StageLimit), <<>>}
      BY DEF BySubdivision, near
    <2>3. <<>> \in Seq(near)
      OBVIOUS
    <2> HIDE DEF first
    <2> QED
      BY <2>1, <2>2, <2>3, Zenon
  <1>6. WindowEvents(portal, attrs, minutes, bySub) = first \o then
    BY Zenon DEF WindowEvents
  <1> HIDE DEF first, then
  <1>7. first \o then \in Seq(near) /\ ToSet(then) \subseteq ToSet(first \o then)
    <2>1. /\ \A i \in DOMAIN then : Len(first) + i \in DOMAIN (first \o then)
          /\ \A i \in DOMAIN then : (first \o then)[Len(first) + i] = then[i]
      BY <1>3, <1>5
    <2> QED
      BY <1>3, <1>5, <2>1 DEF ToSet
  <1> QED
    BY <1>1, <1>3, <1>6, <1>7 DEF near

\* The events of one offender are events of the portal.
LEMMA EventsWithOffender ==
    ASSUME NEW portal, IsPortal(portal), NEW surname, NEW birth, NEW sub
    PROVE  EventsOfOffender(portal, surname, birth, sub) \in Seq(DOMAIN portal)
  <1> DEFINE limit == IF birth = NoDob THEN NoDobLimit ELSE OffenderLimit
  <1>1. limit \in Nat
    BY SearchAssumption
  <1> HIDE DEF limit
  <1>2. ASSUME NEW s
        PROVE  ByOffender(portal, surname, birth, s, limit) \in Seq(DOMAIN portal)
    <2> DEFINE born(o) == \/ birth = NoDob
                          \/ /\ o.dob # NoDob
                             /\ birth.year = o.dob.year
                             /\ birth.day \in {0, o.dob.day}
               has(people) == \E j, k \in DOMAIN people : /\ people[j].second = surname
                                                          /\ born(people[k])
                                                          /\ Gateway = "sql" => j = k
               events == {e \in DOMAIN portal : /\ s \in {NoSubdivision, portal[e].sub}
                                                /\ has(portal[e].people)}
    <2>1. ByOffender(portal, surname, birth, s, limit) = Latest(portal, events, limit)
      BY Zenon DEF ByOffender
    <2>2. events \in SUBSET DOMAIN portal
      OBVIOUS
    <2> HIDE DEF events
    <2>3. Latest(portal, events, limit) \in Seq(events)
      BY <1>1, <2>2, LatestEvents
    <2> QED
      BY <2>1, <2>2, <2>3
  <1>3. \E s : EventsOfOffender(portal, surname, birth, sub)
                  = ByOffender(portal, surname, birth, s, limit)
    BY Zenon DEF EventsOfOffender, limit
  <1> QED
    BY <1>2, <1>3

\* The people who are searched for, and where.
AskedOf(attrs) ==
    LET there == Offenders(attrs.text, attrs.people)
    IN  Filter(there, {p \in ToSet(there) : p.span # NoSpan /\ p.second # NoPart})

\* The subdivision the search by name keeps to.
SearchedIn(attrs) == IF Confident(attrs) THEN attrs.sub ELSE NoSubdivision

\* One person more is searched for.
MoreByName(list, portal, attrs, p) ==
    Collect(list, EventsOfOffender(portal, p.second, BirthQuery(attrs.text, p), SearchedIn(attrs)))

\* The search by name is the last of one list of events per person.
LEMMA ByNameSteps ==
    ASSUME NEW portal, IsPortal(portal), NEW attrs, NEW S, AskedOf(attrs) \in Seq(S)
    PROVE  \E f : /\ f[0] = <<>> /\ OffenderEvents(portal, attrs) = f[Len(AskedOf(attrs))]
                  /\ \A k \in 1..Len(AskedOf(attrs)) : f[k] = MoreByName(f[k - 1], portal, attrs, AskedOf(attrs)[k])
  <1> DEFINE n == Len(AskedOf(attrs))
             A == Seq(DOMAIN portal)
             G == [k \in 1..n |-> [t \in A |-> MoreByName(t, portal, attrs, AskedOf(attrs)[k])]]
             Body(g) == [d \in SUBSET DOMAIN AskedOf(attrs) |->
                           IF d = {} THEN <<>> ELSE MoreByName(g[d \ {Max(d)}], portal, attrs, AskedOf(attrs)[Max(d)])]
  <1>1. n \in Nat /\ DOMAIN AskedOf(attrs) = 1..n /\ \A k \in 1..n : AskedOf(attrs)[k] \in S
    OBVIOUS
  <1>2. ASSUME NEW k \in 1..n, NEW t \in A
        PROVE  MoreByName(t, portal, attrs, AskedOf(attrs)[k]) \in A
    BY EventsWithOffender, Collecting DEF MoreByName
  <1>3. G \in [1..n -> [A -> A]]
    <2> HIDE DEF A
    <2> QED
      BY <1>2
  <1>4. PICK g \in [SUBSET (1..n) -> A] :
           \A d \in SUBSET (1..n) : Unfolds(g, d, n, A, <<>>, G)
    <2>1. <<>> \in A
      OBVIOUS
    <2> HIDE DEF G, A, n
    <2> QED
      BY <1>1, <1>3, <2>1, FoldUnfolds
  <1>5. ASSUME NEW d \in SUBSET (1..n)
        PROVE  g[d] = Body(g)[d]
    <2> HIDE DEF A, n
    <2> QED
      BY <1>1, <1>4 DEF Unfolds
  <1>6. g = Body(g)
    <2> HIDE DEF A
    <2> QED
      BY <1>1, <1>5
  <1>7. PICK h : h = Body(h) /\ OffenderEvents(portal, attrs) = h[DOMAIN AskedOf(attrs)]
    <2> HIDE <1>4, <1>5
    <2> QED
      BY <1>6, Zenon DEF OffenderEvents, AskedOf, SearchedIn, MoreByName, FoldLeft, MapThenFoldSet
  <1> HIDE DEF A, G, n
  <1> DEFINE f == [k \in 0..n |-> h[1..k]]
  <1>8. \A d \in SUBSET (1..n) :
           h[d] = IF d = {} THEN <<>> ELSE MoreByName(h[d \ {Max(d)}], portal, attrs, AskedOf(attrs)[Max(d)])
    BY <1>1, <1>7
  <1>9. f[0] = <<>> /\ OffenderEvents(portal, attrs) = f[n]
    <2>1. f[0] = h[{}] /\ f[n] = h[1..n] /\ {} \in SUBSET (1..n)
      BY <1>1
    <2>2. h[{}] = <<>>
      BY <1>8, <2>1
    <2>3. OffenderEvents(portal, attrs) = h[1..n]
      BY <1>1, <1>7
    <2> HIDE DEF f
    <2> QED
      BY <2>1, <2>2, <2>3
  <1>10. ASSUME NEW k \in 1..n
         PROVE  f[k] = MoreByName(f[k - 1], portal, attrs, AskedOf(attrs)[k])
    <2>1. Max(1..k) = k /\ (1..k) \ {k} = 1..(k - 1) /\ 1..k # {}
      BY MaxOfInterval
    <2>2. 1..k \in SUBSET (1..n) /\ k \in 0..n /\ k - 1 \in 0..n
      BY <1>1
    <2> QED
      BY <1>1, <1>8, <2>1, <2>2
  <1> QED
    <2> HIDE DEF f
    <2> QED
      BY <1>9, <1>10 DEF n

\* The search by name (search_by_offenders) gives events of the portal.
LEMMA EventsByName ==
    ASSUME NEW portal, IsPortal(portal), NEW attrs, IsList(attrs.people)
    PROVE  OffenderEvents(portal, attrs) \in Seq(DOMAIN portal)
  <1> DEFINE there == Offenders(attrs.text, attrs.people)
  <1>1. IsList(there)
    BY ListMembers DEF Offenders
  <1>2. IsList(AskedOf(attrs))
    <2> HIDE DEF there
    <2> QED
      BY <1>1, ListMembers DEF AskedOf, there
  <1>3. AskedOf(attrs) \in Seq(ToSet(AskedOf(attrs)))
    BY <1>2 DEF IsList
  <1> DEFINE s == AskedOf(attrs)
  <1>4. PICK f : /\ f[0] = <<>> /\ OffenderEvents(portal, attrs) = f[Len(s)]
                 /\ \A k \in 1..Len(s) : f[k] = MoreByName(f[k - 1], portal, attrs, s[k])
    BY <1>3, ByNameSteps
  <1> DEFINE D == DOMAIN portal
             n == Len(s)
  <1>5. n \in Nat
    BY <1>3
  <1> HIDE DEF s
  <1>6. Keeps(f, n, Seq(D))
    BY <1>4, EventsWithOffender, Collecting DEF Keeps, MoreByName
  <1> HIDE DEF D, n
  <1>7. f[0] \in Seq(D)
    BY <1>4
  <1>8. f[n] \in Seq(D)
    BY <1>5, <1>6, <1>7, ListStays
  <1> QED
    BY <1>4, <1>8 DEF D, n

-----------------------------------------------------------------------------
(* Scores.                                                                 *)

Flag == {"time", "subdivision", "offenders"}

IsScore(c) == c.flags \in SUBSET Flag /\ c.delta \in Nat /\ c.overlap \in Nat

\* At most three things agree.
LEMMA FlagCount ==
    ASSUME NEW flags \in SUBSET Flag
    PROVE  IsFiniteSet(flags) /\ Cardinality(flags) \in 0..3
  <1> DEFINE one == {"time"}
             two == one \cup {"subdivision"}
             three == two \cup {"offenders"}
  <1>1. Flag = three
    BY DEF Flag
  <1>2. IsFiniteSet(one) /\ Cardinality(one) = 1
    BY FS_Singleton
  <1> HIDE DEF one
  <1>3. IsFiniteSet(two) /\ Cardinality(two) \in {1, 2}
    BY <1>2, FS_AddElement
  <1> HIDE DEF two
  <1>4. IsFiniteSet(Flag) /\ Cardinality(Flag) <= 3 /\ Cardinality(Flag) \in Nat
    <2>1. IsFiniteSet(three) /\ Cardinality(three) \in {1, 2, 3}
      BY <1>3, FS_AddElement
    <2> HIDE DEF three
    <2> QED
      BY <1>1, <2>1
  <1>5. IsFiniteSet(flags) /\ Cardinality(flags) <= Cardinality(Flag)
    BY <1>4, FS_Subset
  <1>6. Cardinality(flags) \in Nat
    BY <1>5, FS_CardinalityType
  <1> QED
    BY <1>4, <1>5, <1>6

\* A distance in time is a number of whole minutes.
LEMMA MinutesType ==
    ASSUME NEW x \in Int
    PROVE  Abs(x) \in Nat /\ Minutes(x) \in Nat
  <1>1. UnitsPerMinute \in Nat \ {0}
    BY SearchAssumption
  <1>2. Abs(x) \in Nat
    BY DEF Abs
  <1>3. Abs(x) \div UnitsPerMinute \in Nat
    BY <1>1, <1>2
  <1> QED
    BY <1>2, <1>3 DEF Minutes

\* _score_candidate tells what agrees, and how far away in time.
LEMMA ScoreType ==
    ASSUME NEW portal, IsPortal(portal), NEW attrs, IsList(attrs.people), attrs.at \in Int,
           NEW e \in DOMAIN portal
    PROVE  /\ IsScore(Score(portal, attrs, e))
           /\ Score(portal, attrs, e).event = e
           /\ Score(portal, attrs, e).delta = Minutes(portal[e].at - attrs.at)
  <1> DEFINE people == portal[e].people
             delta == Minutes(portal[e].at - attrs.at)
             found == MatchOffenders(attrs.people, people, Silence)
             overlap == IF attrs.people = <<>> THEN 0 ELSE Len(found.pairs)
             flags == Agreement(attrs, portal[e], delta, overlap)
  <1>1. delta \in Nat
    BY MinutesType DEF IsPortal
  <1>2. overlap \in Nat
    <2>1. IsList(people)
      BY DEF IsPortal
    <2>2. \E all : Told(all, people, found)
      BY <2>1, OffendersMatched
    <2>3. \E all : found.pairs \in Seq(PairOf(all, people))
      BY <2>2 DEF Told
    <2> QED
      BY <2>3
  <1> HIDE DEF delta, overlap
  <1>3. flags \in SUBSET Flag
    BY Zenon DEF Agreement, Flag
  <1> HIDE DEF flags
  <1>4. Score(portal, attrs, e) = [event |-> e, flags |-> flags, delta |-> delta, overlap |-> overlap]
    BY Zenon DEF Score, flags, delta, overlap
  <1>5. delta = Minutes(portal[e].at - attrs.at)
    BY DEF delta
  <1> QED
    BY <1>1, <1>2, <1>3, <1>4, <1>5 DEF IsScore

\* Two keys, one part after the other.
Above(a, b) ==
    \/ a[1] > b[1]
    \/ a[1] = b[1] /\ a[2] > b[2]
    \/ a[1] = b[1] /\ a[2] = b[2] /\ a[3] > b[3]
    \/ a[1] = b[1] /\ a[2] = b[2] /\ a[3] = b[3] /\ a[4] > b[4]
    \/ a[1] = b[1] /\ a[2] = b[2] /\ a[3] = b[3] /\ a[4] = b[4] /\ a[5] > b[5]

\* The numbers that candidates are compared by.
LEMMA KeyType ==
    ASSUME NEW c, IsScore(c)
    PROVE  /\ SortKey(c) \in [1..5 -> Int]
           /\ SortKey(c)[1] = Cardinality(c.flags)
           /\ SortKey(c)[2] = IF "subdivision" \in c.flags THEN 1 ELSE 0
           /\ SortKey(c)[3] = IF "offenders" \in c.flags THEN 1 ELSE 0
           /\ SortKey(c)[4] = -c.delta
           /\ SortKey(c)[5] = c.overlap
  <1>1. Cardinality(c.flags) \in Int
    BY FlagCount DEF IsScore
  <1> QED
    BY <1>1 DEF SortKey, IsScore

\* A better candidate is above in the order of the numbers.
LEMMA BetterIsAbove ==
    ASSUME NEW a, IsScore(a), NEW b, IsScore(b)
    PROVE  BetterCandidate(a, b) <=> Above(SortKey(a), SortKey(b))
  <1> DEFINE x == SortKey(a)
             y == SortKey(b)
             differs == {k \in 1..5 : x[k] # y[k]}
  <1>1. x \in [1..5 -> Int] /\ y \in [1..5 -> Int]
    BY KeyType
  <1>2. BetterCandidate(a, b) <=> differs # {} /\ x[Min(differs)] > y[Min(differs)]
    BY Zenon DEF BetterCandidate
  <1> HIDE DEF x, y
  <1>3. CASE differs = {}
    <2>1. x[1] = y[1] /\ x[2] = y[2] /\ x[3] = y[3] /\ x[4] = y[4] /\ x[5] = y[5]
      BY <1>3
    <2>2. ~Above(x, y)
      BY <1>1, <2>1 DEF Above
    <2> QED
      BY <1>2, <1>3, <2>2 DEF x, y
  <1>4. CASE differs # {}
    <2> DEFINE k == Min(differs)
    <2>1. differs \in SUBSET (1..5) /\ 5 \in Nat
      OBVIOUS
    <2>2. k \in differs /\ \A j \in differs : k <= j
      <3> HIDE DEF differs
      <3> QED
        BY <1>4, <2>1, MinIs
    <2>3. k \in 1..5 /\ x[k] # y[k] /\ \A j \in 1..5 : j < k => x[j] = y[j]
      <3> HIDE DEF k
      <3> QED
        BY <2>2
    <2> HIDE DEF k
    <2>4. Above(x, y) <=> x[k] > y[k]
      <3>1. k \in {1, 2, 3, 4, 5}
        BY <2>3
      <3> QED
        BY <1>1, <2>3, <3>1 DEF Above
    <2> QED
      BY <1>2, <1>4, <2>4 DEF x, y, k
  <1> QED
    BY <1>3, <1>4

\* The best of a list of scores is chosen if two of the three agree.
Best(scored, k) ==
    /\ k \in DOMAIN scored
    /\ \A j \in DOMAIN scored : ~BetterCandidate(scored[j], scored[k])

\* The candidate that is chosen: none is better, and two of three agree.
LEMMA ChosenIsBest ==
    ASSUME NEW scored, IsList(scored), scored # <<>>,
           \A j \in DOMAIN scored : IsScore(scored[j])
    PROVE  \E k : /\ Best(scored, k)
                  /\ Chosen(scored) = IF Cardinality(scored[k].flags) < 2
                                      THEN NoEvent ELSE scored[k]
  <1> DEFINE D == DOMAIN scored
             first(k) == \A j \in D : /\ ~BetterCandidate(scored[j], scored[k])
                                      /\ ~BetterCandidate(scored[k], scored[j]) => k <= j
             R == {p \in D \X D : /\ ~BetterCandidate(scored[p[2]], scored[p[1]])
                                  /\ ~BetterCandidate(scored[p[1]], scored[p[2]]) => p[1] <= p[2]}
             key == [k \in D |-> SortKey(scored[k])]
  <1>1. Len(scored) \in Nat /\ D = 1..Len(scored) /\ D # {}
    BY DEF IsList
  <1>2. key \in [D -> [1..5 -> Int]]
    BY KeyType
  <1>3. \A j, k \in D : BetterCandidate(scored[j], scored[k]) <=> Above(key[j], key[k])
    BY BetterIsAbove
  <1>4. IsFiniteSet(D)
    BY <1>1, FS_Interval
  <1> HIDE DEF key
  <1>5. \A a, b \in [1..5 -> Int] : Above(a, b) => ~Above(b, a)
    BY DEF Above
  <1>6. \A a, b, c \in [1..5 -> Int] : ~Above(b, a) /\ ~Above(c, b) => ~Above(c, a)
    BY DEF Above
  <1>7. \A a, b, c \in [1..5 -> Int] : /\ ~Above(b, a) /\ ~Above(c, b)
                                      => (~Above(a, c) => ~Above(a, b) /\ ~Above(b, c))
    BY DEF Above
  <1>8. D \in SUBSET Int
    BY <1>1
  <1> DEFINE NotAfter(j, k) == /\ ~Above(key[k], key[j])
                               /\ ~Above(key[j], key[k]) => j <= k
  <1>9. \A j, k \in D : NotAfter(j, k) \/ NotAfter(k, j)
    BY <1>2, <1>5, <1>8
  <1>10. ASSUME NEW i \in D, NEW j \in D, NEW k \in D, NotAfter(i, j), NotAfter(j, k)
         PROVE  NotAfter(i, k)
    <2>1. ~Above(key[k], key[i])
      BY <1>2, <1>6, <1>10
    <2>2. ASSUME ~Above(key[i], key[k])
          PROVE  i <= k
      <3>1. ~Above(key[i], key[j]) /\ ~Above(key[j], key[k])
        BY <1>2, <1>7, <1>10, <2>2
      <3> QED
        BY <1>8, <1>10, <3>1
    <2> QED
      BY <2>1, <2>2
  <1> HIDE DEF NotAfter
  <1>11. \A j, k \in D : <<j, k>> \in R <=> NotAfter(j, k)
    BY <1>3 DEF NotAfter
  <1> HIDE DEF R
  <1>12. Compares(R, D)
    BY <1>9, <1>10, <1>11 DEF Compares
  <1> HIDE DEF D
  <1>13. \E k \in D : \A j \in D : <<k, j>> \in R
    BY <1>1, <1>4, <1>12, LeastExists DEF Least
  <1>14. \E k \in D : first(k)
    BY <1>13 DEF R
  <1> DEFINE k == CHOOSE k \in D : first(k)
  <1>15. k \in D /\ first(k)
    <2> HIDE DEF first
    <2> QED
      BY <1>14, Zenon
  <1>16. Chosen(scored) = IF Cardinality(scored[k].flags) < 2 THEN NoEvent ELSE scored[k]
    BY Zenon DEF Chosen, D
  <1> HIDE DEF k
  <1> QED
    BY <1>15, <1>16 DEF Best, D

-----------------------------------------------------------------------------
(* The stages.                                                             *)

\* The scores of some events of the portal.
AreScores(portal, attrs, scored) ==
    /\ IsList(scored)
    /\ \A k \in DOMAIN scored :
          \E e \in DOMAIN portal : scored[k] = Score(portal, attrs, e)

\* What can be searched: a portal, and attributes with a time.
Searchable(portal, attrs) ==
    IsPortal(portal) /\ IsList(attrs.people) /\ attrs.at \in Int

\* All of the events have been looked at.
Covers(portal, attrs, scored, events) ==
    \A e \in events : \E k \in DOMAIN scored : scored[k] = Score(portal, attrs, e)

\* One score for each event of a list.
LEMMA ScoredEvents ==
    ASSUME NEW portal, NEW attrs, Searchable(portal, attrs), NEW events \in Seq(DOMAIN portal)
    PROVE  /\ AreScores(portal, attrs, Scored(portal, attrs, events))
           /\ \A k \in DOMAIN Scored(portal, attrs, events) :
                 \E e \in ToSet(events) :
                    Scored(portal, attrs, events)[k] = Score(portal, attrs, e)
           /\ Covers(portal, attrs, Scored(portal, attrs, events), ToSet(events))
  <1> DEFINE n == Len(events)
             t == Scored(portal, attrs, events)
  <1>1. n \in Nat /\ DOMAIN events = 1..n /\ \A k \in 1..n : events[k] \in DOMAIN portal
    OBVIOUS
  <1>2. t = [k \in 1..n |-> Score(portal, attrs, events[k])]
    BY <1>1, Zenon DEF Scored
  <1> HIDE DEF t, n
  <1>3. DOMAIN t = 1..n /\ \A k \in 1..n : t[k] = Score(portal, attrs, events[k])
    BY <1>2
  <1>4. IsList(t)
    <2>1. t = [k \in 1..n |-> t[k]]
      BY <1>2
    <2> QED
      BY <1>1, <2>1, ListIf
  <1>5. ToSet(events) = {events[k] : k \in 1..n}
    BY <1>1 DEF ToSet
  <1> QED
    BY <1>1, <1>3, <1>4, <1>5 DEF AreScores, Covers, t

\* A search ends when two of three agree with some candidate.
LEMMA EnoughAgree ==
    ASSUME NEW portal, NEW attrs, Searchable(portal, attrs),
           NEW scored, AreScores(portal, attrs, scored)
    PROVE  /\ \A k \in DOMAIN scored : IsScore(scored[k])
           /\ Enough(scored) <=> \E k \in DOMAIN scored : Cardinality(scored[k].flags) >= 2
  <1>1. \A k \in DOMAIN scored : IsScore(scored[k])
    BY ScoreType DEF AreScores, Searchable
  <1> DEFINE S == {0} \cup {Cardinality(scored[k].flags) : k \in DOMAIN scored}
  <1>2. \A k \in DOMAIN scored : Cardinality(scored[k].flags) \in 0..3
    BY <1>1, FlagCount DEF IsScore
  <1>3. S \in SUBSET (0..3) /\ S \in SUBSET Int /\ 0 \in S
    BY <1>2
  <1>4. Enough(scored) <=> Max(S) >= 2
    BY DEF Enough, BestFlags
  <1>5. (\E x \in S : x >= 2) <=> \E k \in DOMAIN scored : Cardinality(scored[k].flags) >= 2
    BY <1>2
  <1> HIDE DEF S
  <1>6. \E m \in S : \A x \in S : x <= m
    <2>1. \A x \in S : x \in {0, 1, 2, 3}
      BY <1>3
    <2> QED
      BY <1>3, <2>1
  <1>7. Max(S) \in S /\ \A x \in S : x <= Max(S)
    BY <1>3, <1>6, MaxIs
  <1>8. Max(S) >= 2 <=> \E x \in S : x >= 2
    <2> DEFINE m == Max(S)
    <2>1. m \in Int /\ m \in S /\ \A x \in S : x \in Int /\ x <= m
      BY <1>3, <1>7
    <2> HIDE DEF m
    <2>2. m >= 2 <=> \E x \in S : x >= 2
      BY <2>1
    <2> QED
      BY <2>2 DEF m
  <1> QED
    BY <1>1, <1>4, <1>5, <1>8

\* What the search has looked at, when its queries leave nothing out.
Searched(portal, attrs, scored) ==
    \/ /\ Enough(scored)
       /\ \A k \in DOMAIN scored :
             \E e \in InWindow(portal, attrs.at, DeltaMinutes) :
                scored[k] = Score(portal, attrs, e)
       /\ Covers(portal, attrs, scored, InWindow(portal, attrs.at, DeltaMinutes))
    \/ Covers(portal, attrs, scored, InWindow(portal, attrs.at, FallbackMinutes))
    \/ \A e \in InWindow(portal, attrs.at, FallbackMinutes) :
          ~(Cardinality(Score(portal, attrs, e).flags) >= 2)

\* get_event_candidates: the stages one after another.
LEMMA SearchedEvents ==
    ASSUME NEW portal, NEW attrs, Searchable(portal, attrs), attrs.at # NoTime
    PROVE  /\ AreScores(portal, attrs, Candidates(portal, attrs))
           /\ Len(portal) <= StageLimit => Searched(portal, attrs, Candidates(portal, attrs))
  <1> DEFINE D == DOMAIN portal
             W(minutes) == InWindow(portal, attrs.at, minutes)
             first == WindowEvents(portal, attrs, DeltaMinutes, TRUE)
             near == Collect(<<>>, first)
             stage1 == Scored(portal, attrs, near)
             day == WindowEvents(portal, attrs, DayMinutes, Confident(attrs))
             week == WindowEvents(portal, attrs, FallbackMinutes, Confident(attrs))
             far == day \o week
             wide == Collect(near, far)
             stage2 == Scored(portal, attrs, wide)
             inTime == InTime(portal, attrs, near)
             byName == OffenderEvents(portal, attrs)
             stage3 == Scored(portal, attrs, byName)
  <1>1. IsPortal(portal) /\ IsList(attrs.people)
    BY DEF Searchable
  <1>2. \A minutes : W(minutes) \in SUBSET D
    BY DEF InWindow
  <1>3. first \in Seq(W(DeltaMinutes))
        /\ (Len(portal) <= StageLimit => W(DeltaMinutes) \subseteq ToSet(first))
    BY <1>1, EventsInWindow
  <1>4. day \in Seq(D) /\ week \in Seq(D)
        /\ (Len(portal) <= StageLimit => W(FallbackMinutes) \subseteq ToSet(week))
    <2>1. day \in Seq(W(DayMinutes)) /\ week \in Seq(W(FallbackMinutes))
          /\ (Len(portal) <= StageLimit => W(FallbackMinutes) \subseteq ToSet(week))
      BY <1>1, EventsInWindow
    <2> HIDE DEF W, day, week, D
    <2> QED
      BY <1>2, <2>1
  <1>5. Candidates(portal, attrs) = ElseByName(portal, attrs, inTime, byName)
    BY Zenon DEF Candidates
  <1>6. inTime = IF Enough(stage1) THEN stage1 ELSE stage2
    BY Zenon DEF InTime, Widened
  <1>7. byName \in Seq(D)
    BY <1>1, EventsByName
  <1> HIDE DEF D, W, first, day, week, byName
  <1>8. near \in Seq(W(DeltaMinutes)) /\ ToSet(first) \subseteq ToSet(near)
    <2> DEFINE V == W(DeltaMinutes)
    <2>1. <<>> \in Seq(V) /\ first \in Seq(V)
      BY <1>3
    <2> HIDE DEF V
    <2>2. near \in Seq(V) /\ ToSet(first) \subseteq ToSet(near)
      BY <2>1, Collecting
    <2> QED
      BY <2>2 DEF V
  <1> HIDE DEF near
  <1>9. near \in Seq(D)
    BY <1>2, <1>8
  <1>10. far \in Seq(D) /\ ToSet(week) \subseteq ToSet(far)
    <2>1. /\ \A i \in DOMAIN week : Len(day) + i \in DOMAIN (day \o week)
          /\ \A i \in DOMAIN week : (day \o week)[Len(day) + i] = week[i]
      BY <1>4
    <2> QED
      BY <1>4, <2>1 DEF ToSet
  <1> HIDE DEF far
  <1>11. wide \in Seq(D) /\ ToSet(far) \subseteq ToSet(wide)
    BY <1>9, <1>10, Collecting
  <1> HIDE DEF wide
  <1>12. /\ AreScores(portal, attrs, stage1)
         /\ \A k \in DOMAIN stage1 : \E e \in ToSet(near) : stage1[k] = Score(portal, attrs, e)
         /\ Covers(portal, attrs, stage1, ToSet(near))
    BY <1>9, ScoredEvents DEF D
  <1>13. AreScores(portal, attrs, stage2) /\ Covers(portal, attrs, stage2, ToSet(wide))
    BY <1>11, ScoredEvents DEF D
  <1>14. AreScores(portal, attrs, stage3)
    BY <1>7, ScoredEvents DEF D
  <1> HIDE DEF stage1, stage2, stage3, inTime
  <1>15. \/ Candidates(portal, attrs) = inTime
         \/ ~Enough(inTime) /\ Candidates(portal, attrs) = stage3
    BY <1>5, Zenon DEF ElseByName, stage3
  <1>16. AreScores(portal, attrs, Candidates(portal, attrs))
    BY <1>6, <1>12, <1>13, <1>14, <1>15
  <1>17. ASSUME Len(portal) <= StageLimit
         PROVE  Searched(portal, attrs, Candidates(portal, attrs))
    <2>1. ToSet(near) = W(DeltaMinutes)
      <3>1. ToSet(near) \subseteq W(DeltaMinutes)
        BY <1>8 DEF ToSet
      <3> QED
        BY <1>3, <1>8, <1>17, <3>1
    <2>2. W(FallbackMinutes) \subseteq ToSet(wide)
      BY <1>4, <1>10, <1>11, <1>17
    <2>3. Covers(portal, attrs, stage2, W(FallbackMinutes))
      BY <1>13, <2>2 DEF Covers
    <2>4. CASE Enough(stage1)
      BY <1>6, <1>12, <1>15, <2>1, <2>4 DEF Searched, W
    <2>5. CASE ~Enough(stage1) /\ Enough(stage2)
      BY <1>6, <1>15, <2>3, <2>5 DEF Searched, W
    <2>6. CASE ~Enough(stage1) /\ ~Enough(stage2)
      <3>1. \A k \in DOMAIN stage2 : ~(Cardinality(stage2[k].flags) >= 2)
        BY <1>13, <2>6, EnoughAgree
      <3>2. \A e \in W(FallbackMinutes) : ~(Cardinality(Score(portal, attrs, e).flags) >= 2)
        BY <2>3, <3>1 DEF Covers
      <3> QED
        BY <3>2 DEF Searched, W
    <2> QED
      BY <2>4, <2>5, <2>6
  <1> QED
    BY <1>16, <1>17

\* Whole minutes and the bound of a window, which is given in minutes.
LEMMA Division ==
    ASSUME NEW x \in Nat, NEW d \in Nat, NEW u \in Nat \ {0}
    PROVE  /\ x <= d * u => x \div u <= d
           /\ x > d * u => x \div u >= d
  <1> DEFINE q == x \div u
             r == x % u
  <1>1. q \in Int /\ r \in Int /\ r >= 0 /\ r < u /\ x = u * q + r
    OBVIOUS
  <1> HIDE DEF q, r
  <1>2. ASSUME q >= d + 1
        PROVE  x > d * u
    <2>1. u * q >= u * (d + 1)
      BY <1>1, <1>2
    <2>2. u * (d + 1) = d * u + u
      OBVIOUS
    <2> QED
      BY <1>1, <2>1, <2>2
  <1>3. ASSUME q <= d - 1
        PROVE  x <= d * u
    <2>1. u * q <= u * (d - 1)
      BY <1>1, <1>3
    <2>2. u * (d - 1) = d * u - u
      OBVIOUS
    <2> QED
      BY <1>1, <2>1, <2>2
  <1>4. q <= d \/ q >= d + 1
    BY <1>1
  <1>5. q >= d \/ q <= d - 1
    BY <1>1
  <1>6. d * u \in Int
    OBVIOUS
  <1> QED
    BY <1>2, <1>3, <1>4, <1>5, <1>6 DEF q

\* An event agrees in time if it is less than a minute outside the first window.
LEMMA InTheFirstWindow ==
    ASSUME NEW portal, NEW attrs, Searchable(portal, attrs), NEW e \in DOMAIN portal
    PROVE  /\ "time" \in Score(portal, attrs, e).flags
                 <=> Score(portal, attrs, e).delta <= DeltaMinutes
           /\ e \in InWindow(portal, attrs.at, DeltaMinutes) =>
                 Score(portal, attrs, e).delta <= DeltaMinutes
           /\ e \notin InWindow(portal, attrs.at, DeltaMinutes) =>
                 Score(portal, attrs, e).delta >= DeltaMinutes
  <1> DEFINE away == portal[e].at - attrs.at
             s == Score(portal, attrs, e)
  <1>1. away \in Int
    BY DEF Searchable, IsPortal
  <1>2. UnitsPerMinute \in Nat \ {0} /\ DeltaMinutes \in Nat
    BY SearchAssumption
  <1>3. s.delta = Minutes(away)
    BY ScoreType DEF Searchable
  <1>4. "time" \in s.flags <=> s.delta <= DeltaMinutes
    <2>1. PICK overlap : s = [event |-> e, flags |-> Agreement(attrs, portal[e], Minutes(away), overlap),
                              delta |-> Minutes(away), overlap |-> overlap]
      BY Zenon DEF Score
    <2>2. "time" \in Agreement(attrs, portal[e], Minutes(away), overlap)
             <=> Minutes(away) <= DeltaMinutes
      <3>1. "time" # "subdivision" /\ "time" # "offenders"
        OBVIOUS
      <3> QED
        BY <3>1 DEF Agreement
    <2> QED
      BY <2>1, <2>2
  <1> HIDE DEF away, s
  <1>5. e \in InWindow(portal, attrs.at, DeltaMinutes) <=> Abs(away) <= DeltaMinutes * UnitsPerMinute
    BY DEF InWindow, away
  <1>6. Abs(away) \in Nat /\ Minutes(away) = Abs(away) \div UnitsPerMinute
    BY <1>1, MinutesType DEF Minutes
  <1> DEFINE x == Abs(away)
             w == DeltaMinutes * UnitsPerMinute
  <1>7. /\ x <= w => x \div UnitsPerMinute <= DeltaMinutes
        /\ x > w => x \div UnitsPerMinute >= DeltaMinutes
    BY <1>2, <1>6, Division
  <1>8. x \in Int /\ w \in Int
    BY <1>2, <1>6
  <1> HIDE DEF x, w
  <1> QED
    BY <1>3, <1>4, <1>5, <1>6, <1>7, <1>8 DEF s, x, w

\* The best candidate is an event in which two of the three agree, or none.
LEMMA ChosenEvent ==
    ASSUME NEW portal, NEW attrs, Searchable(portal, attrs), attrs.at # NoTime
    PROVE  LET scored == Candidates(portal, attrs)
               best == Chosen(scored)
           IN  \/ /\ best = NoEvent
                  /\ \A k \in DOMAIN scored : ~(Cardinality(scored[k].flags) >= 2)
               \/ /\ best # NoEvent
                  /\ Cardinality(best.flags) >= 2
                  /\ \E e \in DOMAIN portal : best = Score(portal, attrs, e)
                  /\ \E k : Best(scored, k) /\ best = scored[k]
  <1> DEFINE scored == Candidates(portal, attrs)
             best == Chosen(scored)
  <1>1. AreScores(portal, attrs, scored)
    BY SearchedEvents
  <1>2. \A k \in DOMAIN scored : IsScore(scored[k])
    BY <1>1, EnoughAgree
  <1> HIDE DEF scored
  <1>3. CASE scored = <<>>
    <2>1. best = NoEvent /\ DOMAIN scored = {}
      BY <1>3 DEF Chosen
    <2> QED
      BY <2>1 DEF scored
  <1>4. CASE scored # <<>>
    <2>1. PICK k : /\ Best(scored, k)
                   /\ best = IF Cardinality(scored[k].flags) < 2 THEN NoEvent ELSE scored[k]
      BY <1>1, <1>2, <1>4, ChosenIsBest DEF AreScores
    <2> HIDE DEF best
    <2>2. k \in DOMAIN scored /\ \A j \in DOMAIN scored : ~BetterCandidate(scored[j], scored[k])
      BY <2>1 DEF Best
    <2>3. \A j \in DOMAIN scored : Cardinality(scored[j].flags) \in 0..3
      BY <1>2, FlagCount DEF IsScore
    <2>4. PICK e \in DOMAIN portal : scored[k] = Score(portal, attrs, e)
      BY <1>1, <2>2 DEF AreScores
    <2>5. scored[k] # NoEvent
      <3>1. /\ IsScore(scored[k]) /\ scored[k].event = e /\ e \in Nat
        BY <2>4, ScoreType DEF Searchable, IsPortal, IsList
      <3>2. \E overlap, flags, delta : Score(portal, attrs, e)
               = [event |-> e, flags |-> flags, delta |-> delta, overlap |-> overlap]
        BY Zenon DEF Score
      <3>3. scored[k] \in [event : Nat, delta : Nat, overlap : Nat,
                           flags : SUBSET {"time", "subdivision", "offenders"}]
        BY <2>4, <3>1, <3>2 DEF IsScore, Flag
      <3> QED
        BY <3>3, SearchAssumption
    <2>6. CASE Cardinality(scored[k].flags) < 2
      <3>1. ASSUME NEW j \in DOMAIN scored
            PROVE  ~(Cardinality(scored[j].flags) >= 2)
        <4>1. ~Above(SortKey(scored[j]), SortKey(scored[k]))
          BY <1>2, <2>2, BetterIsAbove
        <4>2. ~(SortKey(scored[j])[1] > SortKey(scored[k])[1])
          BY <4>1 DEF Above
        <4>3. /\ SortKey(scored[j])[1] = Cardinality(scored[j].flags)
              /\ SortKey(scored[k])[1] = Cardinality(scored[k].flags)
          BY <1>2, <2>2, KeyType
        <4> QED
          BY <2>2, <2>3, <2>6, <4>2, <4>3
      <3> QED
        BY <2>1, <2>6, <3>1 DEF scored, best
    <2>7. CASE ~(Cardinality(scored[k].flags) < 2)
      <3>1. best = scored[k] /\ Cardinality(best.flags) >= 2
        BY <2>1, <2>2, <2>3, <2>7
      <3> QED
        BY <2>1, <2>4, <2>5, <3>1 DEF scored, best
    <2> QED
      BY <2>6, <2>7
  <1> QED
    BY <1>3, <1>4

\* The rule of two out of three misses no event of the widest window.
LEMMA FoundIfTwoAgree ==
    ASSUME NEW portal, NEW attrs, Searchable(portal, attrs), attrs.at # NoTime,
           Len(portal) <= StageLimit,
           NEW e \in InWindow(portal, attrs.at, FallbackMinutes),
           Cardinality(Score(portal, attrs, e).flags) >= 2
    PROVE  Chosen(Candidates(portal, attrs)) # NoEvent
  <1> DEFINE scored == Candidates(portal, attrs)
  <1>1. Searched(portal, attrs, scored)
    BY SearchedEvents
  <1>2. AreScores(portal, attrs, scored)
    BY SearchedEvents
  <1> HIDE DEF scored
  <1>3. \E k \in DOMAIN scored : Cardinality(scored[k].flags) >= 2
    <2>1. CASE Enough(scored)
      BY <1>2, <2>1, EnoughAgree
    <2>2. CASE Covers(portal, attrs, scored, InWindow(portal, attrs.at, FallbackMinutes))
      BY <2>2 DEF Covers
    <2> QED
      BY <1>1, <2>1, <2>2 DEF Searched
  <1> QED
    BY <1>3, ChosenEvent DEF scored

\* Of two with the same flags the best is not the farther one.
LEMMA BestIsClosest ==
    ASSUME NEW scored, \A k \in DOMAIN scored : IsScore(scored[k]),
           NEW k, Best(scored, k), NEW j \in DOMAIN scored,
           scored[j].flags = scored[k].flags
    PROVE  scored[j].delta >= scored[k].delta
  <1> DEFINE a == SortKey(scored[j])
             b == SortKey(scored[k])
  <1>1. IsScore(scored[j]) /\ IsScore(scored[k])
    BY DEF Best
  <1>2. ~Above(a, b)
    BY <1>1, BetterIsAbove DEF Best
  <1>3. a[1] = b[1] /\ a[2] = b[2] /\ a[3] = b[3]
    BY <1>1, KeyType
  <1>4. a[4] = -scored[j].delta /\ b[4] = -scored[k].delta
    BY <1>1, KeyType
  <1> HIDE DEF a, b
  <1>5. ~(a[4] > b[4])
    BY <1>2, <1>3 DEF Above
  <1> QED
    BY <1>1, <1>4, <1>5 DEF IsScore

\* Nothing that agrees in the same respects is closer in time.
LEMMA ClosestIsFound ==
    ASSUME NEW portal, NEW attrs, Searchable(portal, attrs), attrs.at # NoTime,
           Len(portal) <= StageLimit,
           NEW best, best = Chosen(Candidates(portal, attrs)), best # NoEvent,
           NEW e \in InWindow(portal, attrs.at, FallbackMinutes),
           Score(portal, attrs, e).flags = best.flags
    PROVE  Score(portal, attrs, e).delta >= best.delta
  <1> DEFINE scored == Candidates(portal, attrs)
             s == Score(portal, attrs, e)
  <1>1. Searched(portal, attrs, scored) /\ AreScores(portal, attrs, scored)
    BY SearchedEvents
  <1>2. \A k \in DOMAIN scored : IsScore(scored[k])
    BY <1>1, EnoughAgree
  <1>3. /\ Cardinality(best.flags) >= 2
        /\ \E k : Best(scored, k) /\ best = scored[k]
    BY ChosenEvent
  <1>4. PICK k : Best(scored, k) /\ best = scored[k]
    BY <1>3
  <1>5. e \in DOMAIN portal
    BY DEF InWindow
  <1> HIDE DEF scored
  <1>6. ASSUME NEW events, e \in events, Covers(portal, attrs, scored, events)
        PROVE  s.delta >= best.delta
    <2>1. PICK j \in DOMAIN scored : scored[j] = s
      BY <1>6 DEF Covers
    <2> QED
      BY <1>2, <1>4, <2>1, BestIsClosest
  <1>7. CASE \A x \in InWindow(portal, attrs.at, FallbackMinutes) :
                ~(Cardinality(Score(portal, attrs, x).flags) >= 2)
    BY <1>3, <1>7
  <1>8. CASE /\ \A i \in DOMAIN scored :
                   \E x \in InWindow(portal, attrs.at, DeltaMinutes) :
                      scored[i] = Score(portal, attrs, x)
             /\ Covers(portal, attrs, scored, InWindow(portal, attrs.at, DeltaMinutes))
    <2>1. CASE e \in InWindow(portal, attrs.at, DeltaMinutes)
      BY <1>6, <1>8, <2>1
    <2>2. CASE e \notin InWindow(portal, attrs.at, DeltaMinutes)
      <3>1. PICK x \in InWindow(portal, attrs.at, DeltaMinutes) : best = Score(portal, attrs, x)
        BY <1>4, <1>8 DEF Best
      <3>2. x \in DOMAIN portal
        BY DEF InWindow
      <3>3. best.delta <= DeltaMinutes
        BY <3>1, <3>2, InTheFirstWindow
      <3>4. s.delta >= DeltaMinutes
        BY <1>5, <2>2, InTheFirstWindow
      <3>5. best.delta \in Nat /\ s.delta \in Nat
        BY <1>5, <3>1, <3>2, ScoreType DEF Searchable, IsScore
      <3> QED
        BY <3>3, <3>4, <3>5, SearchAssumption
    <2> QED
      BY <2>1, <2>2
  <1> QED
    BY <1>1, <1>6, <1>7, <1>8 DEF Searched

-----------------------------------------------------------------------------
(* The result.                                                             *)

\* What can be matched.
Matchable(portal, attrs) ==
    /\ IsPortal(portal)
    /\ attrs.at = NoTime \/ attrs.at \in Int
    /\ AreStaff(attrs.staff)
    /\ ArePeople(attrs.people)
    /\ \A p \in ToSet(attrs.people) : ~IsEmployee(attrs.text, p)

MovedTo(portal, attrs, e) == StaffOverride(attrs.people, attrs.staff, portal[e].people)

\* Nothing is found, or the event that is best.
IsResult(portal, attrs, r) ==
    LET best == Chosen(Candidates(portal, attrs))
    IN  \/ /\ r.matched = FALSE /\ best = NoEvent
           /\ r.people = attrs.people /\ r.staff = attrs.staff
           /\ r.flags = {}
        \/ /\ r.matched = TRUE /\ best # NoEvent
           /\ attrs.at # NoTime
           /\ r.event = best /\ r.flags = best.flags /\ r.method = Method(best.flags)
           /\ \E e \in DOMAIN portal :
                 /\ best = Score(portal, attrs, e)
                 /\ r.people = MovedTo(portal, attrs, e).people
                 /\ r.staff = MovedTo(portal, attrs, e).staff
                 /\ r.found = MatchOffenders(r.people, portal[e].people, attrs.text)
                 /\ r.counts = Counts(r.found, r.people, portal[e].people)

\* What can be matched and has a time can be searched for.
LEMMA SearchableIf ==
    ASSUME NEW portal, NEW attrs, Matchable(portal, attrs), attrs.at # NoTime
    PROVE  Searchable(portal, attrs)
  BY DEF Matchable, Searchable, ArePeople

\* match_event gives nothing, or the best of the candidates, compared after the
\* staff override.
LEMMA MatchResult ==
    ASSUME NEW portal, NEW attrs, Matchable(portal, attrs), NEW predicted
    PROVE  IsResult(portal, attrs, MatchEvent(portal, attrs, predicted))
  <1> DEFINE best == Chosen(Candidates(portal, attrs))
             r == MatchEvent(portal, attrs, predicted)
  <1>1. r = ResultOf(portal, attrs, predicted, best)
    BY Zenon DEF MatchEvent
  <1>2. CASE best = NoEvent
    <2>1. r = NotFound(attrs)
      BY <1>1, <1>2 DEF ResultOf
    <2> HIDE DEF r
    <2>2. /\ r.matched = FALSE /\ r.flags = {}
          /\ r.people = attrs.people /\ r.staff = attrs.staff
      BY <2>1 DEF NotFound
    <2> QED
      BY <1>2, <2>2 DEF IsResult, r
  <1>3. CASE best # NoEvent
    <2>1. attrs.at # NoTime
      BY <1>3 DEF Candidates, Chosen
    <2>2. PICK e \in DOMAIN portal : best = Score(portal, attrs, e)
      BY <1>3, <2>1, SearchableIf, ChosenEvent
    <2>3. best.event = e
      BY <2>1, <2>2, SearchableIf, ScoreType DEF Searchable
    <2> HIDE DEF best
    <2> DEFINE moved == MovedTo(portal, attrs, e)
               found == MatchOffenders(moved.people, portal[e].people, attrs.text)
    <2>4. r = AfterOverride(attrs, portal[e], predicted, best, moved)
      BY <1>1, <1>3, <2>3, Zenon DEF ResultOf, MovedTo
    <2>5. r = Compared(attrs, portal[e], predicted, best, moved, found)
      BY <2>4, Zenon DEF AfterOverride
    <2> HIDE DEF r, moved, found
    <2>6. /\ r.matched = TRUE /\ r.event = best /\ r.flags = best.flags
          /\ r.method = Method(best.flags)
          /\ r.people = moved.people /\ r.staff = moved.staff
          /\ r.found = found
          /\ r.counts = Counts(found, moved.people, portal[e].people)
      BY <2>5 DEF Compared
    <2>7. r.found = MatchOffenders(r.people, portal[e].people, attrs.text)
      BY <2>6 DEF found
    <2> QED
      BY <1>3, <2>1, <2>2, <2>6, <2>7 DEF IsResult, r, best, moved
  <1> QED
    BY <1>2, <1>3

\* The people after the override: they are listed, and those of before begin
\* the list.
LEMMA MovedPeople ==
    ASSUME NEW portal, NEW attrs, Matchable(portal, attrs), NEW e \in DOMAIN portal
    PROVE  LET moved == MovedTo(portal, attrs, e)
           IN  /\ IsList(moved.people)
               /\ GoesOn(attrs.people, moved.people)
               /\ \A s \in ToSet(attrs.staff) : \/ HasName(moved.people, s.surname)
                                                \/ HasSurname(moved.staff, s.surname)
  BY OverrideKeeps DEF MovedTo, Matchable, ArePeople, AreStaff

\* The comparison after the override tells everything of somebody.
TellsAll(portal, attrs, r) ==
    LET e == r.event.event
        people == portal[e].people
    IN  /\ e \in DOMAIN portal
        /\ r.event = Score(portal, attrs, e)
        /\ IsList(people)
        /\ IsList(r.people)
        /\ Told(r.found.all, people, r.found)
        /\ r.found.all = Comparable([k \in DOMAIN r.people |-> Mention(r.people[k])],
                                    Surnames(people), attrs.text)
        /\ r.counts = Counts(r.found, r.people, people)

\* So the comparison of a matched event tells everything.
LEMMA MatchedPeople ==
    ASSUME NEW portal, NEW attrs, Matchable(portal, attrs),
           NEW r, IsResult(portal, attrs, r), r.matched
    PROVE  TellsAll(portal, attrs, r)
  <1>1. PICK e \in DOMAIN portal :
           /\ r.event = Score(portal, attrs, e)
           /\ r.people = MovedTo(portal, attrs, e).people
           /\ r.found = MatchOffenders(r.people, portal[e].people, attrs.text)
           /\ r.counts = Counts(r.found, r.people, portal[e].people)
    BY DEF IsResult
  <1>2. attrs.at # NoTime
    BY DEF IsResult
  <1>3. r.event.event = e
    BY <1>1, <1>2, SearchableIf, ScoreType DEF Searchable
  <1>4. IsList(r.people)
    BY <1>1, MovedPeople
  <1>5. IsList(portal[e].people)
    BY DEF Matchable, IsPortal
  <1> DEFINE all == Comparable([k \in DOMAIN r.people |-> Mention(r.people[k])],
                               Surnames(portal[e].people), attrs.text)
  <1>6. IsList(all) /\ Told(all, portal[e].people, r.found)
    BY <1>1, <1>4, <1>5, OffendersMatched
  <1> HIDE DEF all
  <1>7. r.found.all = all
    BY <1>6 DEF Told
  <1> QED
    BY <1>1, <1>3, <1>4, <1>5, <1>6, <1>7 DEF TellsAll, all

\* Who stands in the text after the override stood there before it.
PlacesStay(attrs, r) ==
    /\ IsList(r.people) /\ AreStaff(r.staff)
    /\ GoesOn(attrs.people, r.people)
    /\ \A p \in ToSet(r.people) :
          p \in ToSet(attrs.people) \/ ("span" \in DOMAIN p /\ p.span = NoSpan)

\* It adds only people without a place.
LEMMA MatchedPlaces ==
    ASSUME NEW portal, NEW attrs, Matchable(portal, attrs),
           NEW r, IsResult(portal, attrs, r), r.matched
    PROVE  PlacesStay(attrs, r)
  <1>1. PICK e \in DOMAIN portal : /\ r.people = MovedTo(portal, attrs, e).people
                                   /\ r.staff = MovedTo(portal, attrs, e).staff
    BY DEF IsResult
  <1>2. IsList(r.people) /\ GoesOn(attrs.people, r.people)
    BY <1>1, MovedPeople
  <1>3. IsList(attrs.people) /\ AreStaff(attrs.staff)
    BY DEF Matchable, ArePeople
  <1>4. /\ \A p \in ToSet(r.people) :
              p \in ToSet(attrs.people) \/ ("span" \in DOMAIN p /\ p.span = NoSpan)
        /\ IsList(r.staff) /\ ToSet(r.staff) \subseteq ToSet(attrs.staff)
    <2> DEFINE moved == MovedTo(portal, attrs, e)
    <2>1. /\ \A p \in ToSet(moved.people) :
                p \in ToSet(attrs.people) \/ ("span" \in DOMAIN p /\ p.span = NoSpan)
          /\ IsList(moved.staff) /\ ToSet(moved.staff) \subseteq ToSet(attrs.staff)
      BY <1>3, WhoJoins DEF MovedTo, AreStaff
    <2> HIDE DEF moved
    <2>2. r.people = moved.people /\ r.staff = moved.staff
      BY <1>1 DEF moved
    <2> QED
      BY <2>1, <2>2
  <1> QED
    BY <1>2, <1>3, <1>4 DEF PlacesStay, AreStaff

\* Who is missing in the portal, and has a place, is one of the people that were
\* extracted, and marked as such.
LEMMA MissingIsNamed ==
    ASSUME NEW portal, NEW attrs, Matchable(portal, attrs),
           NEW r, IsResult(portal, attrs, r), r.matched,
           NEW i, i \in r.found.missingInPortal, r.found.all[i].span # NoSpan
    PROVE  /\ \E k \in 1..Len(attrs.people) : attrs.people[k].span = r.found.all[i].span
           /\ <<r.found.all[i].span, "err">> \in SpanColours(r, portal)
           /\ <<r.found.all[i].span, "ok">> \notin SpanColours(r, portal)
  <1> DEFINE people == portal[r.event.event].people
             mentions == [k \in DOMAIN r.people |-> Mention(r.people[k])]
             all == r.found.all
             place == all[i].span
  <1>1. TellsAll(portal, attrs, r) /\ PlacesStay(attrs, r)
    BY MatchedPeople, MatchedPlaces
  <1>2. /\ Told(all, people, r.found)
        /\ all = Comparable(mentions, Surnames(people), attrs.text)
        /\ IsList(r.people)
    BY <1>1 DEF TellsAll
  <1> HIDE DEF people
  <1>3. i \in DOMAIN all
    BY <1>2 DEF Told
  <1>4. Len(r.people) \in Nat /\ DOMAIN r.people = 1..Len(r.people)
    BY <1>2 DEF IsList
  <1>5. IsList(mentions)
    <2>1. mentions = [k \in 1..Len(r.people) |-> mentions[k]]
      BY <1>4
    <2> HIDE DEF mentions
    <2> QED
      BY <1>4, <2>1, ListIf
  <1>6. \A m \in ToSet(mentions) : \E p \in ToSet(r.people) : m = Mention(p)
    BY DEF ToSet
  <1> HIDE DEF mentions
  <1>7. all[i] \in ToSet(all) /\ ToSet(all) \subseteq ToSet(mentions)
    BY <1>2, <1>3, <1>5, ComparedPeople DEF ToSet
  <1>8. PICK p \in ToSet(r.people) : all[i] = Mention(p)
    BY <1>6, <1>7
  <1>9. "span" \in DOMAIN p /\ (p \in ToSet(attrs.people) \/ p.span = NoSpan)
    BY <1>1 DEF PlacesStay, Matchable, ArePeople
  <1>10. place = p.span
    BY <1>8, <1>9 DEF Mention
  <1>11. \E k \in 1..Len(attrs.people) : attrs.people[k].span = place
    <2>1. p \in ToSet(attrs.people)
      BY <1>9, <1>10
    <2>2. DOMAIN attrs.people = 1..Len(attrs.people)
      BY DEF Matchable, ArePeople, IsList
    <2> QED
      BY <1>10, <2>1, <2>2 DEF ToSet
  <1>12. SpanStatus(r.found, people, place) = "err"
    BY Zenon DEF SpanStatus
  <1> HIDE DEF place, all
  <1>13. SpanColours(r, portal) = {<<m.span, SpanStatus(r.found, people, m.span)>> :
                                       m \in {m \in ToSet(all) : m.span # NoSpan}}
    BY DEF SpanColours, people, all
  <1>14. all[i] \in ToSet(all) /\ all[i].span = place /\ place # NoSpan
    BY <1>7 DEF place, all
  <1>15. <<place, "err">> \in SpanColours(r, portal)
    BY <1>12, <1>13, <1>14
  <1>16. ASSUME <<place, "ok">> \in SpanColours(r, portal)
         PROVE  FALSE
    <2>1. PICK m \in ToSet(all) : <<place, "ok">> = <<m.span, SpanStatus(r.found, people, m.span)>>
      BY <1>13, <1>16
    <2>2. SpanStatus(r.found, people, place) = "ok"
      BY <2>1
    <2> QED
      BY <1>12, <2>2
  <1> QED
    BY <1>11, <1>15, <1>16 DEF place, all

\* The surnames on the two lists.
NamesIn(people, staff) ==
    {people[k].second : k \in DOMAIN people} \cup {staff[k].surname : k \in DOMAIN staff}

\* Nobody is lost between the people and the staff.
LEMMA NamesStay ==
    ASSUME NEW portal, NEW attrs, Matchable(portal, attrs),
           NEW r, IsResult(portal, attrs, r)
    PROVE  /\ NamesIn(attrs.people, attrs.staff) \subseteq NamesIn(r.people, r.staff)
           /\ Len(attrs.people) <= Len(r.people)
  <1>1. IsList(attrs.people) /\ IsList(attrs.staff)
    BY DEF Matchable, ArePeople, AreStaff
  <1>2. Len(attrs.people) \in Nat /\ DOMAIN attrs.people = 1..Len(attrs.people)
    BY <1>1 DEF IsList
  <1>3. CASE r.people = attrs.people /\ r.staff = attrs.staff
    BY <1>2, <1>3
  <1>4. ASSUME NEW e \in DOMAIN portal,
               r.people = MovedTo(portal, attrs, e).people,
               r.staff = MovedTo(portal, attrs, e).staff
        PROVE  /\ NamesIn(attrs.people, attrs.staff) \subseteq NamesIn(r.people, r.staff)
               /\ Len(attrs.people) <= Len(r.people)
    <2>1. /\ IsList(r.people)
          /\ GoesOn(attrs.people, r.people)
          /\ \A s \in ToSet(attrs.staff) : HasName(r.people, s.surname) \/ HasSurname(r.staff, s.surname)
      BY <1>4, MovedPeople
    <2>2. Len(r.people) \in Nat /\ DOMAIN r.people = 1..Len(r.people)
      BY <2>1 DEF IsList
    <2>3. \A k \in DOMAIN attrs.people : k \in DOMAIN r.people /\ r.people[k] = attrs.people[k]
      BY <1>2, <2>1, <2>2 DEF GoesOn
    <2>4. \A k \in DOMAIN attrs.people : attrs.people[k].second \in NamesIn(r.people, r.staff)
      BY <2>3 DEF NamesIn
    <2>5. \A k \in DOMAIN attrs.staff : attrs.staff[k] \in ToSet(attrs.staff)
      BY DEF ToSet
    <2>6. \A k \in DOMAIN attrs.staff : attrs.staff[k].surname \in NamesIn(r.people, r.staff)
      BY <2>1, <2>5 DEF NamesIn, HasName, HasSurname
    <2>7. NamesIn(attrs.people, attrs.staff) \subseteq NamesIn(r.people, r.staff)
      BY <2>4, <2>6 DEF NamesIn
    <2> QED
      BY <2>1, <2>7 DEF GoesOn
  <1> QED
    BY <1>3, <1>4 DEF IsResult

\* Green means that nobody is possible or missing, so that who is told of is
\* paired.
LEMMA GreenIsComplete ==
    ASSUME NEW portal, NEW attrs, Matchable(portal, attrs),
           NEW r, IsResult(portal, attrs, r), OffendersStatus(r) = "green"
    PROVE  LET people == portal[r.event.event].people
               pairs == ToSet(r.found.pairs)
           IN  /\ ToSet(people) \subseteq {people[x.portal] : x \in pairs}
               /\ \A i \in DOMAIN r.found.all :
                     \/ MentionKey(r.found.all[i])
                           \in {MentionKey(r.found.all[x.mention]) : x \in pairs}
                     \/ i \in r.found.ambiguous
  <1> DEFINE people == portal[r.event.event].people
             found == r.found
             c == r.counts
  <1>1. r.matched
    BY DEF OffendersStatus, IsResult
  <1>2. /\ Told(found.all, people, found)
        /\ c = Counts(found, r.people, people)
    <2>1. TellsAll(portal, attrs, r)
      BY <1>1, MatchedPeople
    <2> QED
      BY <2>1 DEF TellsAll
  <1> HIDE DEF people
  <1>3. ~(Issues(c) > 0)
    <2>1. "green" # "red" /\ "green" # "yellow"
      OBVIOUS
    <2> HIDE DEF c
    <2> QED
      BY <1>1, <2>1 DEF OffendersStatus, c
  <1> HIDE DEF found, c
  <1>4. /\ IsFiniteSet(found.missingInPortal) /\ IsFiniteSet(found.missingInSvodka)
        /\ found.possible \in Seq(PairOf(found.all, people))
        /\ AllTold(found, people)
    BY <1>2 DEF Told
  <1>5. /\ Cardinality(found.missingInPortal) \in Nat
        /\ Cardinality(found.missingInSvodka) \in Nat
        /\ Len(found.possible) \in Nat
    BY <1>4, FS_CardinalityType
  <1>6. /\ c.dob_mismatch = Len(found.possible)
        /\ c.missing_in_portal = Cardinality(found.missingInPortal)
        /\ c.missing_in_svodka = Cardinality(found.missingInSvodka)
    BY <1>2 DEF Counts
  <1>7. /\ Len(found.possible) = 0
        /\ Cardinality(found.missingInPortal) = 0
        /\ Cardinality(found.missingInSvodka) = 0
    BY <1>3, <1>5, <1>6 DEF Issues
  <1>8. found.missingInPortal = {} /\ found.missingInSvodka = {}
    BY <1>4, <1>7, FS_EmptySet
  <1>9. ToSet(found.possible) = {}
    <2>1. DOMAIN found.possible = {}
      BY <1>4, <1>7
    <2> QED
      BY <2>1 DEF ToSet
  <1>10. /\ \A j \in DOMAIN people : \E x \in ToSet(found.pairs) : people[x.portal] = people[j]
         /\ \A i \in DOMAIN found.all :
               \/ i \in found.ambiguous
               \/ \E x \in ToSet(found.pairs) :
                     MentionKey(found.all[x.mention]) = MentionKey(found.all[i])
    BY <1>4, <1>8, <1>9 DEF AllTold
  <1>11. ToSet(people) \subseteq {people[x.portal] : x \in ToSet(found.pairs)}
    BY <1>10 DEF ToSet
  <1> QED
    BY <1>10, <1>11 DEF people, found

\* Whoever counted in the choice of the event is there when its people are
\* compared, with somebody whom he fits.
LEMMA PairStays ==
    ASSUME NEW portal, NEW attrs, Matchable(portal, attrs),
           NEW r, IsResult(portal, attrs, r), "offenders" \in r.flags
    PROVE  r.counts.matched > 0
  <1>1. r.matched /\ attrs.at # NoTime
    BY DEF IsResult
  <1>2. PICK e \in DOMAIN portal :
           /\ r.event = Score(portal, attrs, e) /\ r.flags = r.event.flags
           /\ r.people = MovedTo(portal, attrs, e).people
    BY <1>1 DEF IsResult
  <1>3. r.event.event = e
    BY <1>1, <1>2, SearchableIf, ScoreType DEF Searchable
  <1> DEFINE people == portal[e].people
             scoring == MatchOffenders(attrs.people, people, Silence)
             before == [k \in DOMAIN attrs.people |-> Mention(attrs.people[k])]
             after == [k \in DOMAIN r.people |-> Mention(r.people[k])]
             all == Comparable(before, Surnames(people), Silence)
  <1>4. attrs.people # <<>> /\ Len(scoring.pairs) >= 1
    <2> DEFINE overlap == IF attrs.people = <<>> THEN 0 ELSE Len(scoring.pairs)
    <2>1. PICK delta : r.event.flags = Agreement(attrs, portal[e], delta, overlap)
      <3>1. PICK delta : Score(portal, attrs, e)
                = [event |-> e, flags |-> Agreement(attrs, portal[e], delta, overlap),
                   delta |-> delta, overlap |-> overlap]
        BY Zenon DEF Score
      <3> QED
        BY <1>2, <3>1
    <2> HIDE DEF overlap
    <2>2. overlap >= 1
      <3>1. "offenders" # "time" /\ "offenders" # "subdivision"
        OBVIOUS
      <3> QED
        BY <1>2, <2>1, <3>1 DEF Agreement
    <2> HIDE DEF scoring
    <2> QED
      BY <2>2 DEF overlap
  <1>5. IsList(attrs.people) /\ IsList(people)
    BY DEF Matchable, ArePeople, IsPortal
  <1>6. IsList(all) /\ Told(all, people, scoring)
    BY <1>5, OffendersMatched
  <1>7. IsList(before) /\ DOMAIN before = DOMAIN attrs.people
    <2>1. Len(attrs.people) \in Nat /\ DOMAIN attrs.people = 1..Len(attrs.people)
      BY <1>5 DEF IsList
    <2>2. before = [k \in 1..Len(attrs.people) |-> before[k]]
      BY <2>1
    <2> HIDE DEF before
    <2> QED
      BY <2>1, <2>2, ListIf
  <1>8. /\ Told(r.found.all, people, r.found) /\ IsList(r.people)
        /\ r.found.all = Comparable(after, Surnames(people), attrs.text)
        /\ r.counts = Counts(r.found, r.people, people)
    <2>1. TellsAll(portal, attrs, r)
      BY <1>1, MatchedPeople
    <2> QED
      BY <1>3, <2>1 DEF TellsAll
  <1>9. IsList(after) /\ DOMAIN after = DOMAIN r.people
    <2>1. Len(r.people) \in Nat /\ DOMAIN r.people = 1..Len(r.people)
      BY <1>8 DEF IsList
    <2>2. after = [k \in 1..Len(r.people) |-> after[k]]
      BY <2>1
    <2> HIDE DEF after
    <2> QED
      BY <2>1, <2>2, ListIf
  <1> HIDE DEF scoring, all, people
  <1>10. PICK x \in PairOf(all, people) : Fits(all[x.mention], people[x.portal])
    <2>1. scoring.pairs \in Seq(PairOf(all, people))
      BY <1>6 DEF Told
    <2>2. 1 \in DOMAIN scoring.pairs /\ scoring.pairs[1] \in PairOf(all, people)
      BY <1>4, <2>1
    <2> QED
      BY <1>6, <2>2 DEF Told
  <1> DEFINE m == all[x.mention]
             j == x.portal
  <1>11. j \in DOMAIN people /\ m \in ToSet(all) /\ Fits(m, people[j])
    BY <1>10 DEF PairOf, ToSet
  <1> HIDE DEF m, j, before, after
  <1>12. m \in ToSet(before)
    BY <1>7, <1>11, ComparedPeople DEF all
  <1>13. PICK k \in DOMAIN attrs.people : m = before[k]
    BY <1>7, <1>12 DEF ToSet
  <1>14. m = Mention(attrs.people[k])
    BY <1>13 DEF before
  <1>15. ~IsEmployee(attrs.text, m)
    <2>1. attrs.people[k] \in ToSet(attrs.people)
      BY DEF ToSet
    <2>2. ~IsEmployee(attrs.text, attrs.people[k]) /\ {"span", "dob"} \subseteq DOMAIN attrs.people[k]
      BY <2>1 DEF Matchable, ArePeople
    <2>3. m.span = attrs.people[k].span
      BY <1>14, <2>2 DEF Mention
    <2> QED
      BY <2>2, <2>3, Zenon DEF IsEmployee
  <1>16. m \in ToSet(after)
    <2>1. GoesOn(attrs.people, r.people)
      BY <1>2, MovedPeople
    <2>2. k \in DOMAIN r.people /\ r.people[k] = attrs.people[k]
      BY <1>5, <1>8, <2>1 DEF GoesOn, IsList
    <2>3. after[k] = m
      BY <1>14, <2>2 DEF after
    <2> QED
      BY <1>9, <2>2, <2>3 DEF ToSet
  <1>17. m \in ToSet(r.found.all)
    BY <1>8, <1>9, <1>15, <1>16, ComparedPeople
  <1>18. PICK i \in DOMAIN r.found.all : r.found.all[i] = m
    BY <1>17 DEF ToSet
  <1>19. r.counts.matched = Len(r.found.pairs) /\ r.found.pairs \in Seq(PairOf(r.found.all, people))
    BY <1>8 DEF Counts, Told
  <1>20. ASSUME Len(r.found.pairs) = 0
         PROVE  FALSE
    <2>1. DOMAIN r.found.pairs = {}
      BY <1>19, <1>20
    <2>2. MentionsOf(r.found.pairs) = {} /\ PortalsOf(r.found.pairs) = {}
      BY <2>1 DEF MentionsOf, PortalsOf
    <2>3. NoneLeft(r.found, people)
      BY <1>8 DEF Told
    <2> QED
      BY <1>11, <1>18, <2>2, <2>3 DEF NoneLeft
  <1>21. Len(r.found.pairs) \in Nat
    BY <1>19
  <1> QED
    BY <1>19, <1>20, <1>21

-----------------------------------------------------------------------------
(* Dates and times.                                                        *)

\* Two lists, one after the other.
LEMMA JoinedLists ==
    ASSUME NEW s, IsList(s), NEW t, IsList(t)
    PROVE  IsList(s \o t) /\ ToSet(s \o t) = ToSet(s) \cup ToSet(t)
  <1> DEFINE S == ToSet(s) \cup ToSet(t)
             u == s \o t
  <1>1. s \in Seq(S) /\ t \in Seq(S)
    BY ListWithin
  <1> HIDE DEF S
  <1>2. u \in Seq(S)
    BY <1>1
  <1>3. /\ \A k \in DOMAIN s : k \in DOMAIN u /\ u[k] = s[k]
        /\ \A k \in DOMAIN t : Len(s) + k \in DOMAIN u /\ u[Len(s) + k] = t[k]
    BY <1>1
  <1> HIDE DEF u
  <1>4. IsList(u) /\ ToSet(u) \subseteq S
    BY <1>2, ListOf
  <1>5. ToSet(s) \subseteq ToSet(u) /\ ToSet(t) \subseteq ToSet(u)
    BY <1>3 DEF ToSet
  <1> QED
    BY <1>4, <1>5 DEF S, u

\* The first of a list that is not empty.
LEMMA HeadIsIn ==
    ASSUME NEW s, IsList(s), s # <<>>
    PROVE  Head(s) \in ToSet(s)
  <1>1. Len(s) \in Nat /\ DOMAIN s = 1..Len(s) /\ 1 \in DOMAIN s /\ Head(s) = s[1]
    BY DEF IsList
  <1> QED
    BY <1>1 DEF ToSet

\* _extract_ru_date gives one of the dates that are read in the text.
LEMMA RuDateType ==
    ASSUME NEW text, DatesIn(text), RuDate(text) # NoDate
    PROVE  RuDate(text) \in ToSet(text.numeric) \cup ToSet(text.worded)
           /\ RuDate(text).day # NoTime
  <1> DEFINE dates == text.numeric \o text.worded
             real == Filter(dates, {d \in ToSet(dates) : d.day # NoTime})
  <1>1. IsList(dates) /\ ToSet(dates) = ToSet(text.numeric) \cup ToSet(text.worded)
    BY JoinedLists DEF DatesIn
  <1>2. RuDate(text) = IF real = <<>> THEN NoDate ELSE Head(real)
    BY DEF RuDate
  <1> HIDE DEF dates
  <1>3. IsList(real) /\ \A d \in ToSet(real) : d \in ToSet(dates) /\ d.day # NoTime
    BY <1>1, ListMembers
  <1> HIDE DEF real
  <1> QED
    BY <1>1, <1>2, <1>3, HeadIsIn

\* A bare time is beside the date.
Bare(text, date) ==
    {t \in ToSet(text.times) : /\ date # NoDate => ~Overlap(t.span, date.span)
                               /\ ~t.legal
                               /\ t.time # NoTime}

\* _extract_ru_time gives an announced time, or one beside the date.
LEMMA RuTimeType ==
    ASSUME NEW text, DatesIn(text),
           NEW date, date = NoDate \/ (date.span[1] \in Int /\ date.span[2] \in Int),
           RuTime(text, date) # NoDate
    PROVE  /\ RuTime(text, date) \in ToSet(Announced(text)) \cup Bare(text, date)
           /\ RuTime(text, date).time # NoTime
  <1> DEFINE announced == Announced(text)
             said == Filter(announced, {t \in ToSet(announced) : t.time # NoTime})
             bare == Bare(text, date)
             distance(t) == IF date = NoDate THEN t.span[1]
                            ELSE IF t.span[1] >= date.span[2] THEN t.span[1] - date.span[2]
                            ELSE date.span[1] - t.span[2]
             key(t) == <<IF t.sep = ":" THEN 0 ELSE 1, distance(t), t.span[1]>>
             before(a, b) == \/ a[1] < b[1]
                             \/ a[1] = b[1] /\ a[2] < b[2]
                             \/ a[1] = b[1] /\ a[2] = b[2] /\ a[3] <= b[3]
             nearest == CHOOSE t \in bare : \A u \in bare : before(key(t), key(u))
             time == RuTime(text, date)
  <1>1. time = CASE said # <<>> -> Head(said)
                 [] said = <<>> /\ bare # {} -> nearest
                 [] OTHER -> NoDate
    BY Zenon DEF RuTime, Bare
  <1>2. IsList(said) /\ \A t \in ToSet(said) : t \in ToSet(announced) /\ t.time # NoTime
    <2>1. IsList(announced)
      BY JoinedLists DEF Announced, DatesIn
    <2> HIDE DEF announced
    <2> QED
      BY <2>1, ListMembers
  <1> HIDE DEF said, announced
  <1>3. CASE said # <<>>
    <2>1. time = Head(said)
      BY <1>1, <1>3
    <2> QED
      BY <1>2, <1>3, <2>1, HeadIsIn DEF announced
  <1>4. CASE said = <<>> /\ bare # {}
    <2>1. time = nearest
      BY <1>1, <1>4
    <2>2. \A t \in bare : distance(t) \in Int /\ t.span[1] \in Int
      <3>1. \A t \in bare : t.span[1] \in Int /\ t.span[2] \in Int
        BY DEF Bare, DatesIn
      <3> HIDE DEF bare
      <3> QED
        BY <3>1
    <2> HIDE DEF distance
    <2>3. \A t \in bare : /\ key(t)[1] \in Int /\ key(t)[2] \in Int /\ key(t)[3] \in Int
      BY <2>2
    <2> HIDE DEF key
    <2> DEFINE R == {p \in bare \X bare : before(key(p[1]), key(p[2]))}
    <2>4. Compares(R, bare)
      <3>1. \A x, y \in bare : before(key(x), key(y)) \/ before(key(y), key(x))
        BY <2>3
      <3>2. \A x, y, z \in bare : before(key(x), key(y)) /\ before(key(y), key(z))
                                  => before(key(x), key(z))
        BY <2>3
      <3> HIDE DEF before
      <3>3. \A x, y \in bare : <<x, y>> \in R <=> before(key(x), key(y))
        OBVIOUS
      <3> HIDE DEF R
      <3> QED
        BY <3>1, <3>2, <3>3 DEF Compares
    <2>5. IsFiniteSet(bare)
      <3>1. IsFiniteSet(ToSet(text.times))
        <4> DEFINE S == ToSet(text.times)
                   s == text.times
        <4>1. s \in Seq(S)
          BY DEF DatesIn, IsList
        <4>2. ToSet(s) = {s[k] : k \in DOMAIN s}
          BY DEF ToSet
        <4> HIDE DEF S, s
        <4>3. IsFiniteSet({s[k] : k \in DOMAIN s})
          BY <4>1, FiniteImage
        <4> QED
          BY <4>2, <4>3 DEF s
      <3>2. bare \subseteq ToSet(text.times)
        BY DEF Bare
      <3> QED
        BY <3>1, <3>2, FS_Subset
    <2> HIDE DEF before, bare, R
    <2>6. \E t \in bare : \A u \in bare : <<t, u>> \in R
      BY <1>4, <2>4, <2>5, LeastExists DEF Least
    <2>7. \E t \in bare : \A u \in bare : before(key(t), key(u))
      BY <2>6 DEF R
    <2>8. nearest \in bare
      BY <2>7, Zenon
    <2> HIDE DEF nearest
    <2> QED
      BY <2>1, <2>8 DEF Bare, bare
  <1>5. CASE said = <<>> /\ bare = {}
    BY <1>1, <1>5
  <1> QED
    BY <1>3, <1>4, <1>5

\* When it was, and a time that is not announced is no part of the date.
LEMMA WhenItWas ==
    ASSUME NEW text, DatesIn(text)
    PROVE  LET when == DateTime(text)
           IN  /\ when.at = NoTime \/ when.at \in Int
               /\ \/ when.date = NoDate
                  \/ when.time = NoDate
                  \/ when.time \in ToSet(Announced(text))
                  \/ when.time.span[2] <= when.date.span[1]
                  \/ when.date.span[2] <= when.time.span[1]
               /\ when.date # NoDate => when.date.span \in Int \X Int
               /\ when.time # NoDate => when.time.span \in Int \X Int
  <1> DEFINE natasha == text.natasha
             date == IF natasha # NoDate /\ natasha.day # NoTime THEN natasha ELSE RuDate(text)
             time == RuTime(text, date)
             known == date # NoDate /\ date.time # 0
             found == known \/ (date # NoDate /\ time # NoDate)
             of == IF known THEN date.time ELSE IF found THEN time.time ELSE 0
             at == IF date = NoDate THEN NoTime ELSE date.day * DayUnits + of
  <1>1. DateTime(text) = [at |-> at, found |-> found, date |-> date, time |-> time]
    BY Zenon DEF DateTime
  <1>2. ASSUME date # NoDate
        PROVE  /\ date.span \in Int \X Int
               /\ date.day \in Int /\ date.time \in Int
    BY <1>2, RuDateType DEF DatesIn
  <1> HIDE DEF date
  <1>3. ASSUME time # NoDate
        PROVE  /\ time \in ToSet(Announced(text)) \cup Bare(text, date)
               /\ time.time \in Int /\ time.span \in Int \X Int
    <2>1. /\ time \in ToSet(Announced(text)) \cup Bare(text, date)
          /\ time.time # NoTime
      BY <1>2, <1>3, RuTimeType
    <2>2. ToSet(Announced(text)) = ToSet(text.clocks[1]) \cup ToSet(text.clocks[2])
      BY JoinedLists DEF Announced, DatesIn
    <2>3. Bare(text, date) \subseteq ToSet(text.times)
      BY DEF Bare
    <2> HIDE DEF time
    <2> QED
      BY <2>1, <2>2, <2>3 DEF DatesIn
  <1> HIDE DEF time
  <1>4. date # NoDate => of \in Int
    BY <1>2, <1>3
  <1> HIDE DEF of, found
  <1>5. at = NoTime \/ at \in Int
    BY <1>2, <1>4, DayAssumption
  <1>6. ASSUME date # NoDate, time \in Bare(text, date)
        PROVE  time.span[2] <= date.span[1] \/ date.span[2] <= time.span[1]
    BY <1>2, <1>6 DEF Bare, Overlap, DatesIn
  <1> HIDE DEF at
  <1> QED
    BY <1>1, <1>2, <1>3, <1>5, <1>6

-----------------------------------------------------------------------------
(* The type of event.                                                      *)

\* Among scored candidates there is a best, and the first of the best is one.
LEMMA FirstOfBest ==
    ASSUME NEW found, IsList(found), found # <<>>,
           \A k \in DOMAIN found : found[k].score \in Int
    PROVE  \E k \in DOMAIN found : /\ FirstBest(found) = found[k]
                                   /\ \A j \in DOMAIN found : found[j].score <= found[k].score
  <1> DEFINE D == DOMAIN found
             before(k, j) == \/ found[k].score > found[j].score
                             \/ found[k].score = found[j].score /\ k <= j
             first(k) == \A j \in D : before(k, j)
             R == {x \in D \X D : before(x[1], x[2])}
  <1>1. Len(found) \in Nat /\ D = 1..Len(found) /\ D # {}
    BY DEF IsList
  <1>2. IsFiniteSet(D) /\ D \in SUBSET Int
    BY <1>1, FS_Interval
  <1>3. \A j, k \in D : <<k, j>> \in R <=> before(k, j)
    OBVIOUS
  <1> HIDE DEF R
  <1>4. Compares(R, D)
    <2> HIDE DEF D
    <2>1. \A j \in D : found[j].score \in Int /\ j \in Int
      BY <1>2 DEF D
    <2> QED
      BY <1>3, <2>1 DEF Compares
  <1>5. PICK k \in D : Least(R, D, k)
    <2> HIDE DEF D
    <2> QED
      BY <1>1, <1>2, <1>4, LeastExists DEF Least
  <1>6. first(k)
    BY <1>3, <1>5 DEF Least
  <1> DEFINE best == CHOOSE b \in D : first(b)
  <1>7. best \in D /\ first(best)
    <2> HIDE DEF first
    <2> QED
      BY <1>6, Zenon
  <1>8. FirstBest(found) = found[best]
    BY Zenon DEF FirstBest
  <1> HIDE DEF best
  <1> QED
    BY <1>7, <1>8

\* The patterns that are in use.
LEMMA RowsInUse ==
    ASSUME NEW types, NEW patterns, IsList(patterns)
    PROVE  /\ IsList(ActiveRows(types, patterns))
           /\ \A r : r \in ToSet(ActiveRows(types, patterns))
                        <=> r \in ToSet(patterns) /\ r.active /\ ActiveType(types, r.type)
  <1> DEFINE T == {r \in ToSet(patterns) : r.active /\ ActiveType(types, r.type)}
  <1>1. IsList(Filter(patterns, T)) /\ ToSet(Filter(patterns, T)) = ToSet(patterns) \cap T
    <2> HIDE DEF T
    <2> QED
      BY ListMembers
  <1>2. ActiveRows(types, patterns) = Filter(patterns, T)
    BY Zenon DEF ActiveRows
  <1> QED
    BY <1>1, <1>2

\* The best candidate of a type, of those of its patterns.
IsBestOf(text, patterns, type, c) ==
    /\ \E r \in ToSet(patterns) : r.type = type.id /\ r.active /\ c = Candidate(text, r)
    /\ \A r \in ToSet(patterns) :
          r.type = type.id /\ r.active => Candidate(text, r).score <= c.score

\* An active type has one if it has a pattern in use.
LEMMA TypeRows ==
    ASSUME NEW patterns, IsList(patterns), NEW type, NEW text,
           \A r \in ToSet(patterns) : Candidate(text, r).score \in Int
    PROVE  /\ RowsOf(patterns, type) # <<>>
                 <=> \E r \in ToSet(patterns) : r.type = type.id /\ r.active
           /\ RowsOf(patterns, type) # <<>>
                 => IsBestOf(text, patterns, type, BestOf(text, RowsOf(patterns, type)))
  <1> DEFINE T == {r \in ToSet(patterns) : r.type = type.id /\ r.active}
             rows == RowsOf(patterns, type)
             found == [k \in DOMAIN rows |-> Candidate(text, rows[k])]
  <1>1. IsList(rows) /\ ToSet(rows) = T
    <2>1. IsList(Filter(patterns, T)) /\ ToSet(Filter(patterns, T)) = ToSet(patterns) \cap T
      <3> HIDE DEF T
      <3> QED
        BY ListMembers
    <2>2. rows = Filter(patterns, T)
      BY Zenon DEF RowsOf
    <2> HIDE DEF rows
    <2> QED
      BY <2>1, <2>2
  <1>2. BestOf(text, rows) = FirstBest(found)
    BY Zenon DEF BestOf
  <1> HIDE DEF rows
  <1>3. /\ Len(rows) \in Nat /\ DOMAIN rows = 1..Len(rows)
        /\ rows # <<>> <=> Len(rows) # 0
        /\ T = {rows[k] : k \in 1..Len(rows)}
    <2> HIDE DEF T
    <2>1. rows \in Seq(T)
      BY <1>1 DEF IsList
    <2>2. T = {rows[k] : k \in DOMAIN rows}
      BY <1>1 DEF ToSet
    <2> QED
      BY <2>1, <2>2
  <1>4. rows # <<>> <=> T # {}
    <2> HIDE DEF T
    <2>1. Len(rows) # 0 => 1 \in 1..Len(rows)
      BY <1>3
    <2>2. Len(rows) = 0 => 1..Len(rows) = {}
      BY <1>3
    <2> QED
      BY <1>3, <2>1, <2>2
  <1>5. /\ DOMAIN found = 1..Len(rows)
        /\ \A k \in 1..Len(rows) : found[k] = Candidate(text, rows[k]) /\ rows[k] \in T
    BY <1>3
  <1>6. IsList(found)
    <2>1. found = [k \in 1..Len(rows) |-> found[k]]
      BY <1>3
    <2> HIDE DEF found
    <2> QED
      BY <1>3, <2>1, ListIf
  <1>7. \A k \in DOMAIN found : found[k].score \in Int
    BY <1>5
  <1> HIDE DEF found
  <1>8. ASSUME rows # <<>>
        PROVE  IsBestOf(text, patterns, type, BestOf(text, rows))
    <2>1. found # <<>>
      BY <1>3, <1>5, <1>8
    <2>2. PICK k \in DOMAIN found : /\ FirstBest(found) = found[k]
                                    /\ \A j \in DOMAIN found : found[j].score <= found[k].score
      BY <1>6, <1>7, <2>1, FirstOfBest
    <2>3. BestOf(text, rows) = Candidate(text, rows[k]) /\ rows[k] \in T
      BY <1>2, <1>5, <2>2
    <2>4. ASSUME NEW r \in T
          PROVE  Candidate(text, r).score <= BestOf(text, rows).score
      <3>1. PICK j \in 1..Len(rows) : r = rows[j]
        BY <1>3, <2>4
      <3> QED
        BY <1>2, <1>5, <2>2, <3>1
    <2> QED
      BY <2>3, <2>4 DEF IsBestOf
  <1> QED
    BY <1>4, <1>8 DEF rows

\* The first of the ranked is one of them, and none is better.
LEMMA RankedFirst ==
    ASSUME NEW each, IsList(each), \A k \in DOMAIN each : each[k].score \in Int,
           NEW n \in Nat \ {0}
    PROVE  /\ Ranked(each, n) # <<>> <=> \E k \in DOMAIN each : each[k].score >= MinScore
           /\ Ranked(each, n) # <<>> =>
                 \E k \in DOMAIN each : /\ Head(Ranked(each, n)) = each[k]
                                        /\ each[k].score >= MinScore
                                        /\ \A j \in DOMAIN each : each[j].score <= each[k].score
  <1> DEFINE good == {k \in DOMAIN each : each[k].score >= MinScore}
             before(a, b) == \/ each[a].score > each[b].score
                             \/ each[a].score = each[b].score /\ a < b
             R == {x \in good \X good : before(x[1], x[2])}
             order == Sorted(good, R)
             c == Cardinality(good)
             m == Min({n, Len(order)})
             t == Ranked(each, n)
  <1>1. Len(each) \in Nat /\ DOMAIN each = 1..Len(each) /\ MinScore \in Int
    BY ClassifierAssumption DEF IsList
  <1>2. IsFiniteSet(good)
    BY <1>1, FinitePart
  <1>3. \A k \in good : each[k].score \in Int /\ k \in Int
    BY <1>1
  <1>4. \A a, b \in good : <<a, b>> \in R <=> before(a, b)
    OBVIOUS
  <1>5. t = [k \in 1..m |-> each[order[k]]]
    BY Zenon DEF Ranked
  <1> HIDE DEF t
  <1>6. Orders(R, good)
    <2> HIDE DEF R, good
    <2> QED
      BY <1>3, <1>4 DEF Orders
  <1> HIDE DEF R
  <1>7. /\ c \in Nat /\ order \in [1..c -> good]
        /\ \A i, j \in 1..c : i < j => <<order[i], order[j]>> \in R
        /\ \A x \in good : \E i \in 1..c : order[i] = x
    <2> HIDE DEF good
    <2> QED
      BY <1>2, <1>6, Sorting
  <1> HIDE DEF order, c
  <1>8. Len(order) = c
    BY <1>7
  <1>9. m \in Nat /\ m <= c /\ (c > 0 => m > 0)
    BY <1>7, <1>8, MinOfTwo
  <1> HIDE DEF m
  <1>10. t # <<>> <=> c > 0
    <2>1. t = [k \in 1..m |-> t[k]]
      BY <1>5
    <2>2. IsList(t)
      BY <1>9, <2>1, ListIf
    <2>3. t \in Seq(ToSet(t)) /\ Len(t) = m
      BY <1>5, <1>9, <2>2 DEF IsList
    <2> QED
      BY <1>7, <1>9, <2>3
  <1>11. c > 0 <=> good # {}
    <2> HIDE DEF good
    <2> QED
      BY <1>7
  <1>12. ASSUME c > 0
         PROVE  \E k \in DOMAIN each : /\ Head(t) = each[k]
                                       /\ each[k].score >= MinScore
                                       /\ \A j \in DOMAIN each : each[j].score <= each[k].score
    <2>1. Head(t) = each[order[1]] /\ order[1] \in good
      BY <1>5, <1>7, <1>9, <1>12
    <2>2. ASSUME NEW j \in DOMAIN each
          PROVE  each[j].score <= each[order[1]].score
      <3>1. CASE j \in good
        <4>1. PICK i \in 1..c : order[i] = j
          BY <1>7, <3>1
        <4>2. i = 1 \/ <<order[1], order[i]>> \in R
          BY <1>7, <1>12, <4>1
        <4>3. j = order[1] \/ before(order[1], j)
          BY <1>4, <2>1, <3>1, <4>1, <4>2
        <4> QED
          BY <1>3, <2>1, <3>1, <4>3
      <3>2. CASE j \notin good
        BY <1>1, <2>1, <3>2
      <3> QED
        BY <3>1, <3>2
    <2> QED
      BY <2>1, <2>2
  <1> QED
    BY <1>10, <1>11, <1>12 DEF t

\* The closest pattern in meaning is one of the cache.
LEMMA ClosestIsCached ==
    ASSUME NEW embedded, IsList(embedded), NEW text,
           \A r \in ToSet(embedded) : Closest(text, r).score \in Int,
           SemanticPattern(embedded, text) # NoType
    PROVE  SemanticPattern(embedded, text).row \in ToSet(embedded)
  <1> DEFINE scored == [k \in DOMAIN embedded |-> Closest(text, embedded[k])]
             T == {c \in ToSet(scored) : c.score >= SemanticPatternThreshold}
             good == Filter(scored, T)
  <1>1. SemanticPattern(embedded, text) = IF good = <<>> THEN NoType ELSE FirstBest(good)
    BY Zenon DEF SemanticPattern
  <1>2. Len(embedded) \in Nat /\ DOMAIN embedded = 1..Len(embedded)
        /\ \A k \in 1..Len(embedded) : embedded[k] \in ToSet(embedded)
    BY DEF IsList, ToSet
  <1>3. DOMAIN scored = 1..Len(embedded)
        /\ \A k \in 1..Len(embedded) : scored[k] = Closest(text, embedded[k])
    BY <1>2
  <1>4. IsList(scored)
    <2>1. scored = [k \in 1..Len(embedded) |-> scored[k]]
      BY <1>2
    <2> HIDE DEF scored
    <2> QED
      BY <1>2, <2>1, ListIf
  <1> HIDE DEF scored
  <1>5. IsList(good) /\ ToSet(good) = ToSet(scored) \cap T
    <2> HIDE DEF T
    <2> QED
      BY <1>4, ListMembers
  <1> HIDE DEF good
  <1>6. \A k \in DOMAIN good : \E j \in 1..Len(embedded) : good[k] = Closest(text, embedded[j])
    <2>1. \A k \in DOMAIN good : good[k] \in ToSet(scored)
      <3> HIDE DEF T
      <3>1. \A k \in DOMAIN good : good[k] \in ToSet(good)
        BY DEF ToSet
      <3> QED
        BY <1>5, <3>1
    <2> QED
      BY <1>3, <2>1 DEF ToSet
  <1>7. \A k \in DOMAIN good : good[k].score \in Int
    BY <1>2, <1>6
  <1>8. good # <<>>
    BY <1>1
  <1>9. PICK k \in DOMAIN good : FirstBest(good) = good[k]
    BY <1>5, <1>7, <1>8, FirstOfBest
  <1>10. PICK j \in 1..Len(embedded) : good[k] = Closest(text, embedded[j])
    BY <1>6
  <1>11. good[k].row = embedded[j]
    BY <1>10 DEF Closest
  <1> QED
    BY <1>1, <1>2, <1>8, <1>9, <1>11

\* The first of the ranked fits best of all the patterns in use; there is one if
\* any pattern in use fits.
LEMMA RankedIsBest ==
    ASSUME NEW types, IsList(types), NEW patterns, IsList(patterns), NEW text,
           \A r \in ToSet(patterns) : Candidate(text, r).score \in Int
    PROVE  LET ranked == RankEventTypes(types, patterns, text)
               usable == ToSet(ActiveRows(types, patterns))
           IN  /\ ranked # <<>> <=> \E r \in usable : Candidate(text, r).score >= MinScore
               /\ ranked # <<>> =>
                     /\ Head(ranked).row \in usable
                     /\ \A r \in usable :
                           Candidate(text, r).score <= Candidate(text, Head(ranked).row).score
  <1> DEFINE usable == ToSet(ActiveRows(types, patterns))
             fit(r) == Candidate(text, r).score
             L == {t \in ToSet(types) : t.active /\ RowsOf(patterns, t) # <<>>}
             live == LiveTypes(types, patterns)
             each == [k \in DOMAIN live |-> BestOf(text, RowsOf(patterns, live[k]))]
             ranked == RankEventTypes(types, patterns, text)
  <1>1. ranked = Ranked(each, ClassifierTopK)
    BY Zenon DEF RankEventTypes
  <1>2. IsList(live) /\ ToSet(live) = L
    <2>1. IsList(Filter(types, L)) /\ ToSet(Filter(types, L)) = ToSet(types) \cap L
      <3> HIDE DEF L
      <3> QED
        BY ListMembers
    <2>2. live = Filter(types, L)
      BY Zenon DEF LiveTypes
    <2> HIDE DEF live
    <2> QED
      BY <2>1, <2>2
  <1> HIDE DEF ranked, live
  <1>3. Len(live) \in Nat /\ DOMAIN live = 1..Len(live) /\ L = {live[k] : k \in 1..Len(live)}
    <2> HIDE DEF L
    <2>1. live \in Seq(L)
      BY <1>2 DEF IsList
    <2>2. L = {live[k] : k \in DOMAIN live}
      BY <1>2 DEF ToSet
    <2> QED
      BY <2>1, <2>2
  <1>4. /\ DOMAIN each = 1..Len(live)
        /\ \A k \in 1..Len(live) : each[k] = BestOf(text, RowsOf(patterns, live[k]))
    BY <1>3
  <1>5. \A k \in 1..Len(live) : live[k] \in L
    <2> HIDE DEF L
    <2> QED
      BY <1>3
  <1>6. IsList(each)
    <2>1. each = [k \in 1..Len(live) |-> each[k]]
      BY <1>3
    <2> HIDE DEF each
    <2> QED
      BY <1>3, <2>1, ListIf
  <1> HIDE DEF each
  <1>7. \A k \in 1..Len(live) : IsBestOf(text, patterns, live[k], each[k])
    BY <1>4, <1>5, TypeRows
  <1>8. \A k \in 1..Len(live) : each[k] = Candidate(text, each[k].row) /\ each[k].row \in usable
    <2> SUFFICES ASSUME NEW k \in 1..Len(live)
                 PROVE  each[k] = Candidate(text, each[k].row) /\ each[k].row \in usable
      OBVIOUS
    <2>1. PICK r \in ToSet(patterns) : /\ r.type = live[k].id /\ r.active
                                       /\ each[k] = Candidate(text, r)
      BY <1>7 DEF IsBestOf
    <2>2. each[k].row = r
      BY <2>1 DEF Candidate
    <2>3. live[k] \in ToSet(types) /\ live[k].active
      BY <1>5
    <2>4. ActiveType(types, r.type)
      BY <2>1, <2>3 DEF ActiveType, ToSet
    <2> QED
      BY <2>1, <2>2, <2>4, RowsInUse
  <1>9. \A k \in DOMAIN each : each[k].score \in Int
    BY <1>4, <1>8, RowsInUse
  <1>10. \A r \in usable : \E k \in 1..Len(live) : fit(r) <= each[k].score
    <2> SUFFICES ASSUME NEW r \in usable
                 PROVE  \E k \in 1..Len(live) : fit(r) <= each[k].score
      OBVIOUS
    <2>1. r \in ToSet(patterns) /\ r.active /\ ActiveType(types, r.type)
      BY RowsInUse
    <2>2. PICK t \in ToSet(types) : t.id = r.type /\ t.active
      BY <2>1 DEF ActiveType, ToSet
    <2>3. t \in L
      BY <2>1, <2>2, TypeRows
    <2>4. PICK k \in 1..Len(live) : live[k] = t
      <3> HIDE DEF L
      <3> QED
        BY <1>3, <2>3
    <2> QED
      BY <1>7, <2>1, <2>2, <2>4 DEF IsBestOf
  <1>11. MinScore \in Int /\ ClassifierTopK \in Nat \ {0}
    BY ClassifierAssumption
  <1>12. \A r \in usable : fit(r) \in Int
    BY RowsInUse
  <1> HIDE DEF L
  <1>13. ranked # <<>> <=> \E k \in 1..Len(live) : each[k].score >= MinScore
    BY <1>1, <1>4, <1>6, <1>9, <1>11, RankedFirst
  <1>14. ranked # <<>> <=> \E r \in usable : fit(r) >= MinScore
    <2>1. ASSUME NEW k \in 1..Len(live), each[k].score >= MinScore
          PROVE  \E r \in usable : fit(r) >= MinScore
      BY <1>8, <2>1
    <2>2. ASSUME NEW r \in usable, fit(r) >= MinScore
          PROVE  \E k \in 1..Len(live) : each[k].score >= MinScore
      <3> HIDE DEF usable, fit
      <3>1. PICK k \in 1..Len(live) : fit(r) <= each[k].score
        BY <1>10
      <3>2. each[k].score \in Int /\ fit(r) \in Int
        BY <1>4, <1>9, <1>12
      <3> QED
        BY <1>11, <2>2, <3>1, <3>2
    <2> QED
      BY <1>13, <2>1, <2>2
  <1>15. ASSUME ranked # <<>>
         PROVE  /\ Head(ranked).row \in usable
                /\ \A r \in usable : fit(r) <= fit(Head(ranked).row)
    <2>1. PICK k \in 1..Len(live) : /\ Head(ranked) = each[k]
                                    /\ \A j \in 1..Len(live) : each[j].score <= each[k].score
      BY <1>1, <1>4, <1>6, <1>9, <1>11, <1>15, RankedFirst
    <2>2. each[k].score = fit(Head(ranked).row) /\ Head(ranked).row \in usable
      BY <1>8, <2>1
    <2>3. ASSUME NEW r \in usable
          PROVE  fit(r) <= each[k].score
      <3> HIDE DEF usable, fit
      <3>1. PICK j \in 1..Len(live) : fit(r) <= each[j].score
        BY <1>10
      <3>2. each[j].score \in Int /\ each[k].score \in Int /\ fit(r) \in Int
        BY <1>4, <1>9, <1>12
      <3> QED
        BY <2>1, <3>1, <3>2
    <2> QED
      BY <2>2, <2>3
  <1> QED
    BY <1>14, <1>15 DEF ranked

\* The predicted type fits best of what is in use, or comes from the cache when
\* nothing in use fits.
LEMMA PredictedFits ==
    ASSUME NEW types, NEW patterns, NEW embedded, NEW known, NEW text,
           Classifiable(text, types, patterns, embedded),
           Classify(types, patterns, embedded, known, text).best # NoType
    PROVE  LET row == Classify(types, patterns, embedded, known, text).best.row
               usable == ToSet(ActiveRows(types, patterns))
               fit(r) == Candidate(text, r).score
           IN  IF \E r \in usable : fit(r) >= MinScore
               THEN row \in usable /\ \A r \in usable : fit(r) <= fit(row)
               ELSE row \in ToSet(embedded)
  <1> DEFINE ranked == RankEventTypes(types, patterns, text)
             near == SemanticPattern(embedded, text)
             best == IF ranked # <<>> THEN Head(ranked) ELSE near
             c == Classify(types, patterns, embedded, known, text)
  <1>1. c = IF best = NoType
            THEN [best |-> NoType, candidates |-> <<>>, similar |-> {}]
            ELSE [best       |-> best,
                  candidates |-> IF ranked = <<>> THEN <<>>
                                 ELSE PatternCandidates(types, patterns, best),
                  similar    |-> SimilarPatterns(known, best.row.pattern)]
    BY Zenon DEF Classify
  <1> HIDE DEF ranked, near, c
  <1>2. c.best = best
    BY <1>1
  <1>3. ranked = <<>> => near # NoType /\ c.best = near
    BY <1>2 DEF c
  <1>4. ranked # <<>> => c.best = Head(ranked)
    BY <1>2
  <1>5. /\ IsList(types) /\ IsList(patterns) /\ IsList(embedded)
        /\ \A r \in ToSet(patterns) : Candidate(text, r).score \in Int
        /\ \A r \in ToSet(embedded) : Closest(text, r).score \in Int
    BY DEF Classifiable
  <1>6. ranked = <<>> => c.best.row \in ToSet(embedded)
    BY <1>3, <1>5, ClosestIsCached DEF near
  <1> QED
    BY <1>4, <1>5, <1>6, RankedIsBest DEF ranked, c

-----------------------------------------------------------------------------
(* The subdivision.                                                        *)

\* Of an event, the subdivision was accepted for one of three scores.
GoodScore(score) == score \in Int /\ (score >= AcceptThreshold \/ score \in {90, 100})

LEMMA SemanticScoreType ==
    ASSUME NEW cached, NEW text, Searches(cached, text), NEW r \in cached
    PROVE  SemanticScore(r, text) \in Int
  <1>1. \A x, y \in Int : (x * y) \div 100 \in Int
    OBVIOUS
  <1>2. text.cosine[r.id] \in Int
    BY DEF Searches
  <1>3. LexicalFactor(r, text.words) \in Int
    BY SubdivisionAssumption DEF LexicalFactor
  <1> QED
    BY <1>1, <1>2, <1>3 DEF SemanticScore

SemanticHits(rows, text, t) ==
    /\ IsList(t)
    /\ \A k \in DOMAIN t :
          \E r \in rows : t[k].row = r /\ t[k].score = SemanticScore(r, text)

\* Meaning finds rows of the cache, with their scores.
LEMMA SemanticRows ==
    ASSUME NEW cached, NEW text, Searches(cached, text), NEW rows \in SUBSET cached, NEW model
    PROVE  SemanticHits(rows, text, SemanticMatches(rows, text, model))
  <1> DEFINE score(r) == SemanticScore(r, text)
             found == {r \in rows : model /\ r.embedded /\ score(r) >= SemanticThreshold}
             before(r, s) == \/ score(r) > score(s)
                             \/ score(r) = score(s) /\ r.id < s.id
             R == {x \in found \X found : before(x[1], x[2])}
             best == Sorted(found, R)
             n == Cardinality(found)
             t == SemanticMatches(rows, text, model)
  <1>1. t = [k \in DOMAIN best |-> Hit(best[k], score(best[k]), "semantic_window")]
    BY Zenon DEF SemanticMatches
  <1>2. IsFiniteSet(found)
    BY FS_Subset DEF Searches
  <1>3. \A r \in found : r.id \in Int /\ score(r) \in Int
    BY SemanticScoreType DEF Searches
  <1>4. \A r, s \in found : r.id = s.id => r = s
    BY DEF Searches
  <1>5. \A r, s \in found : <<r, s>> \in R <=> before(r, s)
    OBVIOUS
  <1>6. Orders(R, found)
    <2> HIDE DEF R, found, score
    <2> QED
      BY <1>3, <1>4, <1>5 DEF Orders
  <1>7. found \subseteq rows
    OBVIOUS
  <1> HIDE DEF R, t, found, score
  <1>8. n \in Nat /\ best \in [1..n -> found]
    BY <1>2, <1>6, Sorting
  <1> HIDE DEF best, n
  <1>9. /\ t = [k \in 1..n |-> t[k]]
        /\ \A k \in DOMAIN t : t[k] = Hit(best[k], score(best[k]), "semantic_window")
                               /\ best[k] \in rows
    BY <1>1, <1>7, <1>8
  <1>10. IsList(t)
    BY <1>8, <1>9, ListIf
  <1> QED
    BY <1>9, <1>10 DEF SemanticHits, Hit, t, score

AllScore(t, score) == IsList(t) /\ \A k \in DOMAIN t : t[k].score = score

SomeIsQuoted(rows, quoted) == quoted # <<>> /\ \E r \in rows : ToSet(quoted) \subseteq ToSet(r.full)

\* The other two ways give every hit one score.
LEMMA NamedRows ==
    ASSUME NEW rows, IsFiniteSet(rows), NEW words, NEW quoted
    PROVE  /\ AllScore(SubstringMatches(rows, words), 100)
           /\ AllScore(QuotedMatches(rows, quoted), 90)
           /\ SomeIsQuoted(rows, quoted) => QuotedMatches(rows, quoted) # <<>>
  <1>1. \A S, R : IsFiniteSet(S) =>
            /\ Cardinality(S) \in Nat
            /\ DOMAIN Sorted(S, R) = 1..Cardinality(S)
    BY FS_CardinalityType DEF Sorted
  <1>2. AllScore(SubstringMatches(rows, words), 100)
    <2> DEFINE found == {r \in rows : /\ Strength(r, words) # "none"
                                      /\ \/ Find(r.short, words) # 0
                                         \/ Find(r.full, words) # 0}
               strong == {r \in found : Strength(r, words) = "strong"}
               good == IF strong # {} THEN strong ELSE found
               size(r) == NameChars(FirstFound(r, words))
               at(r) == Find(FirstFound(r, words), words)
               before(r, s) == \/ size(r) > size(s)
                               \/ size(r) = size(s) /\ at(r) < at(s)
                               \/ size(r) = size(s) /\ at(r) = at(s) /\ r.id < s.id
               R == {x \in good \X good : before(x[1], x[2])}
               best == Sorted(good, R)
               t == SubstringMatches(rows, words)
    <2>1. t = [k \in DOMAIN best |-> Hit(best[k], 100, "substring")]
      BY Zenon DEF SubstringMatches
    <2>2. IsFiniteSet(good)
      <3>1. good \subseteq rows
        OBVIOUS
      <3> QED
        BY <3>1, FS_Subset
    <2> HIDE DEF good, R, t
    <2>3. Cardinality(good) \in Nat /\ DOMAIN best = 1..Cardinality(good)
      BY <1>1, <2>2
    <2> HIDE DEF best
    <2>4. t = [k \in 1..Cardinality(good) |-> t[k]] /\ \A k \in DOMAIN t : t[k].score = 100
      BY <2>1, <2>3 DEF Hit
    <2>5. IsList(t)
      BY <2>3, <2>4, ListIf
    <2> QED
      BY <2>4, <2>5 DEF AllScore, t
  <1>3. /\ AllScore(QuotedMatches(rows, quoted), 90)
        /\ SomeIsQuoted(rows, quoted) => QuotedMatches(rows, quoted) # <<>>
    <2> DEFINE holds(name) == ToSet(quoted) \subseteq ToSet(name)
               found == {r \in rows : quoted # <<>> /\ (holds(r.short) \/ holds(r.full))}
               before(r, s) == \/ r.name < s.name
                               \/ r.name = s.name /\ r.id < s.id
               R == {x \in found \X found : before(x[1], x[2])}
               best == Sorted(found, R)
               n == Cardinality(found)
               t == QuotedMatches(rows, quoted)
    <2>1. t = [k \in DOMAIN best |-> Hit(best[k], 90, "quoted_name")]
      BY Zenon DEF QuotedMatches
    <2>2. IsFiniteSet(found)
      <3>1. found \subseteq rows
        OBVIOUS
      <3> QED
        BY <3>1, FS_Subset
    <2>3. SomeIsQuoted(rows, quoted) => found # {}
      BY Zenon DEF SomeIsQuoted
    <2> HIDE DEF found, R, t
    <2>4. n \in Nat /\ DOMAIN best = 1..n /\ (found # {} => n # 0)
      BY <1>1, <2>2, FS_EmptySet
    <2> HIDE DEF best, n
    <2>5. t = [k \in 1..n |-> t[k]] /\ DOMAIN t = 1..n /\ \A k \in DOMAIN t : t[k].score = 90
      BY <2>1, <2>4 DEF Hit
    <2>6. n # 0 => t # <<>>
      <3>1. n # 0 => 1 \in DOMAIN t
        BY <2>4, <2>5
      <3> HIDE DEF t
      <3> QED
        BY <3>1
    <2>7. IsList(t)
      BY <2>4, <2>5, ListIf
    <2> QED
      BY <2>3, <2>4, <2>5, <2>6, <2>7 DEF AllScore, t
  <1> QED
    BY <1>2, <1>3

\* A name the quoted words stand together in has all of them.
LEMMA QuotedWords ==
    ASSUME NEW quoted, IsList(quoted), NEW r, IsList(r.full), QuotedHit(quoted, r)
    PROVE  quoted # <<>> /\ ToSet(quoted) \subseteq ToSet(r.full)
  <1> DEFINE m == Len(quoted)
             n == Len(r.full)
  <1>1. m \in Nat /\ n \in Nat /\ DOMAIN quoted = 1..m /\ DOMAIN r.full = 1..n
    BY DEF IsList
  <1>2. PICK p \in 1..(n - m + 1) : SubSeq(r.full, p, p + m - 1) = quoted
    BY DEF QuotedHit
  <1>3. p \in Int /\ 1 <= p /\ p <= n - m + 1
    BY <1>1, <1>2
  <1>4. ASSUME NEW k \in 1..m
        PROVE  quoted[k] \in ToSet(r.full)
    <2>1. SubSeq(r.full, p, p + m - 1) = [i \in 1..(1 + (p + m - 1) - p) |-> r.full[i + p - 1]]
      BY <1>1, <1>3 DEF IsList
    <2>2. quoted[k] = r.full[k + p - 1] /\ k + p - 1 \in 1..n
      BY <1>1, <1>2, <1>3, <1>4, <2>1
    <2> QED
      BY <1>1, <2>2 DEF ToSet
  <1> QED
    BY <1>1, <1>4 DEF ToSet, QuotedHit

\* The first hits of a list begin with its first.
LEMMA FirstHits ==
    ASSUME NEW t, IsList(t), t # <<>>
    PROVE  TopHits(t) # <<>> /\ Head(TopHits(t)) = t[1] /\ 1 \in DOMAIN t
  <1> DEFINE n == Len(t)
             m == Min({TopK, n})
  <1>1. n \in Nat /\ DOMAIN t = 1..n /\ t \in Seq(ToSet(t)) /\ n > 0
    BY DEF IsList
  <1>2. m \in Nat /\ m > 0 /\ m <= n
    BY <1>1, SubdivisionAssumption, MinOfTwo
  <1>3. TopHits(t) = SubSeq(t, 1, m)
    BY DEF TopHits
  <1> HIDE DEF m, n
  <1>4. SubSeq(t, 1, m) \in Seq(ToSet(t)) /\ Len(SubSeq(t, 1, m)) = m
        /\ \A i \in 1..m : SubSeq(t, 1, m)[i] = t[i]
    BY <1>1, <1>2 DEF n
  <1> QED
    BY <1>1, <1>2, <1>3, <1>4

\* Nothing is nothing, however many are taken.
LEMMA NoHits == TopHits(<<>>) = <<>>
  <1>1. Min({TopK, 0}) = 0
    BY SubdivisionAssumption, MinOfTwo
  <1>2. Len(<<>>) = 0
    OBVIOUS
  <1> QED
    BY <1>1, <1>2 DEF TopHits

\* A subdivision is accepted for a score that is good, or one of the two given
\* to names found word by word; a name in quotation marks never helps meaning.
LEMMA AcceptedScore ==
    ASSUME NEW cached, NEW text, Searches(cached, text), NEW pu, NEW model,
           Subdivision(cached, text, pu, model).id # NoSubdivision
    PROVE  GoodScore(Subdivision(cached, text, pu, model).score)
  <1> DEFINE rows == Rows(cached, pu)
             whole == SubstringMatches(rows, text.words)
             quoted == QuotedMatches(rows, text.quoted)
             near == SemanticMatches(rows, text, model)
             matches == MatchSubdivision(cached, text, pu, model)
             accepted(hit) == \/ hit.score >= AcceptThreshold
                              \/ QuotedHit(text.quoted, hit.row)
             kept(hit) == [id |-> IF accepted(hit) THEN hit.row.id ELSE NoSubdivision,
                           score |-> hit.score]
             found == Subdivision(cached, text, pu, model)
  <1>1. found = IF matches = <<>> THEN [id |-> NoSubdivision, score |-> 0]
                ELSE kept(Head(matches))
    BY Zenon DEF Subdivision
  <1>2. matches = IF text.words = <<>> THEN <<>>
                  ELSE IF whole # <<>> THEN TopHits(whole)
                  ELSE IF quoted # <<>> THEN TopHits(quoted)
                  ELSE TopHits(near)
    BY Zenon DEF MatchSubdivision
  <1>3. rows \in SUBSET cached
    BY DEF Rows
  <1>4. IsFiniteSet(rows)
    BY <1>3, FS_Subset DEF Searches
  <1> HIDE DEF rows, matches, found
  <1>5. matches # <<>> /\ found.score = Head(matches).score /\ accepted(Head(matches))
    <2>1. matches # <<>>
      BY <1>1 DEF found
    <2> HIDE DEF accepted
    <2> QED
      BY <1>1, <2>1 DEF found
  <1>6. AcceptThreshold \in Int
    BY SubdivisionAssumption
  <1>7. CASE whole # <<>>
    <2>1. IsList(whole) /\ \A k \in DOMAIN whole : whole[k].score = 100
      BY <1>4, NamedRows DEF AllScore
    <2>2. matches = TopHits(whole)
      BY <1>2, <1>5, <1>7
    <2> HIDE DEF whole
    <2>3. Head(matches) = whole[1] /\ 1 \in DOMAIN whole
      BY <1>7, <2>1, <2>2, FirstHits
    <2> QED
      BY <1>5, <2>1, <2>3 DEF GoodScore, found
  <1>8. CASE whole = <<>> /\ quoted # <<>>
    <2>1. IsList(quoted) /\ \A k \in DOMAIN quoted : quoted[k].score = 90
      BY <1>4, NamedRows DEF AllScore
    <2>2. matches = TopHits(quoted)
      BY <1>2, <1>5, <1>8
    <2> HIDE DEF quoted
    <2>3. Head(matches) = quoted[1] /\ 1 \in DOMAIN quoted
      BY <1>8, <2>1, <2>2, FirstHits
    <2> QED
      BY <1>5, <2>1, <2>3 DEF GoodScore, found
  <1>9. CASE whole = <<>> /\ quoted = <<>>
    <2>1. SemanticHits(rows, text, near)
      BY <1>3, SemanticRows
    <2>2. matches = TopHits(near)
      BY <1>2, <1>5, <1>9
    <2>3. ~ \E r \in rows : QuotedHit(text.quoted, r)
      <3>1. ~SomeIsQuoted(rows, text.quoted)
        BY <1>4, <1>9, NamedRows
      <3>2. IsList(text.quoted) /\ \A r \in rows : IsList(r.full)
        BY <1>3 DEF Searches
      <3> QED
        BY <3>1, <3>2, QuotedWords DEF SomeIsQuoted
    <2> HIDE DEF near
    <2>4. near # <<>>
      BY <1>5, <2>2, NoHits
    <2>5. Head(matches) = near[1] /\ 1 \in DOMAIN near
      BY <2>1, <2>2, <2>4, FirstHits DEF SemanticHits
    <2>6. PICK r \in rows : near[1].row = r /\ near[1].score = SemanticScore(r, text)
      BY <2>1, <2>5 DEF SemanticHits
    <2>7. SemanticScore(r, text) \in Int
      BY <1>3, SemanticScoreType
    <2> QED
      BY <1>5, <2>3, <2>5, <2>6, <2>7 DEF GoodScore, found
  <1> QED
    BY <1>7, <1>8, <1>9

\* The characters of the words of a name, one word at a time.
AddsUp(name, f) ==
    /\ f \in [0..Len(name) -> Nat]
    /\ f[0] = 0
    /\ \A k \in 1..Len(name) : f[k] = f[k - 1] + WordChars(name[k])

LEMMA NameSteps ==
    ASSUME NEW name, IsList(name), \A w \in ToSet(name) : WordChars(w) \in Nat
    PROVE  \E f : AddsUp(name, f) /\ NameChars(name) = f[Len(name)] + Len(name) - 1
  <1> DEFINE n == Len(name)
             Plus(t, w) == t + WordChars(w)
             total == FoldLeft(LAMBDA t, w : t + WordChars(w), 0, name)
             G == [k \in 1..n |-> [t \in Nat |-> Plus(t, name[k])]]
             Body(g) == [d \in SUBSET DOMAIN name |->
                           IF d = {} THEN 0 ELSE Plus(g[d \ {Max(d)}], name[Max(d)])]
  <1>1. n \in Nat /\ DOMAIN name = 1..n /\ \A k \in 1..n : WordChars(name[k]) \in Nat
    BY DEF IsList, ToSet
  <1>2. G \in [1..n -> [Nat -> Nat]] /\ 0 \in Nat
    BY <1>1
  <1>3. PICK g \in [SUBSET (1..n) -> Nat] : Solves(g, n, 0, G)
    <2> HIDE DEF G, n
    <2> QED BY <1>1, <1>2, FoldExists
  <1>4. ASSUME NEW d \in SUBSET (1..n), d # {}
        PROVE  Max(d) \in 1..n
    BY <1>4, MaxBelow, <1>1
  <1>5. g = Body(g)
    <2>1. ASSUME NEW d \in SUBSET (1..n)
          PROVE  g[d] = Body(g)[d]
      <3>1. CASE d = {}
        BY <3>1, <1>3, <1>1 DEF Solves
      <3>2. CASE d # {}
        <4>1. Max(d) \in 1..n /\ g[d \ {Max(d)}] \in Nat
          BY <3>2, <1>4
        <4>2. g[d] = G[Max(d)][g[d \ {Max(d)}]]
          BY <3>2, <1>3 DEF Solves
        <4> QED
          BY <3>2, <4>1, <4>2, <1>1
      <3> QED
        BY <3>1, <3>2
    <2> QED
      BY <2>1, <1>1
  <1>6. PICK h : h = Body(h) /\ total = h[DOMAIN name]
    <2> HIDE <1>3
    <2> QED BY <1>5, Zenon DEF FoldLeft, MapThenFoldSet
  <1> DEFINE f == [k \in 0..n |-> h[1..k]]
  <1>7. \A d \in SUBSET (1..n) :
           h[d] = IF d = {} THEN 0 ELSE h[d \ {Max(d)}] + WordChars(name[Max(d)])
    BY <1>6, <1>1
  <1>8. f[0] = 0 /\ total = f[n]
    <2> HIDE DEF total, G
    <2>1. 1..0 = {} /\ 0 \in 0..n /\ n \in 0..n /\ {} \in SUBSET (1..n)
      BY <1>1
    <2> QED
      BY <1>1, <1>6, <1>7, <2>1
  <1>9. ASSUME NEW k \in 1..n
        PROVE  f[k] = f[k - 1] + WordChars(name[k])
    <2>1. Max(1..k) = k /\ (1..k) \ {k} = 1..(k - 1) /\ 1..k # {}
      BY MaxOfInterval
    <2>2. 1..k \in SUBSET (1..n) /\ k \in 0..n /\ k - 1 \in 0..n
      BY <1>1
    <2> QED
      BY <2>1, <2>2, <1>7
  <1>10. f = [k \in 0..n |-> f[k]]
    OBVIOUS
  <1>11. NameChars(name) = total + n - 1
    BY Zenon DEF NameChars
  <1> HIDE DEF f, total
  <1>12. \A k \in 0..n : f[k] \in Nat
    <2>1. Keeps(f, n, Nat)
      BY <1>1, <1>9 DEF Keeps
    <2> QED
      BY <1>1, <1>8, <2>1, Stays
  <1>13. f \in [0..n -> Nat]
    BY <1>10, <1>12
  <1> QED
    BY <1>8, <1>9, <1>11, <1>13 DEF AddsUp

\* A name that stands within a longer one has fewer characters.
LEMMA WithinIsShorter ==
    ASSUME NEW a, IsList(a), \A w \in ToSet(a) : WordChars(w) \in Nat,
           NEW b, IsList(b), \A w \in ToSet(b) : WordChars(w) \in Nat,
           NEW d \in Nat, Len(a) < Len(b), Len(a) + d <= Len(b),
           \A k \in 1..Len(a) : WordChars(a[k]) <= WordChars(b[k + d])
    PROVE  NameChars(a) \in Int /\ NameChars(b) \in Int /\ NameChars(a) < NameChars(b)
  <1> DEFINE m == Len(a)
             n == Len(b)
  <1>1. /\ m \in Nat /\ DOMAIN a = 1..m /\ \A k \in 1..m : WordChars(a[k]) \in Nat
        /\ n \in Nat /\ DOMAIN b = 1..n /\ \A k \in 1..n : WordChars(b[k]) \in Nat
    BY DEF IsList, ToSet
  <1>2. PICK f : AddsUp(a, f) /\ NameChars(a) = f[m] + m - 1
    BY NameSteps
  <1>3. PICK g : AddsUp(b, g) /\ NameChars(b) = g[n] + n - 1
    BY NameSteps
  <1>4. /\ f[0] = 0 /\ \A k \in 0..m : f[k] \in Nat
        /\ \A k \in 1..m : f[k] = f[k - 1] + WordChars(a[k])
        /\ \A k \in 0..n : g[k] \in Nat
        /\ \A k \in 1..n : g[k] = g[k - 1] + WordChars(b[k])
    BY <1>2, <1>3 DEF AddsUp
  <1>5. \A k \in 1..m : WordChars(a[k]) <= WordChars(b[k + d])
    OBVIOUS
  <1>6. m < n /\ m + d <= n
    OBVIOUS
  <1> HIDE DEF m, n
  <1>7. f[m] <= g[m + d]
    <2> DEFINE P == {k \in 0..m : f[k] <= g[k + d]}
    <2>1. P \in SUBSET (0..m)
      OBVIOUS
    <2>2. 0 \in P
      <3>1. d \in 0..n
        BY <1>1, <1>6
      <3> QED
        BY <1>1, <1>4, <3>1
    <2>3. ASSUME NEW k \in P, k < m
          PROVE  k + 1 \in P
      <3>1. k + 1 \in 1..m /\ (k + 1) - 1 = k /\ k \in 0..m /\ f[k] <= g[k + d]
        BY <1>1, <2>3
      <3>2. k + 1 + d \in 1..n /\ (k + 1 + d) - 1 = k + d /\ k + d \in 0..n
        BY <1>1, <1>6, <3>1
      <3>3. f[k + 1] = f[k] + WordChars(a[k + 1])
        BY <1>4, <3>1
      <3>4. g[k + 1 + d] = g[k + d] + WordChars(b[k + 1 + d])
        BY <1>4, <3>2
      <3>5. WordChars(a[k + 1]) <= WordChars(b[k + 1 + d])
        BY <1>5, <3>1
      <3>6. /\ f[k] \in Nat /\ g[k + d] \in Nat
            /\ WordChars(a[k + 1]) \in Nat /\ WordChars(b[k + 1 + d]) \in Nat
        BY <1>1, <1>4, <3>1, <3>2
      <3>7. f[k + 1] <= g[k + 1 + d]
        BY <3>1, <3>3, <3>4, <3>5, <3>6
      <3> QED
        BY <3>1, <3>7
    <2> HIDE DEF P
    <2>4. \A k \in 0..m : k \in P
      BY <1>1, <2>1, <2>2, <2>3, UpTo
    <2> QED
      BY <1>1, <2>4 DEF P
  <1>8. g[m + d] <= g[n]
    <2> DEFINE Q == {k \in 0..(n - (m + d)) : g[m + d] <= g[m + d + k]}
               j == n - (m + d)
    <2>1. Q \in SUBSET (0..j) /\ j \in Nat
      BY <1>1, <1>6
    <2>2. 0 \in Q
      <3>1. m + d \in 0..n /\ m + d + 0 = m + d
        BY <1>1, <1>6
      <3> QED
        BY <1>4, <2>1, <3>1
    <2>3. ASSUME NEW k \in Q, k < j
          PROVE  k + 1 \in Q
      <3>1. k \in Nat /\ k + 1 \in 0..j /\ g[m + d] <= g[m + d + k]
        BY <2>1, <2>3
      <3>2. /\ m + d + (k + 1) \in 1..n /\ m + d + (k + 1) - 1 = m + d + k
            /\ m + d + k \in 0..n /\ m + d \in 0..n
        BY <1>1, <1>6, <3>1, <2>3
      <3>3. g[m + d + (k + 1)] = g[m + d + k] + WordChars(b[m + d + (k + 1)])
        BY <1>4, <3>2
      <3>4. g[m + d] \in Nat /\ g[m + d + k] \in Nat /\ WordChars(b[m + d + (k + 1)]) \in Nat
        BY <1>1, <1>4, <3>2
      <3>5. g[m + d] <= g[m + d + (k + 1)]
        BY <3>1, <3>3, <3>4
      <3> QED
        BY <3>1, <3>5
    <2> HIDE DEF Q
    <2>4. \A k \in 0..j : k \in Q
      <3> HIDE DEF j
      <3> QED
        BY <2>1, <2>2, <2>3, UpTo
    <2>5. m + d + j = n
      BY <1>1
    <2>6. j \in 0..j
      BY <2>1
    <2> QED
      BY <2>4, <2>5, <2>6 DEF Q
  <1>9. m \in 0..m /\ n \in 0..n /\ m + d \in 0..n
    BY <1>1, <1>6
  <1>10. f[m] \in Nat /\ g[n] \in Nat /\ g[m + d] \in Nat
    BY <1>4, <1>9
  <1>11. f[m] <= g[n]
    BY <1>7, <1>8, <1>10
  <1>12. NameChars(a) = f[m] + m - 1 /\ NameChars(b) = g[n] + n - 1
    BY <1>2, <1>3
  <1>13. f[m] + m - 1 < g[n] + n - 1
    BY <1>1, <1>6, <1>10, <1>11
  <1> QED
    BY <1>1, <1>10, <1>12, <1>13

\* Where a name is found, its words are those of the text.
FoundAt(name, words, p) ==
    /\ p \in 1..(Len(words) - Len(name) + 1)
    /\ name # <<>>
    /\ \A k \in 1..(Len(name) - 1) : name[k] = words[p + k - 1]
    /\ Part(name[Len(name)], words[p + Len(name) - 1])

LEMMA FindIs ==
    ASSUME NEW name, IsList(name), NEW words, IsList(words), Find(name, words) # 0
    PROVE  FoundAt(name, words, Find(name, words))
  <1> DEFINE n == Len(name)
             hits == {p \in 1..(Len(words) - n + 1) :
                        /\ \A k \in 1..(n - 1) : name[k] = words[p + k - 1]
                        /\ Part(name[n], words[p + n - 1])}
  <1>1. Find(name, words) = IF name = <<>> \/ hits = {} THEN 0 ELSE Min(hits)
    BY Zenon DEF Find
  <1>2. n \in Nat /\ Len(words) \in Nat /\ (name # <<>> => n # 0)
    BY DEF IsList
  <1>3. name # <<>> /\ hits # {}
    BY <1>1
  <1>4. hits \in SUBSET (1..Len(words))
    BY <1>2, <1>3
  <1> HIDE DEF hits
  <1>5. Min(hits) \in hits
    BY <1>2, <1>3, <1>4, MinIs
  <1>6. Find(name, words) \in hits
    BY <1>1, <1>3, <1>5
  <1> QED
    BY <1>3, <1>6 DEF hits, FoundAt

\* The text has a word of the name of r, or quotes one.
Evident(r, text) ==
    \E w \in ToSet(r.short) \cup ToSet(r.full) :
        Occurs(w, text.words) \/ w \in ToSet(text.quoted)

\* The short name of r stands in the text within that of s.
Within(r, s, words) ==
    /\ Find(r.short, words) # 0 /\ Find(s.short, words) # 0
    /\ Len(r.short) < Len(s.short)
    /\ Find(s.short, words) <= Find(r.short, words)
    /\ Find(r.short, words) + Len(r.short) <= Find(s.short, words) + Len(s.short)
    /\ Find(r.short, words) + Len(r.short) = Find(s.short, words) + Len(s.short)
          => WordChars(Last(r.short)) <= WordChars(Last(s.short))

\* Of two names one within the other, the longer has more characters.
LEMMA OuterIsLonger ==
    ASSUME NEW cached, NEW text, Searches(cached, text), NEW r \in cached, NEW s \in cached,
           Within(r, s, text.words)
    PROVE  /\ NameChars(r.short) \in Int /\ NameChars(s.short) \in Int
           /\ NameChars(r.short) < NameChars(s.short)
  <1> DEFINE words == text.words
             a == r.short
             b == s.short
             p == Find(a, words)
             q == Find(b, words)
             m == Len(a)
             n == Len(b)
             d == p - q
  <1>1. IsList(words) /\ IsList(a) /\ IsList(b)
    BY DEF Searches
  <1>2. FoundAt(a, words, p) /\ FoundAt(b, words, q)
    BY <1>1, FindIs DEF Within
  <1>3. /\ m \in Nat /\ m > 0 /\ n \in Nat /\ Len(words) \in Nat
        /\ p \in 1..(Len(words) - m + 1) /\ q \in 1..(Len(words) - n + 1)
        /\ DOMAIN words = 1..Len(words) /\ DOMAIN a = 1..m /\ DOMAIN b = 1..n
    <2>1. m \in Nat /\ n \in Nat /\ (a # <<>> => m # 0)
      BY <1>1 DEF IsList
    <2>2. Len(words) \in Nat /\ DOMAIN words = 1..Len(words) /\ DOMAIN a = 1..m /\ DOMAIN b = 1..n
      BY <1>1 DEF IsList
    <2> HIDE DEF a, b, words, p, q
    <2>3. a # <<>> /\ p \in 1..(Len(words) - m + 1) /\ q \in 1..(Len(words) - n + 1)
      BY <1>2 DEF FoundAt
    <2> QED
      BY <2>1, <2>2, <2>3
  <1>4. m < n /\ q <= p /\ p + m <= q + n
    BY DEF Within
  <1>5. /\ \A w \in ToSet(a) \cup ToSet(b) \cup ToSet(words) : WordChars(w) \in Nat
        /\ \A w \in ToSet(a), v \in ToSet(words) : Part(w, v) => WordChars(w) <= WordChars(v)
    BY DEF Searches
  <1>6. Last(a) = a[m] /\ Last(b) = b[n]
    BY DEF Last
  <1>7. p + m = q + n => WordChars(a[m]) <= WordChars(b[n])
    BY <1>6 DEF Within
  <1>8. /\ \A k \in 1..(m - 1) : a[k] = words[p + k - 1]
        /\ Part(a[m], words[p + m - 1])
        /\ \A k \in 1..(n - 1) : b[k] = words[q + k - 1]
    BY <1>2 DEF FoundAt
  <1> HIDE DEF a, b, p, q, m, n, words
  <1>9. d \in Nat /\ m + d <= n
    BY <1>3, <1>4
  <1>10. ASSUME NEW k \in 1..m
         PROVE  WordChars(a[k]) <= WordChars(b[k + d])
    <2>1. k \in 1..n /\ k + d \in 1..n /\ q + (k + d) - 1 = p + k - 1
      BY <1>3, <1>4, <1>9
    <2>2. WordChars(a[k]) \in Nat /\ WordChars(b[k + d]) \in Nat
      BY <1>3, <1>5, <2>1 DEF ToSet
    <2>3. CASE k < m
      <3>1. k \in 1..(m - 1) /\ k + d \in 1..(n - 1)
        BY <1>3, <1>4, <1>9, <2>3
      <3>2. a[k] = b[k + d]
        BY <1>8, <2>1, <3>1
      <3> QED
        BY <2>2, <3>2
    <2>4. CASE k = m /\ p + m = q + n
      <3>1. k + d = n
        BY <1>3, <2>4
      <3> QED
        BY <1>7, <2>4, <3>1
    <2>5. CASE k = m /\ p + m # q + n
      <3>1. k + d \in 1..(n - 1)
        BY <1>3, <1>4, <1>9, <2>1, <2>5
      <3>2. b[k + d] = words[p + m - 1] /\ p + m - 1 \in 1..Len(words)
        BY <1>3, <1>8, <2>1, <2>5, <3>1
      <3>3. a[m] \in ToSet(a) /\ words[p + m - 1] \in ToSet(words)
        BY <1>3, <3>2 DEF ToSet
      <3> QED
        BY <1>5, <1>8, <2>5, <3>2, <3>3
    <2> QED
      BY <2>3, <2>4, <2>5, <1>3
  <1>11. NameChars(a) \in Int /\ NameChars(b) \in Int /\ NameChars(a) < NameChars(b)
    <2> HIDE DEF d
    <2> QED
      BY <1>1, <1>4, <1>5, <1>9, <1>10, WithinIsShorter DEF m, n
  <1> QED
    BY <1>11 DEF a, b

LEMMA FindType ==
    ASSUME NEW name, IsList(name), NEW words, IsList(words)
    PROVE  Find(name, words) \in Nat
  <1>1. Len(name) \in Nat /\ Len(words) \in Nat
    BY DEF IsList
  <1>2. CASE Find(name, words) # 0
    BY <1>1, <1>2, FindIs DEF FoundAt
  <1>3. CASE Find(name, words) = 0
    BY <1>3
  <1> QED
    BY <1>2, <1>3

LEMMA NameCharsType ==
    ASSUME NEW name, IsList(name), \A w \in ToSet(name) : WordChars(w) \in Nat
    PROVE  NameChars(name) \in Int
  <1>1. PICK f : AddsUp(name, f) /\ NameChars(name) = f[Len(name)] + Len(name) - 1
    BY NameSteps
  <1>2. Len(name) \in Nat
    BY DEF IsList
  <1>3. f[Len(name)] \in Nat
    BY <1>1, <1>2 DEF AddsUp
  <1> QED
    BY <1>1, <1>2, <1>3

\* A name that is found has a word, the last, in the text.
LEMMA FoundIsEvident ==
    ASSUME NEW r, NEW text, IsList(text.words), NEW name, name \in {r.short, r.full},
           IsList(name), Find(name, text.words) # 0
    PROVE  Evident(r, text)
  <1> DEFINE words == text.words
             p == Find(name, words)
             n == Len(name)
  <1>1. FoundAt(name, words, p)
    BY FindIs
  <1>2. n \in Nat /\ DOMAIN name = 1..n /\ DOMAIN words = 1..Len(words) /\ Len(words) \in Nat
    BY DEF IsList
  <1>3. p \in 1..(Len(words) - n + 1) /\ name # <<>> /\ Part(name[n], words[p + n - 1])
    BY <1>1 DEF FoundAt
  <1>4. n # 0
    BY <1>3 DEF IsList
  <1> HIDE DEF p, n, words
  <1>5. n \in DOMAIN name /\ p + n - 1 \in DOMAIN words
    BY <1>2, <1>3, <1>4
  <1>6. Occurs(name[n], words) /\ name[n] \in ToSet(name)
    BY <1>3, <1>5 DEF Occurs, ToSet
  <1>7. name[n] \in ToSet(r.short) \cup ToSet(r.full)
    BY <1>6
  <1> QED
    BY <1>6, <1>7 DEF Evident, words

\* A row whose short name is found is strong.
LEMMA ShortIsStrong ==
    ASSUME NEW r, NEW words, Find(r.short, words) # 0
    PROVE  Strength(r, words) = "strong"
  <1>1. r.short # <<>>
    BY DEF Find
  <1> DEFINE source == IF r.short # <<>> THEN r.short ELSE r.full
             strong == \/ \E w \in Evidence(r) : Occurs(w, words)
                       \/ Find(source, words) # 0
             shared == ToSet(words) \cap (ToSet(r.short) \cup ToSet(r.full))
  <1>2. Strength(r, words) = IF strong THEN "strong"
                             ELSE IF shared # {} THEN "medium" ELSE "none"
    BY Zenon DEF Strength
  <1>3. strong
    BY <1>1
  <1> HIDE DEF strong
  <1> QED
    BY <1>2, <1>3

NamedRow(text, rows, r) ==
    /\ r \in rows
    /\ Evident(r, text)
    /\ \A s \in rows : ~Within(r, s, text.words)

\* Of the names in the text the first has a word there, and is not within
\* another; no name is found only if none is in the text.
LEMMA SubstringIsNamed ==
    ASSUME NEW cached, NEW text, Searches(cached, text), NEW rows \in SUBSET cached
    PROVE  LET t == SubstringMatches(rows, text.words)
           IN  /\ IsList(t)
               /\ t # <<>> => NamedRow(text, rows, t[1].row)
               /\ t = <<>> => \A r \in rows : Find(r.short, text.words) = 0
  <1> DEFINE words == text.words
             found == {r \in rows : /\ Strength(r, words) # "none"
                                    /\ \/ Find(r.short, words) # 0
                                       \/ Find(r.full, words) # 0}
             strong == {r \in found : Strength(r, words) = "strong"}
             good == IF strong # {} THEN strong ELSE found
             size(r) == NameChars(FirstFound(r, words))
             at(r) == Find(FirstFound(r, words), words)
             before(r, s) == \/ size(r) > size(s)
                             \/ size(r) = size(s) /\ at(r) < at(s)
                             \/ size(r) = size(s) /\ at(r) = at(s) /\ r.id < s.id
             R == {x \in good \X good : before(x[1], x[2])}
             best == Sorted(good, R)
             n == Cardinality(good)
             t == SubstringMatches(rows, words)
  <1>1. t = [k \in DOMAIN best |-> Hit(best[k], 100, "substring")]
    BY Zenon DEF SubstringMatches
  <1>2. /\ IsList(words) /\ IsFiniteSet(cached)
        /\ \A r \in rows : IsList(r.short) /\ IsList(r.full) /\ r.id \in Int
        /\ \A r \in rows : \A w \in ToSet(r.short) \cup ToSet(r.full) : WordChars(w) \in Nat
        /\ \A r, s \in rows : r.id = s.id => r = s
    BY DEF Searches
  <1>3. good \in SUBSET rows
    OBVIOUS
  <1>4. IsFiniteSet(good)
    BY <1>2, <1>3, FS_Subset
  <1>5. \A r \in rows : Find(r.short, words) # 0 => r \in good
    <2>1. ASSUME NEW r \in rows, Find(r.short, words) # 0
          PROVE  r \in strong
      BY <2>1, ShortIsStrong
    <2> QED
      BY <2>1
  <1>6. \A r \in good : Find(r.short, words) # 0 \/ Find(r.full, words) # 0
    OBVIOUS
  <1>7. \A r \in rows : FirstFound(r, words) \in {r.short, r.full}
    BY DEF FirstFound
  <1>8. \A r \in rows : size(r) \in Int /\ at(r) \in Int /\ r.id \in Int
    <2>1. ASSUME NEW r \in rows
          PROVE  size(r) \in Int /\ at(r) \in Int
      <3>1. IsList(FirstFound(r, words))
            /\ \A w \in ToSet(FirstFound(r, words)) : WordChars(w) \in Nat
        BY <1>2, <1>7
      <3>2. at(r) \in Nat
        BY <1>2, <3>1, FindType
      <3> QED
        BY <3>1, <3>2, NameCharsType
    <2> QED
      BY <1>2, <2>1
  <1>9. \A r \in rows : Find(r.short, words) # 0 => size(r) = NameChars(r.short)
    BY DEF FirstFound
  <1>10. \A r, s \in good : <<r, s>> \in R <=> before(r, s)
    OBVIOUS
  <1> HIDE DEF good, R, t, size, at
  <1>11. Orders(R, good)
    BY <1>2, <1>3, <1>8, <1>10 DEF Orders
  <1>12. /\ n \in Nat /\ best \in [1..n -> good]
         /\ \A i, j \in 1..n : i < j => <<best[i], best[j]>> \in R
         /\ \A x \in good : \E i \in 1..n : best[i] = x
    BY <1>4, <1>11, Sorting
  <1> HIDE DEF best, n
  <1>13. t = [k \in 1..n |-> t[k]] /\ DOMAIN t = 1..n /\ \A k \in 1..n : t[k].row = best[k]
    BY <1>1, <1>12 DEF Hit
  <1>14. IsList(t)
    BY <1>12, <1>13, ListIf
  <1>15. ASSUME t # <<>>
         PROVE  NamedRow(text, rows, t[1].row)
    <2>1. 1 \in 1..n
      <3>1. Len(t) # 0 /\ Len(t) \in Nat /\ DOMAIN t = 1..Len(t)
        BY <1>14, <1>15 DEF IsList
      <3>2. 1 \in DOMAIN t
        BY <3>1
      <3> QED
        BY <1>13, <3>2
    <2> DEFINE r == best[1]
    <2>2. r \in good /\ r \in rows /\ t[1].row = r
      BY <1>3, <1>12, <1>13, <2>1
    <2>3. Evident(r, text)
      <3>1. CASE Find(r.short, words) # 0
        BY <1>2, <2>2, <3>1, FoundIsEvident
      <3>2. CASE Find(r.full, words) # 0
        BY <1>2, <2>2, <3>2, FoundIsEvident
      <3> QED
        BY <1>6, <2>2, <3>1, <3>2
    <2>4. ASSUME NEW s \in rows, Within(r, s, words)
          PROVE  FALSE
      <3>1. /\ NameChars(r.short) \in Int /\ NameChars(s.short) \in Int
            /\ NameChars(r.short) < NameChars(s.short)
        BY <2>2, <2>4, OuterIsLonger
      <3>2. Find(r.short, words) # 0 /\ Find(s.short, words) # 0
        BY <2>4 DEF Within
      <3>3. size(r) < size(s) /\ size(r) \in Int /\ size(s) \in Int
        BY <1>9, <2>2, <3>1, <3>2
      <3>4. PICK i \in 1..n : best[i] = s
        BY <1>5, <1>12, <3>2
      <3>5. i # 1
        BY <3>3, <3>4
      <3>6. <<r, s>> \in R
        BY <1>12, <2>1, <3>4, <3>5
      <3>7. before(r, s)
        BY <1>5, <1>10, <2>2, <3>2, <3>6
      <3> QED
        BY <3>3, <3>7
    <2> HIDE DEF r
    <2> QED
      BY <2>2, <2>3, <2>4 DEF NamedRow
  <1>16. ASSUME t = <<>>
         PROVE  \A r \in rows : Find(r.short, words) = 0
    <2>1. 1..n = {}
      BY <1>13, <1>16
    <2> QED
      BY <1>5, <1>12, <2>1
  <1> QED
    BY <1>14, <1>15, <1>16 DEF t

\* A name with a quoted word, when no name is in the text.
LEMMA QuotedIsNamed ==
    ASSUME NEW cached, NEW text, Searches(cached, text), NEW rows \in SUBSET cached,
           \A r \in rows : Find(r.short, text.words) = 0
    PROVE  LET t == QuotedMatches(rows, text.quoted)
           IN  t # <<>> => NamedRow(text, rows, t[1].row)
  <1> DEFINE quoted == text.quoted
             holds(name) == ToSet(quoted) \subseteq ToSet(name)
             found == {r \in rows : quoted # <<>> /\ (holds(r.short) \/ holds(r.full))}
             before(r, s) == \/ r.name < s.name
                             \/ r.name = s.name /\ r.id < s.id
             R == {x \in found \X found : before(x[1], x[2])}
             best == Sorted(found, R)
             n == Cardinality(found)
             t == QuotedMatches(rows, quoted)
  <1>1. t = [k \in DOMAIN best |-> Hit(best[k], 90, "quoted_name")]
    BY Zenon DEF QuotedMatches
  <1>2. found \in SUBSET rows /\ IsFiniteSet(rows) /\ IsList(quoted)
    BY FS_Subset DEF Searches
  <1>3. IsFiniteSet(found)
    BY <1>2, FS_Subset
  <1>4. \A r \in found : quoted # <<>> /\ (holds(r.short) \/ holds(r.full))
    OBVIOUS
  <1>5. \A r, s \in found : <<r, s>> \in R <=> before(r, s)
    OBVIOUS
  <1>6. /\ \A r \in found : r.id \in Int /\ r.name \in Int
        /\ \A r, s \in found : r.id = s.id => r = s
    BY <1>2 DEF Searches
  <1> HIDE DEF found, R, t
  <1>7. Orders(R, found)
    BY <1>5, <1>6 DEF Orders
  <1>8. n \in Nat /\ best \in [1..n -> found] /\ DOMAIN best = 1..n
    BY <1>3, <1>7, Sorting
  <1> SUFFICES ASSUME t # <<>>
               PROVE  NamedRow(text, rows, t[1].row)
    BY DEF t
  <1>9. 1 \in 1..n
    <2>1. n # 0
      <3>1. n = 0 => t = <<>>
        BY <1>1, <1>8
      <3> QED
        BY <3>1
    <2> QED
      BY <1>8, <2>1
  <1>10. t[1].row = best[1]
    BY <1>1, <1>8, <1>9 DEF Hit
  <1>11. best[1] \in found
    BY <1>8, <1>9
  <1> DEFINE r == best[1]
  <1> HIDE DEF best
  <1>12. Evident(r, text)
    <2>1. quoted # <<>> /\ (holds(r.short) \/ holds(r.full))
      BY <1>4, <1>11
    <2>2. quoted[1] \in ToSet(quoted)
      <3>1. Len(quoted) \in Nat /\ DOMAIN quoted = 1..Len(quoted) /\ Len(quoted) # 0
        BY <1>2, <2>1 DEF IsList
      <3> QED
        BY <3>1 DEF ToSet
    <2> HIDE DEF r
    <2>3. quoted[1] \in ToSet(r.short) \cup ToSet(r.full)
      BY <2>1, <2>2
    <2> QED
      BY <2>2, <2>3 DEF Evident
  <1> QED
    BY <1>2, <1>10, <1>11, <1>12 DEF NamedRow, Within

\* Meaning alone is never good enough: a cosine is at most 1.
LEMMA CosineOfOne ==
    ASSUME NEW c \in Int, c <= 100, NEW low \in Nat
    PROVE  (c * low) \div 100 <= low
  <1>1. c * low <= 100 * low
    <2>1. (100 - c) * low >= 0
      <3>1. \A x, y \in Nat : x * y \in Nat
        OBVIOUS
      <3>2. 100 - c \in Nat
        OBVIOUS
      <3> QED
        BY <3>1, <3>2
    <2>2. (100 - c) * low = 100 * low - c * low
      OBVIOUS
    <2> QED
      BY <2>1, <2>2
  <1>2. \A x \in Int : x <= 100 * low => x \div 100 <= low
    OBVIOUS
  <1>3. c * low \in Int
    OBVIOUS
  <1> QED
    BY <1>1, <1>2, <1>3

LEMMA MeaningIsNamed ==
    ASSUME NEW cached, NEW text, Searches(cached, text), NEW r \in cached,
           LowIsNotEnough, SemanticScore(r, text) >= AcceptThreshold
    PROVE  Evident(r, text)
  <1> DEFINE c == text.cosine[r.id]
             known == \E w \in KeyWords(r) : Occurs(w, text.words)
  <1>1. c \in Int /\ c <= 100 /\ LowLexicalFactor \in Nat /\ AcceptThreshold \in Int
    BY SubdivisionAssumption DEF Searches
  <1>2. SemanticScore(r, text) = (c * LexicalFactor(r, text.words)) \div 100
    BY DEF SemanticScore
  <1>3. LexicalFactor(r, text.words) = IF known THEN 100 ELSE LowLexicalFactor
    BY DEF LexicalFactor
  <1> HIDE DEF c
  <1>4. known
    <2> SUFFICES ASSUME ~known PROVE FALSE
      OBVIOUS
    <2>1. SemanticScore(r, text) = (c * LowLexicalFactor) \div 100
      BY <1>2, <1>3
    <2>2. (c * LowLexicalFactor) \div 100 <= LowLexicalFactor
      BY <1>1, CosineOfOne
    <2>3. (c * LowLexicalFactor) \div 100 \in Int
      <3>1. \A x, y \in Int : (x * y) \div 100 \in Int
        OBVIOUS
      <3> QED
        BY <1>1, <3>1
    <2> QED
      BY <1>1, <2>1, <2>2, <2>3 DEF LowIsNotEnough
  <1>5. PICK w \in KeyWords(r) : Occurs(w, text.words)
    BY <1>4
  <1>6. w \in ToSet(r.short) \cup ToSet(r.full)
    BY <1>5 DEF KeyWords
  <1> QED
    BY <1>5, <1>6 DEF Evident

\* The subdivision that is accepted is one the text names.
LEMMA AcceptedNamed ==
    ASSUME NEW cached, NEW text, Searches(cached, text), NEW pu, NEW model, LowIsNotEnough,
           Subdivision(cached, text, pu, model).id # NoSubdivision
    PROVE  \E r : /\ NamedRow(text, Rows(cached, pu), r)
                  /\ r.id = Subdivision(cached, text, pu, model).id
  <1> DEFINE rows == Rows(cached, pu)
             whole == SubstringMatches(rows, text.words)
             quoted == QuotedMatches(rows, text.quoted)
             near == SemanticMatches(rows, text, model)
             matches == MatchSubdivision(cached, text, pu, model)
             accepted(hit) == \/ hit.score >= AcceptThreshold
                              \/ QuotedHit(text.quoted, hit.row)
             kept(hit) == [id |-> IF accepted(hit) THEN hit.row.id ELSE NoSubdivision,
                           score |-> hit.score]
             found == Subdivision(cached, text, pu, model)
  <1>1. found = IF matches = <<>> THEN [id |-> NoSubdivision, score |-> 0]
                ELSE kept(Head(matches))
    BY Zenon DEF Subdivision
  <1>2. matches = IF text.words = <<>> THEN <<>>
                  ELSE IF whole # <<>> THEN TopHits(whole)
                  ELSE IF quoted # <<>> THEN TopHits(quoted)
                  ELSE TopHits(near)
    BY Zenon DEF MatchSubdivision
  <1>3. rows \in SUBSET cached
    BY DEF Rows
  <1>4. IsFiniteSet(rows)
    BY <1>3, FS_Subset DEF Searches
  <1> HIDE DEF rows, matches, found
  <1>5. matches # <<>> /\ found.id = Head(matches).row.id /\ accepted(Head(matches))
    <2>1. matches # <<>>
      BY <1>1 DEF found
    <2> HIDE DEF accepted
    <2> QED
      BY <1>1, <2>1 DEF found
  <1> SUFFICES NamedRow(text, rows, Head(matches).row)
    BY <1>5 DEF rows, found
  <1>6. /\ IsList(whole)
        /\ whole # <<>> => NamedRow(text, rows, whole[1].row)
        /\ whole = <<>> => \A r \in rows : Find(r.short, text.words) = 0
    BY <1>3, SubstringIsNamed
  <1>7. CASE whole # <<>>
    <2>1. matches = TopHits(whole)
      BY <1>2, <1>5, <1>7
    <2> HIDE DEF whole
    <2> QED
      BY <1>6, <1>7, <2>1, FirstHits
  <1>8. CASE whole = <<>> /\ quoted # <<>>
    <2>1. IsList(quoted)
      BY <1>4, NamedRows DEF AllScore
    <2>2. NamedRow(text, rows, quoted[1].row)
      BY <1>3, <1>6, <1>8, QuotedIsNamed
    <2>3. matches = TopHits(quoted)
      BY <1>2, <1>5, <1>8
    <2> HIDE DEF quoted
    <2> QED
      BY <1>8, <2>1, <2>2, <2>3, FirstHits
  <1>9. CASE whole = <<>> /\ quoted = <<>>
    <2>1. SemanticHits(rows, text, near)
      BY <1>3, SemanticRows
    <2>2. matches = TopHits(near)
      BY <1>2, <1>5, <1>9
    <2>3. ~ \E r \in rows : QuotedHit(text.quoted, r)
      <3>1. ~SomeIsQuoted(rows, text.quoted)
        BY <1>4, <1>9, NamedRows
      <3>2. IsList(text.quoted) /\ \A r \in rows : IsList(r.full)
        BY <1>3 DEF Searches
      <3> QED
        BY <3>1, <3>2, QuotedWords DEF SomeIsQuoted
    <2> HIDE DEF near
    <2>4. near # <<>>
      BY <1>5, <2>2, NoHits
    <2>5. Head(matches) = near[1] /\ 1 \in DOMAIN near
      BY <2>1, <2>2, <2>4, FirstHits DEF SemanticHits
    <2>6. PICK r \in rows : near[1].row = r /\ near[1].score = SemanticScore(r, text)
      BY <2>1, <2>5 DEF SemanticHits
    <2>7. SemanticScore(r, text) >= AcceptThreshold
      BY <1>5, <2>3, <2>5, <2>6
    <2>8. Evident(r, text)
      BY <1>3, <2>7, MeaningIsNamed
    <2>9. \A s \in rows : ~Within(r, s, text.words)
      BY <1>6, <1>9, <2>6 DEF Within
    <2> QED
      BY <2>5, <2>6, <2>8, <2>9 DEF NamedRow
  <1> QED
    BY <1>7, <1>8, <1>9
=============================================================================
