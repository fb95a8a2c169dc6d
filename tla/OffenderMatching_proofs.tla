---------------------- MODULE OffenderMatching_proofs ----------------------
(***************************************************************************)
(* What the comparison of offenders promises for any report and any portal *)
(* event.  MatchDetails is a fold over the mentions: the invariant of the  *)
(* fold (PlacedUpTo) holds of the empty state and is kept by every mention *)
(* that is placed and by every one that is not.  It is about lists, so the *)
(* people and staff that the extractors collect are shown to be lists too. *)
(***************************************************************************)
EXTENDS OffenderMatching, Lists_proofs

-----------------------------------------------------------------------------
(* One mention.                                                            *)

Fits(m, p) == NameMatch(m, p) # "none" /\ DobCompatible(m.dob, p.dob)

PairOf(all, portal) == [mention : DOMAIN all, portal : DOMAIN portal]

Placing(all, portal) ==
    [used : SUBSET DOMAIN portal, accounted : SUBSET DOMAIN portal,
     pairs : Seq(PairOf(all, portal)), possible : Seq(PairOf(all, portal)),
     ambiguous : SUBSET DOMAIN all, lost : SUBSET DOMAIN all]

\* The four grades of a comparison of names.
LEMMA NameMatchType ==
    \A m, p : NameMatch(m, p) \in {"none", "partial", "exact", "fuzzy"}
  <1> TAKE m, p
  <1> DEFINE parts == {Component(m.second, p.second, SurnameThreshold),
                       Component(m.first, p.first, NameThreshold),
                       Component(m.middle, p.middle, NameThreshold)}
  <1>1. NameMatch(m, p) =
            IF m.second = NoPart \/ "no" \in parts THEN "none"
            ELSE IF m.first = NoPart /\ m.middle = NoPart THEN "partial"
            ELSE IF parts = {"same"} THEN "exact" ELSE "fuzzy"
    BY Zenon DEF NameMatch
  <1> HIDE DEF parts
  <1> QED
    BY <1>1

\* The index a pair is counted under: the first of the equal offenders.
LEMMA FirstOfEqual ==
    ASSUME NEW T, NEW portal \in Seq(T), NEW j \in DOMAIN portal
    PROVE  /\ IndexOf(portal, j) \in DOMAIN portal
           /\ portal[IndexOf(portal, j)] = portal[j]
           /\ \A k \in DOMAIN portal : portal[k] = portal[j] => IndexOf(portal, j) <= k
  <1> DEFINE K == {k \in DOMAIN portal : portal[k] = portal[j]}
  <1>1. DOMAIN portal = 1..Len(portal) /\ Len(portal) \in Nat
    OBVIOUS
  <1>2. K \in SUBSET (1..Len(portal)) /\ K # {}
    BY <1>1
  <1>3. Min(K) \in K /\ \A k \in K : Min(K) <= k
    <2> HIDE DEF K
    <2> QED
      BY <1>1, <1>2, MinIs
  <1>4. IndexOf(portal, j) = Min(K)
    BY DEF IndexOf
  <1> QED
    BY <1>3, <1>4

\* What becomes of mention i: it takes b, ...
Takes(all, portal, st, after, i, b) ==
    /\ b \in Free(portal, st) /\ Fits(all[i], portal[b])
    /\ \A k \in Free(portal, st) : portal[k] = portal[b] => b <= k
    /\ after = [st EXCEPT !.pairs = Append(@, [mention |-> i, portal |-> b]),
                          !.used = @ \cup {IndexOf(portal, b)},
                          !.accounted = @ \cup {IndexOf(portal, b)}]

\* ... or there is nobody left whom it fits, ...
FitsNobody(all, portal, st, i) == \A j \in Free(portal, st) : ~Fits(all[i], portal[j])

\* ... and it is a possible match, ambiguous or lost.
StaysOut(portal, st, after, i) ==
    \/ \E l \in DOMAIN portal :
          after = [st EXCEPT !.possible = Append(@, [mention |-> i, portal |-> l]),
                             !.accounted = @ \cup {IndexOf(portal, l)}]
    \/ after = [st EXCEPT !.ambiguous = @ \cup {i}]
    \/ after = [st EXCEPT !.lost = @ \cup {i}]

\* A mention takes the best free person it fits, or stays out because it
\* fits none.
LEMMA PlaceCases ==
    ASSUME NEW S, NEW all \in Seq(S), NEW T, NEW portal \in Seq(T),
           NEW st, NEW i \in DOMAIN all
    PROVE  \/ \E b \in DOMAIN portal :
                 Takes(all, portal, st, Place(portal, all, st, i), i, b)
           \/ /\ FitsNobody(all, portal, st, i)
              /\ StaysOut(portal, st, Place(portal, all, st, i), i)
  <1> DEFINE free == Free(portal, st)
             type == [j \in free |-> NameMatch(all[i], portal[j])]
             named == {j \in free : type[j] # "none"}
             fits == {j \in named : DobCompatible(all[i].dob, portal[j].dob)}
             rank(j) == MatchRank(type[j])
             after == Place(portal, all, st, i)
             beats(j, k) == rank(j) > rank(k) \/ (rank(j) = rank(k) /\ j <= k)
             R == {p \in fits \X fits : beats(p[1], p[2])}
             best == CHOOSE j \in fits : \A k \in fits : beats(j, k)
             last == Max(named)
             namesakes == {j \in DOMAIN portal : portal[j].second = all[i].second}
             pair(j) == [mention |-> i, portal |-> j]
  <1>1. DOMAIN portal = 1..Len(portal) /\ Len(portal) \in Nat /\ free \subseteq DOMAIN portal
    BY DEF Free
  <1>2. after = CASE fits # {} ->
                       [st EXCEPT !.pairs = Append(@, pair(best)),
                                  !.used = @ \cup {IndexOf(portal, best)},
                                  !.accounted = @ \cup {IndexOf(portal, best)}]
                  [] fits = {} /\ named # {} ->
                       [st EXCEPT !.possible = Append(@, pair(last)),
                                  !.accounted = @ \cup {IndexOf(portal, last)}]
                  [] named = {} /\ all[i].first = NoPart /\ Cardinality(namesakes) > 1 ->
                       [st EXCEPT !.ambiguous = @ \cup {i}]
                  [] OTHER ->
                       [st EXCEPT !.lost = @ \cup {i}]
    BY Zenon DEF Place, Placed
  <1>3. \A j \in free : j \in fits <=> Fits(all[i], portal[j])
    BY DEF Fits
  <1>4. CASE fits # {}
    <2>1. \A j \in fits : rank(j) \in {1, 2, 3}
      <3>1. \A j \in fits : type[j] \in {"partial", "exact", "fuzzy"}
        BY NameMatchType
      <3> HIDE DEF type, fits
      <3> QED
        BY <3>1 DEF MatchRank
    <2>2. fits \subseteq 1..Len(portal)
      BY <1>1
    <2>3. IsFiniteSet(fits)
      <3> HIDE DEF fits
      <3> QED
        BY <1>1, <2>2, FinitePart
    <2>4. Compares(R, fits)
      <3>1. \A x, y \in fits : beats(x, y) \/ beats(y, x)
        <4> HIDE DEF fits, rank
        <4> QED
          BY <1>1, <2>1, <2>2
      <3>2. \A x, y, z \in fits : beats(x, y) /\ beats(y, z) => beats(x, z)
        <4> HIDE DEF fits, rank
        <4> QED
          BY <1>1, <2>1, <2>2
      <3>3. \A x, y \in fits : <<x, y>> \in R <=> beats(x, y)
        <4> HIDE DEF fits, beats
        <4> QED
          OBVIOUS
      <3> HIDE DEF fits, beats, R
      <3> QED
        BY <3>1, <3>2, <3>3 DEF Compares
    <2>5. PICK x \in fits : Least(R, fits, x)
      <3> HIDE DEF fits, R
      <3> QED
        BY <1>4, <2>3, <2>4, LeastExists
    <2>6. \A k \in fits : beats(x, k)
      <3> HIDE DEF fits, beats
      <3> QED
        BY <2>5 DEF Least
    <2>7. best \in fits /\ \A k \in fits : beats(best, k)
      <3> HIDE DEF fits, beats
      <3> QED
        BY <2>5, <2>6, Zenon
    <2> HIDE DEF best
    <2>8. ASSUME NEW k \in free, portal[k] = portal[best]
          PROVE  best <= k
      <3>1. type[k] = type[best] /\ k \in fits
        BY <2>7, <2>8
      <3>2. rank(k) = rank(best) /\ rank(k) \in {1, 2, 3} /\ beats(best, k)
        BY <2>1, <2>7, <3>1
      <3> HIDE DEF rank
      <3> QED
        BY <3>2
    <2>9. after = [st EXCEPT !.pairs = Append(@, pair(best)),
                             !.used = @ \cup {IndexOf(portal, best)},
                             !.accounted = @ \cup {IndexOf(portal, best)}]
      <3>1. named # {}
        BY <1>4
      <3> HIDE DEF after, fits, named, last, namesakes
      <3> QED
        BY <1>2, <1>4, <3>1
    <2>10. best \in free /\ Fits(all[i], portal[best]) /\ best \in DOMAIN portal
      BY <1>1, <1>3, <2>7
    <2> HIDE DEF after, fits, free
    <2>11. Takes(all, portal, st, after, i, best)
      BY <2>8, <2>9, <2>10 DEF Takes, free
    <2> QED
      BY <2>10, <2>11 DEF after
  <1>5. CASE fits = {}
    <2>1. FitsNobody(all, portal, st, i)
      BY <1>3, <1>5 DEF FitsNobody
    <2>2. CASE named # {}
      <3>1. named \in SUBSET (1..Len(portal))
        BY <1>1
      <3>2. last \in DOMAIN portal
        <4> HIDE DEF named
        <4> QED
          BY <1>1, <2>2, <3>1, MaxBelow
      <3>3. after = [st EXCEPT !.possible = Append(@, pair(last)),
                               !.accounted = @ \cup {IndexOf(portal, last)}]
        <4> HIDE DEF after, fits, named, last, namesakes
        <4> QED
          BY <1>2, <1>5, <2>2
      <3> HIDE DEF last, after
      <3>4. StaysOut(portal, st, after, i)
        BY <3>2, <3>3 DEF StaysOut
      <3> QED
        BY <2>1, <3>4 DEF after
    <2>3. CASE named = {}
      <3>1. \/ after = [st EXCEPT !.ambiguous = @ \cup {i}]
            \/ after = [st EXCEPT !.lost = @ \cup {i}]
        <4> HIDE DEF after, fits, named, last, namesakes
        <4> QED
          BY <1>2, <1>5, <2>3
      <3> HIDE DEF after
      <3>2. StaysOut(portal, st, after, i)
        BY <3>1 DEF StaysOut
      <3> QED
        BY <2>1, <3>2 DEF after
    <2> QED
      BY <2>2, <2>3
  <1> QED
    BY <1>4, <1>5

\* The state of the fold has its type after every mention.
LEMMA PlaceType ==
    ASSUME NEW S, NEW all \in Seq(S), NEW T, NEW portal \in Seq(T),
           NEW st \in Placing(all, portal), NEW i \in DOMAIN all
    PROVE  Place(portal, all, st, i) \in Placing(all, portal)
  <1> DEFINE after == Place(portal, all, st, i)
  <1>1. ASSUME NEW j \in DOMAIN portal, NEW list \in Seq(PairOf(all, portal))
        PROVE  Append(list, [mention |-> i, portal |-> j]) \in Seq(PairOf(all, portal))
    <2>1. [mention |-> i, portal |-> j] \in PairOf(all, portal)
      BY DEF PairOf
    <2> QED
      BY <2>1
  <1> DEFINE longer(list, j) == Append(list, [mention |-> i, portal |-> j])
  <1> HIDE DEF longer
  <1>2. ASSUME NEW b \in DOMAIN portal, Takes(all, portal, st, after, i, b)
        PROVE  after \in Placing(all, portal)
    <2>1. after = [st EXCEPT !.pairs = Append(@, [mention |-> i, portal |-> b]),
                             !.used = @ \cup {IndexOf(portal, b)},
                             !.accounted = @ \cup {IndexOf(portal, b)}]
      BY <1>2 DEF Takes
    <2>2. IndexOf(portal, b) \in DOMAIN portal
      BY FirstOfEqual
    <2>3. longer(st.pairs, b) \in Seq(PairOf(all, portal))
      BY <1>1 DEF Placing, longer
    <2>4. after = [st EXCEPT !.pairs = longer(@, b), !.used = @ \cup {IndexOf(portal, b)},
                             !.accounted = @ \cup {IndexOf(portal, b)}]
      BY <2>1 DEF longer
    <2> HIDE DEF after
    <2> QED
      BY <2>2, <2>3, <2>4 DEF Placing
  <1>3. ASSUME StaysOut(portal, st, after, i)
        PROVE  after \in Placing(all, portal)
    <2> HIDE DEF after
    <2>1. ASSUME NEW l \in DOMAIN portal,
                 after = [st EXCEPT !.possible = Append(@, [mention |-> i, portal |-> l]),
                                    !.accounted = @ \cup {IndexOf(portal, l)}]
          PROVE  after \in Placing(all, portal)
      <3>1. IndexOf(portal, l) \in DOMAIN portal
        BY FirstOfEqual
      <3>2. longer(st.possible, l) \in Seq(PairOf(all, portal))
        BY <1>1 DEF Placing, longer
      <3>3. after = [st EXCEPT !.possible = longer(@, l),
                               !.accounted = @ \cup {IndexOf(portal, l)}]
        BY <2>1 DEF longer
      <3> QED
        BY <3>1, <3>2, <3>3 DEF Placing
    <2>2. ASSUME after = [st EXCEPT !.ambiguous = @ \cup {i}]
          PROVE  after \in Placing(all, portal)
      BY <2>2 DEF Placing
    <2>3. ASSUME after = [st EXCEPT !.lost = @ \cup {i}]
          PROVE  after \in Placing(all, portal)
      BY <2>3 DEF Placing
    <2> QED
      BY <1>3, <2>1, <2>2, <2>3 DEF StaysOut
  <1> HIDE DEF after
  <1> QED
    BY <1>2, <1>3, PlaceCases DEF after

NobodyPlaced == [used |-> {}, accounted |-> {}, pairs |-> <<>>,
                 possible |-> <<>>, ambiguous |-> {}, lost |-> {}]

\* The comparison is the last of one state per mention.
LEMMA PlaceSteps ==
    ASSUME NEW S, NEW all \in Seq(S), NEW T, NEW portal \in Seq(T)
    PROVE  \E f : /\ f[0] = NobodyPlaced
                  /\ MatchDetails(all, portal) = Outcome(all, portal, f[Len(all)])
                  /\ \A k \in 1..Len(all) : f[k] = Place(portal, all, f[k - 1], k)
  <1> DEFINE n == Len(all)
             A == Placing(all, portal)
             G == [k \in 1..n |-> [st \in A |-> Place(portal, all, st, k)]]
             s == [i \in DOMAIN all |-> i]
             Body(g) == [d \in SUBSET DOMAIN s |->
                           IF d = {} THEN NobodyPlaced
                           ELSE Place(portal, all, g[d \ {Max(d)}], s[Max(d)])]
  <1>1. n \in Nat /\ DOMAIN all = 1..n /\ DOMAIN s = 1..n /\ \A k \in 1..n : s[k] = k
    OBVIOUS
  <1>2. G \in [1..n -> [A -> A]]
    BY <1>1, PlaceType
  <1>3. NobodyPlaced \in A
    BY DEF NobodyPlaced, Placing
  <1>4. PICK g \in [SUBSET (1..n) -> A] :
           \A d \in SUBSET (1..n) : Unfolds(g, d, n, A, NobodyPlaced, G)
    <2> HIDE DEF G, A, n
    <2> QED
      BY <1>1, <1>2, <1>3, FoldUnfolds
  <1>5. ASSUME NEW d \in SUBSET (1..n)
        PROVE  g[d] = Body(g)[d]
    <2> HIDE DEF A, s, n
    <2> QED
      BY <1>1, <1>4 DEF Unfolds
  <1>6. g = Body(g)
    <2> HIDE DEF A
    <2> QED
      BY <1>1, <1>5
  <1>7. PICK h : h = Body(h) /\ MatchDetails(all, portal) = Outcome(all, portal, h[DOMAIN s])
    <2> HIDE <1>4, <1>5
    <2> QED
      BY <1>6, Zenon DEF MatchDetails, FoldLeft, MapThenFoldSet, NobodyPlaced
  <1> HIDE DEF A, G
  <1> DEFINE f == [k \in 0..n |-> h[1..k]]
  <1>8. \A d \in SUBSET (1..n) :
           h[d] = IF d = {} THEN NobodyPlaced
                  ELSE Place(portal, all, h[d \ {Max(d)}], s[Max(d)])
    <2> HIDE DEF s
    <2> QED
      BY <1>1, <1>7
  <1> HIDE DEF s
  <1>9. f[0] = NobodyPlaced /\ MatchDetails(all, portal) = Outcome(all, portal, f[n])
    BY <1>1, <1>7, <1>8
  <1>10. ASSUME NEW k \in 1..n
         PROVE  f[k] = Place(portal, all, f[k - 1], k)
    <2>1. Max(1..k) = k /\ (1..k) \ {k} = 1..(k - 1) /\ 1..k # {}
      BY MaxOfInterval
    <2>2. 1..k \in SUBSET (1..n) /\ k \in 0..n /\ k - 1 \in 0..n
      BY <1>1
    <2> QED
      BY <1>1, <1>8, <2>1, <2>2
  <1> QED
    <2> HIDE DEF f
    <2> QED
      BY <1>9, <1>10

-----------------------------------------------------------------------------
(* Every mention.                                                          *)

MentionsOf(pairs) == {pairs[i].mention : i \in DOMAIN pairs}
PortalsOf(pairs) == {pairs[i].portal : i \in DOMAIN pairs}

InTurn(st, k) ==
    /\ \A i \in DOMAIN st.pairs : st.pairs[i].mention \in 1..k
    /\ \A i, j \in DOMAIN st.pairs : i < j => st.pairs[i].mention < st.pairs[j].mention

\* Who is used is paired, under the index of the first of equal offenders.
UsedIsPaired(portal, st) ==
    /\ \A i \in DOMAIN st.pairs : IndexOf(portal, st.pairs[i].portal) \in st.used
    /\ st.used \subseteq PortalsOf(st.pairs)

Apart(portal, st) ==
    IsInjective(portal) =>
        \A i, j \in DOMAIN st.pairs : st.pairs[i].portal = st.pairs[j].portal => i = j

Suited(all, portal, st) ==
    \A i \in DOMAIN st.pairs : Fits(all[st.pairs[i].mention], portal[st.pairs[i].portal])

\* Whoever is accounted for has a double that is paired or a possible match.
AccountedIsTold(portal, st) ==
    \A a \in st.accounted :
        \E p \in PortalsOf(st.pairs) \cup PortalsOf(st.possible) : portal[a] = portal[p]

EveryoneIsTold(st, k) ==
    \A i \in 1..k : i \in MentionsOf(st.pairs) \cup MentionsOf(st.possible)
                          \cup st.ambiguous \cup st.lost

\* Whoever is not paired fits nobody who is still free.
Greedy(all, portal, st, k) ==
    \A i \in 1..k : i \in MentionsOf(st.pairs) \/ FitsNobody(all, portal, st, i)

PlacedUpTo(all, portal, st, k) ==
    /\ st \in Placing(all, portal)
    /\ InTurn(st, k)
    /\ UsedIsPaired(portal, st)
    /\ Apart(portal, st)
    /\ Suited(all, portal, st)
    /\ AccountedIsTold(portal, st)
    /\ EveryoneIsTold(st, k)
    /\ Greedy(all, portal, st, k)

\* What it means to have one pair more.
LEMMA OnePair ==
    ASSUME NEW Q, NEW pairs \in Seq(Q), NEW x \in Q
    PROVE  /\ Len(pairs) \in Nat /\ DOMAIN pairs = 1..Len(pairs)
           /\ Append(pairs, x) \in Seq(Q)
           /\ DOMAIN Append(pairs, x) = 1..(Len(pairs) + 1)
           /\ \A i \in 1..Len(pairs) : Append(pairs, x)[i] = pairs[i]
           /\ Append(pairs, x)[Len(pairs) + 1] = x
           /\ MentionsOf(Append(pairs, x)) = MentionsOf(pairs) \cup {x.mention}
           /\ PortalsOf(Append(pairs, x)) = PortalsOf(pairs) \cup {x.portal}
  <1> DEFINE more == Append(pairs, x)
  <1>1. /\ Len(pairs) \in Nat /\ DOMAIN pairs = 1..Len(pairs)
        /\ more \in Seq(Q) /\ DOMAIN more = 1..(Len(pairs) + 1)
        /\ \A i \in 1..Len(pairs) : more[i] = pairs[i]
        /\ more[Len(pairs) + 1] = x
    OBVIOUS
  <1>2. \A i \in 1..(Len(pairs) + 1) : i \in 1..Len(pairs) \/ i = Len(pairs) + 1
    BY <1>1
  <1>3. 1..Len(pairs) \subseteq 1..(Len(pairs) + 1) /\ Len(pairs) + 1 \in 1..(Len(pairs) + 1)
    BY <1>1
  <1> HIDE DEF more
  <1>4. MentionsOf(more) = MentionsOf(pairs) \cup {x.mention}
    BY <1>1, <1>2, <1>3 DEF MentionsOf
  <1>5. PortalsOf(more) = PortalsOf(pairs) \cup {x.portal}
    BY <1>1, <1>2, <1>3 DEF PortalsOf
  <1> QED
    BY <1>1, <1>4, <1>5 DEF more

\* A mention that takes an offender.
LEMMA TakesKeeps ==
    ASSUME NEW S, NEW all \in Seq(S), NEW T, NEW portal \in Seq(T),
           NEW k \in 1..Len(all), NEW st, PlacedUpTo(all, portal, st, k - 1),
           NEW after \in Placing(all, portal),
           NEW b \in DOMAIN portal, Takes(all, portal, st, after, k, b)
    PROVE  PlacedUpTo(all, portal, after, k)
  <1> DEFINE x == [mention |-> k, portal |-> b]
             n == Len(st.pairs)
             first == IndexOf(portal, b)
  <1>1. x \in PairOf(all, portal) /\ x.mention = k /\ x.portal = b
    BY DEF PairOf
  <1>2. st.pairs \in Seq(PairOf(all, portal)) /\ st \in Placing(all, portal)
    BY DEF PlacedUpTo, Placing
  <1>3. /\ after.pairs = Append(st.pairs, x)
        /\ after.used = st.used \cup {first}
        /\ after.accounted = st.accounted \cup {first}
        /\ after.possible = st.possible /\ after.ambiguous = st.ambiguous
        /\ after.lost = st.lost
    BY <1>2 DEF Takes, Placing
  <1>4. /\ n \in Nat /\ DOMAIN st.pairs = 1..n /\ DOMAIN after.pairs = 1..(n + 1)
        /\ \A i \in 1..n : after.pairs[i] = st.pairs[i]
        /\ after.pairs[n + 1] = x
        /\ MentionsOf(after.pairs) = MentionsOf(st.pairs) \cup {k}
        /\ PortalsOf(after.pairs) = PortalsOf(st.pairs) \cup {b}
    <2> HIDE DEF x, n
    <2> QED
      BY <1>1, <1>2, <1>3, OnePair DEF n
  <1>5. /\ first \in DOMAIN portal /\ portal[first] = portal[b] /\ first <= b
        /\ DOMAIN portal \in SUBSET Nat
    BY FirstOfEqual
  <1>6. \A i \in 1..(n + 1) : i \in 1..n \/ i = n + 1
    BY <1>4
  <1> HIDE DEF x, n, first
  <1>7. InTurn(after, k)
    <2>1. \A i \in 1..n : after.pairs[i].mention \in 1..(k - 1)
      BY <1>4 DEF PlacedUpTo, InTurn
    <2>2. \A i \in 1..(n + 1) : after.pairs[i].mention \in 1..k
      BY <1>1, <1>4, <1>6, <2>1
    <2>3. ASSUME NEW i \in 1..(n + 1), NEW j \in 1..(n + 1), i < j
          PROVE  after.pairs[i].mention < after.pairs[j].mention
      <3>1. i \in 1..n
        BY <1>4, <2>3
      <3>2. CASE j \in 1..n
        BY <1>4, <2>3, <3>1, <3>2 DEF PlacedUpTo, InTurn
      <3>3. CASE j = n + 1
        BY <1>1, <1>4, <2>1, <3>1, <3>3
      <3> QED
        BY <1>6, <3>2, <3>3
    <2> QED
      BY <1>4, <2>2, <2>3 DEF InTurn
  <1>8. b = first \/ first \in st.used
    <2>1. CASE first \in st.used
      BY <2>1
    <2>2. CASE first \notin st.used
      <3>1. first \in Free(portal, st)
        BY <1>5, <2>2 DEF Free
      <3>2. b <= first
        BY <1>5, <3>1 DEF Takes
      <3> QED
        BY <1>5, <3>2
    <2> QED
      BY <2>1, <2>2
  <1>9. UsedIsPaired(portal, after)
    <2>1. ASSUME NEW i \in 1..(n + 1)
          PROVE  IndexOf(portal, after.pairs[i].portal) \in after.used
      <3>1. CASE i \in 1..n
        BY <1>3, <1>4, <3>1 DEF PlacedUpTo, UsedIsPaired
      <3>2. CASE i = n + 1
        BY <1>1, <1>3, <1>4, <3>2 DEF first
      <3> QED
        BY <1>6, <3>1, <3>2
    <2>2. after.used \subseteq PortalsOf(after.pairs)
      BY <1>3, <1>4, <1>8 DEF PlacedUpTo, UsedIsPaired
    <2> QED
      BY <1>4, <2>1, <2>2 DEF UsedIsPaired
  <1>10. Apart(portal, after)
    <2> SUFFICES ASSUME IsInjective(portal), NEW i \in 1..(n + 1), NEW j \in 1..(n + 1),
                        after.pairs[i].portal = after.pairs[j].portal
                 PROVE  i = j
      BY <1>4 DEF Apart
    <2>1. ASSUME NEW l \in 1..n, st.pairs[l].portal = b
          PROVE  FALSE
      <3>1. IndexOf(portal, b) \in st.used
        BY <1>4, <2>1 DEF PlacedUpTo, UsedIsPaired
      <3>2. first = b
        BY <1>5 DEF IsInjective
      <3> QED
        BY <3>1, <3>2 DEF Takes, Free, first
    <2>2. CASE i \in 1..n /\ j \in 1..n
      BY <1>4, <2>2 DEF PlacedUpTo, Apart
    <2>3. CASE i \in 1..n /\ j = n + 1
      BY <1>1, <1>4, <2>1, <2>3
    <2>4. CASE i = n + 1 /\ j \in 1..n
      BY <1>1, <1>4, <2>1, <2>4
    <2> QED
      BY <1>6, <2>2, <2>3, <2>4
  <1>11. Suited(all, portal, after)
    <2>1. ASSUME NEW i \in 1..(n + 1)
          PROVE  Fits(all[after.pairs[i].mention], portal[after.pairs[i].portal])
      <3>1. CASE i \in 1..n
        BY <1>4, <3>1 DEF PlacedUpTo, Suited
      <3>2. CASE i = n + 1
        BY <1>1, <1>4, <3>2 DEF Takes
      <3> QED
        BY <1>6, <3>1, <3>2
    <2> QED
      BY <1>4, <2>1 DEF Suited
  <1>12. AccountedIsTold(portal, after)
    <2>1. ASSUME NEW a \in st.accounted
          PROVE  \E p \in PortalsOf(after.pairs) \cup PortalsOf(after.possible) :
                    portal[a] = portal[p]
      BY <1>3, <1>4 DEF PlacedUpTo, AccountedIsTold
    <2>2. b \in PortalsOf(after.pairs) /\ portal[first] = portal[b]
      BY <1>4, <1>5
    <2> QED
      BY <1>3, <2>1, <2>2 DEF AccountedIsTold
  <1>13. \A i \in 1..k : i \in 1..(k - 1) \/ i = k
    OBVIOUS
  <1>14. EveryoneIsTold(after, k)
    BY <1>3, <1>4, <1>13 DEF PlacedUpTo, EveryoneIsTold
  <1>15. Greedy(all, portal, after, k)
    <2>1. Free(portal, after) \subseteq Free(portal, st)
      BY <1>3 DEF Free
    <2>2. ASSUME NEW i \in 1..(k - 1)
          PROVE  i \in MentionsOf(after.pairs) \/ FitsNobody(all, portal, after, i)
      BY <1>4, <2>1 DEF PlacedUpTo, Greedy, FitsNobody
    <2> QED
      BY <1>4, <1>13, <2>2 DEF Greedy
  <1> QED
    BY <1>7, <1>9, <1>10, <1>11, <1>12, <1>14, <1>15 DEF PlacedUpTo

\* A mention that nobody is left for.
LEMMA StaysOutKeeps ==
    ASSUME NEW S, NEW all \in Seq(S), NEW T, NEW portal \in Seq(T),
           NEW k \in 1..Len(all), NEW st, PlacedUpTo(all, portal, st, k - 1),
           NEW after \in Placing(all, portal),
           FitsNobody(all, portal, st, k), StaysOut(portal, st, after, k)
    PROVE  PlacedUpTo(all, portal, after, k)
  <1>1. st \in Placing(all, portal)
    BY DEF PlacedUpTo
  <1>2. after.pairs = st.pairs /\ after.used = st.used
    BY <1>1 DEF StaysOut, Placing
  <1>3. /\ PortalsOf(st.possible) \subseteq PortalsOf(after.possible)
        /\ MentionsOf(st.possible) \subseteq MentionsOf(after.possible)
        /\ st.ambiguous \subseteq after.ambiguous /\ st.lost \subseteq after.lost
        /\ k \in MentionsOf(after.possible) \cup after.ambiguous \cup after.lost
        /\ \A a \in after.accounted :
              a \in st.accounted \/ \E p \in PortalsOf(after.possible) : portal[a] = portal[p]
    <2>1. ASSUME NEW l \in DOMAIN portal,
                 after = [st EXCEPT !.possible = Append(@, [mention |-> k, portal |-> l]),
                                    !.accounted = @ \cup {IndexOf(portal, l)}]
          PROVE  <1>3!:
      <3> DEFINE x == [mention |-> k, portal |-> l]
      <3>1. x \in PairOf(all, portal) /\ x.mention = k /\ x.portal = l
        BY DEF PairOf
      <3>2. /\ after.possible = Append(st.possible, x)
            /\ after.accounted = st.accounted \cup {IndexOf(portal, l)}
            /\ after.ambiguous = st.ambiguous /\ after.lost = st.lost
            /\ st.possible \in Seq(PairOf(all, portal))
        BY <1>1, <2>1 DEF Placing
      <3> HIDE DEF x
      <3>3. /\ MentionsOf(after.possible) = MentionsOf(st.possible) \cup {k}
            /\ PortalsOf(after.possible) = PortalsOf(st.possible) \cup {l}
        BY <3>1, <3>2, OnePair
      <3>4. portal[IndexOf(portal, l)] = portal[l]
        BY FirstOfEqual
      <3> QED
        BY <3>2, <3>3, <3>4
    <2>2. ASSUME after = [st EXCEPT !.ambiguous = @ \cup {k}]
          PROVE  <1>3!:
      BY <1>1, <2>2 DEF Placing
    <2>3. ASSUME after = [st EXCEPT !.lost = @ \cup {k}]
          PROVE  <1>3!:
      BY <1>1, <2>3 DEF Placing
    <2> QED
      BY <2>1, <2>2, <2>3 DEF StaysOut
  <1>4. \A i \in 1..k : i \in 1..(k - 1) \/ i = k
    OBVIOUS
  <1>5. InTurn(after, k)
    <2>1. 1..(k - 1) \subseteq 1..k
      OBVIOUS
    <2> QED
      BY <1>2, <2>1 DEF PlacedUpTo, InTurn
  <1>6. UsedIsPaired(portal, after) /\ Apart(portal, after) /\ Suited(all, portal, after)
    BY <1>2 DEF PlacedUpTo, UsedIsPaired, Apart, Suited
  <1>7. AccountedIsTold(portal, after)
    BY <1>2, <1>3 DEF PlacedUpTo, AccountedIsTold
  <1>8. EveryoneIsTold(after, k)
    BY <1>2, <1>3, <1>4 DEF PlacedUpTo, EveryoneIsTold
  <1>9. Greedy(all, portal, after, k)
    BY <1>2, <1>4 DEF PlacedUpTo, Greedy, FitsNobody, Free
  <1> QED
    BY <1>5, <1>6, <1>7, <1>8, <1>9 DEF PlacedUpTo

\* By induction over the mentions.
LEMMA EveryonePlaced ==
    ASSUME NEW S, NEW all \in Seq(S), NEW T, NEW portal \in Seq(T)
    PROVE  \E end : /\ MatchDetails(all, portal) = Outcome(all, portal, end)
                    /\ PlacedUpTo(all, portal, end, Len(all))
  <1>1. PICK f : /\ f[0] = NobodyPlaced
                 /\ MatchDetails(all, portal) = Outcome(all, portal, f[Len(all)])
                 /\ \A k \in 1..Len(all) : f[k] = Place(portal, all, f[k - 1], k)
    BY PlaceSteps
  <1> DEFINE n == Len(all)
             P == {k \in 0..n : PlacedUpTo(all, portal, f[k], k)}
  <1>2. n \in Nat /\ DOMAIN all = 1..n
    OBVIOUS
  <1>3. 0 \in P
    <2>1. NobodyPlaced \in Placing(all, portal)
      BY DEF NobodyPlaced, Placing
    <2>2. PlacedUpTo(all, portal, NobodyPlaced, 0)
      BY <2>1 DEF NobodyPlaced, PlacedUpTo, InTurn, UsedIsPaired, Apart, Suited, AccountedIsTold,
                  EveryoneIsTold, Greedy, PortalsOf
    <2> QED
      BY <1>1, <1>2, <2>2
  <1>4. ASSUME NEW m \in P, m < n
        PROVE  m + 1 \in P
    <2> DEFINE k == m + 1
               st == f[m]
               after == f[k]
    <2>1. k \in 1..n /\ k \in 0..n /\ k - 1 = m /\ PlacedUpTo(all, portal, st, m)
      BY <1>2, <1>4
    <2>2. after = Place(portal, all, st, k)
      BY <1>1, <2>1
    <2> HIDE DEF k, st, after, P
    <2>3. st \in Placing(all, portal) /\ k \in DOMAIN all /\ k \in 1..Len(all)
          /\ PlacedUpTo(all, portal, st, k - 1)
      BY <1>2, <2>1 DEF PlacedUpTo
    <2>4. after \in Placing(all, portal)
      BY <2>2, <2>3, PlaceType
    <2>5. PlacedUpTo(all, portal, after, k)
      <3>1. CASE \E b \in DOMAIN portal : Takes(all, portal, st, after, k, b)
        BY <2>3, <2>4, <3>1, TakesKeeps
      <3>2. CASE FitsNobody(all, portal, st, k) /\ StaysOut(portal, st, after, k)
        BY <2>3, <2>4, <3>2, StaysOutKeeps
      <3> QED
        BY <2>2, <2>3, <3>1, <3>2, PlaceCases
    <2> QED
      BY <2>1, <2>5 DEF k, after, P
  <1>5. n \in P
    <2>1. P \in SUBSET (0..n) /\ n \in 0..n
      BY <1>2
    <2> HIDE DEF P
    <2> QED
      BY <1>2, <1>3, <1>4, <2>1, UpTo
  <1> QED
    BY <1>1, <1>5

-----------------------------------------------------------------------------
(* What is told.                                                           *)

\* No mention is paired twice, and no offender unless the event has equal ones.
OneToOne(found, portal) ==
    \A i, j \in DOMAIN found.pairs :
        i # j => /\ found.pairs[i].mention # found.pairs[j].mention
                 /\ IsInjective(portal) => found.pairs[i].portal # found.pairs[j].portal

\* No mention that is left over fits an offender that is left over.
NoneLeft(found, portal) ==
    \A i \in DOMAIN found.all \ MentionsOf(found.pairs),
       j \in DOMAIN portal \ PortalsOf(found.pairs) : ~Fits(found.all[i], portal[j])

\* What is not paired is possible, ambiguous or missing, or has a double that is
\* paired or possible.
AllTold(found, portal) ==
    LET told == ToSet(found.pairs) \cup ToSet(found.possible)
    IN  /\ \A j \in DOMAIN portal : \/ portal[j] \in found.missingInSvodka
                                    \/ \E x \in told : portal[x.portal] = portal[j]
        /\ \A i \in DOMAIN found.all :
              \/ i \in found.missingInPortal \cup found.ambiguous
              \/ \E x \in told : MentionKey(found.all[x.mention]) = MentionKey(found.all[i])

Told(all, portal, found) ==
    /\ found.all = all
    /\ found.pairs \in Seq(PairOf(all, portal))
    /\ found.possible \in Seq(PairOf(all, portal))
    /\ IsFiniteSet(found.missingInPortal) /\ IsFiniteSet(found.missingInSvodka)
    /\ found.missingInPortal \subseteq DOMAIN all
    /\ OneToOne(found, portal)
    /\ NoneLeft(found, portal)
    /\ AllTold(found, portal)
    /\ \A i \in DOMAIN found.pairs :
          Fits(all[found.pairs[i].mention], portal[found.pairs[i].portal])

\* All of it, for any list of mentions and any list of people.
LEMMA Matching ==
    ASSUME NEW S, NEW all \in Seq(S), NEW T, NEW portal \in Seq(T)
    PROVE  Told(all, portal, MatchDetails(all, portal))
  <1>1. PICK end : /\ MatchDetails(all, portal) = Outcome(all, portal, end)
                   /\ PlacedUpTo(all, portal, end, Len(all))
    BY EveryonePlaced
  <1> DEFINE found == MatchDetails(all, portal)
             told == ToSet(end.pairs) \cup ToSet(end.possible)
             covered == {portal[x.portal] : x \in told}
             keys == {MentionKey(all[x.mention]) : x \in told}
             rest == DOMAIN portal \ end.accounted
  <1>2. DOMAIN all = 1..Len(all) /\ Len(all) \in Nat /\ end \in Placing(all, portal)
    BY <1>1 DEF PlacedUpTo
  <1>3. /\ end.pairs \in Seq(PairOf(all, portal)) /\ end.possible \in Seq(PairOf(all, portal))
        /\ end.lost \subseteq DOMAIN all
    BY <1>2 DEF Placing
  <1>4. /\ found.all = all /\ found.pairs = end.pairs /\ found.possible = end.possible
        /\ found.ambiguous = end.ambiguous
        /\ found.missingInPortal = {i \in end.lost : MentionKey(all[i]) \notin keys}
        /\ found.missingInSvodka = {portal[j] : j \in rest} \ covered
    BY <1>1 DEF Outcome
  <1>5. /\ MentionsOf(end.pairs) \cup MentionsOf(end.possible) = {x.mention : x \in told}
        /\ PortalsOf(end.pairs) \cup PortalsOf(end.possible) = {x.portal : x \in told}
    BY DEF MentionsOf, PortalsOf, ToSet
  <1> HIDE DEF found
  <1>6. IsFiniteSet(found.missingInPortal)
    <2>1. found.missingInPortal \in SUBSET (1..Len(all))
      BY <1>2, <1>3, <1>4
    <2> QED
      BY <1>2, <2>1, FinitePart
  <1>7. IsFiniteSet(found.missingInSvodka)
    <2>1. rest \in SUBSET DOMAIN portal
      OBVIOUS
    <2> HIDE DEF rest, covered
    <2>2. IsFiniteSet({portal[j] : j \in rest})
      BY <2>1, FiniteImage
    <2> QED
      BY <1>4, <2>2, FS_Subset
  <1>8. OneToOne(found, portal)
    <2> SUFFICES ASSUME NEW i \in DOMAIN end.pairs, NEW j \in DOMAIN end.pairs, i # j
                 PROVE  /\ end.pairs[i].mention # end.pairs[j].mention
                        /\ IsInjective(portal) => end.pairs[i].portal # end.pairs[j].portal
      BY <1>4 DEF OneToOne
    <2>1. i \in Int /\ j \in Int
      BY <1>3
    <2>2. /\ i < j => end.pairs[i].mention < end.pairs[j].mention
          /\ j < i => end.pairs[j].mention < end.pairs[i].mention
          /\ end.pairs[i].mention \in Int /\ end.pairs[j].mention \in Int
      BY <1>1 DEF PlacedUpTo, InTurn
    <2> QED
      BY <1>1, <2>1, <2>2 DEF PlacedUpTo, Apart
  <1>9. NoneLeft(found, portal)
    <2> SUFFICES ASSUME NEW i \in DOMAIN all \ MentionsOf(end.pairs),
                        NEW j \in DOMAIN portal \ PortalsOf(end.pairs)
                 PROVE  ~Fits(all[i], portal[j])
      BY <1>4 DEF NoneLeft
    <2>1. j \in Free(portal, end)
      BY <1>1 DEF PlacedUpTo, UsedIsPaired, Free
    <2>2. FitsNobody(all, portal, end, i)
      BY <1>1, <1>2 DEF PlacedUpTo, Greedy
    <2> QED
      BY <2>1, <2>2 DEF FitsNobody
  <1>10. ASSUME NEW j \in DOMAIN portal
         PROVE  \/ portal[j] \in found.missingInSvodka
                \/ \E x \in told : portal[x.portal] = portal[j]
    <2>1. CASE j \in end.accounted
      <3>1. PICK p \in {x.portal : x \in told} : portal[j] = portal[p]
        BY <1>1, <1>5, <2>1 DEF PlacedUpTo, AccountedIsTold
      <3> QED
        BY <3>1
    <2>2. CASE j \notin end.accounted
      BY <1>4, <2>2
    <2> QED
      BY <2>1, <2>2
  <1>11. ASSUME NEW i \in DOMAIN all
         PROVE  \/ i \in found.missingInPortal \cup found.ambiguous
                \/ \E x \in told : MentionKey(all[x.mention]) = MentionKey(all[i])
    <2>1. i \in {x.mention : x \in told} \cup end.ambiguous \cup end.lost
      <3>1. i \in MentionsOf(end.pairs) \cup MentionsOf(end.possible)
                   \cup end.ambiguous \cup end.lost
        BY <1>1, <1>2 DEF PlacedUpTo, EveryoneIsTold
      <3> QED
        BY <1>5, <3>1
    <2>2. CASE i \in end.lost
      BY <1>4, <2>2
    <2>3. CASE i \in {x.mention : x \in told}
      BY <2>3
    <2> QED
      BY <1>4, <2>1, <2>2, <2>3
  <1>12. AllTold(found, portal)
    <2> HIDE DEF covered, keys, rest
    <2> QED
      BY <1>4, <1>10, <1>11 DEF AllTold
  <1>13. \A i \in DOMAIN end.pairs : Fits(all[end.pairs[i].mention], portal[end.pairs[i].portal])
    BY <1>1 DEF PlacedUpTo, Suited
  <1> HIDE DEF told, covered, keys, rest
  <1>14. Told(all, portal, found)
    <2>1. found.missingInPortal \subseteq DOMAIN all
      BY <1>3, <1>4
    <2> QED
      BY <2>1, <1>3, <1>4, <1>6, <1>7, <1>8, <1>9, <1>12, <1>13 DEF Told
  <1> QED
    BY <1>14 DEF found

-----------------------------------------------------------------------------
(* The folds over people and staff.                                        *)

\* Merging one person keeps a list a list.
LEMMA MergeOneType ==
    ASSUME NEW S, NEW t \in Seq(S), NEW x \in S
    PROVE  MergeOne(t, x) \in Seq(S)
  <1> DEFINE over == {i \in DOMAIN t : Overlaps(t[i].span, x.span)}
             m == Min(over)
  <1>1. MergeOne(t, x) = IF over = {} THEN Append(t, x)
                         ELSE IF Length(x.span) > Length(t[m].span)
                              THEN [t EXCEPT ![m] = x] ELSE t
    BY DEF MergeOne
  <1> HIDE DEF over, m
  <1>2. [t EXCEPT ![m] = x] \in Seq(S)
    BY Replaced
  <1> QED
    BY <1>1, <1>2

\* The merge is the last of one list per candidate.
LEMMA MergeSteps ==
    ASSUME NEW S, NEW base \in Seq(S), NEW s \in Seq(S)
    PROVE  \E f : /\ f[0] = base /\ MergeCandidates(base, s) = f[Len(s)]
                  /\ \A k \in 1..Len(s) : f[k] = MergeOne(f[k - 1], s[k])
  <1> DEFINE n == Len(s)
             A == Seq(S)
             G == [k \in 1..n |-> [t \in A |-> MergeOne(t, s[k])]]
             Body(g) == [d \in SUBSET DOMAIN s |->
                           IF d = {} THEN base ELSE MergeOne(g[d \ {Max(d)}], s[Max(d)])]
  <1>1. n \in Nat /\ DOMAIN s = 1..n /\ \A k \in 1..n : s[k] \in S
    OBVIOUS
  <1>2. ASSUME NEW k \in 1..n, NEW t \in A
        PROVE  MergeOne(t, s[k]) \in A
    BY <1>1, MergeOneType
  <1>3. G \in [1..n -> [A -> A]]
    <2> HIDE DEF A
    <2> QED
      BY <1>2
  <1>4. PICK g \in [SUBSET (1..n) -> A] :
           \A d \in SUBSET (1..n) : Unfolds(g, d, n, A, base, G)
    <2>1. base \in A
      OBVIOUS
    <2> HIDE DEF G, A, n
    <2> QED
      BY <1>1, <1>3, <2>1, FoldUnfolds
  <1>5. ASSUME NEW d \in SUBSET (1..n)
        PROVE  g[d] = Body(g)[d]
    <2> HIDE DEF A, n
    <2> QED
      BY <1>1, <1>4 DEF Unfolds
  <1>6. g = Body(g)
    <2> HIDE DEF A
    <2> QED
      BY <1>1, <1>5
  <1>7. PICK h : h = Body(h) /\ MergeCandidates(base, s) = h[DOMAIN s]
    <2> HIDE <1>4, <1>5
    <2> QED
      BY <1>6, Zenon DEF MergeCandidates, MergeOne, FoldLeft, MapThenFoldSet
  <1> HIDE DEF A, G, n
  <1> DEFINE f == [k \in 0..n |-> h[1..k]]
  <1>8. \A d \in SUBSET (1..n) :
           h[d] = IF d = {} THEN base ELSE MergeOne(h[d \ {Max(d)}], s[Max(d)])
    BY <1>1, <1>7
  <1>9. f[0] = base /\ MergeCandidates(base, s) = f[n]
    <2>1. f[0] = h[{}] /\ f[n] = h[1..n] /\ {} \in SUBSET (1..n)
      BY <1>1
    <2>2. h[{}] = base
      BY <1>8, <2>1
    <2>3. MergeCandidates(base, s) = h[1..n]
      BY <1>1, <1>7
    <2> HIDE DEF f
    <2> QED
      BY <2>1, <2>2, <2>3
  <1>10. ASSUME NEW k \in 1..n
         PROVE  f[k] = MergeOne(f[k - 1], s[k])
    <2>1. Max(1..k) = k /\ (1..k) \ {k} = 1..(k - 1) /\ 1..k # {}
      BY MaxOfInterval
    <2>2. 1..k \in SUBSET (1..n) /\ k \in 0..n /\ k - 1 \in 0..n
      BY <1>1
    <2> QED
      BY <1>1, <1>8, <2>1, <2>2
  <1> QED
    <2> HIDE DEF f
    <2> QED
      BY <1>9, <1>10 DEF n

\* Merging two lists of people.
LEMMA MergedList ==
    ASSUME NEW S, NEW base \in Seq(S), NEW s \in Seq(S)
    PROVE  MergeCandidates(base, s) \in Seq(S)
  <1>1. PICK f : /\ f[0] = base /\ MergeCandidates(base, s) = f[Len(s)]
                 /\ \A k \in 1..Len(s) : f[k] = MergeOne(f[k - 1], s[k])
    BY MergeSteps
  <1>2. Keeps(f, Len(s), Seq(S))
    <2>1. \A k \in 1..Len(s) : s[k] \in S
      OBVIOUS
    <2> QED
      BY <1>1, <2>1, MergeOneType DEF Keeps
  <1> QED
    BY <1>1, <1>2, ListStays

\* The names of one more extractor.
MoreMerged(merged, text, e) == MergeCandidates(merged, Persons(text, e))

\* The merge of the extractors is the last of one list per extractor.
LEMMA MergedSteps ==
    ASSUME NEW text, NEW S, NEW E, Tail(Extractors) \in Seq(E),
           Persons(text, "natasha") \in Seq(S), \A e \in E : Persons(text, e) \in Seq(S)
    PROVE  \E f : /\ f[0] = Persons(text, "natasha") /\ Merged(text) = f[Len(Tail(Extractors))]
                  /\ \A k \in 1..Len(Tail(Extractors)) : f[k] = MoreMerged(f[k - 1], text, Tail(Extractors)[k])
  <1> DEFINE n == Len(Tail(Extractors))
             A == Seq(S)
             G == [k \in 1..n |-> [t \in A |-> MoreMerged(t, text, Tail(Extractors)[k])]]
             Body(g) == [d \in SUBSET DOMAIN Tail(Extractors) |->
                           IF d = {} THEN Persons(text, "natasha") ELSE MoreMerged(g[d \ {Max(d)}], text, Tail(Extractors)[Max(d)])]
  <1>1. n \in Nat /\ DOMAIN Tail(Extractors) = 1..n /\ \A k \in 1..n : Tail(Extractors)[k] \in E
    OBVIOUS
  <1>2. ASSUME NEW k \in 1..n, NEW t \in A
        PROVE  MoreMerged(t, text, Tail(Extractors)[k]) \in A
    BY <1>1, MergedList DEF MoreMerged
  <1>3. G \in [1..n -> [A -> A]]
    <2> HIDE DEF A
    <2> QED
      BY <1>2
  <1>4. PICK g \in [SUBSET (1..n) -> A] :
           \A d \in SUBSET (1..n) : Unfolds(g, d, n, A, Persons(text, "natasha"), G)
    <2>1. Persons(text, "natasha") \in A
      OBVIOUS
    <2> HIDE DEF G, A, n
    <2> QED
      BY <1>1, <1>3, <2>1, FoldUnfolds
  <1>5. ASSUME NEW d \in SUBSET (1..n)
        PROVE  g[d] = Body(g)[d]
    <2> HIDE DEF A, n
    <2> QED
      BY <1>1, <1>4 DEF Unfolds
  <1>6. g = Body(g)
    <2> HIDE DEF A
    <2> QED
      BY <1>1, <1>5
  <1>7. PICK h : h = Body(h) /\ Merged(text) = h[DOMAIN Tail(Extractors)]
    <2> HIDE <1>4, <1>5
    <2> QED
      BY <1>6, Zenon DEF Merged, MoreMerged, FoldLeft, MapThenFoldSet
  <1> HIDE DEF A, G, n
  <1> DEFINE f == [k \in 0..n |-> h[1..k]]
  <1>8. \A d \in SUBSET (1..n) :
           h[d] = IF d = {} THEN Persons(text, "natasha") ELSE MoreMerged(h[d \ {Max(d)}], text, Tail(Extractors)[Max(d)])
    BY <1>1, <1>7
  <1>9. f[0] = Persons(text, "natasha") /\ Merged(text) = f[n]
    <2>1. f[0] = h[{}] /\ f[n] = h[1..n] /\ {} \in SUBSET (1..n)
      BY <1>1
    <2>2. h[{}] = Persons(text, "natasha")
      BY <1>8, <2>1
    <2>3. Merged(text) = h[1..n]
      BY <1>1, <1>7
    <2> HIDE DEF f
    <2> QED
      BY <2>1, <2>2, <2>3
  <1>10. ASSUME NEW k \in 1..n
         PROVE  f[k] = MoreMerged(f[k - 1], text, Tail(Extractors)[k])
    <2>1. Max(1..k) = k /\ (1..k) \ {k} = 1..(k - 1) /\ 1..k # {}
      BY MaxOfInterval
    <2>2. 1..k \in SUBSET (1..n) /\ k \in 0..n /\ k - 1 \in 0..n
      BY <1>1
    <2> QED
      BY <1>1, <1>8, <2>1, <2>2
  <1> QED
    <2> HIDE DEF f
    <2> QED
      BY <1>9, <1>10 DEF n

\* One name of _deduplicate.
OneFound(seen, p) ==
    LET same == {i \in DOMAIN seen : PersonKey(seen[i]) = PersonKey(p)}
    IN  IF same = {} THEN Append(seen, p)
        ELSE IF Replaces(p, seen[Min(same)])
             THEN [seen EXCEPT ![Min(same)] = p]
             ELSE seen

\* The same for one person of the deduplication.
LEMMA OneFoundType ==
    ASSUME NEW S, NEW t \in Seq(S), NEW x \in S
    PROVE  OneFound(t, x) \in Seq(S)
  <1> DEFINE same == {i \in DOMAIN t : PersonKey(t[i]) = PersonKey(x)}
             m == Min(same)
  <1>1. OneFound(t, x) = IF same = {} THEN Append(t, x)
                         ELSE IF Replaces(x, t[m]) THEN [t EXCEPT ![m] = x] ELSE t
    BY DEF OneFound
  <1> HIDE DEF same, m
  <1>2. [t EXCEPT ![m] = x] \in Seq(S)
    BY Replaced
  <1> QED
    BY <1>1, <1>2

\* The deduplication is the last of one list per person.
LEMMA FoundSteps ==
    ASSUME NEW S, NEW s \in Seq(S)
    PROVE  \E f : /\ f[0] = <<>> /\ Deduplicate(s) = f[Len(s)]
                  /\ \A k \in 1..Len(s) : f[k] = OneFound(f[k - 1], s[k])
  <1> DEFINE n == Len(s)
             A == Seq(S)
             G == [k \in 1..n |-> [t \in A |-> OneFound(t, s[k])]]
             Body(g) == [d \in SUBSET DOMAIN s |->
                           IF d = {} THEN <<>> ELSE OneFound(g[d \ {Max(d)}], s[Max(d)])]
  <1>1. n \in Nat /\ DOMAIN s = 1..n /\ \A k \in 1..n : s[k] \in S
    OBVIOUS
  <1>2. ASSUME NEW k \in 1..n, NEW t \in A
        PROVE  OneFound(t, s[k]) \in A
    BY <1>1, OneFoundType
  <1>3. G \in [1..n -> [A -> A]]
    <2> HIDE DEF A
    <2> QED
      BY <1>2
  <1>4. PICK g \in [SUBSET (1..n) -> A] :
           \A d \in SUBSET (1..n) : Unfolds(g, d, n, A, <<>>, G)
    <2>1. <<>> \in A
      OBVIOUS
    <2> HIDE DEF G, A, n
    <2> QED
      BY <1>1, <1>3, <2>1, FoldUnfolds
  <1>5. ASSUME NEW d \in SUBSET (1..n)
        PROVE  g[d] = Body(g)[d]
    <2> HIDE DEF A, n
    <2> QED
      BY <1>1, <1>4 DEF Unfolds
  <1>6. g = Body(g)
    <2> HIDE DEF A
    <2> QED
      BY <1>1, <1>5
  <1>7. PICK h : h = Body(h) /\ Deduplicate(s) = h[DOMAIN s]
    <2> HIDE <1>4, <1>5
    <2> QED
      BY <1>6, Zenon DEF Deduplicate, OneFound, FoldLeft, MapThenFoldSet
  <1> HIDE DEF A, G, n
  <1> DEFINE f == [k \in 0..n |-> h[1..k]]
  <1>8. \A d \in SUBSET (1..n) :
           h[d] = IF d = {} THEN <<>> ELSE OneFound(h[d \ {Max(d)}], s[Max(d)])
    BY <1>1, <1>7
  <1>9. f[0] = <<>> /\ Deduplicate(s) = f[n]
    <2>1. f[0] = h[{}] /\ f[n] = h[1..n] /\ {} \in SUBSET (1..n)
      BY <1>1
    <2>2. h[{}] = <<>>
      BY <1>8, <2>1
    <2>3. Deduplicate(s) = h[1..n]
      BY <1>1, <1>7
    <2> HIDE DEF f
    <2> QED
      BY <2>1, <2>2, <2>3
  <1>10. ASSUME NEW k \in 1..n
         PROVE  f[k] = OneFound(f[k - 1], s[k])
    <2>1. Max(1..k) = k /\ (1..k) \ {k} = 1..(k - 1) /\ 1..k # {}
      BY MaxOfInterval
    <2>2. 1..k \in SUBSET (1..n) /\ k \in 0..n /\ k - 1 \in 0..n
      BY <1>1
    <2> QED
      BY <1>1, <1>8, <2>1, <2>2
  <1> QED
    <2> HIDE DEF f
    <2> QED
      BY <1>9, <1>10 DEF n

\* People without repetitions are people.
LEMMA FoundList ==
    ASSUME NEW S, NEW s \in Seq(S)
    PROVE  Deduplicate(s) \in Seq(S)
  <1>1. PICK f : /\ f[0] = <<>> /\ Deduplicate(s) = f[Len(s)]
                 /\ \A k \in 1..Len(s) : f[k] = OneFound(f[k - 1], s[k])
    BY FoundSteps
  <1>2. Keeps(f, Len(s), Seq(S))
    <2>1. \A k \in 1..Len(s) : s[k] \in S
      OBVIOUS
    <2> QED
      BY <1>1, <2>1, OneFoundType DEF Keeps
  <1>3. f[0] \in Seq(S) /\ Len(s) \in Nat
    BY <1>1
  <1> QED
    BY <1>1, <1>2, <1>3, ListStays

\* One of the staff.
OneKept(kept, s) ==
    IF \E i \in DOMAIN kept : \/ Overlaps(kept[i].span, s.span)
                              \/ StaffKey(kept[i]) = StaffKey(s)
    THEN kept ELSE Append(kept, s)

\* The staff are the last of one list per person found.
LEMMA StaffSteps ==
    ASSUME NEW S, NEW s \in Seq(S)
    PROVE  \E f : /\ f[0] = <<>> /\ DistinctStaff(s) = f[Len(s)]
                  /\ \A k \in 1..Len(s) : f[k] = OneKept(f[k - 1], s[k])
  <1> DEFINE n == Len(s)
             A == Seq(S)
             G == [k \in 1..n |-> [t \in A |-> OneKept(t, s[k])]]
             Body(g) == [d \in SUBSET DOMAIN s |->
                           IF d = {} THEN <<>> ELSE OneKept(g[d \ {Max(d)}], s[Max(d)])]
  <1>1. n \in Nat /\ DOMAIN s = 1..n /\ \A k \in 1..n : s[k] \in S
    OBVIOUS
  <1>2. ASSUME NEW k \in 1..n, NEW t \in A
        PROVE  OneKept(t, s[k]) \in A
    BY <1>1 DEF OneKept
  <1>3. G \in [1..n -> [A -> A]]
    <2> HIDE DEF A
    <2> QED
      BY <1>2
  <1>4. PICK g \in [SUBSET (1..n) -> A] :
           \A d \in SUBSET (1..n) : Unfolds(g, d, n, A, <<>>, G)
    <2>1. <<>> \in A
      OBVIOUS
    <2> HIDE DEF G, A, n
    <2> QED
      BY <1>1, <1>3, <2>1, FoldUnfolds
  <1>5. ASSUME NEW d \in SUBSET (1..n)
        PROVE  g[d] = Body(g)[d]
    <2> HIDE DEF A, n
    <2> QED
      BY <1>1, <1>4 DEF Unfolds
  <1>6. g = Body(g)
    <2> HIDE DEF A
    <2> QED
      BY <1>1, <1>5
  <1>7. PICK h : h = Body(h) /\ DistinctStaff(s) = h[DOMAIN s]
    <2> HIDE <1>4, <1>5
    <2> QED
      BY <1>6, Zenon DEF DistinctStaff, OneKept, FoldLeft, MapThenFoldSet
  <1> HIDE DEF A, G, n
  <1> DEFINE f == [k \in 0..n |-> h[1..k]]
  <1>8. \A d \in SUBSET (1..n) :
           h[d] = IF d = {} THEN <<>> ELSE OneKept(h[d \ {Max(d)}], s[Max(d)])
    BY <1>1, <1>7
  <1>9. f[0] = <<>> /\ DistinctStaff(s) = f[n]
    <2>1. f[0] = h[{}] /\ f[n] = h[1..n] /\ {} \in SUBSET (1..n)
      BY <1>1
    <2>2. h[{}] = <<>>
      BY <1>8, <2>1
    <2>3. DistinctStaff(s) = h[1..n]
      BY <1>1, <1>7
    <2> HIDE DEF f
    <2> QED
      BY <2>1, <2>2, <2>3
  <1>10. ASSUME NEW k \in 1..n
         PROVE  f[k] = OneKept(f[k - 1], s[k])
    <2>1. Max(1..k) = k /\ (1..k) \ {k} = 1..(k - 1) /\ 1..k # {}
      BY MaxOfInterval
    <2>2. 1..k \in SUBSET (1..n) /\ k \in 0..n /\ k - 1 \in 0..n
      BY <1>1
    <2> QED
      BY <1>1, <1>8, <2>1, <2>2
  <1> QED
    <2> HIDE DEF f
    <2> QED
      BY <1>9, <1>10 DEF n

\* Staff without repetitions are staff.
LEMMA StaffList ==
    ASSUME NEW S, NEW s \in Seq(S)
    PROVE  DistinctStaff(s) \in Seq(S)
  <1>1. PICK f : /\ f[0] = <<>> /\ DistinctStaff(s) = f[Len(s)]
                 /\ \A k \in 1..Len(s) : f[k] = OneKept(f[k - 1], s[k])
    BY StaffSteps
  <1>2. Keeps(f, Len(s), Seq(S))
    <2>1. \A k \in 1..Len(s) : s[k] \in S
      OBVIOUS
    <2>2. ASSUME NEW t \in Seq(S), NEW x \in S
          PROVE  OneKept(t, x) \in Seq(S)
      BY DEF OneKept
    <2> QED
      BY <1>1, <2>1, <2>2 DEF Keeps
  <1>3. f[0] \in Seq(S) /\ Len(s) \in Nat
    BY <1>1
  <1> QED
    BY <1>1, <1>2, <1>3, ListStays

-----------------------------------------------------------------------------
(* Lists of people and staff.                                              *)

\* People are listed, each with a place in the text and a birth date.
ArePeople(people) ==
    /\ IsList(people)
    /\ \A p \in ToSet(people) : {"span", "dob"} \subseteq DOMAIN p /\ IsSpan(p.span)

\* The people one extractor finds.
LEMMA PersonsList ==
    ASSUME NEW text, ListsIn(text), NEW e \in ToSet(Extractors)
    PROVE  ArePeople(Persons(text, e))
  <1> DEFINE hits == text.hits[e]
             valid == Filter(hits, {h \in ToSet(hits) : LooksLikePerson(h, e)
                                                        /\ IsValidPerson(h)})
             Person(h) == [second |-> h.second, first |-> h.first, middle |-> h.middle,
                           span |-> h.span, lead |-> h.lead, dob |-> BirthAfter(text, h.span[2])]
             found == [k \in DOMAIN valid |-> Person(valid[k])]
  <1>1. Persons(text, e) = found
    BY DEF Persons
  <1>2. IsList(valid) /\ ToSet(valid) \subseteq ToSet(hits)
    BY ListMembers DEF ListsIn
  <1>3. \A h : {"span", "dob"} \subseteq DOMAIN Person(h) /\ Person(h).span = h.span
    OBVIOUS
  <1>4. \A h \in ToSet(hits) : IsSpan(h.span)
    BY DEF ListsIn
  <1> HIDE DEF valid, Person, hits
  <1>5. Len(valid) \in Nat /\ DOMAIN valid = 1..Len(valid)
    BY <1>2 DEF IsList
  <1>6. found = [k \in 1..Len(valid) |-> found[k]]
    BY <1>5
  <1>7. \A p \in ToSet(found) : \E h \in ToSet(valid) : p = Person(h)
    BY DEF ToSet
  <1> HIDE DEF found
  <1>8. IsList(found)
    BY <1>5, <1>6, ListIf
  <1> QED
    BY <1>1, <1>2, <1>3, <1>4, <1>7, <1>8 DEF ArePeople

\* The people of a report.
LEMMA PeopleList ==
    ASSUME NEW text, ListsIn(text)
    PROVE  ArePeople(People(text))
  <1> DEFINE E == ToSet(Extractors)
             S == UNION {ToSet(Persons(text, e)) : e \in E}
  <1>1. /\ \A e \in E : e \in ToSet(Extractors)
        /\ "natasha" \in E /\ Tail(Extractors) \in Seq(E)
    <2>1. E = {"natasha", "complex", "initials", "context"}
      BY DEF Extractors, ToSet
    <2>2. Tail(Extractors) = <<"complex", "initials", "context">>
      BY DEF Extractors
    <2> HIDE DEF E
    <2>3. "natasha" \in E /\ "complex" \in E /\ "initials" \in E /\ "context" \in E
      BY <2>1
    <2>4. <<"complex", "initials", "context">> \in Seq(E)
      BY <2>3
    <2>5. Tail(Extractors) \in Seq(E) /\ "natasha" \in E
      BY <2>2, <2>3, <2>4
    <2> QED
      BY <2>5 DEF E
  <1> HIDE DEF E
  <1>2. \A e \in E : Persons(text, e) \in Seq(S)
    <2> TAKE e \in E
    <2>1. IsList(Persons(text, e)) /\ ToSet(Persons(text, e)) \subseteq S
      BY <1>1, PersonsList DEF ArePeople
    <2> HIDE DEF S
    <2> QED
      BY <2>1, ListWithin
  <1>3. \A p \in S : {"span", "dob"} \subseteq DOMAIN p /\ IsSpan(p.span)
    BY <1>1, PersonsList DEF ArePeople
  <1> HIDE DEF S
  <1>4. PICK f : /\ f[0] = Persons(text, "natasha") /\ Merged(text) = f[Len(Tail(Extractors))]
                 /\ \A k \in 1..Len(Tail(Extractors)) :
                       f[k] = MoreMerged(f[k - 1], text, Tail(Extractors)[k])
    BY <1>1, <1>2, MergedSteps
  <1>5. Merged(text) \in Seq(S)
    <2> DEFINE n == Len(Tail(Extractors))
    <2>1. n \in Nat /\ \A k \in 1..n : Tail(Extractors)[k] \in E
      BY <1>1
    <2>2. Keeps(f, n, Seq(S))
      BY <1>2, <1>4, <2>1, MergedList DEF MoreMerged, Keeps
    <2> HIDE DEF n
    <2> QED
      BY <1>1, <1>2, <1>4, <2>1, <2>2, ListStays DEF n
  <1> DEFINE found == ExtractOffenders(text)
             Named(p) == [p EXCEPT !.second = Nominative(@), !.first = Nominative(@),
                                   !.middle = Nominative(@)]
             named == [k \in DOMAIN found |-> Named(found[k])]
  <1>6. found \in Seq(S)
    BY <1>5, FoundList DEF ExtractOffenders
  <1>7. People(text) = named
    BY DEF People
  <1>8. \A p : {"span", "dob"} \subseteq DOMAIN p =>
                   {"span", "dob"} \subseteq DOMAIN Named(p) /\ Named(p).span = p.span
    OBVIOUS
  <1> HIDE DEF found, Named
  <1>9. Len(found) \in Nat /\ DOMAIN found = 1..Len(found)
        /\ \A k \in 1..Len(found) : found[k] \in S
    BY <1>6
  <1>10. named = [k \in 1..Len(found) |-> named[k]]
    BY <1>9
  <1>11. \A p \in ToSet(named) : \E q \in S : p = Named(q)
    BY <1>9 DEF ToSet
  <1> HIDE DEF named
  <1>12. IsList(named)
    BY <1>9, <1>10, ListIf
  <1>13. \A p \in ToSet(named) : {"span", "dob"} \subseteq DOMAIN p /\ IsSpan(p.span)
    BY <1>3, <1>8, <1>11
  <1> QED
    BY <1>7, <1>12, <1>13 DEF ArePeople

\* The offenders of a paragraph are no employees.
LEMMA EligibleList ==
    ASSUME NEW text, NEW people, IsList(people)
    PROVE  /\ IsList(EligibleBySpan(text, people))
           /\ ToSet(EligibleBySpan(text, people)) \subseteq ToSet(people)
           /\ \A p \in ToSet(EligibleBySpan(text, people)) : ~IsEmployee(text, p)
  <1> DEFINE there == Offenders(text, people)
             spans == {p.span : p \in ToSet(there)}
             eligible == Filter(people, {p \in ToSet(people) : p.span \in spans})
  <1>1. \A p \in ToSet(there) : ~IsEmployee(text, p)
    BY ListMembers DEF Offenders, Employees
  <1> HIDE DEF there
  <1>2. IsList(eligible) /\ ToSet(eligible) \subseteq ToSet(people)
        /\ \A p \in ToSet(eligible) : p.span \in spans
    <2> HIDE DEF spans
    <2> QED
      BY ListMembers
  <1>3. EligibleBySpan(text, people) = eligible
    BY DEF EligibleBySpan, there
  <1>4. ASSUME NEW p, NEW q, p.span = q.span
        PROVE  IsEmployee(text, p) <=> IsEmployee(text, q)
    BY <1>4, Zenon DEF IsEmployee
  <1> HIDE DEF eligible
  <1> QED
    BY <1>1, <1>2, <1>3, <1>4

\* The rank before a name begins at some place.
LEMMA RankHasPlace ==
    ASSUME NEW text, ListsIn(text), NEW start, start \in Int
    PROVE  RankBefore(text, start).at \in Int
  <1> DEFINE before == Before(text, start)
             n == Len(before)
             token(i) == before[n + 1 - i]
             last(k) == [i \in 1..k |-> before[n - k + i].word]
             close(k) == /\ token(k).span[1] >= start - RankWindow
                         /\ token(1).span[2] >= start - 1
                         /\ \A i \in 2..k : token(i).span[2] = token(i - 1).span[1] - 1
             ranks == {k \in 1..Min({3, n}) : close(k) /\ IsRank(last(k))}
             marked == {k \in 0..Min({4, n}) :
                           \A i \in 1..k : \/ token(i).word \in RankMarkers
                                           \/ i > 1 /\ token(i).word \in Connectors}
             rank == RankBefore(text, start)
  <1>1. rank = CASE ranks # {} -> [words |-> last(Max(ranks)), at |-> token(Max(ranks)).span[1]]
                 [] ranks = {} /\ Max(marked) > 0 -> [words |-> last(Max(marked)), at |-> start]
                 [] OTHER -> [words |-> NoRank, at |-> start]
    BY Zenon DEF RankBefore
  <1>2. IsList(before) /\ ToSet(before) \subseteq ToSet(text.tokens)
    <2> DEFINE words == text.tokens
               ended == {i \in DOMAIN words : words[i].span[2] <= start}
               m == Max({0} \cup ended)
    <2>1. IsList(words) /\ words \in Seq(ToSet(words))
      BY DEF ListsIn, IsList
    <2>2. before = SubSeq(words, 1, m)
      BY DEF Before
    <2> HIDE DEF words, before
    <2>3. ended \in SUBSET (1..Len(words)) /\ Len(words) \in Nat
      BY <2>1
    <2>4. m \in 0..Len(words)
      <3> HIDE DEF ended
      <3> QED
        BY <2>3, MaxOrZero
    <2> HIDE DEF m
    <2>5. before \in Seq(ToSet(words))
      BY <2>1, <2>2, <2>4
    <2> QED
      BY <2>5 DEF IsList, ToSet, words
  <1>3. \A t \in ToSet(text.tokens) : t.span[1] \in Int
    BY DEF ListsIn, IsSpan
  <1> HIDE DEF before
  <1>4. n \in Nat /\ DOMAIN before = 1..n
    BY <1>2 DEF IsList
  <1> HIDE DEF n
  <1>5. Min({3, n}) \in Nat /\ Min({3, n}) <= n
    BY <1>4, MinOfTwo
  <1>6. ranks \in SUBSET (1..n)
    <2> HIDE DEF close, last
    <2> QED
      BY <1>4, <1>5
  <1>7. ASSUME ranks # {}
        PROVE  token(Max(ranks)).span[1] \in Int
    <2>1. Max(ranks) \in 1..n
      <3> HIDE DEF ranks
      <3> QED
        BY <1>4, <1>6, <1>7, MaxBelow
    <2> HIDE DEF ranks
    <2>2. n + 1 - Max(ranks) \in 1..n
      BY <1>4, <2>1
    <2>3. token(Max(ranks)) \in ToSet(before)
      BY <1>4, <2>2 DEF ToSet
    <2> HIDE DEF token
    <2> QED
      BY <1>2, <1>3, <2>3
  <1> HIDE DEF rank, ranks, marked, last
  <1> QED
    <2> SUFFICES rank.at \in Int
      BY DEF rank
    <2>1. CASE ranks # {}
      <3>1. rank.at = token(Max(ranks)).span[1]
        BY <1>1, <2>1
      <3> QED
        BY <1>7, <2>1, <3>1
    <2>2. CASE ranks = {}
      BY <1>1, <2>2
    <2> QED
      BY <2>1, <2>2

\* Staff are listed, each with a place.
AreStaff(staff) == IsList(staff) /\ \A s \in ToSet(staff) : s.span \in Int \X Int

\* The list with the ranks as they are written has the same names and places.
LEMMA WrittenList ==
    ASSUME NEW list, IsList(list)
    PROVE  /\ IsList(AsWritten(list))
           /\ \A s \in ToSet(AsWritten(list)) :
                 \E x \in ToSet(list) : s.surname = x.surname /\ s.span = x.span
           /\ \A x \in ToSet(list) :
                 \E s \in ToSet(AsWritten(list)) : s.surname = x.surname
  <1> DEFINE Other(x) == [surname |-> x.surname, initials |-> x.initials,
                          rank |-> x.norm, span |-> x.span]
             other == [k \in DOMAIN list |-> Other(list[k])]
  <1>1. AsWritten(list) = other
    BY DEF AsWritten
  <1>2. \A x : Other(x).surname = x.surname /\ Other(x).span = x.span
    OBVIOUS
  <1> HIDE DEF Other
  <1>3. /\ Len(list) \in Nat /\ DOMAIN list = 1..Len(list)
        /\ other = [k \in 1..Len(list) |-> other[k]]
    BY DEF IsList
  <1>4. /\ \A s \in ToSet(other) : \E x \in ToSet(list) : s = Other(x)
        /\ \A x \in ToSet(list) : Other(x) \in ToSet(other)
    BY DEF ToSet
  <1> HIDE DEF other
  <1>5. IsList(other)
    BY <1>3, ListIf
  <1> QED
    BY <1>1, <1>2, <1>4, <1>5

\* The staff of a report.
LEMMA StaffOfList ==
    ASSUME NEW text, ListsIn(text), NEW people, ArePeople(people)
    PROVE  AreStaff(StaffOf(text, people))
  <1>1. ASSUME NEW s, AreStaff(s)
        PROVE  AreStaff(DistinctStaff(s))
    <2>1. DistinctStaff(s) \in Seq(ToSet(s))
      BY <1>1, StaffList DEF AreStaff, IsList
    <2> QED
      BY <1>1, <2>1, ListOf DEF AreStaff
  <1>2. AreStaff(StaffMentions(text))
    <2> DEFINE rank(s) == RankBefore(text, s.span[1])
               named == Filter(text.staff, {s \in ToSet(text.staff) :
                                               /\ rank(s).words # NoRank
                                               /\ FullRank(rank(s).words) # NoRank})
               Staff(s) == [surname |-> s.surname, initials |-> s.initials,
                            rank |-> FullRank(rank(s).words), norm |-> rank(s).words,
                            span |-> <<rank(s).at, s.span[2]>>]
               list == [k \in DOMAIN named |-> Staff(named[k])]
    <2>1. StaffMentions(text) = DistinctStaff(list)
      BY DEF StaffMentions
    <2>2. IsList(named) /\ ToSet(named) \subseteq ToSet(text.staff)
      <3> HIDE DEF rank
      <3> QED
        BY ListMembers DEF ListsIn
    <2>3. \A s \in ToSet(text.staff) : Staff(s).span \in Int \X Int
      <3> TAKE s \in ToSet(text.staff)
      <3>1. s.span[1] \in Int /\ s.span[2] \in Int
        BY DEF ListsIn, IsSpan
      <3>2. rank(s).at \in Int
        BY <3>1, RankHasPlace
      <3> HIDE DEF rank
      <3> QED
        BY <3>1, <3>2
    <2> HIDE DEF named, Staff
    <2>4. Len(named) \in Nat /\ list = [k \in 1..Len(named) |-> list[k]]
      BY <2>2 DEF IsList
    <2>5. \A s \in ToSet(list) : \E x \in ToSet(named) : s = Staff(x)
      BY DEF ToSet
    <2> HIDE DEF list
    <2>6. AreStaff(list)
      BY <2>2, <2>3, <2>4, <2>5, ListIf DEF AreStaff
    <2> QED
      BY <1>1, <2>1, <2>6
  <1> DEFINE excluded == Excluded(text, people)
  <1>3. IsList(excluded) /\ ToSet(excluded) \subseteq ToSet(people)
    BY ListMembers DEF Excluded, ArePeople
  <1> HIDE DEF excluded
  <1>4. AreStaff(StaffOfExcluded(text, excluded))
    <2> DEFINE ranked == WithRank(text, excluded)
               rank(p) == RankBefore(text, p.span[1])
               short(p) == /\ NoPart \notin {p.first, p.middle}
                           /\ Initial(p.first) = p.first /\ Initial(p.middle) = p.middle
               Staff(p) == [surname |-> p.lead,
                            initials |-> IF short(p) THEN <<p.first, p.middle>> ELSE <<>>,
                            rank |-> IF FullRank(rank(p).words) = NoRank THEN rank(p).words
                                     ELSE FullRank(rank(p).words),
                            norm |-> rank(p).words,
                            span |-> <<rank(p).at, p.span[2]>>]
               list == [k \in DOMAIN ranked |-> Staff(ranked[k])]
    <2>1. StaffOfExcluded(text, excluded) = DistinctStaff(list)
      BY DEF StaffOfExcluded
    <2>2. IsList(ranked) /\ ToSet(ranked) \subseteq ToSet(excluded)
      BY <1>3, ListMembers DEF WithRank
    <2>3. \A p \in ToSet(people) : Staff(p).span \in Int \X Int
      <3> TAKE p \in ToSet(people)
      <3>1. p.span[1] \in Int /\ p.span[2] \in Int
        BY DEF ArePeople, IsSpan
      <3>2. rank(p).at \in Int
        BY <3>1, RankHasPlace
      <3> HIDE DEF rank, short
      <3> QED
        BY <3>1, <3>2
    <2> HIDE DEF ranked, Staff
    <2>4. Len(ranked) \in Nat /\ list = [k \in 1..Len(ranked) |-> list[k]]
      BY <2>2 DEF IsList
    <2>5. \A s \in ToSet(list) : \E x \in ToSet(ranked) : s = Staff(x)
      BY DEF ToSet
    <2> HIDE DEF list
    <2>6. AreStaff(list)
      BY <1>3, <2>2, <2>3, <2>4, <2>5, ListIf DEF AreStaff
    <2> QED
      BY <1>1, <2>1, <2>6
  <1> DEFINE a == StaffMentions(text)
             b == StaffOfExcluded(text, excluded)
  <1>5. StaffOf(text, people) = DistinctStaff(AsWritten(a \o b))
    BY DEF StaffOf, excluded
  <1> HIDE DEF a, b
  <1>6. AreStaff(a) /\ AreStaff(b)
    BY <1>2, <1>4 DEF a, b
  <1>7. AreStaff(a \o b)
    <2> DEFINE S == ToSet(a) \cup ToSet(b)
    <2>1. a \in Seq(S) /\ b \in Seq(S) /\ \A s \in S : s.span \in Int \X Int
      <3> HIDE DEF S
      <3>1. ToSet(a) \subseteq S /\ ToSet(b) \subseteq S
        BY DEF S
      <3>2. \A s \in S : s.span \in Int \X Int
        BY <1>6 DEF S, AreStaff
      <3> QED
        BY <1>6, <3>1, <3>2, ListWithin DEF AreStaff
    <2> HIDE DEF S
    <2>2. a \o b \in Seq(S)
      BY <2>1
    <2> QED
      BY <2>1, <2>2, ListOf DEF AreStaff
  <1> DEFINE c == a \o b
  <1> HIDE DEF c
  <1>8. AreStaff(AsWritten(c))
    BY <1>7, WrittenList DEF AreStaff, c
  <1> QED
    BY <1>1, <1>5, <1>8 DEF c

-----------------------------------------------------------------------------
(* Whoever has a rank.                                                     *)

\* The words before a place are words of the text.
LEMMA BeforeList ==
    ASSUME NEW text, ListsIn(text), NEW start
    PROVE  IsList(Before(text, start)) /\ ToSet(Before(text, start)) \subseteq ToSet(text.tokens)
  <1> DEFINE words == text.tokens
             ended == {i \in DOMAIN words : words[i].span[2] <= start}
             m == Max({0} \cup ended)
  <1>1. IsList(words) /\ words \in Seq(ToSet(words))
    BY DEF ListsIn, IsList
  <1>2. Before(text, start) = SubSeq(words, 1, m)
    BY DEF Before
  <1> HIDE DEF words
  <1>3. ended \in SUBSET (1..Len(words)) /\ Len(words) \in Nat
    BY <1>1
  <1>4. m \in 0..Len(words)
    <2> HIDE DEF ended
    <2> QED
      BY <1>3, MaxOrZero
  <1> HIDE DEF m
  <1>5. SubSeq(words, 1, m) \in Seq(ToSet(words))
    BY <1>1, <1>4
  <1> QED
    BY <1>2, <1>5, ListOf DEF words

\* A rank is made of the last words before the name.
LastWords(before, k) == [i \in 1..k |-> before[Len(before) - k + i].word]

LEMMA RankIsLast ==
    ASSUME NEW text, ListsIn(text), NEW start, RankBefore(text, start).words # NoRank
    PROVE  \E k \in 1..Len(Before(text, start)) :
              RankBefore(text, start).words = LastWords(Before(text, start), k)
  <1> DEFINE before == Before(text, start)
             n == Len(before)
             token(i) == before[n + 1 - i]
             last(k) == [i \in 1..k |-> before[n - k + i].word]
             close(k) == /\ token(k).span[1] >= start - RankWindow
                         /\ token(1).span[2] >= start - 1
                         /\ \A i \in 2..k : token(i).span[2] = token(i - 1).span[1] - 1
             ranks == {k \in 1..Min({3, n}) : close(k) /\ IsRank(last(k))}
             marked == {k \in 0..Min({4, n}) :
                           \A i \in 1..k : \/ token(i).word \in RankMarkers
                                           \/ i > 1 /\ token(i).word \in Connectors}
             rank == RankBefore(text, start)
  <1>1. rank = CASE ranks # {} -> [words |-> last(Max(ranks)), at |-> token(Max(ranks)).span[1]]
                 [] ranks = {} /\ Max(marked) > 0 -> [words |-> last(Max(marked)), at |-> start]
                 [] OTHER -> [words |-> NoRank, at |-> start]
    BY Zenon DEF RankBefore
  <1>2. n \in Nat
    BY BeforeList DEF IsList
  <1> SUFFICES \E k \in 1..n : rank.words = last(k)
    BY DEF LastWords
  <1>3. rank.words # NoRank
    OBVIOUS
  <1> HIDE DEF before, n, rank
  <1>4. /\ Min({3, n}) \in Nat /\ Min({3, n}) <= n
        /\ Min({4, n}) \in Nat /\ Min({4, n}) <= n
    BY <1>2, MinOfTwo
  <1>5. ranks \in SUBSET (1..n) /\ marked \ {0} \in SUBSET (1..n) /\ 0 \in marked
    <2> HIDE DEF close, last, token
    <2>1. marked \in SUBSET (0..Min({4, n})) /\ ranks \in SUBSET (1..Min({3, n}))
      OBVIOUS
    <2>2. 0 \in marked
      BY <1>4
    <2> HIDE DEF marked, ranks
    <2> QED
      BY <1>2, <1>4, <2>1, <2>2
  <1> HIDE DEF ranks, marked, last
  <1>6. CASE ranks # {}
    <2>1. rank.words = last(Max(ranks))
      BY <1>1, <1>6
    <2>2. Max(ranks) \in 1..n
      BY <1>2, <1>5, <1>6, MaxBelow
    <2> QED
      BY <2>1, <2>2
  <1>7. CASE ranks = {} /\ Max(marked) > 0
    <2>1. rank.words = last(Max(marked))
      BY <1>1, <1>7
    <2>2. marked = {0} \cup (marked \ {0})
      BY <1>5
    <2>3. Max(marked) \in 0..n
      BY <1>2, <1>5, <2>2, MaxOrZero
    <2>4. Max(marked) \in 1..n
      BY <1>7, <2>3
    <2> QED
      BY <2>1, <2>4
  <1>8. CASE ranks = {} /\ ~(Max(marked) > 0)
    BY <1>1, <1>3, <1>8
  <1> QED
    BY <1>6, <1>7, <1>8

\* A rank of at most three words is read by is_employee_context too.
LEMMA RankedIsEmployee ==
    ASSUME NEW text, ListsIn(text), NEW p, IsSpan(p.span),
           RankBefore(text, p.span[1]).words # NoRank,
           Len(RankBefore(text, p.span[1]).words) <= 3,
           NEW w \in ToSet(RankBefore(text, p.span[1]).words), w \in EmployeeMarkers
    PROVE  IsEmployee(text, p)
  <1> DEFINE before == Before(text, p.span[1])
             words == RankBefore(text, p.span[1]).words
             n == Len(before)
             m == Max({1, n - 2})
             near == SubSeq(before, m, n)
             around == {r \in text.parens : r[1] < p.span[1] /\ p.span[2] <= r[2]}
             within == {t \in ToSet(text.tokens) :
                           \E r \in around : r[1] <= t.span[1] /\ t.span[2] <= r[2]}
  <1>1. p.span # NoSpan
    BY DEF IsSpan, NoSpan
  <1>2. IsEmployee(text, p) <=> /\ p.span # NoSpan
                                /\ \E t \in ToSet(near) \cup within : t.word \in EmployeeMarkers
    BY Zenon DEF IsEmployee
  <1>3. PICK k \in 1..n : words = LastWords(before, k)
    BY RankIsLast
  <1>4. IsList(before)
    BY BeforeList
  <1>5. Len(words) <= 3 /\ w \in ToSet(words)
    OBVIOUS
  <1> HIDE DEF before, words, within
  <1>6. n \in Nat /\ DOMAIN before = 1..n /\ before \in Seq(ToSet(before))
    BY <1>4 DEF IsList
  <1>7. k <= 3 /\ \E i \in 1..k : w = before[n - k + i].word
    <2>1. /\ DOMAIN words = 1..k /\ k \in Nat /\ words = [i \in 1..k |-> words[i]]
          /\ \A i \in 1..k : words[i] = before[n - k + i].word
      BY <1>3, <1>6 DEF LastWords
    <2>2. Len(words) = k
      <3>1. IsList(words)
        BY <2>1, ListIf
      <3> QED
        BY <2>1, <3>1 DEF IsList
    <2> QED
      BY <1>5, <2>1, <2>2 DEF ToSet
  <1>8. PICK i \in 1..k : w = before[n - k + i].word
    BY <1>7
  <1>9. /\ m \in Nat /\ 1 <= m /\ m <= n /\ m <= n - k + i
    <2>1. /\ \A x \in {1, n - 2} : (\A y \in {1, n - 2} : x >= y) => x = IF n - 2 <= 1 THEN 1 ELSE n - 2
          /\ \E x \in {1, n - 2} : \A y \in {1, n - 2} : x >= y
      BY <1>6
    <2>2. m \in {1, n - 2} /\ \A y \in {1, n - 2} : m >= y
      BY <2>1, Zenon DEF Max
    <2>3. m = IF n - 2 <= 1 THEN 1 ELSE n - 2
      BY <2>1, <2>2
    <2> HIDE DEF m, n
    <2>4. n \in Nat /\ k \in 1..n /\ i \in 1..k /\ k <= 3
      BY <1>3, <1>6, <1>7, <1>8 DEF n
    <2> QED
      BY <2>3, <2>4
  <1> DEFINE j == n - k + i - m + 1
  <1>10. SubSeq(before, m, n) = [x \in 1..(1 + n - m) |-> before[x + m - 1]]
    <2> HIDE DEF m
    <2> QED
      BY <1>6, <1>9
  <1> HIDE DEF m, n
  <1>11. j \in 1..(1 + n - m) /\ j + m - 1 = n - k + i
    BY <1>3, <1>6, <1>8, <1>9
  <1> HIDE DEF j
  <1>12. near[j] = before[n - k + i] /\ j \in DOMAIN near
    BY <1>10, <1>11
  <1>13. near[j] \in ToSet(near)
    BY <1>12 DEF ToSet
  <1> QED
    BY <1>1, <1>2, <1>8, <1>12, <1>13

\* What overlaps in a list is of one surname.
OneName(staff) == \A a, b \in staff : Overlaps(a.span, b.span) => a.surname = b.surname

StaffNames(staff) == {s.surname : s \in staff}

\* Then no surname is lost when repetitions are dropped.
LEMMA DistinctNamed ==
    ASSUME NEW s, IsList(s), OneName(ToSet(s))
    PROVE  /\ IsList(DistinctStaff(s))
           /\ ToSet(DistinctStaff(s)) \subseteq ToSet(s)
           /\ StaffNames(ToSet(s)) \subseteq StaffNames(ToSet(DistinctStaff(s)))
  <1> DEFINE S == ToSet(s)
             n == Len(s)
  <1>1. s \in Seq(S) /\ n \in Nat /\ DOMAIN s = 1..n /\ \A k \in 1..n : s[k] \in S
    BY DEF IsList, ToSet
  <1>2. PICK f : /\ f[0] = <<>> /\ DistinctStaff(s) = f[n]
                 /\ \A k \in 1..n : f[k] = OneKept(f[k - 1], s[k])
    BY <1>1, StaffSteps
  <1>3. OneName(S)
    OBVIOUS
  <1> HIDE DEF S, n
  <1> DEFINE Good(k) == /\ f[k] \in Seq(S)
                        /\ \A j \in 1..k : \E i \in DOMAIN f[k] : f[k][i].surname = s[j].surname
             P == {k \in 0..n : Good(k)}
  <1>4. 0 \in P
    <2>1. f[0] \in Seq(S) /\ 1..0 = {} /\ 0 \in 0..n
      BY <1>1, <1>2
    <2> QED
      BY <2>1
  <1>5. ASSUME NEW k \in P, k < n
        PROVE  k + 1 \in P
    <2> DEFINE t == f[k]
               x == s[k + 1]
               u == f[k + 1]
    <2>1. k \in 0..n /\ k + 1 \in 1..n /\ k + 1 \in 0..n /\ (k + 1) - 1 = k
      BY <1>1, <1>5
    <2>2. t \in Seq(S) /\ x \in S /\ u = OneKept(t, x)
      BY <1>1, <1>2, <1>5, <2>1
    <2>3. \A j \in 1..k : \E i \in DOMAIN t : t[i].surname = s[j].surname
      BY <1>5
    <2> HIDE DEF t, u, P
    <2>4. \A i \in DOMAIN t : t[i] \in S
      BY <2>2
    <2>5. CASE \E i \in DOMAIN t : Overlaps(t[i].span, x.span) \/ StaffKey(t[i]) = StaffKey(x)
      <3>1. u = t
        BY <2>2, <2>5 DEF OneKept
      <3>2. PICK i \in DOMAIN t : Overlaps(t[i].span, x.span) \/ StaffKey(t[i]) = StaffKey(x)
        BY <2>5
      <3>3. StaffKey(t[i]) = StaffKey(x) => t[i].surname = x.surname
        BY DEF StaffKey
      <3>4. t[i].surname = x.surname
        BY <1>3, <2>2, <2>4, <3>2, <3>3 DEF OneName
      <3>5. \A j \in 1..(k + 1) : j \in 1..k \/ j = k + 1
        BY <2>1
      <3>6. \A j \in 1..(k + 1) : \E i2 \in DOMAIN u : u[i2].surname = s[j].surname
        BY <2>3, <3>1, <3>4, <3>5
      <3> QED
        BY <2>1, <2>2, <3>1, <3>6 DEF P, u
    <2>6. CASE ~ \E i \in DOMAIN t : Overlaps(t[i].span, x.span) \/ StaffKey(t[i]) = StaffKey(x)
      <3>1. u = Append(t, x)
        BY <2>2, <2>6 DEF OneKept
      <3> HIDE DEF x
      <3>2. /\ u \in Seq(S) /\ DOMAIN t \subseteq DOMAIN u /\ \A i \in DOMAIN t : u[i] = t[i]
            /\ Len(t) + 1 \in DOMAIN u /\ u[Len(t) + 1] = x
        BY <2>2, <3>1
      <3>3. \A j \in 1..(k + 1) : j \in 1..k \/ j = k + 1
        BY <2>1
      <3>4. \A j \in 1..(k + 1) : \E i2 \in DOMAIN u : u[i2].surname = s[j].surname
        BY <2>3, <3>2, <3>3 DEF x
      <3> QED
        BY <2>1, <3>2, <3>4 DEF P, u
    <2> QED
      BY <2>5, <2>6
  <1>6. Good(n)
    <2>1. P \in SUBSET (0..n) /\ n \in 0..n
      BY <1>1
    <2>2. \A k \in 0..n : k \in P
      <3> HIDE DEF P
      <3> QED
        BY <1>1, <1>4, <1>5, <2>1, UpTo
    <2> QED
      BY <2>1, <2>2
  <1> DEFINE t == DistinctStaff(s)
  <1>7. t \in Seq(S) /\ \A j \in 1..n : \E i \in DOMAIN t : t[i].surname = s[j].surname
    BY <1>2, <1>6
  <1> HIDE DEF t, Good
  <1>8. IsList(t) /\ ToSet(t) \subseteq S
    BY <1>7, ListOf
  <1>9. ASSUME NEW x \in S
        PROVE  x.surname \in StaffNames(ToSet(t))
    <2>1. PICK j \in 1..n : s[j] = x
      BY <1>1 DEF S, ToSet
    <2>2. PICK i \in DOMAIN t : t[i].surname = x.surname
      BY <1>7, <2>1
    <2> QED
      BY <2>2 DEF StaffNames, ToSet
  <1> QED
    BY <1>8, <1>9 DEF S, t, StaffNames

\* The staff of a text, each with the place of rank and name.
HavingRank(text, S) == {x \in S : RankBefore(text, x.span[1]).words # NoRank}

RankedPlace(text, x) == <<RankBefore(text, x.span[1]).at, x.span[2]>>

Mentions(text) ==
    {[surname |-> s.surname, span |-> RankedPlace(text, s)] :
        s \in HavingRank(text, ToSet(text.staff))}
    \cup {[surname |-> p.lead, span |-> RankedPlace(text, p)] :
             p \in HavingRank(text, Employees(text, People(text)))}

\* What is on a list of the staff is of a mention.
OfMentions(text, staff) ==
    /\ IsList(staff)
    /\ \A s \in ToSet(staff) :
          \E m \in Mentions(text) : s.surname = m.surname /\ s.span = m.span

LEMMA MentionsAreOne ==
    ASSUME NEW text, OneName(Mentions(text)), NEW staff, OfMentions(text, staff)
    PROVE  /\ OneName(ToSet(staff))
           /\ OfMentions(text, DistinctStaff(staff))
           /\ StaffNames(ToSet(staff)) \subseteq StaffNames(ToSet(DistinctStaff(staff)))
  <1>1. OneName(ToSet(staff)) /\ IsList(staff)
    BY DEF OneName, OfMentions
  <1> QED
    BY <1>1, DistinctNamed DEF OfMentions

\* The lists the staff is made of are of mentions, and name all who are excluded.
LEMMA StaffIsOfMentions ==
    ASSUME NEW text, ListsIn(text), OneName(Mentions(text))
    PROVE  LET excluded == Excluded(text, People(text))
           IN  /\ OfMentions(text, StaffMentions(text))
               /\ OfMentions(text, StaffOfExcluded(text, excluded))
               /\ \A p \in HavingRank(text, Employees(text, People(text))) :
                     p.lead \in StaffNames(ToSet(StaffOfExcluded(text, excluded)))
  <1> DEFINE people == People(text)
             excluded == Excluded(text, people)
  <1>1. IsList(people)
    BY PeopleList DEF ArePeople
  <1>2. IsList(excluded) /\ ToSet(excluded) = Employees(text, people)
    BY <1>1, ListMembers DEF Excluded, Employees
  <1>3. OfMentions(text, StaffMentions(text))
    <2> DEFINE rank(s) == RankBefore(text, s.span[1])
               named == Filter(text.staff, {s \in ToSet(text.staff) :
                                               /\ rank(s).words # NoRank
                                               /\ FullRank(rank(s).words) # NoRank})
               Staff(s) == [surname |-> s.surname, initials |-> s.initials,
                            rank |-> FullRank(rank(s).words), norm |-> rank(s).words,
                            span |-> <<rank(s).at, s.span[2]>>]
               list == [k \in DOMAIN named |-> Staff(named[k])]
    <2>1. StaffMentions(text) = DistinctStaff(list)
      BY DEF StaffMentions
    <2>2. IsList(named) /\ ToSet(named) \subseteq HavingRank(text, ToSet(text.staff))
      BY ListMembers DEF ListsIn, HavingRank
    <2>3. \A s : Staff(s).surname = s.surname /\ Staff(s).span = RankedPlace(text, s)
      BY DEF RankedPlace
    <2> HIDE DEF named, Staff
    <2>4. Len(named) \in Nat /\ list = [k \in 1..Len(named) |-> list[k]]
      BY <2>2 DEF IsList
    <2>5. \A s \in ToSet(list) : \E x \in ToSet(named) : s = Staff(x)
      BY DEF ToSet
    <2> HIDE DEF list
    <2>6. OfMentions(text, list)
      <3>1. IsList(list)
        BY <2>4, ListIf
      <3>2. ASSUME NEW s \in ToSet(list)
            PROVE  \E m \in Mentions(text) : s.surname = m.surname /\ s.span = m.span
        <4>1. PICK x \in HavingRank(text, ToSet(text.staff)) : s = Staff(x)
          BY <2>2, <2>5, <3>2
        <4>2. [surname |-> x.surname, span |-> RankedPlace(text, x)] \in Mentions(text)
          BY <4>1 DEF Mentions
        <4> QED
          BY <2>3, <4>1, <4>2
      <3> QED
        BY <3>1, <3>2 DEF OfMentions
    <2> QED
      BY <2>1, <2>6, MentionsAreOne
  <1> HIDE DEF people, excluded
  <1>4. /\ OfMentions(text, StaffOfExcluded(text, excluded))
        /\ \A p \in HavingRank(text, Employees(text, people)) :
              p.lead \in StaffNames(ToSet(StaffOfExcluded(text, excluded)))
    <2> DEFINE ranked == WithRank(text, excluded)
               rank(p) == RankBefore(text, p.span[1])
               short(p) == /\ NoPart \notin {p.first, p.middle}
                           /\ Initial(p.first) = p.first /\ Initial(p.middle) = p.middle
               Staff(p) == [surname |-> p.lead,
                            initials |-> IF short(p) THEN <<p.first, p.middle>> ELSE <<>>,
                            rank |-> IF FullRank(rank(p).words) = NoRank THEN rank(p).words
                                     ELSE FullRank(rank(p).words),
                            norm |-> rank(p).words,
                            span |-> <<rank(p).at, p.span[2]>>]
               list == [k \in DOMAIN ranked |-> Staff(ranked[k])]
    <2>1. StaffOfExcluded(text, excluded) = DistinctStaff(list)
      BY DEF StaffOfExcluded
    <2>2. IsList(ranked) /\ ToSet(ranked) = HavingRank(text, Employees(text, people))
      <3> DEFINE T == {p \in ToSet(excluded) : RankBefore(text, p.span[1]).words # NoRank}
      <3>1. ranked = Filter(excluded, T)
        BY DEF WithRank
      <3>2. ToSet(excluded) \cap T = HavingRank(text, Employees(text, people))
        BY <1>2 DEF HavingRank
      <3> HIDE DEF T, ranked
      <3> QED
        BY <1>2, <3>1, <3>2, ListMembers
    <2>3. \A p : Staff(p).surname = p.lead /\ Staff(p).span = RankedPlace(text, p)
      BY DEF RankedPlace
    <2> HIDE DEF ranked, Staff
    <2>4. Len(ranked) \in Nat /\ DOMAIN ranked = 1..Len(ranked)
          /\ list = [k \in 1..Len(ranked) |-> list[k]]
      BY <2>2 DEF IsList
    <2>5. /\ \A s \in ToSet(list) : \E x \in ToSet(ranked) : s = Staff(x)
          /\ \A x \in ToSet(ranked) : Staff(x) \in ToSet(list)
      BY DEF ToSet
    <2> HIDE DEF list
    <2>6. OfMentions(text, list)
      <3>1. IsList(list)
        BY <2>4, ListIf
      <3>2. ASSUME NEW s \in ToSet(list)
            PROVE  \E m \in Mentions(text) : s.surname = m.surname /\ s.span = m.span
        <4>1. PICK x \in HavingRank(text, Employees(text, people)) : s = Staff(x)
          BY <2>2, <2>5, <3>2
        <4>2. [surname |-> x.lead, span |-> RankedPlace(text, x)] \in Mentions(text)
          BY <4>1 DEF Mentions, people
        <4> QED
          BY <2>3, <4>1, <4>2
      <3> QED
        BY <3>1, <3>2 DEF OfMentions
    <2>7. ASSUME NEW p \in HavingRank(text, Employees(text, people))
          PROVE  p.lead \in StaffNames(ToSet(DistinctStaff(list)))
      <3>1. Staff(p) \in ToSet(list) /\ Staff(p).surname = p.lead
        BY <2>2, <2>3, <2>5
      <3>2. p.lead \in StaffNames(ToSet(list))
        BY <3>1 DEF StaffNames
      <3> QED
        BY <2>6, <3>2, MentionsAreOne
    <2> QED
      BY <2>1, <2>6, <2>7, MentionsAreOne
  <1> QED
    BY <1>3, <1>4 DEF people, excluded

\* Whoever has the rank of an employee is no offender, and somebody of that
\* surname is on the staff.
LEMMA RankedOnStaff ==
    ASSUME NEW text, ListsIn(text), PlainRanks(text), NEW p \in ToSet(People(text)),
           RankBefore(text, p.span[1]).words # NoRank,
           NEW w \in ToSet(RankBefore(text, p.span[1]).words), w \in EmployeeMarkers
    PROVE  /\ p \notin ToSet(EligibleBySpan(text, People(text)))
           /\ \E s \in ToSet(StaffOf(text, People(text))) : s.surname = p.lead
  <1> DEFINE people == People(text)
             excluded == Excluded(text, people)
             a == StaffMentions(text)
             b == StaffOfExcluded(text, excluded)
  <1>1. IsList(people) /\ IsSpan(p.span)
    BY PeopleList DEF ArePeople
  <1>2. Len(RankBefore(text, p.span[1]).words) <= 3
    BY DEF PlainRanks
  <1>3. IsEmployee(text, p)
    BY <1>1, <1>2, RankedIsEmployee
  <1>4. p \notin ToSet(EligibleBySpan(text, people))
    BY <1>1, <1>3, EligibleList
  <1>5. OneName(Mentions(text))
    BY Zenon DEF PlainRanks, OneName, Mentions, HavingRank, RankedPlace
  <1>6. p \in HavingRank(text, Employees(text, people))
    BY <1>3 DEF HavingRank, Employees
  <1>7. /\ OfMentions(text, a) /\ OfMentions(text, b)
        /\ p.lead \in StaffNames(ToSet(b))
    BY <1>5, <1>6, StaffIsOfMentions
  <1>8. StaffOf(text, people) = DistinctStaff(AsWritten(a \o b))
    BY DEF StaffOf
  <1> HIDE DEF a, b, people
  <1>9. OfMentions(text, a \o b) /\ ToSet(b) \subseteq ToSet(a \o b)
    <2> DEFINE S == ToSet(a) \cup ToSet(b)
    <2>1. a \in Seq(S) /\ b \in Seq(S)
      <3>1. IsList(a) /\ IsList(b) /\ ToSet(a) \subseteq S /\ ToSet(b) \subseteq S
        BY <1>7 DEF OfMentions
      <3> HIDE DEF S
      <3> QED
        BY <3>1, ListWithin
    <2>2. \A s \in S : \E m \in Mentions(text) : s.surname = m.surname /\ s.span = m.span
      BY <1>7 DEF OfMentions
    <2> HIDE DEF S
    <2>3. a \o b \in Seq(S)
      BY <2>1
    <2>4. IsList(a \o b) /\ ToSet(a \o b) \subseteq S
      BY <2>3, ListOf
    <2>5. ASSUME NEW j \in DOMAIN b
          PROVE  b[j] \in ToSet(a \o b)
      <3>1. Len(a) + j \in DOMAIN (a \o b) /\ (a \o b)[Len(a) + j] = b[j]
        BY <2>1, <2>5
      <3> QED
        BY <3>1 DEF ToSet
    <2> QED
      BY <2>2, <2>4, <2>5 DEF OfMentions, ToSet
  <1>10. p.lead \in StaffNames(ToSet(a \o b))
    BY <1>7, <1>9 DEF StaffNames
  <1>11. p.lead \in StaffNames(ToSet(StaffOf(text, people)))
    <2> DEFINE c == a \o b
    <2> HIDE DEF c
    <2>1. OfMentions(text, c) /\ p.lead \in StaffNames(ToSet(c)) /\ IsList(c)
      BY <1>9, <1>10 DEF c, OfMentions
    <2>2. OfMentions(text, AsWritten(c))
      BY <2>1, WrittenList DEF OfMentions
    <2>3. p.lead \in StaffNames(ToSet(AsWritten(c)))
      BY <2>1, WrittenList DEF StaffNames
    <2> QED
      BY <1>5, <1>8, <2>2, <2>3, MentionsAreOne DEF c
  <1> QED
    BY <1>4, <1>11 DEF StaffNames, people

-----------------------------------------------------------------------------
(* Employees who turn out to be offenders.                                 *)

\* One of those who join.
OneJoins(list, o) ==
    IF \E i \in DOMAIN list : PersonKey(list[i]) = PersonKey(o) THEN list ELSE Append(list, o)

\* The joined list is the last of one list per person who joins.
LEMMA JoinSteps ==
    ASSUME NEW S, NEW base \in Seq(S), NEW s \in Seq(S)
    PROVE  \E f : /\ f[0] = base /\ Joined(base, s) = f[Len(s)]
                  /\ \A k \in 1..Len(s) : f[k] = OneJoins(f[k - 1], s[k])
  <1> DEFINE n == Len(s)
             A == Seq(S)
             G == [k \in 1..n |-> [t \in A |-> OneJoins(t, s[k])]]
             Body(g) == [d \in SUBSET DOMAIN s |->
                           IF d = {} THEN base ELSE OneJoins(g[d \ {Max(d)}], s[Max(d)])]
  <1>1. n \in Nat /\ DOMAIN s = 1..n /\ \A k \in 1..n : s[k] \in S
    OBVIOUS
  <1>2. ASSUME NEW k \in 1..n, NEW t \in A
        PROVE  OneJoins(t, s[k]) \in A
    BY <1>1 DEF OneJoins
  <1>3. G \in [1..n -> [A -> A]]
    <2> HIDE DEF A
    <2> QED
      BY <1>2
  <1>4. PICK g \in [SUBSET (1..n) -> A] :
           \A d \in SUBSET (1..n) : Unfolds(g, d, n, A, base, G)
    <2>1. base \in A
      OBVIOUS
    <2> HIDE DEF G, A, n
    <2> QED
      BY <1>1, <1>3, <2>1, FoldUnfolds
  <1>5. ASSUME NEW d \in SUBSET (1..n)
        PROVE  g[d] = Body(g)[d]
    <2> HIDE DEF A, n
    <2> QED
      BY <1>1, <1>4 DEF Unfolds
  <1>6. g = Body(g)
    <2> HIDE DEF A
    <2> QED
      BY <1>1, <1>5
  <1>7. PICK h : h = Body(h) /\ Joined(base, s) = h[DOMAIN s]
    <2> HIDE <1>4, <1>5
    <2> QED
      BY <1>6, Zenon DEF Joined, OneJoins, FoldLeft, MapThenFoldSet
  <1> HIDE DEF A, G, n
  <1> DEFINE f == [k \in 0..n |-> h[1..k]]
  <1>8. \A d \in SUBSET (1..n) :
           h[d] = IF d = {} THEN base ELSE OneJoins(h[d \ {Max(d)}], s[Max(d)])
    BY <1>1, <1>7
  <1>9. f[0] = base /\ Joined(base, s) = f[n]
    <2>1. f[0] = h[{}] /\ f[n] = h[1..n] /\ {} \in SUBSET (1..n)
      BY <1>1
    <2>2. h[{}] = base
      BY <1>8, <2>1
    <2>3. Joined(base, s) = h[1..n]
      BY <1>1, <1>7
    <2> HIDE DEF f
    <2> QED
      BY <2>1, <2>2, <2>3
  <1>10. ASSUME NEW k \in 1..n
         PROVE  f[k] = OneJoins(f[k - 1], s[k])
    <2>1. Max(1..k) = k /\ (1..k) \ {k} = 1..(k - 1) /\ 1..k # {}
      BY MaxOfInterval
    <2>2. 1..k \in SUBSET (1..n) /\ k \in 0..n /\ k - 1 \in 0..n
      BY <1>1
    <2> QED
      BY <1>1, <1>8, <2>1, <2>2
  <1> QED
    <2> HIDE DEF f
    <2> QED
      BY <1>9, <1>10 DEF n

\* list goes on where base ends.
GoesOn(base, list) ==
    Len(base) <= Len(list) /\ \A k \in 1..Len(base) : list[k] = base[k]

KeyIn(list, o) == \E k \in 1..Len(list) : PersonKey(list[k]) = PersonKey(o)

\* By induction over those who join.
LEMMA JoinedKeeps ==
    ASSUME NEW S, NEW base \in Seq(S), NEW s \in Seq(S)
    PROVE  /\ Joined(base, s) \in Seq(S)
           /\ GoesOn(base, Joined(base, s))
           /\ \A i \in 1..Len(s) : KeyIn(Joined(base, s), s[i])
  <1>1. PICK f : /\ f[0] = base /\ Joined(base, s) = f[Len(s)]
                 /\ \A k \in 1..Len(s) : f[k] = OneJoins(f[k - 1], s[k])
    BY JoinSteps
  <1> DEFINE n == Len(s)
             P == {k \in 0..n : /\ f[k] \in Seq(S) /\ GoesOn(base, f[k])
                                /\ \A i \in 1..k : KeyIn(f[k], s[i])}
  <1>2. n \in Nat /\ Len(base) \in Nat /\ \A k \in 1..n : s[k] \in S
    OBVIOUS
  <1>3. 0 \in P
    <2>1. GoesOn(base, base)
      BY <1>2 DEF GoesOn
    <2> QED
      BY <1>1, <1>2, <2>1
  <1>4. ASSUME NEW m \in P, m < n
        PROVE  m + 1 \in P
    <2> DEFINE t == f[m]
               o == s[m + 1]
               u == f[m + 1]
    <2>1. /\ m + 1 \in 1..n /\ (m + 1) - 1 = m /\ o \in S
          /\ t \in Seq(S) /\ GoesOn(base, t) /\ \A i \in 1..m : KeyIn(t, s[i])
      BY <1>2, <1>4
    <2>2. u = OneJoins(t, o)
      BY <1>1, <2>1
    <2> HIDE DEF t, o, u, P
    <2>3. Len(t) \in Nat /\ DOMAIN t = 1..Len(t)
      BY <2>1
    <2>4. /\ u \in Seq(S) /\ Len(t) <= Len(u) /\ \A k \in 1..Len(t) : u[k] = t[k]
          /\ KeyIn(u, o)
      <3>1. CASE \E i \in DOMAIN t : PersonKey(t[i]) = PersonKey(o)
        BY <2>1, <2>2, <2>3, <3>1 DEF OneJoins, KeyIn
      <3>2. CASE ~ \E i \in DOMAIN t : PersonKey(t[i]) = PersonKey(o)
        <4>1. u = Append(t, o)
          BY <2>2, <3>2 DEF OneJoins
        <4>2. /\ u \in Seq(S) /\ Len(u) = Len(t) + 1 /\ u[Len(t) + 1] = o
              /\ \A k \in 1..Len(t) : u[k] = t[k]
          BY <2>1, <4>1
        <4>3. Len(t) + 1 \in 1..Len(u)
          BY <2>3, <4>2
        <4> QED
          BY <2>3, <4>2, <4>3 DEF KeyIn
      <3> QED
        BY <3>1, <3>2
    <2>5. Len(u) \in Nat
      BY <2>4
    <2>6. GoesOn(base, u)
      <3>1. \A k \in 1..Len(base) : k \in 1..Len(t)
        BY <1>2, <2>1, <2>3 DEF GoesOn
      <3> QED
        BY <1>2, <2>1, <2>3, <2>4, <2>5, <3>1 DEF GoesOn
    <2>7. ASSUME NEW i \in 1..(m + 1)
          PROVE  KeyIn(u, s[i])
      <3>1. CASE i \in 1..m
        <4>1. PICK k \in 1..Len(t) : PersonKey(t[k]) = PersonKey(s[i])
          BY <2>1, <3>1 DEF KeyIn
        <4>2. k \in 1..Len(u) /\ u[k] = t[k]
          BY <2>3, <2>4, <2>5
        <4> QED
          BY <4>1, <4>2 DEF KeyIn
      <3>2. CASE i = m + 1
        BY <2>4, <3>2 DEF o
      <3> QED
        BY <1>4, <3>1, <3>2 DEF P
    <2> QED
      BY <2>1, <2>4, <2>6, <2>7 DEF P, u
  <1>5. n \in P
    <2>1. P \in SUBSET (0..n) /\ n \in 0..n
      BY <1>2
    <2> HIDE DEF P
    <2> QED
      BY <1>2, <1>3, <1>4, <2>1, UpTo
  <1> QED
    BY <1>1, <1>5

HasName(list, name) == \E k \in DOMAIN list : list[k].second = name
HasSurname(list, name) == \E k \in DOMAIN list : list[k].surname = name

\* Nobody is lost in the move: the offenders stay where they are, and a
\* member of the staff is found by the same surname on one side or the other.
LEMMA OverrideKeeps ==
    ASSUME NEW people, IsList(people), NEW staff, IsList(staff), NEW portal
    PROVE  LET moved == StaffOverride(people, staff, portal)
           IN  /\ IsList(moved.people)
               /\ GoesOn(people, moved.people)
               /\ \A s \in ToSet(staff) : \/ HasName(moved.people, s.surname)
                                          \/ HasSurname(moved.staff, s.surname)
  <1> DEFINE moving == {s \in ToSet(staff) : s.surname \in Surnames(portal)}
             gone == Filter(staff, moving)
             rest == Filter(staff, ToSet(staff) \ moving)
             new == [k \in DOMAIN gone |-> StaffOffender(gone[k])]
             moved == StaffOverride(people, staff, portal)
             S == ToSet(people) \cup ToSet(new)
  <1>1. moved.people = Joined(people, new) /\ moved.staff = rest
    BY DEF StaffOverride
  <1>2. /\ IsList(gone) /\ ToSet(gone) = ToSet(staff) \cap moving
        /\ IsList(rest) /\ ToSet(rest) = ToSet(staff) \cap (ToSet(staff) \ moving)
    <2> HIDE DEF moving
    <2> QED
      BY ListMembers
  <1> HIDE DEF gone, rest
  <1>3. Len(gone) \in Nat /\ DOMAIN gone = 1..Len(gone)
    BY <1>2 DEF IsList
  <1>4. IsList(new) /\ Len(new) = Len(gone)
    <2>1. new = [k \in 1..Len(gone) |-> new[k]] /\ Len(new) = Len(gone)
      BY <1>3
    <2> HIDE DEF new
    <2> QED
      BY <1>3, <2>1, ListIf
  <1>5. \A k \in 1..Len(gone) : new[k].second = gone[k].surname
    BY <1>3 DEF StaffOffender
  <1> HIDE DEF new
  <1>6. people \in Seq(S) /\ new \in Seq(S)
    <2>1. ToSet(people) \subseteq S /\ ToSet(new) \subseteq S
      OBVIOUS
    <2> HIDE DEF S
    <2> QED
      BY <1>4, <2>1, ListWithin
  <1> HIDE DEF S, moved
  <1>7. /\ moved.people \in Seq(S) /\ GoesOn(people, moved.people)
        /\ \A i \in 1..Len(new) : KeyIn(moved.people, new[i])
    BY <1>1, <1>6, JoinedKeeps
  <1>8. DOMAIN moved.people = 1..Len(moved.people)
    BY <1>7
  <1>9. ASSUME NEW s \in ToSet(staff)
        PROVE  HasName(moved.people, s.surname) \/ HasSurname(moved.staff, s.surname)
    <2>1. CASE s \in moving
      <3>1. PICK i \in 1..Len(gone) : gone[i] = s
        BY <1>2, <1>3, <2>1 DEF ToSet
      <3>2. PICK k \in 1..Len(moved.people) : PersonKey(moved.people[k]) = PersonKey(new[i])
        BY <1>4, <1>7, <3>1 DEF KeyIn
      <3>3. moved.people[k].second = s.surname
        BY <1>5, <3>1, <3>2 DEF PersonKey
      <3> QED
        BY <1>8, <3>3 DEF HasName
    <2>2. CASE s \notin moving
      <3>1. s \in ToSet(rest)
        BY <1>2, <2>2
      <3> QED
        BY <1>1, <3>1 DEF ToSet, HasSurname
    <2> QED
      BY <2>1, <2>2
  <1> QED
    BY <1>7, <1>9, ListOf DEF moved

\* Who joins has no place in the text.
LEMMA WhoJoins ==
    ASSUME NEW people, IsList(people), NEW staff, IsList(staff), NEW portal
    PROVE  LET moved == StaffOverride(people, staff, portal)
           IN  /\ \A p \in ToSet(moved.people) :
                     p \in ToSet(people) \/ ("span" \in DOMAIN p /\ p.span = NoSpan)
               /\ IsList(moved.staff) /\ ToSet(moved.staff) \subseteq ToSet(staff)
  <1> DEFINE moving == {s \in ToSet(staff) : s.surname \in Surnames(portal)}
             gone == Filter(staff, moving)
             rest == Filter(staff, ToSet(staff) \ moving)
             new == [k \in DOMAIN gone |-> StaffOffender(gone[k])]
             moved == StaffOverride(people, staff, portal)
             S == ToSet(people) \cup ToSet(new)
  <1>1. moved.people = Joined(people, new) /\ moved.staff = rest
    BY DEF StaffOverride
  <1>2. IsList(gone) /\ IsList(rest) /\ ToSet(rest) \subseteq ToSet(staff)
    <2> HIDE DEF moving
    <2> QED
      BY ListMembers
  <1> HIDE DEF gone, rest, moved
  <1>3. Len(gone) \in Nat /\ DOMAIN gone = 1..Len(gone)
    BY <1>2 DEF IsList
  <1>4. IsList(new)
    <2>1. new = [k \in 1..Len(gone) |-> new[k]]
      BY <1>3
    <2> HIDE DEF new
    <2> QED
      BY <1>3, <2>1, ListIf
  <1>5. \A p \in ToSet(new) : "span" \in DOMAIN p /\ p.span = NoSpan
    <2>1. \A p \in ToSet(new) : \E s : p = StaffOffender(s)
      BY DEF ToSet
    <2>2. \A s : "span" \in DOMAIN StaffOffender(s) /\ StaffOffender(s).span = NoSpan
      BY DEF StaffOffender
    <2> HIDE DEF new
    <2> QED
      BY <2>1, <2>2
  <1> HIDE DEF new
  <1>6. people \in Seq(S) /\ new \in Seq(S)
    <2>1. ToSet(people) \subseteq S /\ ToSet(new) \subseteq S
      OBVIOUS
    <2> HIDE DEF S
    <2> QED
      BY <1>4, <2>1, ListWithin
  <1>7. ToSet(moved.people) \subseteq S
    <2> HIDE DEF S
    <2> QED
      BY <1>1, <1>6, JoinedKeeps, ListOf
  <1> QED
    BY <1>1, <1>2, <1>5, <1>7 DEF moved

-----------------------------------------------------------------------------
(* The people that are compared.                                           *)

\* Everyone is, but an employee with another surname than the offenders'.
LEMMA ComparedPeople ==
    ASSUME NEW mentions, IsList(mentions), NEW surnames, NEW text
    PROVE  /\ IsList(Comparable(mentions, surnames, text))
           /\ \A m \in ToSet(mentions) : ~IsEmployee(text, m) =>
                 m \in ToSet(Comparable(mentions, surnames, text))
           /\ ToSet(Comparable(mentions, surnames, text)) \subseteq ToSet(mentions)
  <1> DEFINE a == Offenders(text, mentions)
             excluded == Excluded(text, mentions)
             back == {m \in ToSet(excluded) : m.second \in surnames}
             b == Filter(excluded, back)
             S == ToSet(mentions)
             all == Comparable(mentions, surnames, text)
  <1>1. all = a \o b
    BY DEF Comparable
  <1>2. IsList(a) /\ ToSet(a) = {m \in S : ~IsEmployee(text, m)}
    BY ListMembers DEF Offenders, Employees
  <1>3. IsList(excluded) /\ ToSet(excluded) \subseteq S
    BY ListMembers DEF Excluded
  <1>4. IsList(b) /\ ToSet(b) \subseteq S
    <2> HIDE DEF excluded, S, back
    <2> QED
      BY <1>3, ListMembers
  <1> HIDE DEF a, b, S, all
  <1>5. a \in Seq(S) /\ b \in Seq(S)
    BY <1>2, <1>4, ListWithin
  <1>6. /\ all \in Seq(S) /\ Len(all) = Len(a) + Len(b) /\ DOMAIN all = 1..Len(all)
        /\ \A k \in 1..Len(a) : all[k] = a[k]
        /\ Len(a) \in Nat /\ Len(b) \in Nat /\ DOMAIN a = 1..Len(a)
    BY <1>1, <1>5
  <1>7. ToSet(a) \subseteq ToSet(all)
    <2> SUFFICES ASSUME NEW k \in 1..Len(a)
                 PROVE  a[k] \in ToSet(all)
      BY <1>6 DEF ToSet
    <2>1. k \in 1..Len(all)
      BY <1>6
    <2> QED
      BY <1>6, <2>1 DEF ToSet
  <1>8. IsList(all) /\ ToSet(all) \subseteq S
    BY <1>6, ListOf
  <1> QED
    BY <1>2, <1>7, <1>8 DEF S, all

\* match_offenders, whoever it is given.
LEMMA OffendersMatched ==
    ASSUME NEW people, IsList(people), NEW portal, IsList(portal), NEW text
    PROVE  LET all == Comparable([k \in DOMAIN people |-> Mention(people[k])],
                                 Surnames(portal), text)
           IN  /\ IsList(all)
               /\ Told(all, portal, MatchOffenders(people, portal, text))
  <1> DEFINE mentions == [k \in DOMAIN people |-> Mention(people[k])]
             all == Comparable(mentions, Surnames(portal), text)
  <1>1. MatchOffenders(people, portal, text) = MatchDetails(all, portal)
    BY DEF MatchOffenders
  <1>2. IsList(mentions)
    <2>1. Len(people) \in Nat /\ DOMAIN people = 1..Len(people)
      BY DEF IsList
    <2>2. mentions = [k \in 1..Len(people) |-> mentions[k]]
      BY <2>1
    <2> HIDE DEF mentions
    <2> QED
      BY <2>1, <2>2, ListIf
  <1> HIDE DEF mentions
  <1>3. IsList(all)
    BY <1>2, ComparedPeople
  <1> HIDE DEF all
  <1>4. Told(all, portal, MatchDetails(all, portal))
    BY <1>3, Matching DEF IsList
  <1> QED
    BY <1>1, <1>3, <1>4 DEF all, mentions

=============================================================================
