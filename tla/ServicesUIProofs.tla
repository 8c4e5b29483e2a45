-------------------------- MODULE ServicesUIProofs --------------------------
(***************************************************************************)
(* Proofs about the highlighted row of the services panel, for any         *)
(* services, queries and profile, whatever the runner and the program do   *)
(* between two keys: a filter never moves the highlight to another service *)
(* while the one it was on is in the list.  At the end, that the program   *)
(* always hears of the runner's end.                                       *)
(***************************************************************************)
EXTENDS ServicesUI, SequenceTheorems, WellFoundedInduction, TLAPS

\* The lists have the types that the keys count on, and the query says which list
\* the index points into.
Lists ==
  /\ serviceIDs \in Seq(Services) /\ selected \in Nat
  /\ IF filterQuery \in Blank
       THEN filteredIDs \in {None, serviceIDs}
       ELSE filteredIDs = Filtered(filterQuery, serviceIDs)

\* The index points into the list unless that is empty.
InRange == Len(ActiveIDs) > 0 => selected < Len(ActiveIDs)

\* What the panel remembers for the time when nothing is listed is what was
\* highlighted last.
Remembers ==
  IF Highlighted # None THEN last = Highlighted
  ELSE serviceIDs # <<>> => lastFiltered = last

SelectionInv == Lists /\ InRange /\ Remembers

-----------------------------------------------------------------------------
(* What a query lists *)

\* What the loop of filterServiceIDs has selected after i ids, given what it had
\* selected before.
Picked(q, ids, f, i) ==
  IF i = 0 THEN <<>>
  ELSE IF ids[i] \in Match[q] THEN Append(f[i - 1], ids[i])
  ELSE f[i - 1]

\* f is what the loop has selected after each of the first n ids.
Picks(q, ids, f, n) == DOMAIN f = 0..n /\ \A i \in 0..n : f[i] = Picked(q, ids, f, i)

\* Every non-empty set of numbers has a least one: this is what the proofs about
\* the loop have in place of an induction.
LEMMA LeastNumber ==
  ASSUME NEW T, T \subseteq Nat, T # {} PROVE \E n \in T : \A m \in T : n <= m
<1> DEFINE R == {p \in Nat \X Nat : p[1] < p[2]}
<1>1. IsWellFoundedOn(R, Nat)
  BY NatLessThanWellFounded DEF OpToRel
<1>2. \A x, y \in Nat : x < y => <<x, y>> \in R
  OBVIOUS
<1> HIDE DEF R
<1>3. PICK n \in T : \A m \in T : ~ (<<m, n>> \in R)
  BY <1>1, WFMin
<1>4. \A m \in T : ~ (m < n)
  BY <1>2, <1>3
<1> QED  BY <1>4

\* The loop comes to an end, whatever ids is.
LEMMA PicksExist ==
  ASSUME NEW q, NEW ids, NEW len \in Nat PROVE \E f : Picks(q, ids, f, len)
<1> DEFINE T == {n \in Nat : ~ \E f : Picks(q, ids, f, n)}
<1> SUFFICES ASSUME T # {} PROVE FALSE
  OBVIOUS
<1>1. PICK n \in T : \A m \in T : n <= m
  BY LeastNumber
<1>2. n # 0
  <2> SUFFICES ASSUME n = 0 PROVE FALSE
    OBVIOUS
  <2> DEFINE f == [i \in 0..0 |-> <<>>]
  <2>1. Picks(q, ids, f, 0)
    BY DEF Picks, Picked
  <2> QED  BY <2>1
<1>3. n - 1 \in Nat /\ n - 1 \notin T
  BY <1>1, <1>2
<1>4. PICK f : Picks(q, ids, f, n - 1)
  BY <1>3
<1> DEFINE g == [i \in 0..n |-> IF i < n THEN f[i] ELSE Picked(q, ids, f, n)]
<1>5. \A i \in 0..n - 1 : g[i] = f[i]
  BY <1>3
<1>6. ASSUME NEW i \in 0..n PROVE g[i] = Picked(q, ids, g, i)
  <2>1. CASE i = n
    <3>1. g[n] = Picked(q, ids, f, n)
      BY <1>3
    <3>2. g[n - 1] = f[n - 1]
      BY <1>3, <1>5
    <3> HIDE DEF g
    <3> QED  BY <2>1, <3>1, <3>2 DEF Picked
  <2>2. CASE i # n
    <3>1. i \in 0..n - 1 /\ (i # 0 => i - 1 \in 0..n - 1)
      BY <1>3, <2>2
    <3>2. g[i] = f[i] /\ (i # 0 => g[i - 1] = f[i - 1])
      BY <1>5, <3>1
    <3>3. f[i] = Picked(q, ids, f, i)
      BY <1>4, <3>1 DEF Picks
    <3> HIDE DEF g
    <3> QED  BY <3>2, <3>3 DEF Picked
  <2> QED  BY <2>1, <2>2
<1>7. DOMAIN g = 0..n
  OBVIOUS
<1> HIDE DEF g
<1>8. Picks(q, ids, g, n)
  BY <1>6, <1>7 DEF Picks
<1> QED  BY <1>8

\* Filtered is what the loop selects of all ids.
LEMMA FilteredIsPicked ==
  ASSUME NEW q, NEW ids, Len(ids) \in Nat, q \notin Blank
  PROVE  \E f : Picks(q, ids, f, Len(ids)) /\ Filtered(q, ids) = f[Len(ids)]
<1> DEFINE pick[i \in 0..Len(ids)] ==
             IF i = 0 THEN <<>>
             ELSE IF ids[i] \in Match[q] THEN Append(pick[i - 1], ids[i])
             ELSE pick[i - 1]
<1>1. PICK f : Picks(q, ids, f, Len(ids))
  BY PicksExist
<1>2. PICK f1 : f1 = [i \in 0..Len(ids) |-> f[i]]
  OBVIOUS
<1>3. f1 = [i \in 0..Len(ids) |->
              IF i = 0 THEN <<>>
              ELSE IF ids[i] \in Match[q] THEN Append(f1[i - 1], ids[i])
              ELSE f1[i - 1]]
  <2>1. ASSUME NEW i \in 0..Len(ids)
        PROVE  f[i] = IF i = 0 THEN <<>>
                      ELSE IF ids[i] \in Match[q] THEN Append(f1[i - 1], ids[i])
                      ELSE f1[i - 1]
    <3>1. i # 0 => i - 1 \in 0..Len(ids)
      OBVIOUS
    <3>2. i # 0 => f1[i - 1] = f[i - 1]
      BY <1>2, <3>1
    <3>3. f[i] = Picked(q, ids, f, i)
      BY <1>1 DEF Picks
    <3> QED  BY <3>2, <3>3 DEF Picked
  <2> QED  BY <1>2, <2>1
<1>4. pick = [i \in 0..Len(ids) |->
              IF i = 0 THEN <<>>
              ELSE IF ids[i] \in Match[q] THEN Append(pick[i - 1], ids[i])
              ELSE pick[i - 1]]
  BY <1>3, Zenon
<1>5. Filtered(q, ids) = pick[Len(ids)]
  BY DEF Filtered
<1> HIDE DEF pick
<1>6. Picks(q, ids, pick, Len(ids))
  BY <1>4 DEF Picks, Picked
<1> QED  BY <1>5, <1>6

\* A query selects from the ids.
LEMMA FilteredType ==
  ASSUME NEW q, NEW S, NEW ids \in Seq(S)
  PROVE  Filtered(q, ids) \in Seq(S)
<1>1. CASE q \in Blank
  BY <1>1 DEF Filtered
<1>2. CASE q \notin Blank
  <2>1. Len(ids) \in Nat /\ \A i \in 1..Len(ids) : ids[i] \in S
    BY LenProperties
  <2>2. PICK f : Picks(q, ids, f, Len(ids)) /\ Filtered(q, ids) = f[Len(ids)]
    BY <1>2, <2>1, FilteredIsPicked
  <2> DEFINE T == {n \in 0..Len(ids) : f[n] \notin Seq(S)}
  <2>3. T = {}
    <3> SUFFICES ASSUME T # {} PROVE FALSE
      OBVIOUS
    <3>1. T \subseteq Nat
      BY <2>1
    <3>2. PICK n \in T : \A m \in T : n <= m
      BY <3>1, LeastNumber
    <3>3. f[n] = Picked(q, ids, f, n) /\ n \in 0..Len(ids)
      BY <2>2 DEF Picks
    <3>4. CASE n = 0
      <4>1. f[n] = <<>>
        BY <3>3, <3>4 DEF Picked
      <4>2. <<>> \in Seq(S)
        OBVIOUS
      <4> QED  BY <3>2, <4>1, <4>2
    <3>5. CASE n # 0
      <4>1. n - 1 \in 0..Len(ids) /\ n \in 1..Len(ids) /\ ~ (n <= n - 1)
        BY <2>1, <3>3, <3>5
      <4>2. f[n - 1] \in Seq(S)
        BY <3>2, <4>1
      <4>3. ids[n] \in S
        BY <2>1, <4>1
      <4>4. Append(f[n - 1], ids[n]) \in Seq(S)
        BY <4>2, <4>3, AppendProperties
      <4> QED  BY <3>2, <3>3, <3>5, <4>2, <4>4 DEF Picked
    <3> QED  BY <3>4, <3>5
  <2> QED  BY <2>1, <2>2, <2>3
<1> QED  BY <1>1, <1>2

\* IndexOf finds a service that is listed, and points into the list even if not.
LEMMA IndexFinds ==
  ASSUME NEW s, NEW ids \in Seq(Services)
  PROVE  /\ IndexOf(s, ids) \in Nat
         /\ Len(ids) > 0 => IndexOf(s, ids) < Len(ids)
         /\ \A i \in 1..Len(ids) : ids[i] = s => At(ids, IndexOf(s, ids)) = s
<1>1. Len(ids) \in Nat
  BY LenProperties
<1>2. CASE \E i \in 1..Len(ids) : ids[i] = s
  <2>1. PICK k \in 1..Len(ids) : k = CHOOSE i \in 1..Len(ids) : ids[i] = s
    BY <1>2
  <2>2. ids[k] = s
    BY <1>2, <2>1
  <2>3. IndexOf(s, ids) = k - 1
    BY <1>2, <2>1 DEF IndexOf
  <2>4. k - 1 \in Nat /\ k - 1 < Len(ids) /\ k - 1 + 1 = k
    BY <1>1, <2>1
  <2> QED  BY <2>2, <2>3, <2>4 DEF At
<1>3. CASE ~ \E i \in 1..Len(ids) : ids[i] = s
  BY <1>1, <1>3 DEF IndexOf
<1> QED  BY <1>2, <1>3

\* An index within a list of services is at a service, and one beyond it at none.
LEMMA AtList ==
  ASSUME NEW ids \in Seq(Services), NEW i \in Nat
  PROVE  /\ i < Len(ids) => At(ids, i) \in Services /\ At(ids, i) # None
                            /\ \E k \in 1..Len(ids) : ids[k] = At(ids, i)
         /\ At(ids, i) # None <=> i < Len(ids)
<1>1. Len(ids) \in Nat /\ \A k \in 1..Len(ids) : ids[k] \in Services
  BY LenProperties
<1>2. ASSUME i < Len(ids) PROVE i + 1 \in 1..Len(ids)
  BY <1>1, <1>2
<1> QED  BY <1>1, <1>2, SelectionAssumption DEF At

-----------------------------------------------------------------------------
(* One step *)

\* After a step, too, the keys act on a list of services, and on an empty one if
\* the profile has none.
LEMMA ListAfter ==
  ASSUME Lists'
  PROVE  ActiveIDs' \in Seq(Services) /\ (serviceIDs' = <<>> => Len(ActiveIDs') = 0)
<1>1. \A S : serviceIDs' \in Seq(S) /\ filterQuery' \notin Blank => filteredIDs' \in Seq(S)
  BY FilteredType DEF Lists
<1>2. \A S : serviceIDs' \in Seq(S) => ActiveIDs' \in Seq(S)
  BY <1>1 DEF ActiveIDs
<1>3. ASSUME serviceIDs' = <<>> PROVE Len(ActiveIDs') = 0
  <2>1. ActiveIDs' \in Seq({})
    BY <1>2, <1>3
  <2> QED  BY <2>1
<1> QED  BY <1>2, <1>3 DEF Lists

\* The list that the keys act on is a list of services, and while a filter is set
\* it is the one that its index points into.
LEMMA OneList ==
  ASSUME Lists
  PROVE  ActiveIDs \in Seq(Services) /\ FilterList = ActiveIDs
<1>1. CASE filterQuery \in Blank
  BY <1>1 DEF Lists, ActiveIDs, FilterList
<1>2. CASE filterQuery \notin Blank
  <2>1. filteredIDs \in Seq(Services)
    BY <1>2, FilteredType DEF Lists
  <2> QED  BY <1>2, <2>1, SelectionAssumption DEF ActiveIDs, FilterList
<1> QED  BY <1>1, <1>2

\* A step that finds the service prev in the new list, where prev is what is
\* highlighted or else was last, keeps the invariant and the highlight.
LEMMA Found ==
  ASSUME SelectionInv, NEW prev, Lists',
         UNCHANGED serviceIDs, selected' = IndexOf(prev, ActiveIDs'), Watched,
         Highlighted # None => prev = Highlighted,
         Highlighted = None /\ serviceIDs # <<>> /\ last # None => prev = last,
         Highlighted' = None /\ serviceIDs # <<>> => lastFiltered' = last
  PROVE  SelectionInv' /\ KeepsHighlight
<1> PICK ids : ids = ActiveIDs'
  OBVIOUS
<1>1. ids \in Seq(Services) /\ selected' \in Nat
  BY ListAfter DEF Lists
<1>2. Highlighted' = At(ids, selected')
  BY DEF Highlighted
<1>3. selected' = IndexOf(prev, ids) /\ Len(ids) \in Nat
  BY <1>1, LenProperties
<1>4. /\ Len(ids) > 0 => selected' < Len(ids)
      /\ \A i \in 1..Len(ids) : ids[i] = prev => Highlighted' = prev
  BY <1>1, <1>2, <1>3, IndexFinds
<1>5. InRange'
  BY <1>4 DEF InRange
<1>6. Remembers'
  BY DEF Remembers, Watched, SelectionInv
<1>7. \A s \in Listed' : \E i \in 1..Len(ids) : ids[i] = s
  BY DEF Listed
<1>8. ASSUME Highlighted # None, Highlighted \in Listed'
      PROVE  Highlighted' = Highlighted
  BY <1>4, <1>7, <1>8
<1>9. ASSUME Highlighted = None, last \in Listed'
      PROVE  Highlighted' = last
  <2>1. PICK i \in 1..Len(ids) : ids[i] = last
    BY <1>7, <1>9
  <2>2. last \in Services /\ last # None
    BY <1>1, <2>1, SelectionAssumption
  <2>3. serviceIDs # <<>>
    BY <1>3, <2>1, ListAfter
  <2> QED  BY <1>4, <1>9, <2>1, <2>2, <2>3
<1> QED  BY <1>5, <1>6, <1>8, <1>9 DEF SelectionInv, KeepsHighlight

\* What leaves the list and the index alone leaves the highlight alone.
LEMMA SameList ==
  ASSUME SelectionInv,
         UNCHANGED <<serviceIDs, selected, filterQuery, filteredIDs, lastFiltered, last>>
  PROVE  SelectionInv' /\ KeepsHighlight
<1>1. ActiveIDs' = ActiveIDs
  BY DEF ActiveIDs
<1>2. Highlighted' = Highlighted
  BY <1>1 DEF Highlighted
<1>3. Lists' /\ InRange' /\ Remembers'
  BY <1>1, <1>2 DEF SelectionInv, Lists, InRange, Remembers
<1>4. ASSUME last \in Listed' PROVE Highlighted # None
  <2>1. ActiveIDs \in Seq(Services) /\ Len(ActiveIDs) \in Nat
    BY OneList, LenProperties DEF SelectionInv
  <2>2. Len(ActiveIDs) > 0
    BY <1>1, <1>4, <2>1 DEF Listed
  <2>3. \A ids \in Seq(Services) : \A i \in Nat : i < Len(ids) => At(ids, i) # None
    BY AtList
  <2> QED  BY <2>1, <2>2, <2>3 DEF SelectionInv, InRange, Lists, Highlighted
<1> QED  BY <1>2, <1>3, <1>4 DEF SelectionInv, KeepsHighlight

\* A changed query keeps the highlight.
LEMMA ApplyFilterKeeps ==
  ASSUME SelectionInv, NEW q, ApplyFilter(q)
  PROVE  SelectionInv' /\ KeepsHighlight
<1> DEFINE prev == FirstOf(Highlighted, lastFiltered)
<1>1. Lists
  BY DEF SelectionInv
<1>2. At(FilterList, selected) = Highlighted
  BY <1>1, OneList DEF Highlighted
<1>3. /\ filterQuery' = q /\ filteredIDs' = Filtered(q, serviceIDs) /\ serviceIDs' = serviceIDs
      /\ selected' = IndexOf(prev, filteredIDs') /\ lastFiltered' = FirstOf(prev, lastFiltered)
      /\ Watched
  BY <1>2 DEF ApplyFilter
<1>4. filteredIDs' \in Seq(Services)
  BY <1>1, <1>3, FilteredType DEF Lists
<1>5. selected' \in Nat
  BY <1>3, <1>4, IndexFinds
<1>6. q \in Blank => filteredIDs' = serviceIDs
  BY <1>3 DEF Filtered
<1>7. Lists'
  BY <1>1, <1>3, <1>5, <1>6 DEF Lists
<1>8. ActiveIDs' = filteredIDs'
  BY <1>3, <1>6 DEF ActiveIDs
<1>9. /\ Highlighted # None => prev = Highlighted
      /\ Highlighted = None => prev = lastFiltered
  BY DEF FirstOf
<1>10. serviceIDs # <<>> => lastFiltered' = last /\ prev = last
  BY <1>3, <1>9 DEF SelectionInv, Remembers, FirstOf
<1> HIDE DEF prev
<1> QED  BY <1>3, <1>7, <1>8, <1>9, <1>10, Found

\* So does escape.
LEMMA ClearFilterKeeps ==
  ASSUME SelectionInv, ClearFilter
  PROVE  SelectionInv' /\ KeepsHighlight
<1> DEFINE prev == FirstOf(FirstOf(Highlighted, lastFiltered), preFilter)
<1>1. Lists
  BY DEF SelectionInv
<1>2. At(FilterList, selected) = Highlighted
  BY <1>1, OneList DEF Highlighted
<1>3. /\ filterQuery' = Empty /\ filteredIDs' = None /\ serviceIDs' = serviceIDs
      /\ selected' = IndexOf(prev, serviceIDs) /\ Watched
  BY <1>2 DEF ClearFilter
<1>4. ActiveIDs' = serviceIDs' /\ serviceIDs \in Seq(Services)
  BY <1>1, <1>3, SelectionAssumption DEF ActiveIDs, Lists
<1>5. selected' \in Nat /\ (Len(serviceIDs) > 0 => selected' < Len(serviceIDs))
  BY <1>3, <1>4, IndexFinds
<1>6. Lists'
  BY <1>3, <1>4, <1>5, SelectionAssumption DEF Lists
<1>7. Highlighted # None => prev = Highlighted
  BY DEF FirstOf
<1>8. Highlighted = None /\ serviceIDs # <<>> /\ last # None => prev = last
  BY DEF SelectionInv, Remembers, FirstOf
<1>9. ASSUME serviceIDs # <<>> PROVE Highlighted' # None
  <2>1. Len(serviceIDs) > 0
    BY <1>4, <1>9, LenProperties
  <2>2. \A ids \in Seq(Services) : \A i \in Nat : i < Len(ids) => At(ids, i) # None
    BY AtList
  <2> QED  BY <1>3, <1>4, <1>5, <2>1, <2>2 DEF Highlighted
<1> HIDE DEF prev
<1> QED  BY <1>3, <1>4, <1>6, <1>7, <1>8, <1>9, Found

\* The arrows move the highlight within the list.
LEMMA MoveKeeps ==
  ASSUME SelectionInv, NEW i \in Nat, i < Len(ActiveIDs) \/ Len(ActiveIDs) = 0, Move(i)
  PROVE  SelectionInv'
<1>1. UNCHANGED <<serviceIDs, filterQuery, filteredIDs, lastFiltered>> /\ selected' = i /\ Watched
  BY DEF Move, filterVars
<1>2. ActiveIDs' = ActiveIDs /\ ActiveIDs \in Seq(Services)
  BY <1>1, OneList DEF ActiveIDs, SelectionInv
<1>3. Lists' /\ InRange'
  BY <1>1, <1>2 DEF SelectionInv, Lists, InRange
<1>4. \A ids \in Seq(Services) : \A k \in Nat : At(ids, k) # None <=> k < Len(ids)
  BY AtList
<1>5. Highlighted' = At(ActiveIDs, i) /\ Highlighted = At(ActiveIDs, selected)
  BY <1>1, <1>2 DEF Highlighted
<1>6. ASSUME Highlighted' = None PROVE Highlighted = None /\ last' = last
  <2>1. Len(ActiveIDs) = 0 /\ selected \in Nat
    BY <1>2, <1>4, <1>5, <1>6 DEF SelectionInv, Lists
  <2>2. ~ (selected < Len(ActiveIDs))
    BY <2>1
  <2>3. Highlighted = None
    BY <1>2, <1>4, <1>5, <2>1, <2>2
  <2> QED  BY <1>1, <1>6, <2>3 DEF Watched
<1>7. Remembers'
  BY <1>1, <1>6 DEF SelectionInv, Remembers, Watched
<1> QED  BY <1>3, <1>7 DEF SelectionInv

\* A key about the list or its filter keeps the invariant, and the highlight when
\* it is about the filter.
LEMMA KeyKeeps ==
  ASSUME SelectionInv, SelectionKey
  PROVE  SelectionInv' /\ (filterVars' # filterVars => KeepsHighlight)
<1>1. CASE FilterKey
  BY <1>1, SameList DEF FilterKey
<1>2. CASE TypeQuery
  BY <1>2, ApplyFilterKeeps DEF TypeQuery
<1>3. CASE EraseQuery
  BY <1>3, ApplyFilterKeeps DEF EraseQuery
<1>4. CASE AcceptFilter
  BY <1>4, SameList DEF AcceptFilter
<1>5. CASE ClearFilter
  BY <1>5, ClearFilterKeeps
<1>t. selected \in Nat /\ Len(ActiveIDs) \in Nat
  BY OneList, LenProperties DEF SelectionInv, Lists
<1>6. CASE Up
  <2>1. selected - 1 \in Nat /\ (selected - 1 < Len(ActiveIDs) \/ Len(ActiveIDs) = 0)
    BY <1>6, <1>t DEF Up, SelectionInv, InRange
  <2>2. Move(selected - 1)
    BY <1>6 DEF Up
  <2> QED  BY <2>1, <2>2, MoveKeeps DEF Move
<1>7. CASE Down
  <2>1. selected + 1 \in Nat /\ selected + 1 < Len(ActiveIDs) /\ Move(selected + 1)
    BY <1>7, <1>t DEF Down
  <2> QED  BY <2>1, MoveKeeps DEF Move
<1> QED  BY <1>1, <1>2, <1>3, <1>4, <1>5, <1>6, <1>7 DEF SelectionKey

\* The list that comes with the profile is highlighted at its first service.
LEMMA ResetKeeps ==
  ASSUME ResetSelection(ServiceOrder)
  PROVE  SelectionInv'
<1>1. /\ serviceIDs' = ServiceOrder /\ selected' = 0 /\ filterQuery' = Empty
      /\ filteredIDs' = None /\ last' = At(ServiceOrder, 0)
  BY DEF ResetSelection
<1>2. Lists' /\ ActiveIDs' = ServiceOrder
  BY <1>1, OrderAssumption, SelectionAssumption DEF Lists, ActiveIDs
<1>3. Len(ServiceOrder) \in Nat /\ (ServiceOrder # <<>> => Len(ServiceOrder) > 0)
  BY OrderAssumption, LenProperties
<1>4. InRange'
  BY <1>1, <1>2, <1>3 DEF InRange
<1>5. Highlighted' = last'
  BY <1>1, <1>2 DEF Highlighted
<1>6. ServiceOrder # <<>> => last' # None
  BY <1>1, <1>3, OrderAssumption, AtList
<1>7. Remembers'
  BY <1>1, <1>5, <1>6 DEF Remembers
<1> QED  BY <1>2, <1>4, <1>7 DEF SelectionInv

-----------------------------------------------------------------------------
(* The profile comes once *)

\* The kinds of message that the panel is sent, and "closed".
Kinds ==
  {"phaseStartup", "phaseRunning", "phaseStopping", "phaseStopped", "profile", "preflightStarted",
   "preflightKill", "preflightComplete", "tierStarting", "tierReady", "signal", "closed"}

\* The message with the profile is published once, and until it is handled the
\* panel knows no service: the list is never set again under the highlight.
ProfileOnce ==
  /\ uiQ \in Seq(Kinds) /\ hands \subseteq Kinds
  /\ stage \in {"begin", "resolve"} =>
       serviceIDs = <<>> /\ "profile" \notin hands /\ \A i \in 1..Len(uiQ) : uiQ[i] # "profile"
  /\ "profile" \in hands => serviceIDs = <<>>
  /\ \A i \in 1..Len(uiQ) : uiQ[i] = "profile" =>
       /\ serviceIDs = <<>> /\ "profile" \notin hands
       /\ \A j \in 1..Len(uiQ) : uiQ[j] = "profile" => i = j

PanelInv == SelectionInv /\ ProfileOnce

\* Publishing anything but the profile changes nothing about that.
LEMMA PublishOther ==
  ASSUME ProfileOnce, NEW k \in Kinds, k # "profile", Publish(k),
         UNCHANGED <<serviceIDs, hands>>, stage' \in {"begin", "resolve"} => stage \in {"begin", "resolve"}
  PROVE  ProfileOnce'
<1>1. CASE uiQ' = uiQ
  BY <1>1 DEF ProfileOnce
<1>2. CASE uiQ' = Append(uiQ, k)
  <2>1. /\ uiQ' \in Seq(Kinds) /\ Len(uiQ) \in Nat /\ Len(uiQ') = Len(uiQ) + 1
        /\ uiQ'[Len(uiQ) + 1] = k /\ \A i \in 1..Len(uiQ) : uiQ'[i] = uiQ[i]
    BY <1>2, AppendProperties, LenProperties DEF ProfileOnce, Kinds
  <2>2. \A i \in 1..Len(uiQ') : uiQ'[i] = "profile" => i \in 1..Len(uiQ) /\ uiQ[i] = "profile"
    BY <2>1
  <2>3. \A i \in 1..Len(uiQ) : uiQ[i] # "profile" => \A j \in 1..Len(uiQ') : j = i => uiQ'[j] # "profile"
    BY <2>1
  <2> QED  BY <2>1, <2>2 DEF ProfileOnce
<1> QED  BY <1>1, <1>2 DEF Publish

\* The profile is published when nobody has heard of it.
LEMMA PublishProfile ==
  ASSUME ProfileOnce, stage = "resolve", stage' = "resolved", Publish("profile"),
         UNCHANGED <<serviceIDs, hands>>
  PROVE  ProfileOnce'
<1>1. CASE uiQ' = uiQ
  BY <1>1 DEF ProfileOnce
<1>2. CASE uiQ' = Append(uiQ, "profile")
  <2>1. /\ uiQ' \in Seq(Kinds) /\ Len(uiQ) \in Nat /\ Len(uiQ') = Len(uiQ) + 1
        /\ \A i \in 1..Len(uiQ) : uiQ'[i] = uiQ[i]
    BY <1>2, AppendProperties, LenProperties DEF ProfileOnce, Kinds
  <2>2. \A i \in 1..Len(uiQ') : uiQ'[i] = "profile" => i = Len(uiQ) + 1
    BY <2>1 DEF ProfileOnce
  <2> QED  BY <2>1, <2>2 DEF ProfileOnce
<1> QED  BY <1>1, <1>2 DEF Publish

\* Receive passes a message on.
LEMMA ReceiveOnce ==
  ASSUME ProfileOnce, Receive
  PROVE  ProfileOnce'
<1>u. UNCHANGED <<serviceIDs, stage>>
  BY DEF Receive, selectionVars
<1>1. CASE uiQ # <<>> /\ hands' = hands \cup {Head(uiQ)} /\ uiQ' = Tail(uiQ)
  <2>1. /\ uiQ' \in Seq(Kinds) /\ Len(uiQ) \in Nat /\ Len(uiQ) > 0 /\ Len(uiQ') = Len(uiQ) - 1
        /\ \A i \in 1..Len(uiQ') : uiQ'[i] = uiQ[i + 1]
        /\ Head(uiQ) = uiQ[1] /\ Head(uiQ) \in Kinds
    BY <1>1, HeadTailProperties, LenProperties DEF ProfileOnce
  <2>2. 1 \in 1..Len(uiQ) /\ \A i \in 1..Len(uiQ') : i + 1 \in 1..Len(uiQ) /\ i + 1 # 1
    BY <2>1
  <2>3. \A i, j \in 1..Len(uiQ') : i + 1 = j + 1 => i = j
    BY <2>1
  <2>4. ASSUME uiQ[1] = "profile" PROVE \A i \in 1..Len(uiQ') : uiQ'[i] # "profile"
    BY <2>1, <2>2, <2>4 DEF ProfileOnce
  <2>5. ASSUME NEW i \in 1..Len(uiQ'), uiQ'[i] = "profile"
        PROVE  /\ serviceIDs = <<>> /\ "profile" \notin hands /\ uiQ[1] # "profile"
               /\ \A j \in 1..Len(uiQ') : uiQ'[j] = "profile" => i = j
    BY <2>1, <2>2, <2>3, <2>4, <2>5 DEF ProfileOnce
  <2>6. "profile" \in hands' => serviceIDs = <<>> /\ stage \notin {"begin", "resolve"}
    BY <1>1, <2>1, <2>2 DEF ProfileOnce
  <2>7. stage \in {"begin", "resolve"} => \A i \in 1..Len(uiQ') : uiQ'[i] # "profile"
    BY <2>1, <2>2 DEF ProfileOnce
  <2> QED  BY <1>u, <1>1, <2>1, <2>5, <2>6, <2>7 DEF ProfileOnce
<1>2. CASE hands' = hands \cup {"closed"} /\ UNCHANGED uiQ
  BY <1>u, <1>2 DEF ProfileOnce, Kinds
<1> QED  BY <1>1, <1>2 DEF Receive

\* A program that quits drops what is on its way.
LEMMA QuitOnce ==
  ASSUME ProfileOnce, QuitProgram
  PROVE  ProfileOnce'
  BY DEF QuitProgram, selectionVars, ProfileOnce

\* When the profile is handled it is neither on its way nor in hand again.
LEMMA HandleOnce ==
  ASSUME ProfileOnce, NEW k \in hands, HandleMessage(k)
  PROVE  ProfileOnce'
<1>1. CASE k \in Last
  BY <1>1, QuitOnce DEF HandleMessage
<1>2. CASE k = "profile"
  <2>1. hands' = hands \ {"profile"} /\ UNCHANGED <<uiQ, stage>>
    BY <1>2 DEF HandleMessage, Last, runnerVars
  <2>2. stage \notin {"begin", "resolve"} /\ \A i \in 1..Len(uiQ) : uiQ[i] # "profile"
    BY <1>2 DEF ProfileOnce
  <2> QED  BY <2>1, <2>2 DEF ProfileOnce
<1>3. CASE k \notin Last /\ k # "profile"
  <2>1. hands' = hands \ {k} /\ UNCHANGED <<uiQ, stage, serviceIDs>>
    BY <1>3 DEF HandleMessage, HandleNotice, runnerVars, selectionVars
  <2> QED  BY <1>3, <2>1 DEF ProfileOnce
<1> QED  BY <1>1, <1>2, <1>3

\* Every stage but one announces something else.
LEMMA RunnerOnce ==
  ASSUME ProfileOnce, RunnerStep
  PROVE  ProfileOnce'
<1>1. ASSUME NEW from, NEW k \in Kinds, NEW to, k # "profile",
             to \in {"begin", "resolve"} => from \in {"begin", "resolve"}, Announce(from, k, to)
      PROVE  ProfileOnce'
  <2>1. /\ stage = from /\ stage' = to /\ Publish(k) /\ UNCHANGED <<serviceIDs, hands>>
    BY <1>1 DEF Announce, programVars, selectionVars
  <2> QED  BY <1>1, <2>1, PublishOther
<1>2. CASE Announce("resolve", "profile", "resolved")
  BY <1>2, PublishProfile DEF Announce, programVars, selectionVars
<1>3. CASE ResolveFails
  BY <1>3 DEF ResolveFails, programVars, selectionVars, ProfileOnce
<1>4. CASE RunnerStarts
  BY <1>1, <1>2, <1>3, <1>4 DEF RunnerStarts, Kinds
<1>5. CASE RunnerStops
  BY <1>1, <1>5 DEF RunnerStops, Kinds
<1> QED  BY <1>4, <1>5 DEF RunnerStep

-----------------------------------------------------------------------------
(* Every step *)

\* Every step keeps the invariant, and the highlight if the filter changes.
LEMMA StepKeeps ==
  ASSUME PanelInv, Next
  PROVE  PanelInv' /\ (serviceIDs' = serviceIDs /\ filterVars' # filterVars => KeepsHighlight)
<1>i. SelectionInv /\ ProfileOnce
  BY DEF PanelInv
<1>1. ASSUME UNCHANGED selectionVars
      PROVE  SelectionInv' /\ filterVars' = filterVars
  BY <1>i, <1>1, SameList DEF selectionVars, filterVars
<1>2. CASE RunnerStep
  <2>1. UNCHANGED selectionVars
    BY <1>2 DEF RunnerStep, RunnerStarts, RunnerStops, Announce, ResolveFails
  <2> QED  BY <1>i, <1>1, <1>2, <2>1, RunnerOnce DEF PanelInv
<1>3. CASE Signal
  BY <1>i, <1>1, <1>3, PublishOther DEF Signal, Kinds, programVars, selectionVars, PanelInv
<1>4. CASE Cancel
  BY <1>i, <1>1, <1>4 DEF Cancel, programVars, selectionVars, PanelInv, ProfileOnce
<1>5. CASE Receive
  BY <1>i, <1>1, <1>5, ReceiveOnce DEF Receive, PanelInv
<1>6. CASE Update
  <2>1. PICK k \in hands : HandleMessage(k)
    BY <1>6 DEF Update
  <2>2. ProfileOnce'
    BY <1>i, <2>1, HandleOnce
  <2>3. CASE k = "profile"
    <3>1. ResetSelection(ServiceOrder) /\ serviceIDs' = ServiceOrder
      BY <2>1, <2>3 DEF HandleMessage, Last, HandleProfileResolved, ResetSelection
    <3>2. SelectionInv'
      BY <3>1, ResetKeeps
    <3>3. ASSUME serviceIDs' = serviceIDs PROVE KeepsHighlight
      <4>1. serviceIDs' = <<>> /\ serviceIDs = <<>>
        BY <1>i, <2>3, <3>3 DEF ProfileOnce
      <4>2. Lists /\ Lists'
        BY <1>i, <3>2 DEF SelectionInv
      <4>3. Len(ActiveIDs') = 0
        BY <4>1, <4>2, ListAfter
      <4>4. Listed' = {}
        BY <4>3 DEF Listed
      <4> QED  BY <4>4 DEF KeepsHighlight
    <3> QED  BY <2>2, <3>2, <3>3 DEF PanelInv
  <2>4. CASE k # "profile"
    <3>1. UNCHANGED selectionVars
      BY <2>1, <2>4 DEF HandleMessage, QuitProgram, HandleNotice
    <3> QED  BY <1>1, <2>2, <3>1 DEF PanelInv
  <2> QED  BY <2>3, <2>4
<1>7. CASE QuitKey
  BY <1>i, <1>1, <1>7 DEF QuitKey, selectionVars, PanelInv, ProfileOnce
<1>8. CASE ForceQuit
  BY <1>i, <1>1, <1>8, QuitOnce DEF ForceQuit, QuitProgram, PanelInv
<1>9. CASE Select
  <2>1. SelectionKey /\ UNCHANGED <<uiQ, hands, stage>>
    BY <1>9 DEF Select, runnerVars, programVars
  <2>2. serviceIDs' = serviceIDs
    BY <2>1 DEF SelectionKey, FilterKey, TypeQuery, EraseQuery, ApplyFilter, AcceptFilter, ClearFilter,
       Up, Down, Move
  <2> QED  BY <1>i, <2>1, <2>2, KeyKeeps DEF PanelInv, ProfileOnce
<1> QED  BY <1>2, <1>3, <1>4, <1>5, <1>6, <1>7, <1>8, <1>9 DEF Next

\* The index, the lists and what is remembered agree in every state of the
\* program, and the profile is still to come or has come once.
THEOREM PanelInvariant == Spec => []PanelInv
<1>1. Init => PanelInv
  <2> SUFFICES ASSUME Init PROVE PanelInv
    OBVIOUS
  <2>1. /\ serviceIDs = <<>> /\ selected = 0 /\ filterQuery = Empty /\ filteredIDs = None
        /\ lastFiltered = None /\ last = None /\ stage = "begin" /\ uiQ = <<>> /\ hands = {}
    BY DEF Init, SelectionInit
  <2>2. ActiveIDs = <<>> /\ <<>> \in Seq(Services) /\ <<>> \in Seq(Kinds) /\ Len(<<>>) = 0
    BY <2>1, SelectionAssumption DEF ActiveIDs
  <2>3. Lists /\ InRange /\ ProfileOnce
    BY <2>1, <2>2, SelectionAssumption DEF Lists, InRange, ProfileOnce
  <2>4. Highlighted = None
    BY <2>1, <2>2 DEF Highlighted, At
  <2> QED  BY <2>1, <2>3, <2>4 DEF PanelInv, SelectionInv, Remembers
<1>2. PanelInv /\ [Next]_vars => PanelInv'
  <2> SUFFICES ASSUME PanelInv, UNCHANGED vars PROVE PanelInv'
    BY StepKeeps
  <2> QED  BY SameList DEF vars, runnerVars, programVars, selectionVars, filterVars, PanelInv, ProfileOnce
<1> QED  BY <1>1, <1>2, PTL DEF Spec

\* A filter never moves the highlight to another service while the one it was on
\* is listed, so that the next key acts on the service that was highlighted
\* (update.go:201-315).
THEOREM PanelSelection == Spec => SelectionStays
<1>1. PanelInv /\ [Next]_vars
        => [serviceIDs' = serviceIDs /\ filterVars' # filterVars => KeepsHighlight]_selectionVars
  <2> SUFFICES ASSUME PanelInv, [Next]_vars, selectionVars' # selectionVars,
                      serviceIDs' = serviceIDs, filterVars' # filterVars
               PROVE  KeepsHighlight
    OBVIOUS
  <2>1. Next
    BY DEF vars
  <2> QED  BY <2>1, StepKeeps
<1> QED  BY <1>1, PanelInvariant, PTL DEF Spec, SelectionStays

-----------------------------------------------------------------------------
(* The program hears of the end *)

\* As long as the program is up a command waits for the next message, or one has
\* been received whose handler will start the next command; and the last phase is
\* on its way to a panel that is still subscribed.
Hears ==
  /\ waiting \in Nat
  /\ program \in {"up", "quit"}
  /\ program = "up" =>
       /\ waiting > 0 \/ hands # {}
       /\ stage = "stopped" /\ ~cancelled =>
            "phaseStopped" \in hands \/ \E i \in 1..Len(uiQ) : uiQ[i] = "phaseStopped"

\* What is published goes to the end of what is on its way.
LEMMA PublishHears ==
  ASSUME ProfileOnce, Hears, NEW k \in Kinds, Publish(k), UNCHANGED <<cancelled, programVars>>,
         stage' = "stopped" => stage = "stopped" \/ k = "phaseStopped"
  PROVE  Hears'
<1>1. CASE uiQ' = uiQ /\ (cancelled \/ program = "quit")
  BY <1>1 DEF Hears, programVars
<1>2. CASE uiQ' = Append(uiQ, k)
  <2>1. /\ Len(uiQ) \in Nat /\ Len(uiQ') = Len(uiQ) + 1
        /\ uiQ'[Len(uiQ) + 1] = k /\ \A i \in 1..Len(uiQ) : uiQ'[i] = uiQ[i]
    BY <1>2, AppendProperties, LenProperties DEF ProfileOnce, Kinds
  <2>2. Len(uiQ) + 1 \in 1..Len(uiQ') /\ \A i \in 1..Len(uiQ) : i \in 1..Len(uiQ')
    BY <2>1
  <2> QED  BY <2>1, <2>2 DEF Hears, programVars
<1> QED  BY <1>1, <1>2 DEF Publish

\* Every handler but the last starts another command, and so does the key that quits.
LEMMA HearsKept == ASSUME ProfileOnce, Hears, Next PROVE Hears'
<1>1. ASSUME NEW from, NEW k \in Kinds, NEW to, to = "stopped" => k = "phaseStopped", Announce(from, k, to)
      PROVE  Hears'
  <2>1. stage' = to /\ Publish(k) /\ UNCHANGED <<cancelled, programVars>>
    BY <1>1 DEF Announce
  <2> QED  BY <1>1, <2>1, PublishHears
<1>2. CASE RunnerStep
  <2>1. CASE ResolveFails
    BY <2>1 DEF ResolveFails, programVars, Hears
  <2>2. CASE RunnerStarts /\ ~ResolveFails
    BY <1>1, <2>2 DEF RunnerStarts, Kinds
  <2>3. CASE RunnerStops
    BY <1>1, <2>3 DEF RunnerStops, Kinds
  <2> QED  BY <1>2, <2>1, <2>2, <2>3 DEF RunnerStep
<1>3. CASE Signal
  BY <1>3, PublishHears DEF Signal, Kinds
<1>4. CASE Cancel
  BY <1>4 DEF Cancel, programVars, Hears
<1>5. CASE Receive
  <2>1. waiting' \in Nat /\ hands' # {} /\ UNCHANGED <<program, stage, cancelled>>
    <3>1. waiting' = waiting - 1 /\ waiting > 0 /\ UNCHANGED <<program, stage, cancelled>>
      BY <1>5 DEF Receive
    <3>2. \E k : k \in hands'
      BY <1>5 DEF Receive
    <3> QED  BY <3>1, <3>2 DEF Hears
  <2>2. CASE uiQ # <<>> /\ hands' = hands \cup {Head(uiQ)} /\ uiQ' = Tail(uiQ)
    <3>1. /\ Len(uiQ) \in Nat /\ Len(uiQ') = Len(uiQ) - 1 /\ Head(uiQ) = uiQ[1]
          /\ \A i \in 1..Len(uiQ') : uiQ'[i] = uiQ[i + 1]
      BY <2>2, HeadTailProperties, LenProperties DEF ProfileOnce
    <3>2. ASSUME NEW i \in 1..Len(uiQ), uiQ[i] = "phaseStopped", "phaseStopped" \notin hands'
          PROVE  \E j \in 1..Len(uiQ') : uiQ'[j] = "phaseStopped"
      <4>1. i # 1
        BY <2>2, <3>1, <3>2
      <4>2. i - 1 \in 1..Len(uiQ') /\ (i - 1) + 1 = i
        BY <3>1, <4>1
      <4> QED  BY <3>1, <3>2, <4>2
    <3>3. "phaseStopped" \in hands => "phaseStopped" \in hands'
      BY <2>2
    <3> QED  BY <2>1, <3>2, <3>3 DEF Hears
  <2>3. CASE uiQ' = uiQ /\ hands' = hands \cup {"closed"}
    BY <2>1, <2>3 DEF Hears
  <2> QED  BY <1>5, <2>2, <2>3 DEF Receive
<1>6. ASSUME QuitProgram PROVE Hears'
  BY <1>6 DEF QuitProgram, Hears
<1>7. ASSUME NEW k \in hands, HandleMessage(k) PROVE Hears'
  <2>1. CASE k \in Last
    BY <1>6, <1>7, <2>1 DEF HandleMessage
  <2>2. CASE k \notin Last
    <3>1. hands' = hands \ {k} /\ waiting' = waiting + 1 /\ UNCHANGED <<stage, cancelled, uiQ, program>>
          /\ k # "phaseStopped"
      BY <1>7, <2>2 DEF HandleMessage, Waits, runnerVars, Last
    <3> QED  BY <3>1 DEF Hears
  <2> QED  BY <2>1, <2>2
<1>8. CASE QuitKey
  BY <1>8 DEF QuitKey, Hears
<1>9. CASE ForceQuit
  BY <1>6, <1>9 DEF ForceQuit
<1>10. CASE Select
  BY <1>10 DEF Select, runnerVars, programVars, Hears
<1> QED  BY <1>2, <1>3, <1>4, <1>5, <1>7, <1>8, <1>9, <1>10 DEF Next, Update

\* Whatever messages and keys arrive, a program that is up is never deaf, and the
\* end of the runner is on its way to it: no handler breaks the chain of commands
\* (update.go:444, 504-518).
THEOREM PanelHears == Spec => []Hears
<1>1. Init => Hears
  <2> SUFFICES ASSUME Init PROVE Hears
    OBVIOUS
  <2>1. waiting = 1 /\ program = "up" /\ stage = "begin"
    BY DEF Init
  <2> QED  BY <2>1 DEF Hears
<1>2. PanelInv /\ Hears /\ [Next]_vars => Hears'
  <2> SUFFICES ASSUME Hears, UNCHANGED vars PROVE Hears'
    BY HearsKept DEF PanelInv
  <2> QED  BY DEF vars, runnerVars, programVars, Hears
<1> QED  BY <1>1, <1>2, PanelInvariant, PTL DEF Spec

=============================================================================
