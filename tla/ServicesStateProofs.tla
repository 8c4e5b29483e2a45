------------------------- MODULE ServicesStateProofs -------------------------
(***************************************************************************)
(* Proofs about the panel's records for any services, any number of        *)
(* messages and any length of the channels: the panel never goes back to   *)
(* an older event, and a start takes as many slots of the timeline as it   *)
(* lasted or was sampled, whichever of its two sources the panel heard of  *)
(* it from first; and a tick finds the store and the panel in agreement    *)
(* with the last event, once all that was published has arrived.           *)
(***************************************************************************)
EXTENDS ServicesState, SequenceTheorems, WellFoundedInduction, TLAPS

Positions == 1..Len(log)

Kinds == Statuses \cup Watch \cup {"profile"}

Message == [kind : Kinds, id : Services \cup {""}, attempt : Nat, age : Nat]

\* The profile is the first message, and every other is about a service.
Positioned ==
  \A n \in Positions : /\ log[n].kind = "profile" <=> n = 1
                       /\ log[n].kind # "profile" => log[n].id \in Services
                       /\ log[n].kind \in {"starting", "running"} => log[n].attempt > 0

\* The events of a service have the attempt they are about: every start is a new
\* one.
Attempts ==
  \A s \in Services : \A j, k \in Of(s) : j < k =>
    /\ log[j].attempt <= log[k].attempt
    /\ log[k].kind = "starting" => log[j].attempt < log[k].attempt

Log == log \in Seq(Message) /\ Positioned /\ Attempts

LifeOK ==
  /\ life \in [Services -> [attempt : Nat, age : Nat]]
  /\ \A s \in Services : \A n \in Of(s) : log[n].attempt <= life[s].attempt

Increasing(q) == \A i, j \in 1..Len(q) : i < j => q[i] < q[j]

\* The messages come to the panel once each, and to the store once each and in
\* order; the profile has come to the panel when it knows the services.
Queues ==
  /\ uiQ \in Seq(Positions) /\ storeQ \in Seq(Positions) /\ hands \subseteq Positions
  /\ Increasing(uiQ) /\ Increasing(storeQ)
  /\ \A n \in hands : \A i \in 1..Len(uiQ) : n < uiQ[i]
  /\ known # {} => log # <<>> /\ 1 \notin hands /\ \A i \in 1..Len(uiQ) : uiQ[i] # 1

\* The fields of r are those of the event it shows.
Shows(s, r) ==
  /\ r.seq > 0 => r.seq \in Of(s) /\ r.status = log[r.seq].kind
  /\ r.seq = 0 => r.status = "starting"

Snapshot ==
  [status : Statuses, seq : Nat, attempt : Nat, timed : BOOLEAN, watching : BOOLEAN,
   watchSeq : Nat, age : Nat]

State ==
  [status : Statuses, seq : Nat, attempt : Nat, timed : BOOLEAN, watching : BOOLEAN,
   watchSeq : Nat, sampled : Nat, backfilled : Nat, active : BOOLEAN, begun : BOOLEAN,
   seen : Nat, filled : Nat]

\* A record knows no attempt later than that of the event it shows.
Attempted(r) ==
  /\ r.seq = 0 => r.attempt = 0
  /\ r.seq > 0 => r.attempt <= log[r.seq].attempt
  /\ r.seq > 0 /\ log[r.seq].kind \in {"starting", "running"} => r.attempt = log[r.seq].attempt

StoreOK ==
  /\ store \in [Services -> Snapshot]
  /\ \A s \in Services : /\ Shows(s, store[s]) /\ Attempted(store[s])
                         /\ store[s].seq > 0 => store[s].age = log[store[s].seq].age
                         /\ \A i \in 1..Len(storeQ) : store[s].seq < storeQ[i]

\* The event n ends a start that nothing came between.
Straight(n) ==
  /\ log[n].kind = "running" /\ log[n].age > 0
  /\ Before(n) # {} /\ log[Last(Before(n))].kind = "starting"

\* The timeline of a record: what was sampled of a start in progress, and what the
\* end of a start has filled in, once.
Timeline(u) ==
  /\ u.backfilled <= u.seq
  /\ u.seq > 0 /\ u.status = "starting" => u.active /\ u.sampled = u.seen /\ u.filled = 0
  /\ u.seq > 0 /\ Straight(u.seq) =>
       u.backfilled = u.seq /\ u.filled + u.seen = AtLeast(u.seen, log[u.seq].age)

Good(s, u) == u \in State /\ Shows(s, u) /\ Attempted(u) /\ Timeline(u)

PanelOK ==
  /\ known \in {{}, Services}
  /\ DOMAIN ui = Services
  /\ \A s \in Services : Good(s, ui[s])

StateInv == Log /\ LifeOK /\ Queues /\ StoreOK /\ PanelOK

USE DEF busVars, programVars, stateVars

-----------------------------------------------------------------------------
(* The log *)

\* Every non-empty set of numbers has a least one.
LEMMA LeastNumber ==
  ASSUME NEW T, T \subseteq Nat, T # {} PROVE \E n \in T : \A m \in T : n <= m
<1> DEFINE R == {p \in Nat \X Nat : p[1] < p[2]}
<1>1. IsWellFoundedOn(R, Nat)
  BY NatLessThanWellFounded DEF OpToRel
<1>2. \A x, y \in Nat : x < y => <<x, y>> \in R
  OBVIOUS
<1> HIDE DEF R
<1>3. PICK n \in T : \A m \in T : ~ (<<m, n>> \in R)
  BY <1>1, WFMin
<1>4. \A m \in T : ~ (m < n)
  BY <1>2, <1>3
<1> QED  BY <1>4

\* The last of some events is one of them.
LEMMA LastIsLast ==
  ASSUME NEW max \in Nat, NEW S, S \subseteq 1..max, S # {}
  PROVE  Last(S) \in S /\ \A k \in S : k <= Last(S)
<1> DEFINE T == {max - k : k \in S}
<1>k. \A k \in S : max - k \in Nat
  OBVIOUS
<1>e. PICK e \in S : TRUE
  OBVIOUS
<1>1. T \subseteq Nat /\ T # {}
  BY <1>k, <1>e
<1>2. PICK m \in T : \A t \in T : m <= t
  BY <1>1, LeastNumber
<1>3. PICK n \in S : m = max - n
  OBVIOUS
<1>4. \A k \in S : k <= n
  <2> TAKE k \in S
  <2>1. max - k \in T
    OBVIOUS
  <2>2. max - n <= max - k
    BY <1>2, <1>3, <2>1
  <2> QED  BY <2>2
<1> QED  BY <1>4 DEF Last

\* An event has the attempt of those before it, or a later one when it is a start.
LEMMA EventFacts ==
  ASSUME Log, NEW s \in Services, NEW n \in Of(s)
  PROVE  /\ n \in Positions /\ n \in Nat /\ n > 0 /\ log[n] \in Message
         /\ log[n].id = s /\ log[n].kind \in Statuses /\ log[n].attempt \in Nat /\ log[n].age \in Nat
         /\ log[n].kind \in {"starting", "running"} => log[n].attempt > 0
         /\ \A j \in Of(s) : j < n =>
              /\ log[j].attempt \in Nat /\ log[j].attempt <= log[n].attempt
              /\ log[n].kind = "starting" => log[j].attempt < log[n].attempt
<1>1. n \in Positions /\ n \in Nat /\ n > 0 /\ log[n].id = s /\ log[n].kind \in Statuses
  BY DEF Log, Positioned, Attempts, Of, Positions
<1>2. \A k \in Of(s) : log[k] \in Message
  BY DEF Log, Positioned, Attempts, Of, Positions
<1>3. \A k \in Of(s) : log[k].attempt \in Nat /\ log[k].age \in Nat
  BY <1>2 DEF Message
<1> QED  BY <1>1, <1>2, <1>3 DEF Log, Positioned, Attempts

\* A record that knows the attempt of a start that went straight to ready shows
\* that start or its end.
LEMMA StartKnown ==
  ASSUME Log, NEW s \in Services, NEW n \in Of(s), Straight(n), NEW u \in State,
         Shows(s, u), Attempted(u), u.seq <= n, u.attempt = log[n].attempt
  PROVE  u.seq = n \/ (u.seq > 0 /\ u.status = "starting" /\ log[u.seq].kind = "starting")
<1> DEFINE p == Last(Before(n))
<1>1. Before(n) \subseteq 1..Len(log) /\ Before(n) # {} /\ Len(log) \in Nat
  BY DEF Straight, Before, Of, Log, Positioned, Attempts
<1>2. p \in Before(n) /\ \A k \in Before(n) : k <= p
  BY <1>1, LastIsLast
<1>3. log[p].kind = "starting"
  BY DEF Straight
<1> HIDE DEF p
<1>4. p \in Of(s) /\ p < n
  BY <1>2, EventFacts DEF Before
<1>5. u.seq \in Nat /\ u.attempt \in Nat
  BY DEF State
<1>6. log[n].attempt > 0
  BY EventFacts DEF Straight
<1>7. u.seq > 0
  BY <1>5, <1>6 DEF Attempted
<1>8. u.seq \in Of(s) /\ u.status = log[u.seq].kind /\ u.attempt <= log[u.seq].attempt
  BY <1>7 DEF Shows, Attempted
<1>9. ASSUME u.seq # n PROVE u.seq = p
  <2>1. u.seq \in Before(n)
    BY <1>5, <1>8, <1>9, EventFacts DEF Before
  <2>2. u.seq <= p
    BY <1>2, <2>1
  <2>3. ~ (u.seq < p)
    <3> SUFFICES ASSUME u.seq < p PROVE FALSE
      OBVIOUS
    <3>1. log[u.seq].attempt < log[p].attempt /\ log[u.seq].attempt \in Nat /\ log[p].attempt \in Nat
      BY <1>3, <1>4, <1>8, EventFacts
    <3>2. log[p].attempt <= log[n].attempt /\ log[n].attempt \in Nat
      BY <1>4, EventFacts
    <3> QED  BY <1>5, <1>8, <3>1, <3>2
  <2>4. p \in Nat
    BY <1>4, EventFacts
  <2> QED  BY <1>5, <2>2, <2>3, <2>4
<1> QED  BY <1>3, <1>7, <1>8, <1>9

-----------------------------------------------------------------------------
(* Operators on one record *)

\* A service without events, as the panel has it.
LEMMA NewStateGood ==
  ASSUME NEW s PROVE Good(s, NewState) /\ NewState.seq = 0
<1>1. NewState \in State
  BY DEF NewState, State, Statuses
<1> QED  BY <1>1 DEF NewState, Good, Shows, Attempted, Timeline, Straight

\* A service without events, as the store has it.
LEMMA NewSnapshotGood ==
  ASSUME NEW s
  PROVE  /\ NewSnapshot \in Snapshot /\ Shows(s, NewSnapshot) /\ Attempted(NewSnapshot)
         /\ NewSnapshot.seq = 0
BY DEF NewSnapshot, Snapshot, Statuses, Shows, Attempted

\* What Know sets and what it keeps.
LEMMA KnowFields ==
  ASSUME NEW u \in State, NEW a \in Nat
  PROVE  /\ Know(u, a) \in State /\ Know(u, a).attempt = a
         /\ Know(u, a).seq = u.seq /\ Know(u, a).status = u.status
         /\ Know(u, a).sampled = u.sampled /\ Know(u, a).backfilled = u.backfilled
         /\ Know(u, a).active = u.active
         /\ u.attempt = a => Know(u, a) = u
         /\ u.attempt # a => Know(u, a).seen = 0 /\ Know(u, a).filled = 0
<1>1. CASE u.attempt = a
  BY <1>1 DEF Know
<1>2. CASE u.attempt # a
  BY <1>2 DEF Know, State
<1> QED  BY <1>1, <1>2

\* What Backfill for the event n, asked for again or not, makes of u.
Filling(u, n, a, age, b) ==
  /\ b \in State
  /\ b.seq = u.seq /\ b.status = u.status /\ b.attempt = u.attempt
  /\ b.active = u.active /\ b.seen = u.seen
  /\ b.backfilled = u.backfilled \/ b.backfilled = n
  /\ u.backfilled >= n \/ a = 0 \/ age = 0 => b = u
  /\ u.backfilled < n /\ a > 0 /\ age > 0 =>
       b.backfilled = n /\ b.filled = u.filled + AtLeast(age - u.sampled, 0)

\* Backfill, case by case.
LEMMA Filled ==
  ASSUME NEW u \in State, NEW n \in Nat, NEW a \in Nat, NEW age \in Nat
  PROVE  Filling(u, n, a, age, Backfill(u, n, a, age))
<1> DEFINE b == Backfill(u, n, a, age)
<1> SUFFICES Filling(u, n, a, age, b)
  OBVIOUS
<1>1. CASE u.backfilled >= n \/ a = 0 \/ age = 0
  BY <1>1 DEF Backfill, State, Filling
<1>2. CASE ~ (u.backfilled >= n \/ a = 0 \/ age = 0)
  <2> DEFINE missing == AtLeast(age - u.sampled, 0)
             w == [u EXCEPT !.backfilled = n, !.sampled = AtLeast(@, age), !.begun = @ \/ missing > 0,
                            !.filled = @ + missing]
  <2>1. Backfill(u, n, a, age) = w
    BY <1>2 DEF Backfill
  <2>2. u.sampled \in Nat /\ u.filled \in Nat /\ u.backfilled \in Nat
    BY DEF State
  <2>3. missing \in Nat /\ AtLeast(u.sampled, age) \in Nat /\ u.filled + missing \in Nat
    BY <2>2 DEF AtLeast
  <2>4. (u.begun \/ missing > 0) \in BOOLEAN
    OBVIOUS
  <2> HIDE DEF missing
  <2>5. w \in State
    BY <2>3, <2>4 DEF State
  <2>6. /\ w.seq = u.seq /\ w.status = u.status /\ w.attempt = u.attempt
        /\ w.active = u.active /\ w.seen = u.seen /\ w.backfilled = n /\ w.filled = u.filled + missing
    BY DEF State
  <2> HIDE DEF w
  <2>7. b = w
    BY <2>1
  <2> HIDE DEF b
  <2> QED  BY <1>2, <2>2, <2>5, <2>6, <2>7 DEF missing, Filling
<1> QED  BY <1>1, <1>2

-----------------------------------------------------------------------------
(* The handlers *)

\* What a handler leaves, once the record shows its event.
Marked(u, n) == [u EXCEPT !.seq = n, !.status = log[n].kind]

\* What a record marked with an event shows.
LEMMA MarkedFields ==
  ASSUME Log, NEW s \in Services, NEW n \in Of(s), NEW u \in State
  PROVE  /\ Marked(u, n) \in State /\ Shows(s, Marked(u, n))
         /\ Marked(u, n).seq = n /\ Marked(u, n).status = log[n].kind
         /\ Marked(u, n).attempt = u.attempt /\ Marked(u, n).sampled = u.sampled
         /\ Marked(u, n).backfilled = u.backfilled /\ Marked(u, n).active = u.active
         /\ Marked(u, n).seen = u.seen /\ Marked(u, n).filled = u.filled
<1>1. n \in Nat /\ n > 0 /\ log[n].kind \in Statuses
  BY EventFacts
<1>2. Marked(u, n) \in State
  BY <1>1 DEF Marked, State
<1>3. /\ Marked(u, n).seq = n /\ Marked(u, n).status = log[n].kind
      /\ Marked(u, n).attempt = u.attempt /\ Marked(u, n).sampled = u.sampled
      /\ Marked(u, n).backfilled = u.backfilled /\ Marked(u, n).active = u.active
      /\ Marked(u, n).seen = u.seen /\ Marked(u, n).filled = u.filled
  BY DEF Marked, State
<1> QED  BY <1>1, <1>2, <1>3 DEF Shows

\* A start: its timeline begins, unless the store told of it before.
LEMMA StartingGood ==
  ASSUME Log, NEW s \in Services, NEW n \in Of(s), NEW u, Good(s, u), u.seq <= n,
         log[n].kind = "starting"
  PROVE  Good(s, Marked(AsStarting(u, n), n)) /\ Marked(AsStarting(u, n), n).seq = n
<1> DEFINE a == log[n].attempt
           v == IF u.attempt = a THEN u ELSE [u EXCEPT !.sampled = 0, !.backfilled = 0]
           k == Know(v, a)
           w == AsStarting(u, n)
<1>1. u \in State /\ Shows(s, u) /\ Attempted(u) /\ Timeline(u) /\ a \in Nat /\ a > 0 /\ n \in Nat /\ n > 0
  BY EventFacts DEF Good
<1>2. u.seq \in Nat /\ u.attempt \in Nat /\ u.backfilled \in Nat /\ u.seen \in Nat
  BY <1>1 DEF State
<1>3. /\ v \in State /\ v.attempt = u.attempt
      /\ u.attempt # a => v.sampled = 0 /\ v.backfilled = 0
      /\ u.attempt = a => v = u
  BY <1>1 DEF State
<1> HIDE DEF v, a
<1>4. /\ k \in State /\ k.attempt = a /\ k.sampled = v.sampled /\ k.backfilled = v.backfilled
      /\ v.attempt = a => k = v
      /\ v.attempt # a => k.seen = 0 /\ k.filled = 0
  BY <1>1, <1>3, KnowFields
<1>5. w = [k EXCEPT !.active = TRUE, !.timed = TRUE]
  BY DEF AsStarting, v, a
<1>6. u.attempt = a => k = u
  BY <1>3, <1>4
<1> HIDE DEF k, w
<1>7. w \in State /\ w.active /\ w.attempt = a /\ w.sampled = k.sampled /\ w.backfilled = k.backfilled
      /\ w.seen = k.seen /\ w.filled = k.filled
  BY <1>4, <1>5 DEF State
<1>8. u.attempt = a => u.seq = n
  <2> SUFFICES ASSUME u.attempt = a, u.seq # n PROVE FALSE
    OBVIOUS
  <2>1. u.seq > 0
    BY <1>1, <1>2 DEF Attempted
  <2>2. u.seq \in Of(s) /\ u.attempt <= log[u.seq].attempt
    BY <1>1, <2>1 DEF Shows, Attempted
  <2>3. log[u.seq].attempt < a /\ log[u.seq].attempt \in Nat
    BY <1>1, <1>2, <2>2, EventFacts DEF a
  <2> QED  BY <1>1, <1>2, <2>2, <2>3
<1>9. w.backfilled <= n /\ w.sampled = w.seen /\ w.filled = 0
  <2>1. CASE u.attempt = a
    <3>1. k = u /\ u.seq = n /\ u.status = "starting"
      BY <1>1, <1>6, <1>8, <2>1 DEF Shows
    <3> QED  BY <1>1, <1>7, <3>1 DEF Timeline
  <2>2. CASE u.attempt # a
    BY <1>1, <1>3, <1>4, <1>7, <2>2
  <2> QED  BY <2>1, <2>2
<1> DEFINE m == Marked(w, n)
<1>10. /\ m \in State /\ Shows(s, m) /\ m.seq = n /\ m.status = "starting" /\ m.attempt = a
       /\ m.sampled = w.sampled /\ m.backfilled = w.backfilled /\ m.active = w.active
       /\ m.seen = w.seen /\ m.filled = w.filled
  BY <1>7, MarkedFields
<1> HIDE DEF m
<1>11. Attempted(m)
  BY <1>1, <1>10 DEF Attempted, a
<1>12. Timeline(m)
  BY <1>7, <1>9, <1>10 DEF Timeline, Straight
<1>13. Good(s, m)
  BY <1>10, <1>11, <1>12 DEF Good
<1> QED  BY <1>10, <1>13 DEF m, w

\* What filling in at the end of a start comes to: the slots sampled, or the age.
LEMMA Summed ==
  ASSUME NEW seen \in Nat, NEW age \in Nat
  PROVE  AtLeast(age - seen, 0) + seen = AtLeast(seen, age)
BY DEF AtLeast

\* A process runs: what is missing of its start is filled in, unless the store's
\* snapshot did.
LEMMA RunningGood ==
  ASSUME Log, NEW s \in Services, NEW n \in Of(s), NEW u, Good(s, u), u.seq <= n,
         log[n].kind = "running"
  PROVE  Good(s, Marked(AsRunning(u, n), n)) /\ Marked(AsRunning(u, n), n).seq = n
<1> DEFINE a == log[n].attempt
           age == log[n].age
           v == IF u.attempt = a THEN u
                ELSE [u EXCEPT !.active = TRUE, !.sampled = 0, !.backfilled = 0]
           k == Know(v, a)
           b == Backfill(k, n, a, age)
           w == IF v.active THEN b ELSE v
           r == AsRunning(u, n)
<1>1. u \in State /\ Shows(s, u) /\ Attempted(u) /\ Timeline(u) /\ a \in Nat /\ a > 0 /\ n \in Nat /\ n > 0
      /\ age \in Nat
  BY EventFacts DEF Good
<1>2. u.seq \in Nat /\ u.attempt \in Nat /\ u.backfilled \in Nat /\ u.seen \in Nat
  BY <1>1 DEF State
<1>3. /\ v \in State /\ v.attempt = u.attempt
      /\ u.attempt # a => v.active /\ v.sampled = 0 /\ v.backfilled = 0
      /\ u.attempt = a => v = u
  BY <1>1 DEF State
<1>d. u.attempt = log[n].attempt <=> u.attempt = a
  OBVIOUS
<1> HIDE DEF v, a, age
<1>4. /\ k \in State /\ k.attempt = a /\ k.sampled = v.sampled /\ k.backfilled = v.backfilled
      /\ v.attempt = a => k = v
      /\ v.attempt # a => k.seen = 0 /\ k.filled = 0
  BY <1>1, <1>3, KnowFields
<1>b. b = Backfill(k, n, a, age)
  OBVIOUS
<1> HIDE DEF b, k
<1>5. /\ b \in State /\ b.attempt = k.attempt /\ b.seen = k.seen
      /\ b.backfilled = k.backfilled \/ b.backfilled = n
      /\ k.backfilled >= n \/ a = 0 \/ age = 0 => b = k
      /\ k.backfilled < n /\ a > 0 /\ age > 0 =>
           b.backfilled = n /\ b.filled = k.filled + AtLeast(age - k.sampled, 0)
  <2>1. Filling(k, n, a, age, Backfill(k, n, a, age))
    BY <1>1, <1>4, Filled
  <2>2. Filling(k, n, a, age, b)
    BY <2>1, <1>b
  <2> QED  BY <2>2 DEF Filling
<1>6. r = [w EXCEPT !.active = FALSE, !.timed = TRUE]
  BY DEF AsRunning, v, b, k, a, age
<1>7. w \in State /\ w.attempt = a
  BY <1>3, <1>4, <1>5
<1> HIDE DEF r
<1>8. r \in State /\ r.attempt = a /\ r.backfilled = w.backfilled /\ r.seen = w.seen /\ r.filled = w.filled
  <2> HIDE DEF w
  <2> QED  BY <1>6, <1>7 DEF State
<1>9. r.backfilled <= n
  <2>1. k.backfilled <= n
    BY <1>1, <1>2, <1>3, <1>4 DEF Timeline
  <2>2. v.backfilled <= n
    BY <1>4, <2>1
  <2> QED  BY <1>1, <1>5, <1>8, <2>1, <2>2
<1>10. ASSUME Straight(n) PROVE r.backfilled = n /\ r.filled + r.seen = AtLeast(r.seen, age)
  <2>1. age > 0
    BY <1>10 DEF Straight, age
  <2>2. CASE u.attempt # a
    <3>1. w = b /\ k.seen = 0 /\ k.filled = 0 /\ k.sampled = 0 /\ k.backfilled = 0
      BY <1>3, <1>4, <2>2
    <3>2. b.backfilled = n /\ b.filled = 0 + AtLeast(age - 0, 0) /\ b.seen = 0
      BY <1>1, <1>5, <2>1, <3>1
    <3> QED  BY <1>1, <1>8, <3>1, <3>2 DEF AtLeast
  <2>3. CASE u.attempt = a
    <3>1. v = u /\ k = u
      BY <1>3, <1>4, <2>3
    <3>2. u.seq = n \/ (u.seq > 0 /\ u.status = "starting")
      BY <1>1, <1>10, <1>d, <2>3, StartKnown
    <3>3. CASE u.seq = n
      <4>1. u.backfilled = n /\ u.filled + u.seen = AtLeast(u.seen, age)
        BY <1>1, <1>10, <3>3 DEF Timeline, age
      <4>2. b = u
        BY <1>1, <1>5, <3>1, <4>1
      <4>3. w = u
        BY <3>1, <4>2
      <4> QED  BY <1>8, <4>1, <4>3
    <3>4. CASE u.seq # n /\ u.seq > 0 /\ u.status = "starting"
      <4>1. u.active /\ u.sampled = u.seen /\ u.filled = 0 /\ u.backfilled < n
        BY <1>1, <1>2, <3>4 DEF Timeline
      <4>2. w = b
        BY <3>1, <4>1
      <4>3. b.backfilled = n /\ b.filled = 0 + AtLeast(age - u.seen, 0) /\ b.seen = u.seen
        BY <1>1, <1>5, <2>1, <3>1, <4>1
      <4>4. b.filled = AtLeast(age - u.seen, 0)
        BY <1>1, <1>2, <4>3 DEF AtLeast
      <4>5. b.filled + b.seen = AtLeast(b.seen, age)
        BY <1>1, <1>2, <4>3, <4>4, Summed
      <4> QED  BY <1>8, <4>2, <4>3, <4>5
    <3> QED  BY <3>2, <3>3, <3>4
  <2> QED  BY <2>2, <2>3
<1> DEFINE m == Marked(r, n)
<1>11. /\ m \in State /\ Shows(s, m) /\ m.seq = n /\ m.status = "running" /\ m.attempt = a
       /\ m.backfilled = r.backfilled /\ m.seen = r.seen /\ m.filled = r.filled
  BY <1>8, MarkedFields
<1> HIDE DEF m
<1>12. Attempted(m)
  BY <1>1, <1>11 DEF Attempted, a
<1>13. Timeline(m)
  BY <1>9, <1>10, <1>11 DEF Timeline, age
<1>14. Good(s, m)
  BY <1>11, <1>12, <1>13 DEF Good
<1> QED  BY <1>11, <1>14 DEF m, r

\* The other events leave the timeline alone.
LEMMA OtherGood ==
  ASSUME Log, NEW s \in Services, NEW n \in Of(s), NEW u, Good(s, u), u.seq <= n,
         log[n].kind \notin {"starting", "running"}
  PROVE  Good(s, Marked(Handled(u, n), n)) /\ Marked(Handled(u, n), n).seq = n
<1> DEFINE w == Handled(u, n)
           m == Marked(w, n)
<1>1. u \in State /\ Shows(s, u) /\ Attempted(u) /\ Timeline(u)
      /\ log[n].attempt \in Nat /\ n \in Nat /\ n > 0
  BY EventFacts DEF Good
<1>2. u.seq \in Nat /\ u.attempt \in Nat /\ u.backfilled \in Nat
  BY <1>1 DEF State
<1>3. w = u \/ w = [u EXCEPT !.timed = FALSE]
  BY DEF Handled
<1> HIDE DEF w
<1>4. w \in State /\ w.attempt = u.attempt /\ w.backfilled = u.backfilled
  BY <1>1, <1>3 DEF State
<1>5. /\ m \in State /\ Shows(s, m) /\ m.seq = n /\ m.status = log[n].kind /\ m.attempt = u.attempt
      /\ m.backfilled = u.backfilled
  BY <1>4, MarkedFields
<1> HIDE DEF m
<1>6. u.attempt <= log[n].attempt
  <2>1. CASE u.seq = 0
    BY <1>1, <2>1 DEF Attempted
  <2>2. CASE u.seq > 0
    <3>1. u.seq \in Of(s) /\ u.attempt <= log[u.seq].attempt
      BY <1>1, <2>2 DEF Shows, Attempted
    <3>2. u.seq = n \/ (log[u.seq].attempt \in Nat /\ log[u.seq].attempt <= log[n].attempt)
      BY <1>1, <1>2, <3>1, EventFacts
    <3> QED  BY <1>1, <1>2, <3>1, <3>2
  <2> QED  BY <1>2, <2>1, <2>2
<1>7. Attempted(m)
  BY <1>1, <1>5, <1>6 DEF Attempted
<1>8. Timeline(m)
  <2>1. m.backfilled <= m.seq
    BY <1>1, <1>2, <1>5 DEF Timeline
  <2> QED  BY <1>5, <2>1 DEF Timeline, Straight
<1>9. Good(s, m)
  BY <1>5, <1>7, <1>8 DEF Good
<1> QED  BY <1>5, <1>9 DEF m, w

\* Every event that is not older leaves a good record.
LEMMA HandledGood ==
  ASSUME Log, NEW s \in Services, NEW n \in Of(s), NEW u, Good(s, u), u.seq <= n
  PROVE  Good(s, Marked(Handled(u, n), n)) /\ Marked(Handled(u, n), n).seq = n
<1>1. CASE log[n].kind = "starting"
  BY <1>1, StartingGood DEF Handled
<1>2. CASE log[n].kind = "running"
  BY <1>2, RunningGood DEF Handled
<1> QED  BY <1>1, <1>2, OtherGood

-----------------------------------------------------------------------------
(* The ticks *)

\* A start that the store tells of.
LEMMA ReconciledStart ==
  ASSUME Log, NEW s \in Services, NEW u \in State, Shows(s, u), Attempted(u), Timeline(u),
         NEW p \in Snapshot, Shows(s, p), Attempted(p), u.seq <= p.seq,
         p.seq > 0, p.status = "starting", u.attempt = p.attempt
  PROVE  u.sampled = u.seen /\ u.filled = 0
<1>1. /\ u.seq \in Nat /\ u.attempt \in Nat /\ p.seq \in Nat /\ p.attempt \in Nat
  BY DEF State, Snapshot
<1>2. p.seq \in Of(s) /\ log[p.seq].kind = "starting" /\ p.attempt = log[p.seq].attempt
  BY DEF Shows, Attempted
<1>3. p.attempt > 0
  BY <1>2, EventFacts
<1>4. u.seq > 0
  BY <1>1, <1>3 DEF Attempted
<1>5. u.seq \in Of(s) /\ u.status = log[u.seq].kind /\ u.attempt <= log[u.seq].attempt
  BY <1>4 DEF Shows, Attempted
<1>6. u.seq = p.seq
  <2> SUFFICES ASSUME u.seq < p.seq PROVE FALSE
    BY <1>1
  <2>1. log[u.seq].attempt < log[p.seq].attempt /\ log[u.seq].attempt \in Nat
    BY <1>2, <1>5, EventFacts
  <2> QED  BY <1>1, <1>2, <1>5, <2>1
<1> QED  BY <1>2, <1>4, <1>5, <1>6 DEF Timeline

\* The end of a start that the store tells of: b is the record after Backfill.
LEMMA ReconciledEnd ==
  ASSUME Log, NEW s \in Services, NEW u \in State, Shows(s, u), Attempted(u), Timeline(u),
         NEW p \in Snapshot, Shows(s, p), Attempted(p), u.seq <= p.seq,
         p.seq > 0, Straight(p.seq), p.age = log[p.seq].age,
         NEW k \in State, k.backfilled = u.backfilled,
         u.attempt = p.attempt => k = u,
         u.attempt # p.attempt => k.sampled = 0 /\ k.seen = 0 /\ k.filled = 0,
         NEW b, Filling(k, p.seq, p.attempt, p.age, b)
  PROVE  b.backfilled = p.seq /\ b.filled + b.seen = AtLeast(b.seen, p.age)
<1> DEFINE n == p.seq
           age == p.age
<1>1. /\ u.seq \in Nat /\ u.attempt \in Nat /\ u.backfilled \in Nat /\ u.seen \in Nat
      /\ n \in Nat /\ p.attempt \in Nat /\ age \in Nat
  BY DEF State, Snapshot
<1>2. n \in Of(s) /\ log[n].kind = "running" /\ p.attempt = log[n].attempt
  BY DEF Shows, Attempted, Straight
<1>3. p.attempt > 0 /\ age > 0
  BY <1>2, EventFacts DEF Straight
<1>4. u.backfilled <= u.seq
  BY DEF Timeline
<1>5. b.seen = k.seen
      /\ (k.backfilled >= n => b = k)
      /\ (k.backfilled < n => b.backfilled = n /\ b.filled = k.filled + AtLeast(age - k.sampled, 0))
  BY <1>3 DEF Filling
<1>6. CASE u.attempt # p.attempt
  <2>1. u.seq < n
    <3> SUFFICES ASSUME u.seq = n PROVE FALSE
      BY <1>1
    <3> QED  BY <1>2, <1>6 DEF Attempted
  <2>2. k.backfilled < n
    BY <1>1, <1>4, <2>1
  <2>3. b.backfilled = n /\ b.filled = 0 + AtLeast(age - 0, 0) /\ b.seen = 0
    BY <1>5, <1>6, <2>2
  <2> QED  BY <1>1, <2>3 DEF AtLeast
<1>7. CASE u.attempt = p.attempt
  <2>1. u.seq = n \/ (u.seq > 0 /\ u.status = "starting")
    BY <1>2, <1>7, StartKnown
  <2>2. CASE u.seq = n
    <3>1. u.backfilled = n /\ u.filled + u.seen = AtLeast(u.seen, age)
      BY <2>2 DEF Timeline
    <3>2. b = u
      BY <1>1, <1>5, <1>7, <3>1
    <3> QED  BY <3>1, <3>2
  <2>3. CASE u.seq # n /\ u.seq > 0 /\ u.status = "starting"
    <3>1. u.sampled = u.seen /\ u.filled = 0 /\ u.backfilled < n
      BY <1>1, <2>3 DEF Timeline
    <3>2. b.backfilled = n /\ b.filled = 0 + AtLeast(age - u.seen, 0) /\ b.seen = u.seen
      BY <1>5, <1>7, <3>1
    <3>3. b.filled = AtLeast(age - u.seen, 0)
      BY <1>1, <3>2 DEF AtLeast
    <3> QED  BY <1>1, <3>2, <3>3, Summed
  <2> QED  BY <2>1, <2>2, <2>3
<1> QED  BY <1>6, <1>7

\* A record taken from the store is good, whatever part of the same events the
\* panel has had from the bus.
LEMMA ReconciledGood ==
  ASSUME Log, NEW s \in Services, NEW u, Good(s, u),
         NEW p \in Snapshot, Shows(s, p), Attempted(p), p.seq > 0 => p.age = log[p.seq].age,
         u.seq <= p.seq
  PROVE  Good(s, Reconciled(u, p)) /\ Reconciled(u, p).seq = p.seq
<1> DEFINE a == p.attempt
           v == IF u.attempt = a THEN u ELSE [u EXCEPT !.sampled = 0]
           k == Know(v, a)
           b == Backfill(k, p.seq, a, p.age)
           c == Backfill(v, p.seq, u.attempt, p.age)
           w == IF p.status = "running" \/ a \notin {0, u.attempt} THEN b
                ELSE IF u.active THEN c ELSE v
           x == CASE p.status = "starting" -> [v EXCEPT !.active = TRUE]
                  [] p.status \in {"running", "failed", "stopped"} -> [w EXCEPT !.active = FALSE]
                  [] OTHER -> v
           y == Know(x, a)
           r == Reconciled(u, p)
<1>1. u \in State /\ Shows(s, u) /\ Attempted(u) /\ Timeline(u)
  BY DEF Good
<1>2. /\ u.seq \in Nat /\ u.attempt \in Nat /\ u.backfilled \in Nat /\ u.seen \in Nat
      /\ p.seq \in Nat /\ p.age \in Nat /\ p.status \in Statuses /\ p.timed \in BOOLEAN /\ a \in Nat
  BY <1>1 DEF State, Snapshot
<1>3. /\ v \in State /\ v.attempt = u.attempt /\ v.backfilled = u.backfilled
      /\ u.attempt # a => v.sampled = 0
      /\ u.attempt = a => v = u
  BY <1>1 DEF State
<1>4. r = [y EXCEPT !.seq = p.seq, !.status = p.status, !.timed = p.timed]
  BY DEF Reconciled
<1>a. a = p.attempt
  OBVIOUS
<1> HIDE DEF v, r, a
<1>5. /\ k \in State /\ k.attempt = a /\ k.sampled = v.sampled /\ k.backfilled = v.backfilled
      /\ v.attempt = a => k = v
      /\ v.attempt # a => k.seen = 0 /\ k.filled = 0
  BY <1>2, <1>3, KnowFields
<1> HIDE DEF k
<1>6. Filling(k, p.seq, a, p.age, Backfill(k, p.seq, a, p.age))
  BY <1>2, <1>5, Filled
<1>7. Filling(v, p.seq, u.attempt, p.age, Backfill(v, p.seq, u.attempt, p.age))
  BY <1>2, <1>3, Filled
<1>8. Filling(k, p.seq, a, p.age, b) /\ Filling(v, p.seq, u.attempt, p.age, c)
  BY <1>6, <1>7
<1> HIDE DEF b, c
<1>9. w \in State /\ (w.backfilled = u.backfilled \/ w.backfilled = p.seq)
  BY <1>3, <1>5, <1>8 DEF Filling
<1>w. p.status = "running" => w = b
  OBVIOUS
<1> HIDE DEF w
<1>10. /\ x \in State /\ (x.backfilled = u.backfilled \/ x.backfilled = p.seq)
       /\ p.status = "starting" => x.active /\ x.sampled = v.sampled /\ x.attempt = v.attempt
                                   /\ x.seen = v.seen /\ x.filled = v.filled
       /\ p.status = "running" => x.attempt = w.attempt /\ x.backfilled = w.backfilled
                                  /\ x.seen = w.seen /\ x.filled = w.filled
  <2>1. CASE p.status = "starting"
    <3>1. x = [v EXCEPT !.active = TRUE]
      BY <2>1
    <3> HIDE DEF x
    <3> QED  BY <1>3, <2>1, <3>1 DEF State
  <2>2. CASE p.status \in {"running", "failed", "stopped"}
    <3>1. x = [w EXCEPT !.active = FALSE]
      BY <2>2
    <3> HIDE DEF x
    <3> QED  BY <1>9, <2>2, <3>1 DEF State
  <2>3. CASE p.status \notin {"starting", "running", "failed", "stopped"}
    <3>1. x = v
      BY <2>3
    <3> HIDE DEF x
    <3> QED  BY <1>3, <2>3, <3>1
  <2> QED  BY <2>1, <2>2, <2>3
<1> HIDE DEF x
<1>11. /\ y \in State /\ y.attempt = a /\ y.sampled = x.sampled /\ y.backfilled = x.backfilled
       /\ y.active = x.active
       /\ x.attempt = a => y = x
       /\ x.attempt # a => y.seen = 0 /\ y.filled = 0
  BY <1>2, <1>10, KnowFields
<1> HIDE DEF y
<1>12. /\ r \in State /\ r.seq = p.seq /\ r.status = p.status /\ r.attempt = a /\ r.active = y.active
       /\ r.sampled = y.sampled /\ r.backfilled = y.backfilled /\ r.seen = y.seen /\ r.filled = y.filled
  BY <1>2, <1>4, <1>11 DEF State
<1>13. Shows(s, r) /\ Attempted(r)
  BY <1>12, <1>a DEF Shows, Attempted
<1>14. r.backfilled <= r.seq
  BY <1>1, <1>2, <1>10, <1>11, <1>12 DEF Timeline
<1>15. ASSUME r.seq > 0, r.status = "starting"
       PROVE  r.active /\ r.sampled = r.seen /\ r.filled = 0
  <2>1. p.seq > 0 /\ p.status = "starting"
    BY <1>12, <1>15
  <2>2. CASE u.attempt = a
    <3>1. u.sampled = u.seen /\ u.filled = 0
      BY <1>1, <1>a, <2>1, <2>2, ReconciledStart
    <3> QED  BY <1>3, <1>10, <1>11, <1>12, <2>1, <2>2, <3>1
  <2>3. CASE u.attempt # a
    BY <1>3, <1>10, <1>11, <1>12, <2>1, <2>3
  <2> QED  BY <2>2, <2>3
<1>16. ASSUME r.seq > 0, Straight(r.seq)
       PROVE  r.backfilled = r.seq /\ r.filled + r.seen = AtLeast(r.seen, log[r.seq].age)
  <2>1. p.seq > 0 /\ Straight(p.seq) /\ p.status = "running" /\ p.age = log[p.seq].age
    BY <1>12, <1>16 DEF Straight, Shows
  <2>2. k.backfilled = u.backfilled
        /\ (u.attempt = p.attempt => k = u)
        /\ (u.attempt # p.attempt => k.sampled = 0 /\ k.seen = 0 /\ k.filled = 0)
    BY <1>3, <1>5, <1>a
  <2>3. Filling(k, p.seq, p.attempt, p.age, b)
    BY <1>8, <1>a
  <2>4. k \in State
    BY <1>5
  <2>5. b.backfilled = p.seq /\ b.filled + b.seen = AtLeast(b.seen, p.age)
    BY <1>1, <2>1, <2>2, <2>3, <2>4, ReconciledEnd
  <2>6. b.attempt = a
    BY <1>5, <1>8 DEF Filling
  <2>7. y.backfilled = b.backfilled /\ y.seen = b.seen /\ y.filled = b.filled
    BY <1>w, <1>10, <1>11, <2>1, <2>6
  <2> QED  BY <1>12, <2>1, <2>5, <2>7
<1>17. Timeline(r)
  BY <1>14, <1>15, <1>16 DEF Timeline
<1>18. Good(s, r)
  BY <1>12, <1>13, <1>17 DEF Good
<1> QED  BY <1>12, <1>18 DEF r

\* A record with the same timeline is as good.
LEMMA SameTimeline ==
  ASSUME NEW s, NEW u, Good(s, u), NEW w \in State,
         w.seq = u.seq, w.status = u.status, w.attempt = u.attempt, w.sampled = u.sampled,
         w.backfilled = u.backfilled, w.active = u.active, w.seen = u.seen, w.filled = u.filled
  PROVE  Good(s, w)
BY DEF Good, Shows, Attempted, Timeline

\* Watching touches nothing else of a record.
LEMMA WatchedGood ==
  ASSUME NEW s, NEW u, Good(s, u), NEW n \in Nat, NEW t \in BOOLEAN
  PROVE  /\ Good(s, [u EXCEPT !.watchSeq = n, !.watching = t])
         /\ [u EXCEPT !.watchSeq = n, !.watching = t].seq = u.seq
<1> DEFINE w == [u EXCEPT !.watchSeq = n, !.watching = t]
<1>1. /\ w \in State
      /\ w.seq = u.seq /\ w.status = u.status /\ w.attempt = u.attempt /\ w.sampled = u.sampled
      /\ w.backfilled = u.backfilled /\ w.active = u.active /\ w.seen = u.seen /\ w.filled = u.filled
  BY DEF Good, State
<1> HIDE DEF w
<1>2. Good(s, w)
  BY <1>1, SameTimeline
<1> QED  BY <1>1, <1>2 DEF w

\* What the store's snapshot makes of a record is not older.
LEMMA RefreshedGood ==
  ASSUME Log, NEW s \in Services, NEW u, Good(s, u),
         NEW p \in Snapshot, Shows(s, p), Attempted(p), p.seq > 0 => p.age = log[p.seq].age
  PROVE  Good(s, Refreshed(u, p)) /\ Refreshed(u, p).seq >= u.seq
<1> DEFINE v == IF Applies(u, p) THEN Reconciled(u, p) ELSE u
<1>1. u.seq \in Nat /\ p.seq \in Nat /\ p.watchSeq \in Nat /\ p.watching \in BOOLEAN
  BY DEF Good, State, Snapshot
<1>2. Good(s, v) /\ v.seq >= u.seq /\ v.seq \in Nat
  <2>1. CASE Applies(u, p)
    <3>1. u.seq <= p.seq
      BY <1>1, <2>1 DEF Applies
    <3>2. Good(s, Reconciled(u, p)) /\ Reconciled(u, p).seq = p.seq
      BY <3>1, ReconciledGood
    <3> QED  BY <1>1, <2>1, <3>1, <3>2
  <2>2. CASE ~ Applies(u, p)
    BY <1>1, <2>2
  <2> QED  BY <2>1, <2>2
<1>3. Refreshed(u, p) = IF p.watchSeq >= u.watchSeq
                          THEN [v EXCEPT !.watchSeq = p.watchSeq, !.watching = p.watching]
                          ELSE v
  BY DEF Refreshed
<1> HIDE DEF v
<1>4. /\ Good(s, [v EXCEPT !.watchSeq = p.watchSeq, !.watching = p.watching])
      /\ [v EXCEPT !.watchSeq = p.watchSeq, !.watching = p.watching].seq = v.seq
  <2>1. \A n \in Nat, t \in BOOLEAN :
          /\ Good(s, [v EXCEPT !.watchSeq = n, !.watching = t])
          /\ [v EXCEPT !.watchSeq = n, !.watching = t].seq = v.seq
    BY <1>2, WatchedGood
  <2> QED  BY <1>1, <2>1
<1> QED  BY <1>2, <1>3, <1>4

\* A slot that is sampled counts once.
LEMMA SampledGood ==
  ASSUME Log, NEW s \in Services, NEW u, Good(s, u)
  PROVE  Good(s, Sampled(u)) /\ Sampled(u).seq = u.seq
<1> DEFINE more == AtMost(u.sampled + 1, MaxSecs)
           moreSeen == AtMost(u.seen + 1, MaxSecs)
           w == [u EXCEPT !.begun = TRUE, !.sampled = more, !.seen = moreSeen]
           b == [u EXCEPT !.begun = TRUE]
<1>1. u \in State /\ u.sampled \in Nat /\ u.seen \in Nat
  BY DEF Good, State
<1>2. more \in Nat /\ moreSeen \in Nat
  BY <1>1, StateAssumption DEF AtMost
<1>m. u.sampled = u.seen => more = moreSeen
  OBVIOUS
<1>3. Sampled(u) \in {u, w, b} /\ (Sampled(u) = w => u.status \in {"starting", "restarting", "stopping"} \/ w = u \/ w = b)
  BY DEF Sampled
<1> HIDE DEF more, moreSeen
<1>4. /\ b \in State
      /\ b.seq = u.seq /\ b.status = u.status /\ b.attempt = u.attempt /\ b.sampled = u.sampled
      /\ b.backfilled = u.backfilled /\ b.active = u.active /\ b.seen = u.seen /\ b.filled = u.filled
  BY <1>1 DEF State
<1>5. /\ w \in State
      /\ w.seq = u.seq /\ w.status = u.status /\ w.attempt = u.attempt /\ w.sampled = more
      /\ w.backfilled = u.backfilled /\ w.active = u.active /\ w.seen = moreSeen /\ w.filled = u.filled
  BY <1>1, <1>2 DEF State
<1> HIDE DEF w, b
<1>6. Good(s, b)
  BY <1>4, SameTimeline
<1>7. ASSUME u.status \in {"starting", "restarting", "stopping"} PROVE Good(s, w)
  <2>1. Shows(s, w) /\ Attempted(w)
    BY <1>5 DEF Good, Shows, Attempted
  <2>2. u.seq > 0 => ~ Straight(u.seq)
    BY <1>7 DEF Good, Shows, Straight
  <2>3. Timeline(w)
    BY <1>5, <1>m, <2>2 DEF Good, Timeline
  <2> QED  BY <1>5, <2>1, <2>3 DEF Good
<1> QED  BY <1>3, <1>4, <1>5, <1>6, <1>7

-----------------------------------------------------------------------------
(* The messages that are published *)

\* A queue of positions with, perhaps, the next one.
Grown(q, len, r) ==
  /\ r \in Seq(1..len + 1) /\ Increasing(r)
  /\ \A i \in 1..Len(r) : r[i] = len + 1 \/ \E j \in 1..Len(q) : r[i] = q[j]

\* A queue that a message joins, or is dropped before.
LEMMA QueueGrows ==
  ASSUME NEW q, NEW len \in Nat, q \in Seq(1..len), Increasing(q), NEW r,
         r = q \/ r = Append(q, len + 1)
  PROVE  Grown(q, len, r)
<1>1. \A i \in 1..Len(q) : q[i] \in 1..len
  OBVIOUS
<1>2. q \in Seq(1..len + 1) /\ Len(q) \in Nat
  <2>1. 1..len \subseteq 1..len + 1
    OBVIOUS
  <2> QED  BY <2>1, SeqMonotonic
<1>3. CASE r = q
  BY <1>2, <1>3 DEF Grown
<1>4. CASE r = Append(q, len + 1)
  <2>1. len + 1 \in 1..len + 1
    OBVIOUS
  <2>2. r \in Seq(1..len + 1) /\ Len(r) = Len(q) + 1
        /\ (\A i \in 1..Len(q) : r[i] = q[i]) /\ r[Len(q) + 1] = len + 1
    BY <1>2, <1>4, <2>1, AppendProperties
  <2>3. \A i \in 1..Len(r) : i \in 1..Len(q) \/ i = Len(q) + 1
    BY <1>2, <2>2
  <2>4. Increasing(r)
    <3> SUFFICES ASSUME NEW i \in 1..Len(r), NEW j \in 1..Len(r), i < j PROVE r[i] < r[j]
      BY DEF Increasing
    <3>1. i \in 1..Len(q)
      BY <1>2, <2>2
    <3>2. r[i] = q[i] /\ q[i] \in 1..len
      BY <1>1, <2>2, <3>1
    <3>3. CASE j \in 1..Len(q)
      BY <2>2, <3>1, <3>2, <3>3 DEF Increasing
    <3>4. CASE j = Len(q) + 1
      BY <2>2, <3>2, <3>4
    <3> QED  BY <2>3, <3>3, <3>4
  <2> QED  BY <2>2, <2>3, <2>4 DEF Grown
<1> QED  BY <1>3, <1>4

\* The log only grows.
LEMMA LogGrows ==
  ASSUME Log, NEW m \in Message, log' = Append(log, m)
  PROVE  /\ Len(log') = Len(log) + 1 /\ Len(log) \in Nat /\ log' \in Seq(Message)
         /\ \A n \in Positions : log'[n] = log[n]
         /\ log'[Len(log) + 1] = m
         /\ Positions' = Positions \cup {Len(log) + 1} /\ Len(log) + 1 \notin Positions
BY AppendProperties DEF Log, Positioned, Attempts, Positions

\* The events of a service are those before and the new one, if it is about it.
LEMMA OfGrows ==
  ASSUME Log, NEW m \in Message, log' = Append(log, m), NEW s
  PROVE  Of(s)' = Of(s) \cup {k \in {Len(log) + 1} : m.id = s /\ m.kind \in Statuses}
<1>1. /\ Positions' = Positions \cup {Len(log) + 1} /\ Len(log) + 1 \notin Positions
      /\ \A n \in Positions : log'[n] = log[n]
      /\ log'[Len(log) + 1] = m
  BY LogGrows
<1>2. Of(s)' = {n \in Positions' : log'[n].id = s /\ log'[n].kind \in Statuses}
  BY DEF Of, Positions
<1>3. Of(s) = {n \in Positions : log[n].id = s /\ log[n].kind \in Statuses}
  BY DEF Of, Positions
<1> QED  BY <1>1, <1>2, <1>3

\* What is known of a record stays true when the log grows.
LEMMA GoodKept ==
  ASSUME Log, NEW m \in Message, log' = Append(log, m), NEW s \in Services,
         NEW CONSTANT u, Shows(s, u), u.seq \in Nat
  PROVE  /\ Shows(s, u)'
         /\ Attempted(u) => Attempted(u)'
         /\ Timeline(u) => Timeline(u)'
         /\ u.seq > 0 => log'[u.seq] = log[u.seq]
<1>1. \A n \in Positions : log'[n] = log[n]
  BY LogGrows
<1>2. Of(s) \subseteq Of(s)' /\ \A k \in Of(s)' \ Of(s) : k = Len(log) + 1
  BY OfGrows
<1>3. u.seq > 0 => u.seq \in Of(s) /\ u.seq \in Positions
  BY DEF Shows, Of, Positions
<1>4. u.seq > 0 => log'[u.seq] = log[u.seq]
  BY <1>1, <1>3
<1>5. Shows(s, u)'
  BY <1>2, <1>3, <1>4 DEF Shows
<1>6. Attempted(u) => Attempted(u)'
  BY <1>4 DEF Attempted
<1>7. ASSUME u.seq > 0 PROVE Straight(u.seq)' <=> Straight(u.seq)
  <2> DEFINE n == u.seq
  <2>1. n \in Of(s) /\ n \in Positions /\ n \in Nat /\ n < Len(log) + 1 /\ log'[n] = log[n] /\ log[n].id = s
    BY <1>3, <1>4, <1>7 DEF Of, Positions
  <2>2. Before(n) = {k \in Of(s) : k < n}
    BY <2>1 DEF Before
  <2>3. Before(n)' = {k \in Of(s)' : k < n}
    BY <2>1 DEF Before
  <2>4. ~ (Len(log) + 1 < n)
    BY <2>1, LogGrows
  <2>5. Before(n)' = Before(n)
    BY <1>2, <2>2, <2>3, <2>4
  <2>6. Before(n) # {} => Last(Before(n)) \in Positions
    <3>1. Before(n) \subseteq 1..Len(log) /\ Len(log) \in Nat
      BY <2>2, LogGrows DEF Of
    <3> QED  BY <3>1, LastIsLast DEF Positions
  <2>7. Before(n) # {} => log'[Last(Before(n))] = log[Last(Before(n))]
    BY <1>1, <2>6
  <2>8. Last(Before(n))' = Last(Before(n))
    BY <2>5 DEF Last
  <2> QED  BY <2>1, <2>5, <2>7, <2>8 DEF Straight
<1>8. Timeline(u) => Timeline(u)'
  BY <1>4, <1>7 DEF Timeline
<1> QED  BY <1>4, <1>5, <1>6, <1>8

\* What Publish leaves of the queues, the store and the panel.
LEMMA Publishing ==
  ASSUME StateInv, NEW m \in Message, NEW drop, Publish(m, drop), known # {} => log # <<>>,
         log = <<>> => known = {}, UNCHANGED <<store, hands, known, ui>>
  PROVE  Queues' /\ StoreOK' /\ PanelOK'
<1> USE DEF StateInv
<1>1. log' = Append(log, m)
  BY DEF Publish
<1>2. Len(log') = Len(log) + 1 /\ Len(log) \in Nat /\ Positions = 1..Len(log) /\ Positions' = 1..Len(log) + 1
  BY <1>1, LogGrows DEF Positions
<1>3. /\ uiQ' = uiQ \/ uiQ' = Append(uiQ, Len(log) + 1)
      /\ storeQ' = storeQ \/ storeQ' = Append(storeQ, Len(log) + 1)
  BY <1>2 DEF Publish
<1>4. Grown(uiQ, Len(log), uiQ') /\ Grown(storeQ, Len(log), storeQ')
  <2>1. uiQ \in Seq(1..Len(log)) /\ Increasing(uiQ) /\ storeQ \in Seq(1..Len(log)) /\ Increasing(storeQ)
    BY <1>2 DEF Queues
  <2> QED  BY <1>2, <1>3, <2>1, QueueGrows
<1>5. Increasing(uiQ)' /\ Increasing(storeQ)'
  BY <1>4 DEF Grown, Increasing
<1>6. Queues'
  <2>1. hands' \subseteq Positions'
    BY <1>2 DEF Queues
  <2>2. \A n \in hands' : \A i \in 1..Len(uiQ') : n < uiQ'[i]
    <3> SUFFICES ASSUME NEW n \in hands, NEW i \in 1..Len(uiQ') PROVE n < uiQ'[i]
      BY <1>2
    <3>1. n \in 1..Len(log) /\ \A j \in 1..Len(uiQ) : n < uiQ[j]
      BY <1>2 DEF Queues
    <3>2. uiQ'[i] = Len(log) + 1 \/ \E j \in 1..Len(uiQ) : uiQ'[i] = uiQ[j]
      BY <1>4 DEF Grown
    <3> QED  BY <1>2, <3>1, <3>2
  <2>3. known' # {} => log' # <<>> /\ 1 \notin hands' /\ \A i \in 1..Len(uiQ') : uiQ'[i] # 1
    <3> SUFFICES ASSUME known # {} PROVE log' # <<>> /\ 1 \notin hands /\ \A i \in 1..Len(uiQ') : uiQ'[i] # 1
      OBVIOUS
    <3>1. Len(log) > 0
      BY <1>2 DEF Log, Positioned, Attempts
    <3>2. log' # <<>>
      BY <1>2
    <3>3. 1 \notin hands /\ \A j \in 1..Len(uiQ) : uiQ[j] # 1
      BY DEF Queues
    <3>4. \A i \in 1..Len(uiQ') : uiQ'[i] = Len(log) + 1 \/ \E j \in 1..Len(uiQ) : uiQ'[i] = uiQ[j]
      BY <1>4 DEF Grown
    <3>5. \A i \in 1..Len(uiQ') : uiQ'[i] # 1
      BY <1>2, <3>1, <3>3, <3>4
    <3> QED  BY <3>2, <3>3, <3>5
  <2> QED  BY <1>2, <1>4, <1>5, <2>1, <2>2, <2>3 DEF Queues, Grown
<1>7. StoreOK'
  <2>1. ASSUME NEW s \in Services
        PROVE  /\ Shows(s, store[s])' /\ Attempted(store[s])'
               /\ store'[s].seq > 0 => store'[s].age = log'[store'[s].seq].age
               /\ \A i \in 1..Len(storeQ') : store'[s].seq < storeQ'[i]
    <3>1. PICK u : u = store[s]
      OBVIOUS
    <3>2. u \in Snapshot /\ Shows(s, u) /\ Attempted(u) /\ (u.seq > 0 => u.age = log[u.seq].age)
          /\ \A i \in 1..Len(storeQ) : u.seq < storeQ[i]
      BY <3>1 DEF StoreOK
    <3>3. u.seq \in Nat
      BY <3>2 DEF Snapshot
    <3>4. Shows(s, u)' /\ Attempted(u)' /\ (u.seq > 0 => log'[u.seq] = log[u.seq])
      BY <1>1, <3>2, <3>3, GoodKept
    <3>5. u.seq < Len(log) + 1
      BY <1>2, <3>2, <3>3 DEF Shows, Of
    <3>6. \A i \in 1..Len(storeQ') : u.seq < storeQ'[i]
      BY <1>4, <3>2, <3>5 DEF Grown
    <3>7. store'[s] = u
      BY <3>1
    <3> QED  BY <3>2, <3>4, <3>6, <3>7 DEF Shows, Attempted, Of
  <2> QED  BY <2>1 DEF StoreOK
<1>8. PanelOK'
  <2>1. ASSUME NEW s \in Services PROVE Good(s, ui[s])'
    <3>1. PICK u : u = ui[s]
      OBVIOUS
    <3>2. u \in State /\ Shows(s, u) /\ Attempted(u) /\ Timeline(u)
      BY <3>1 DEF PanelOK, Good
    <3>3. u.seq \in Nat
      BY <3>2 DEF State
    <3>4. Shows(s, u)' /\ Attempted(u)' /\ Timeline(u)'
      BY <1>1, <3>2, <3>3, GoodKept
    <3>5. Good(s, u)'
      BY <3>2, <3>4 DEF Good
    <3>6. ui'[s] = u
      BY <3>1
    <3> QED  BY <3>5, <3>6 DEF Good, Shows, Attempted, Timeline, Straight, Before, Of
  <2> QED  BY <2>1 DEF PanelOK
<1> QED  BY <1>6, <1>7, <1>8

\* An event that is published has the attempt of its service, a new one when it
\* is a start.
LEMMA LogExtended ==
  ASSUME Log, LifeOK, NEW m \in Message, log' = Append(log, m),
         m.kind = "profile" <=> log = <<>>,
         m.kind # "profile" => m.id \in Services,
         m.kind \in {"starting", "running"} => m.attempt > 0,
         m.kind \in Statuses => /\ life[m.id].attempt <= m.attempt /\ m.attempt <= life'[m.id].attempt
                                /\ m.kind = "starting" => life[m.id].attempt < m.attempt,
         life' \in [Services -> [attempt : Nat, age : Nat]],
         \A t \in Services : life[t].attempt <= life'[t].attempt
  PROVE  Log' /\ LifeOK'
<1>1. /\ Len(log') = Len(log) + 1 /\ Len(log) \in Nat /\ log' \in Seq(Message)
      /\ \A n \in Positions : log'[n] = log[n]
      /\ log'[Len(log) + 1] = m
      /\ Positions' = Positions \cup {Len(log) + 1}
  BY LogGrows
<1>0. Len(log) + 1 = 1 <=> log = <<>>
  BY DEF Log, Positioned, Attempts
<1>2. \A n \in Positions' : /\ log'[n].kind = "profile" <=> n = 1
                            /\ log'[n].kind # "profile" => log'[n].id \in Services
                            /\ log'[n].kind \in {"starting", "running"} => log'[n].attempt > 0
  <2> TAKE n \in Positions'
  <2>1. CASE n \in Positions
    BY <1>1, <2>1 DEF Log, Positioned, Attempts
  <2>2. CASE n = Len(log) + 1
    BY <1>0, <1>1, <2>2
  <2> QED  BY <1>1, <2>1, <2>2
<1>3. ASSUME NEW t \in Services, NEW j \in Of(t)
      PROVE  /\ j \in Positions /\ j \in 1..Len(log) /\ log'[j] = log[j] /\ log[j].attempt \in Nat
             /\ log[j].attempt <= life[t].attempt
  BY <1>1, <1>3, EventFacts DEF LifeOK, Positions
<1>4. ASSUME NEW t \in Services
      PROVE  /\ Of(t) \subseteq Of(t)'
             /\ \A k \in Of(t)' : k \in Of(t) \/ (k = Len(log) + 1 /\ m.id = t /\ m.kind \in Statuses)
  BY OfGrows
<1>5. \A t \in Services : life[t].attempt \in Nat /\ life'[t].attempt \in Nat
  BY DEF LifeOK
<1>6. ASSUME NEW t \in Services, NEW j \in Of(t)', NEW k \in Of(t)', j < k
      PROVE  /\ log'[j].attempt <= log'[k].attempt
             /\ log'[k].kind = "starting" => log'[j].attempt < log'[k].attempt
  <2>1. CASE k \in Of(t)
    <3>1. j \in Of(t)
      BY <1>1, <1>3, <1>4, <1>6, <2>1
    <3> QED  BY <1>3, <1>6, <2>1, <3>1 DEF Log, Positioned, Attempts
  <2>2. CASE k = Len(log) + 1 /\ m.id = t /\ m.kind \in Statuses
    <3>1. j \in Of(t)
      BY <1>1, <1>4, <1>6, <2>2
    <3>2. log'[j].attempt \in Nat /\ log'[j].attempt <= life[t].attempt
      BY <1>3, <3>1
    <3>3. log'[k] = m /\ m.attempt \in Nat
      BY <1>1, <2>2 DEF Message
    <3>4. /\ life[t].attempt \in Nat /\ life[t].attempt <= m.attempt
          /\ m.kind = "starting" => life[t].attempt < m.attempt
      BY <1>5, <2>2
    <3>5. /\ log'[j].attempt <= m.attempt
          /\ m.kind = "starting" => log'[j].attempt < m.attempt
      <4>1. \A x, y, z \in Nat : (x <= y /\ y <= z => x <= z) /\ (x <= y /\ y < z => x < z)
        OBVIOUS
      <4> QED  BY <3>2, <3>3, <3>4, <4>1, Zenon
    <3> QED  BY <3>3, <3>5
  <2> QED  BY <1>4, <2>1, <2>2
<1>7. Log'
  <2>1. \A t \in Services : \A j, k \in Of(t)' : j < k =>
          /\ log'[j].attempt <= log'[k].attempt
          /\ log'[k].kind = "starting" => log'[j].attempt < log'[k].attempt
    BY <1>6
  <2>2. log' \in Seq(Message)
    BY <1>1
  <2>3. Positioned'
    BY <1>2 DEF Positioned
  <2>4. Attempts'
    BY <2>1 DEF Attempts
  <2> QED  BY <2>2, <2>3, <2>4 DEF Log
<1>8. ASSUME NEW t \in Services, NEW n \in Of(t)' PROVE log'[n].attempt <= life'[t].attempt
  <2>1. CASE n \in Of(t)
    BY <1>3, <1>5, <2>1
  <2>2. CASE n = Len(log) + 1 /\ m.id = t /\ m.kind \in Statuses
    BY <1>1, <2>2
  <2> QED  BY <1>4, <2>1, <2>2
<1> QED  BY <1>7, <1>8 DEF LifeOK

\* The profile is the first message.
LEMMA ProfileStep ==
  ASSUME StateInv, PublishProfile PROVE StateInv' /\ UNCHANGED <<known, ui>>
<1> USE DEF StateInv
<1> DEFINE m == [kind |-> "profile", id |-> "", attempt |-> 0, age |-> 0]
<1>1. log = <<>> /\ Publish(m, {}) /\ UNCHANGED <<life, store, hands, known, ui>>
  BY DEF PublishProfile
<1>2. m \in Message
  BY DEF Message, Kinds
<1>3. m.kind = "profile"
  OBVIOUS
<1> HIDE DEF m
<1>4. log' = Append(log, m)
  BY <1>1 DEF Publish
<1>5. Log' /\ LifeOK'
  <2>1. life' \in [Services -> [attempt : Nat, age : Nat]]
        /\ \A t \in Services : life[t].attempt <= life'[t].attempt
    BY <1>1 DEF LifeOK
  <2>2. m.kind \notin Statuses
    BY <1>3 DEF Statuses
  <2> QED  BY <1>1, <1>2, <1>3, <1>4, <2>1, <2>2, LogExtended
<1>6. known = {}
  BY <1>1 DEF Queues
<1>7. Queues' /\ StoreOK' /\ PanelOK'
  BY <1>1, <1>2, <1>6, Publishing
<1> QED  BY <1>1, <1>5, <1>7

\* An event of a service is published.
LEMMA LifecycleStep ==
  ASSUME StateInv, NEW s \in Services, NEW k \in Statuses, NEW age \in 0..MaxSecs,
         PublishLifecycle(s, k, age)
  PROVE  StateInv' /\ UNCHANGED <<known, ui>>
<1> USE DEF StateInv
<1> DEFINE a == IF k = "starting" THEN life[s].attempt + 1 ELSE life[s].attempt
           m == [kind |-> k, id |-> s, attempt |-> a, age |-> age]
<1>1. age \in Nat /\ life[s].attempt \in Nat /\ a \in Nat
  BY StateAssumption DEF LifeOK
<1>2. /\ log # <<>> /\ (k = "running" => life[s].attempt > 0)
      /\ life' = [life EXCEPT ![s] = [attempt |-> a, age |-> age]]
      /\ UNCHANGED <<store, hands, known, ui>>
  BY DEF PublishLifecycle
<1>3. life'[s].attempt = a
  BY <1>2 DEF LifeOK
<1>4. Publish(m, {})
  BY <1>3 DEF PublishLifecycle
<1>5. m \in Message
  BY <1>1 DEF Message, Kinds
<1>6. m.kind = k /\ m.id = s /\ m.attempt = a
  OBVIOUS
<1>a. a >= life[s].attempt /\ (k = "starting" => a > life[s].attempt)
      /\ (k \in {"starting", "running"} => a > 0)
  BY <1>1, <1>2
<1> HIDE DEF m, a
<1>7. log' = Append(log, m)
  BY <1>4 DEF Publish
<1>8. Log' /\ LifeOK'
  <2>1. life' \in [Services -> [attempt : Nat, age : Nat]]
    BY <1>1, <1>2 DEF LifeOK
  <2>2. \A t \in Services : life[t].attempt <= life'[t].attempt
    <3> TAKE t \in Services
    <3>1. CASE t = s
      BY <1>1, <1>3, <1>a, <3>1
    <3>2. CASE t # s
      BY <1>2, <3>2 DEF LifeOK
    <3> QED  BY <3>1, <3>2
  <2>3. m.kind # "profile"
    BY <1>6 DEF Statuses
  <2>4. m.kind \in {"starting", "running"} => m.attempt > 0
    BY <1>6, <1>a
  <2>5. /\ life[m.id].attempt <= m.attempt /\ m.attempt <= life'[m.id].attempt
        /\ m.kind = "starting" => life[m.id].attempt < m.attempt
    BY <1>1, <1>3, <1>6, <1>a
  <2> QED  BY <1>2, <1>5, <1>6, <1>7, <2>1, <2>2, <2>3, <2>4, <2>5, LogExtended
<1>9. Queues' /\ StoreOK' /\ PanelOK'
  BY <1>2, <1>4, <1>5, Publishing
<1> QED  BY <1>2, <1>8, <1>9

\* A watch message is published, and maybe dropped on its way.
LEMMA WatchStep ==
  ASSUME StateInv, NEW s \in Services, NEW k \in Watch, NEW drop, PublishWatch(s, k, drop)
  PROVE  StateInv' /\ UNCHANGED <<known, ui>>
<1> USE DEF StateInv
<1> DEFINE m == [kind |-> k, id |-> s, attempt |-> 0, age |-> 0]
<1>1. log # <<>> /\ Publish(m, drop) /\ UNCHANGED <<life, store, hands, known, ui>>
  BY DEF PublishWatch
<1>2. m \in Message
  BY DEF Message, Kinds
<1>3. m.kind = k /\ m.id = s
  OBVIOUS
<1> HIDE DEF m
<1>4. log' = Append(log, m)
  BY <1>1 DEF Publish
<1>5. Log' /\ LifeOK'
  <2>1. life' \in [Services -> [attempt : Nat, age : Nat]]
        /\ \A t \in Services : life[t].attempt <= life'[t].attempt
    BY <1>1 DEF LifeOK
  <2>2. m.kind \notin Statuses /\ m.kind # "profile" /\ m.kind \notin {"starting", "running"}
    BY <1>3 DEF Statuses, Watch
  <2> QED  BY <1>1, <1>2, <1>3, <1>4, <2>1, <2>2, LogExtended
<1>7. Queues' /\ StoreOK' /\ PanelOK'
  BY <1>1, <1>2, Publishing
<1> QED  BY <1>1, <1>5, <1>7

-----------------------------------------------------------------------------
(* Steps that publish nothing *)

\* The log does not change.
LEMMA SameLog ==
  ASSUME UNCHANGED <<log, life>>, Log, LifeOK PROVE Log' /\ LifeOK'
<1>1. Positions' = Positions /\ \A s : Of(s)' = Of(s)
  BY DEF Positions, Of
<1>2. Positioned' /\ Attempts'
  BY <1>1 DEF Log, Positioned, Attempts
<1> QED  BY <1>1, <1>2 DEF Log, LifeOK

\* What is known of a record stays true.
LEMMA SameRecord ==
  ASSUME UNCHANGED log, NEW CONSTANT s, NEW CONSTANT u
  PROVE  /\ Shows(s, u) => Shows(s, u)'
         /\ Attempted(u) => Attempted(u)'
         /\ Good(s, u) => Good(s, u)'
<1>1. Shows(s, u) => Shows(s, u)'
  BY DEF Shows, Of
<1>2. Attempted(u) => Attempted(u)'
  BY DEF Attempted
<1>3. Straight(u.seq)' <=> Straight(u.seq)
  <2>1. Before(u.seq)' = Before(u.seq)
    BY DEF Before, Of
  <2>2. Last(Before(u.seq))' = Last(Before(u.seq))
    BY <2>1 DEF Last
  <2> QED  BY <2>1, <2>2 DEF Straight
<1>4. Timeline(u) => Timeline(u)'
  BY <1>3 DEF Timeline
<1> QED  BY <1>1, <1>2, <1>4 DEF Good

\* The panel's records do not change.
LEMMA SamePanel ==
  ASSUME UNCHANGED <<log, known, ui>>, PanelOK PROVE PanelOK'
<1>1. ASSUME NEW s \in Services PROVE Good(s, ui[s])'
  <2>1. PICK u : u = ui[s]
    OBVIOUS
  <2>2. Good(s, u)'
    BY <2>1, SameRecord DEF PanelOK
  <2>3. ui'[s] = u
    BY <2>1
  <2> QED  BY <2>2, <2>3 DEF Good, Shows, Attempted, Timeline, Straight, Before, Of
<1> QED  BY <1>1 DEF PanelOK

\* The store's records do not change.
LEMMA SameStore ==
  ASSUME UNCHANGED <<log, store, storeQ>>, StoreOK PROVE StoreOK'
<1>1. ASSUME NEW s \in Services PROVE Shows(s, store[s])' /\ Attempted(store[s])'
  <2>1. PICK u : u = store[s]
    OBVIOUS
  <2>2. Shows(s, u)' /\ Attempted(u)'
    BY <2>1, SameRecord DEF StoreOK
  <2>3. store'[s] = u
    BY <2>1
  <2> QED  BY <2>2, <2>3 DEF Shows, Attempted, Of
<1> QED  BY <1>1 DEF StoreOK

-----------------------------------------------------------------------------
(* The store and the queues *)

\* What the store makes of an event is what the event says.
LEMMA StoredGood ==
  ASSUME Log, NEW s \in Services, NEW n \in Of(s), NEW p \in Snapshot, Shows(s, p), Attempted(p),
         p.seq < n
  PROVE  LET q == Stored(p, n, log[n])
         IN  /\ q \in Snapshot /\ Shows(s, q) /\ Attempted(q) /\ q.seq = n
             /\ q.age = log[n].age
<1> DEFINE m == log[n]
           q == Stored(p, n, m)
           r == [p EXCEPT !.seq = n, !.status = m.kind, !.age = m.age]
<1>1. /\ n \in Nat /\ n > 0 /\ m.kind \in Statuses /\ m.age \in Nat /\ m.attempt \in Nat
      /\ p.seq \in Nat /\ p.attempt \in Nat
  BY EventFacts DEF Snapshot
<1>2. /\ r \in Snapshot /\ r.seq = n /\ r.status = m.kind /\ r.age = m.age /\ r.attempt = p.attempt
  BY <1>1 DEF Snapshot
<1>3. /\ m.kind \in {"starting", "running"} => q = [r EXCEPT !.attempt = m.attempt, !.timed = TRUE]
      /\ m.kind \in {"stopped", "failed", "restarting"} => q = [r EXCEPT !.timed = FALSE]
      /\ m.kind = "stopping" => q = r
  <2>1. CASE m.kind \in {"starting", "running"}
    BY <2>1 DEF Stored, Watch
  <2>2. CASE m.kind \in {"stopped", "failed", "restarting"}
    BY <2>2 DEF Stored, Watch
  <2>3. CASE m.kind = "stopping"
    BY <2>3 DEF Stored, Watch
  <2> QED  BY <1>1, <2>1, <2>2, <2>3 DEF Statuses
<1>4. p.attempt <= m.attempt
  <2>1. CASE p.seq = 0
    BY <1>1, <2>1 DEF Attempted
  <2>2. CASE p.seq > 0
    <3>1. p.seq \in Of(s) /\ p.attempt <= log[p.seq].attempt
      BY <2>2 DEF Shows, Attempted
    <3>2. log[p.seq].attempt \in Nat /\ log[p.seq].attempt <= m.attempt
      BY <3>1, EventFacts
    <3> QED  BY <1>1, <3>1, <3>2
  <2> QED  BY <1>1, <2>1, <2>2
<1>m. m = log[n]
  OBVIOUS
<1> HIDE DEF m, q, r
<1>5. /\ q \in Snapshot /\ q.seq = n /\ q.status = m.kind /\ q.age = m.age
      /\ m.kind \in {"starting", "running"} => q.attempt = m.attempt
      /\ m.kind \notin {"starting", "running"} => q.attempt = p.attempt
  <2>1. CASE m.kind \in {"starting", "running"}
    BY <1>1, <1>2, <1>3, <2>1 DEF Snapshot
  <2>2. CASE m.kind \in {"stopped", "failed", "restarting"}
    BY <1>1, <1>2, <1>3, <2>2 DEF Snapshot
  <2>3. CASE m.kind = "stopping"
    BY <1>2, <1>3, <2>3
  <2> QED  BY <1>1, <2>1, <2>2, <2>3 DEF Statuses
<1>6. q.attempt <= m.attempt
  BY <1>1, <1>4, <1>5
<1>7. Shows(s, q) /\ Attempted(q)
  BY <1>1, <1>5, <1>6, <1>m DEF Shows, Attempted
<1> QED  BY <1>5, <1>7, <1>m DEF q

\* The store takes the next message of its queue.
LEMMA StoreStepKeeps ==
  ASSUME StateInv, StoreStep PROVE StateInv' /\ UNCHANGED <<known, ui>>
<1> USE DEF StateInv
<1> DEFINE n == Head(storeQ)
           m == log[n]
<1>1. /\ storeQ # <<>> /\ storeQ' = Tail(storeQ)
      /\ UNCHANGED <<log, life, uiQ, hands, known, ui>>
      /\ store' = IF m.kind = "profile" THEN [s \in Services |-> NewSnapshot]
                  ELSE [store EXCEPT ![m.id] = Stored(@, n, m)]
  BY DEF StoreStep
<1>2. Log' /\ LifeOK' /\ PanelOK'
  BY <1>1, SameLog, SamePanel
<1>3. storeQ \in Seq(Positions) /\ Len(storeQ) \in Nat /\ Len(storeQ) > 0 /\ n = storeQ[1]
  BY <1>1 DEF Queues
<1>4. /\ storeQ' \in Seq(Positions) /\ Len(storeQ') = Len(storeQ) - 1
      /\ \A i \in 1..Len(storeQ') : storeQ'[i] = storeQ[i + 1] /\ i + 1 \in 1..Len(storeQ)
  BY <1>1, <1>3, HeadTailProperties
<1>5. Queues'
  <2>1. \A i, j \in 1..Len(storeQ') : i < j => storeQ'[i] < storeQ'[j]
    <3> SUFFICES ASSUME NEW i \in 1..Len(storeQ'), NEW j \in 1..Len(storeQ'), i < j
                 PROVE  storeQ'[i] < storeQ'[j]
      OBVIOUS
    <3>1. i + 1 \in 1..Len(storeQ) /\ j + 1 \in 1..Len(storeQ) /\ i + 1 < j + 1
      BY <1>3, <1>4
    <3>2. storeQ[i + 1] < storeQ[j + 1]
      BY <3>1 DEF Queues, Increasing
    <3> QED  BY <1>4, <3>2
  <2>2. Increasing(storeQ)'
    BY <2>1 DEF Increasing
  <2>3. Increasing(uiQ)'
    BY <1>1 DEF Increasing, Queues
  <2> QED  BY <1>1, <1>4, <2>2, <2>3 DEF Queues, Positions
<1>6. n \in Positions /\ n \in Nat /\ \A i \in 1..Len(storeQ') : n < storeQ'[i]
  <2>1. n \in Positions
    BY <1>3
  <2>2. ASSUME NEW i \in 1..Len(storeQ') PROVE n < storeQ'[i]
    <3>1. 1 \in 1..Len(storeQ) /\ i + 1 \in 1..Len(storeQ) /\ 1 < i + 1
      BY <1>3, <1>4
    <3>2. storeQ[1] < storeQ[i + 1]
      BY <3>1 DEF Queues, Increasing
    <3> QED  BY <1>3, <1>4, <3>2
  <2> QED  BY <2>1, <2>2 DEF Positions
<1> HIDE DEF n
<1>7. ASSUME NEW s \in Services
      PROVE  /\ store'[s] \in Snapshot /\ Shows(s, store'[s]) /\ Attempted(store'[s])
             /\ store'[s].seq > 0 => store'[s].age = log[store'[s].seq].age
             /\ \A i \in 1..Len(storeQ') : store'[s].seq < storeQ'[i]
  <2>1. /\ store[s] \in Snapshot /\ Shows(s, store[s]) /\ Attempted(store[s])
        /\ store[s].seq > 0 => store[s].age = log[store[s].seq].age
        /\ \A i \in 1..Len(storeQ) : store[s].seq < storeQ[i]
    BY DEF StoreOK
  <2>2. store[s].seq \in Nat /\ store[s].seq < n
    BY <1>3, <2>1 DEF Snapshot, n
  <2>3. \A i \in 1..Len(storeQ') : store[s].seq < storeQ'[i]
    BY <1>4, <2>1
  <2>4. CASE m.kind = "profile"
    <3>1. store'[s] = NewSnapshot
      BY <1>1, <2>4
    <3>2. \A i \in 1..Len(storeQ') : storeQ'[i] \in Positions
      BY <1>4
    <3> QED  BY <3>1, <3>2, NewSnapshotGood DEF Positions
  <2>5. CASE m.kind # "profile" /\ m.id # s
    <3>1. store'[s] = store[s]
      BY <1>1, <2>5 DEF StoreOK
    <3> QED  BY <2>1, <2>3, <3>1
  <2>6. CASE m.kind # "profile" /\ m.id = s
    <3>1. store'[s] = Stored(store[s], n, m)
      BY <1>1, <2>6 DEF StoreOK
    <3>2. m.kind \in Statuses \cup Watch
      <4>1. m \in Message
        BY <1>6 DEF Log, Positions
      <4> QED  BY <2>6, <4>1 DEF Message, Kinds
    <3>3. CASE m.kind \in Statuses
      <4>1. n \in Of(s)
        BY <1>6, <2>6, <3>3 DEF Of, Positions
      <4> QED  BY <1>6, <2>1, <2>2, <3>1, <4>1, StoredGood
    <3>4. CASE m.kind \in Watch
      <4>1. store'[s] = [store[s] EXCEPT !.watchSeq = n, !.watching = (m.kind = "watched")]
        BY <3>1, <3>4 DEF Stored, Watch
      <4>2. (m.kind = "watched") \in BOOLEAN
        OBVIOUS
      <4>3. /\ store'[s] \in Snapshot /\ store'[s].seq = store[s].seq /\ store'[s].status = store[s].status
            /\ store'[s].attempt = store[s].attempt /\ store'[s].age = store[s].age
        BY <1>6, <2>1, <4>1, <4>2 DEF Snapshot
      <4> QED  BY <2>1, <2>3, <4>3 DEF Shows, Attempted
    <3> QED  BY <3>2, <3>3, <3>4
  <2> QED  BY <2>4, <2>5, <2>6
<1>8. StoreOK'
  <2>1. store' \in [Services -> Snapshot]
    <3>1. DOMAIN store' = Services /\ store' = [s \in Services |-> store'[s]]
      BY <1>1 DEF StoreOK
    <3> QED  BY <1>7, <3>1
  <2>2. ASSUME NEW s \in Services
        PROVE  /\ Shows(s, store[s])' /\ Attempted(store[s])'
               /\ store'[s].seq > 0 => store'[s].age = log'[store'[s].seq].age
               /\ \A i \in 1..Len(storeQ') : store'[s].seq < storeQ'[i]
    <3>1. PICK q : q = store'[s]
      OBVIOUS
    <3>2. Shows(s, q)' /\ Attempted(q)'
      BY <1>1, <1>7, <3>1, SameRecord
    <3> QED  BY <1>1, <1>7, <3>1, <3>2 DEF Shows, Attempted, Of
  <2> QED  BY <2>1, <2>2 DEF StoreOK
<1> QED  BY <1>1, <1>2, <1>5, <1>8

\* A command takes the next message of the panel's queue.
LEMMA ReceiveStep ==
  ASSUME StateInv, Receive PROVE StateInv' /\ UNCHANGED <<known, ui>>
<1> USE DEF StateInv
<1>1. /\ uiQ # <<>> /\ uiQ' = Tail(uiQ) /\ hands' = hands \cup {Head(uiQ)}
      /\ UNCHANGED <<log, life, storeQ, store, known, ui>>
  BY DEF Receive
<1>2. Log' /\ LifeOK' /\ PanelOK' /\ StoreOK'
  BY <1>1, SameLog, SamePanel, SameStore
<1>3. uiQ \in Seq(Positions) /\ Len(uiQ) \in Nat /\ Len(uiQ) > 0 /\ Head(uiQ) = uiQ[1]
      /\ Head(uiQ) \in Positions
  BY <1>1 DEF Queues
<1>4. /\ uiQ' \in Seq(Positions) /\ Len(uiQ') = Len(uiQ) - 1
      /\ \A i \in 1..Len(uiQ') : uiQ'[i] = uiQ[i + 1] /\ i + 1 \in 1..Len(uiQ)
  BY <1>1, <1>3, HeadTailProperties
<1>5. Increasing(uiQ)' /\ Increasing(storeQ)'
  <2>1. \A i, j \in 1..Len(uiQ') : i < j => uiQ'[i] < uiQ'[j]
    <3> SUFFICES ASSUME NEW i \in 1..Len(uiQ'), NEW j \in 1..Len(uiQ'), i < j
                 PROVE  uiQ'[i] < uiQ'[j]
      OBVIOUS
    <3>1. i + 1 \in 1..Len(uiQ) /\ j + 1 \in 1..Len(uiQ) /\ i + 1 < j + 1
      BY <1>3, <1>4
    <3>2. uiQ[i + 1] < uiQ[j + 1]
      BY <3>1 DEF Queues, Increasing
    <3> QED  BY <1>4, <3>2
  <2>2. Increasing(uiQ)'
    BY <2>1 DEF Increasing
  <2>3. Increasing(storeQ)'
    BY <1>1 DEF Increasing, Queues
  <2> QED  BY <2>2, <2>3
<1>6. \A n \in hands' : \A i \in 1..Len(uiQ') : n < uiQ'[i]
  <2> SUFFICES ASSUME NEW n \in hands', NEW i \in 1..Len(uiQ') PROVE n < uiQ'[i]
    OBVIOUS
  <2>1. CASE n \in hands
    BY <1>4, <2>1 DEF Queues
  <2>2. CASE n = Head(uiQ)
    <3>1. 1 \in 1..Len(uiQ) /\ i + 1 \in 1..Len(uiQ) /\ 1 < i + 1
      BY <1>3, <1>4
    <3>2. uiQ[1] < uiQ[i + 1]
      BY <3>1 DEF Queues, Increasing
    <3> QED  BY <1>3, <1>4, <2>2, <3>2
  <2> QED  BY <1>1, <2>1, <2>2
<1>7. known # {} => 1 \notin hands' /\ \A i \in 1..Len(uiQ') : uiQ'[i] # 1
  <2>1. known # {} => Head(uiQ) # 1
    BY <1>3 DEF Queues
  <2> QED  BY <1>1, <1>4, <2>1 DEF Queues
<1>8. hands' \subseteq Positions
  BY <1>1, <1>3 DEF Queues
<1>9. Queues'
  BY <1>1, <1>4, <1>5, <1>6, <1>7, <1>8 DEF Queues, Positions
<1> QED  BY <1>1, <1>2, <1>9

-----------------------------------------------------------------------------
(* The panel *)

\* No record goes back to an older event.
NotBack == \A s \in known : ui'[s].seq >= ui[s].seq

\* A step that leaves the records alone.
LEMMA NotBackKept ==
  ASSUME StateInv, ui' = ui PROVE NotBack
<1>1. \A s \in Services : ui[s].seq \in Nat
  BY DEF StateInv, PanelOK, Good, State
<1> QED  BY <1>1 DEF NotBack, StateInv, PanelOK

\* A record of the panel, good for the same log in the next state.
LEMMA NextPanel ==
  ASSUME UNCHANGED log, DOMAIN ui' = Services, known' \in {{}, Services},
         \A s \in Services : Good(s, ui'[s])
  PROVE  PanelOK'
<1>1. ASSUME NEW s \in Services PROVE Good(s, ui[s])'
  <2>1. PICK u : u = ui'[s]
    OBVIOUS
  <2>2. Good(s, u)'
    BY <2>1, SameRecord
  <2> QED  BY <2>1, <2>2 DEF Good, Shows, Attempted, Timeline, Straight, Before, Of
<1> QED  BY <1>1 DEF PanelOK

\* An event from the bus.
LEMMA LifecycleHandled ==
  ASSUME StateInv, NEW n \in Positions, UNCHANGED log, HandleLifecycle(n)
  PROVE  PanelOK' /\ NotBack /\ known' = known
<1> USE DEF StateInv
<1> DEFINE s == log[n].id
           k == log[n].kind
<1>1. k \in Statuses /\ known' = known
  BY DEF HandleLifecycle
<1>2. known \in {{}, Services} /\ DOMAIN ui = Services /\ \A t \in Services : Good(t, ui[t])
  BY DEF PanelOK
<1>3. CASE ~ NotOlder(n)
  <2>1. ui' = ui
    BY <1>3 DEF HandleLifecycle
  <2> QED  BY <1>1, <1>2, <2>1, NotBackKept, NextPanel
<1>4. CASE NotOlder(n)
  <2>1. s \in Services /\ s \in known /\ n >= ui[s].seq /\ known = Services
    BY <1>2, <1>4 DEF NotOlder
  <2>2. n \in Of(s)
    BY <1>1 DEF Of, Positions
  <2>3. ui[s].seq \in Nat /\ n \in Nat
    BY <1>2, <2>1 DEF Good, State, Positions
  <2>4. ui' = [ui EXCEPT ![s] = [Handled(@, n) EXCEPT !.seq = n, !.status = k]]
    BY <1>4 DEF HandleLifecycle
  <2>5. ui'[s] = Marked(Handled(ui[s], n), n)
    BY <1>2, <2>1, <2>4 DEF Marked
  <2> HIDE DEF s, k
  <2>6. Good(s, Marked(Handled(ui[s], n), n)) /\ Marked(Handled(ui[s], n), n).seq = n
    BY <1>2, <2>1, <2>2, <2>3, HandledGood
  <2>7. DOMAIN ui' = Services /\ \A t \in Services : t # s => ui'[t] = ui[t]
    BY <1>2, <2>1, <2>4
  <2>8. \A t \in Services : Good(t, ui'[t])
    BY <1>2, <2>5, <2>6, <2>7
  <2>9. PanelOK'
    BY <1>1, <1>2, <2>7, <2>8, NextPanel
  <2>10. \A t \in Services : ui[t].seq \in Nat
    BY <1>2 DEF Good, State
  <2>11. NotBack
    BY <2>1, <2>3, <2>5, <2>6, <2>7, <2>10 DEF NotBack
  <2> QED  BY <1>1, <2>9, <2>11
<1> QED  BY <1>3, <1>4

\* A watch message.
LEMMA WatchHandled ==
  ASSUME StateInv, NEW n \in Positions, UNCHANGED log, HandleWatch(n)
  PROVE  PanelOK' /\ NotBack /\ known' = known
<1> USE DEF StateInv
<1> DEFINE s == log[n].id
           on == log[n].kind = "watched"
<1>1. known' = known
  BY DEF HandleWatch
<1>2. known \in {{}, Services} /\ DOMAIN ui = Services /\ \A t \in Services : Good(t, ui[t])
  BY DEF PanelOK
<1>3. CASE ~ (s \in known /\ n > ui[s].watchSeq)
  <2>1. ui' = ui
    BY <1>3 DEF HandleWatch
  <2> QED  BY <1>1, <1>2, <2>1, NotBackKept, NextPanel
<1>4. CASE s \in known /\ n > ui[s].watchSeq
  <2>1. s \in Services /\ on \in BOOLEAN /\ n \in Nat
    BY <1>2, <1>4 DEF Positions
  <2>2. ui' = [ui EXCEPT ![s].watchSeq = n, ![s].watching = on]
    BY <1>4 DEF HandleWatch
  <2> HIDE DEF s, on
  <2>3. PICK b \in BOOLEAN : b = on
    BY <2>1
  <2>4. ui' = [ui EXCEPT ![s].watchSeq = n, ![s].watching = b]
    BY <2>2, <2>3
  <2>5. ui'[s] = [ui[s] EXCEPT !.watchSeq = n, !.watching = b]
    BY <1>2, <2>1, <2>4
  <2>6. Good(s, ui'[s]) /\ ui'[s].seq = ui[s].seq
    <3>1. \A m \in Nat, t \in BOOLEAN :
            /\ Good(s, [ui[s] EXCEPT !.watchSeq = m, !.watching = t])
            /\ [ui[s] EXCEPT !.watchSeq = m, !.watching = t].seq = ui[s].seq
      BY <1>2, <2>1, WatchedGood
    <3> QED  BY <2>1, <2>5, <3>1
  <2>7. DOMAIN ui' = Services /\ \A t \in Services : t # s => ui'[t] = ui[t]
    BY <1>2, <2>1, <2>4
  <2>8. \A t \in Services : Good(t, ui'[t])
    BY <1>2, <2>6, <2>7
  <2>9. PanelOK'
    BY <1>1, <1>2, <2>7, <2>8, NextPanel
  <2>10. \A t \in Services : ui[t].seq \in Nat /\ ui'[t].seq = ui[t].seq
    BY <1>2, <2>6, <2>7 DEF Good, State
  <2>11. NotBack
    BY <1>2, <2>10 DEF NotBack
  <2> QED  BY <1>1, <2>9, <2>11
<1> QED  BY <1>3, <1>4

\* The profile, which comes once and before the panel knows any service.
LEMMA ProfileHandled ==
  ASSUME StateInv, NEW n \in hands, UNCHANGED log, HandleProfileResolved(n)
  PROVE  PanelOK' /\ NotBack /\ n = 1 /\ log # <<>>
<1> USE DEF StateInv
<1>1. n = 1 /\ n \in Positions
  BY DEF HandleProfileResolved, Log, Positioned, Queues
<1>2. log # <<>>
  BY <1>1 DEF Positions
<1>3. known = {}
  BY <1>1 DEF Queues
<1>4. known' = Services /\ ui' = [s \in Services |-> NewState]
  BY DEF HandleProfileResolved
<1>5. PanelOK'
  BY <1>4, NewStateGood, NextPanel
<1>6. NotBack
  BY <1>3 DEF NotBack
<1> QED  BY <1>1, <1>2, <1>5, <1>6

\* A message is handled once.
LEMMA HandleStep ==
  ASSUME StateInv, NEW n, HandleMessage(n) PROVE StateInv' /\ NotBack
<1> USE DEF StateInv
<1>1. n \in hands /\ hands' = hands \ {n} /\ UNCHANGED <<log, life, uiQ, storeQ, store>>
  BY DEF HandleMessage
<1>2. n \in Positions
  BY <1>1 DEF Queues
<1>3. Log' /\ LifeOK' /\ StoreOK'
  BY <1>1, SameLog, SameStore
<1>4. PanelOK' /\ NotBack /\ (known' = known \/ (n = 1 /\ log # <<>>))
  <2>1. CASE HandleLifecycle(n)
    BY <1>1, <1>2, <2>1, LifecycleHandled
  <2>2. CASE HandleWatch(n)
    BY <1>1, <1>2, <2>2, WatchHandled
  <2>3. CASE HandleProfileResolved(n)
    BY <1>1, <2>3, ProfileHandled
  <2> QED  BY <2>1, <2>2, <2>3 DEF HandleMessage
<1>5. Queues'
  <2>1. /\ uiQ' \in Seq(Positions') /\ storeQ' \in Seq(Positions') /\ hands' \subseteq Positions'
        /\ \A k \in hands' : \A i \in 1..Len(uiQ') : k < uiQ'[i]
    BY <1>1 DEF Queues, Positions
  <2>2. Increasing(uiQ)' /\ Increasing(storeQ)'
    BY <1>1 DEF Queues, Increasing
  <2>3. known' # {} => log' # <<>> /\ 1 \notin hands' /\ \A i \in 1..Len(uiQ') : uiQ'[i] # 1
    <3>1. CASE known' = known
      BY <1>1, <3>1 DEF Queues
    <3>2. CASE n = 1 /\ log # <<>>
      <4>1. \A i \in 1..Len(uiQ) : 1 < uiQ[i] /\ uiQ[i] \in Positions
        BY <1>1, <3>2 DEF Queues
      <4> QED  BY <1>1, <3>2, <4>1 DEF Positions
    <3> QED  BY <1>4, <3>1, <3>2
  <2> QED  BY <2>1, <2>2, <2>3 DEF Queues
<1> QED  BY <1>3, <1>4, <1>5

\* The queues do not change.
LEMMA SameQueues ==
  ASSUME UNCHANGED <<log, uiQ, storeQ, hands, known>>, Queues PROVE Queues'
<1>1. Increasing(uiQ)' /\ Increasing(storeQ)'
  BY DEF Queues, Increasing
<1> QED  BY <1>1 DEF Queues, Positions

\* Once a second, each record takes what the store has and one more slot.
LEMMA TickStep ==
  ASSUME StateInv, Tick PROVE StateInv' /\ NotBack
<1> USE DEF StateInv
<1>1. /\ UNCHANGED <<log, life, uiQ, storeQ, store, hands, known>>
      /\ ui' = [s \in Services |-> IF s \in known THEN Sampled(Refreshed(ui[s], store[s])) ELSE ui[s]]
  BY DEF Tick
<1>2. Log' /\ LifeOK' /\ StoreOK' /\ Queues'
  BY <1>1, SameLog, SameStore, SameQueues
<1>3. known \in {{}, Services}
  BY DEF PanelOK
<1>4. ASSUME NEW s \in Services PROVE Good(s, ui'[s]) /\ ui'[s].seq >= ui[s].seq
  <2>1. /\ store[s] \in Snapshot /\ Shows(s, store[s]) /\ Attempted(store[s])
        /\ store[s].seq > 0 => store[s].age = log[store[s].seq].age
    BY DEF StoreOK
  <2>2. Good(s, ui[s]) /\ ui[s].seq \in Nat
    BY DEF PanelOK, Good, State
  <2>3. Good(s, Refreshed(ui[s], store[s])) /\ Refreshed(ui[s], store[s]).seq >= ui[s].seq
    BY <2>1, <2>2, RefreshedGood
  <2>4. /\ Good(s, Sampled(Refreshed(ui[s], store[s])))
        /\ Sampled(Refreshed(ui[s], store[s])).seq = Refreshed(ui[s], store[s]).seq
    BY <2>3, SampledGood
  <2>5. ui'[s] = Sampled(Refreshed(ui[s], store[s])) \/ ui'[s] = ui[s]
    BY <1>1
  <2> QED  BY <2>2, <2>3, <2>4, <2>5
<1>5. PanelOK'
  BY <1>1, <1>3, <1>4, NextPanel
<1>6. NotBack
  BY <1>3, <1>4 DEF NotBack
<1> QED  BY <1>2, <1>5, <1>6

\* Everything else leaves the log, the store and the records alone.
LEMMA KeyStep ==
  ASSUME StateInv, UNCHANGED <<log, life, uiQ, storeQ, store, hands, known, ui>>
  PROVE  StateInv' /\ NotBack
<1> USE DEF StateInv
<1>1. Log' /\ LifeOK' /\ StoreOK' /\ Queues' /\ PanelOK'
  BY SameLog, SameStore, SameQueues, SamePanel
<1> QED  BY <1>1, NotBackKept

\* Before anything is published.
LEMMA InitState == Init => StateInv
<1> SUFFICES ASSUME Init PROVE StateInv
  OBVIOUS
<1>1. log = <<>> /\ uiQ = <<>> /\ storeQ = <<>> /\ hands = {} /\ known = {} /\ Len(log) = 0
  BY DEF Init
<1>2. Positions = {} /\ \A s : Of(s) = {}
  BY <1>1 DEF Positions, Of
<1>3. Log
  BY <1>1, <1>2 DEF Log, Positioned, Attempts
<1>4. LifeOK
  BY <1>2 DEF LifeOK, Init
<1>5. Queues
  BY <1>1 DEF Queues, Increasing
<1>6. StoreOK
  <2>1. \A s \in Services : store[s] = NewSnapshot
    BY DEF Init
  <2>2. \A s \in Services : /\ Shows(s, store[s]) /\ Attempted(store[s]) /\ store[s].seq = 0
                            /\ store[s] \in Snapshot
    BY <2>1, NewSnapshotGood
  <2>3. store \in [Services -> Snapshot]
    BY NewSnapshotGood DEF Init
  <2> QED  BY <1>1, <2>2, <2>3 DEF StoreOK
<1>7. PanelOK
  BY <1>1, NewStateGood DEF PanelOK, Init
<1> QED  BY <1>3, <1>4, <1>5, <1>6, <1>7 DEF StateInv

\* Every step keeps the invariant, and takes no record back.
LEMMA NextState == StateInv /\ [Next]_vars => StateInv' /\ NotBack
<1> SUFFICES ASSUME StateInv, [Next]_vars PROVE StateInv' /\ NotBack
  OBVIOUS
<1>1. CASE PublishProfile
  BY <1>1, ProfileStep, NotBackKept
<1>2. CASE \E s \in Services, k \in Statuses, age \in 0..MaxSecs : PublishLifecycle(s, k, age)
  BY <1>2, LifecycleStep, NotBackKept
<1>3. CASE \E s \in Services, k \in Watch, drop \in SUBSET {"ui", "store"} : PublishWatch(s, k, drop)
  BY <1>3, WatchStep, NotBackKept
<1>4. CASE StoreStep
  BY <1>4, StoreStepKeeps, NotBackKept
<1>5. CASE Receive
  BY <1>5, ReceiveStep, NotBackKept
<1>6. CASE Update
  BY <1>6, HandleStep DEF Update
<1>7. CASE Tick
  BY <1>7, TickStep
<1>8. CASE RestartFailedKey \/ QuitKey \/ \E s \in Services : ServiceKey(s)
  BY <1>8, KeyStep DEF RestartFailedKey, QuitKey, ServiceKey, Command
<1>9. CASE UNCHANGED vars
  BY <1>9, KeyStep DEF vars
<1> QED  BY <1>1, <1>2, <1>3, <1>4, <1>5, <1>6, <1>7, <1>8, <1>9 DEF Next, Lifecycle

-----------------------------------------------------------------------------
(* The results *)

\* The invariant that the results rest on: what the panel and the store have of
\* a service are published events of it, the panel's attempt is never later than
\* that of the event it shows, and a start is filled in once, at its end
\* (update.go:556-709, model.go:361-443).
THEOREM StateInvariant == Spec => []StateInv
<1>1. Init => StateInv
  BY InitState
<1>2. StateInv /\ [Next]_vars => StateInv'
  BY NextState
<1> QED  BY <1>1, <1>2, PTL DEF Spec

\* Whatever the two ways a message takes, and the order two commands hand it
\* over in, the panel never goes back to an older event of a service and shows
\* each as the runner published it (update.go:556-709, model.go:361-367).
THEOREM PanelNewest == Spec => UINewest
<1> DEFINE A == \A s \in known :
                  /\ ui'[s].seq >= ui[s].seq
                  /\ ui'[s].seq > 0 => log'[ui'[s].seq].id = s /\ ui'[s].status = log'[ui'[s].seq].kind
<1>1. StateInv /\ StateInv' /\ [Next]_vars => A
  <2> SUFFICES ASSUME StateInv, StateInv', [Next]_vars, NEW s \in known
               PROVE  /\ ui'[s].seq >= ui[s].seq
                      /\ ui'[s].seq > 0 => log'[ui'[s].seq].id = s
                                           /\ ui'[s].status = log'[ui'[s].seq].kind
    OBVIOUS
  <2>1. ui'[s].seq >= ui[s].seq
    BY NextState DEF NotBack
  <2>2. s \in Services
    BY DEF StateInv, PanelOK
  <2>3. Shows(s, ui[s])'
    BY <2>2 DEF StateInv, PanelOK, Good
  <2> QED  BY <2>1, <2>3 DEF Shows, Of
<1>2. StateInv /\ StateInv' /\ [Next]_vars => [A]_vars
  BY <1>1
<1> HIDE DEF A
<1>3. Spec => [][A]_vars
  BY <1>2, StateInvariant, PTL DEF Spec
<1> QED  BY <1>3 DEF UINewest, A

\* A start that went straight to ready takes as many slots of the timeline as
\* it lasted seconds, or as it was sampled: the events that reach the panel
\* twice, or late, add none (timeline.go:80-96).
THEOREM PanelTimeline == Spec => []StartupOnTimeline
<1>1. StateInv => StartupOnTimeline
  <2> SUFFICES ASSUME StateInv, NEW s \in known,
                      ui[s].status = "running", log[ui[s].seq].age > 0, Before(ui[s].seq) # {},
                      log[Last(Before(ui[s].seq))].kind = "starting"
               PROVE  ui[s].filled + ui[s].seen = AtLeast(ui[s].seen, log[ui[s].seq].age)
    BY DEF StartupOnTimeline
  <2>1. ui[s] \in State /\ Shows(s, ui[s]) /\ Timeline(ui[s])
    BY DEF StateInv, PanelOK, Good
  <2>2. ui[s].seq > 0
    BY <2>1 DEF Shows, State
  <2>3. Straight(ui[s].seq)
    BY <2>1, <2>2 DEF Straight, Shows
  <2> QED  BY <2>1, <2>2, <2>3 DEF Timeline
<1> QED  BY <1>1, StateInvariant, PTL

-----------------------------------------------------------------------------
(* Settling *)

\* n is in the queue q.
OnWay(q, n) == \E i \in 1..Len(q) : q[i] = n

\* The profile has come to the panel, or is on its way.
Heard == log # <<>> => known = Services \/ 1 \in hands \/ OnWay(uiQ, 1)

\* Every event of a service has come to the store, or is on its way.
StoreHears == \A s \in Services : \A n \in Of(s) : n <= store[s].seq \/ OnWay(storeQ, n)

\* A spinner for a service that runs or failed, and that no key asked for, goes with an
\* event that the panel does not show yet.
Spins ==
  \A s \in known : s \in loader /\ ui[s].status \in {"running", "failed"} =>
    s \in asked \/ \E n \in Of(s) : n > ui[s].seq

HeardInv == Heard /\ StoreHears /\ Spins

\* A queue that a message joins.
LEMMA AppendOnWay ==
  ASSUME NEW T, NEW q \in Seq(T), NEW k
  PROVE  OnWay(Append(q, k), k) /\ \A n : OnWay(q, n) => OnWay(Append(q, k), n)
<1> DEFINE r == Append(q, k)
<1>1. q \in Seq(T \cup {k}) /\ Len(q) \in Nat
  BY SeqMonotonic
<1>2. Len(r) = Len(q) + 1 /\ r[Len(q) + 1] = k /\ \A i \in 1..Len(q) : r[i] = q[i]
  BY <1>1, AppendProperties
<1> HIDE DEF r
<1>3. \A i \in 1..Len(q) : i \in 1..Len(r)
  BY <1>1, <1>2
<1>4. Len(q) + 1 \in 1..Len(r)
  BY <1>1, <1>2
<1>5. OnWay(r, k) /\ \A n : OnWay(q, n) => OnWay(r, n)
  BY <1>2, <1>3, <1>4 DEF OnWay
<1> QED  BY <1>5 DEF r

\* A queue that its first message leaves.
LEMMA TailOnWay ==
  ASSUME NEW T, NEW q \in Seq(T), q # <<>>, NEW n, OnWay(q, n)
  PROVE  n = Head(q) \/ OnWay(Tail(q), n)
<1> DEFINE r == Tail(q)
<1>1. Len(q) \in Nat /\ Len(q) > 0 /\ Head(q) = q[1]
  OBVIOUS
<1>2. Len(r) = Len(q) - 1 /\ \A i \in 1..Len(r) : r[i] = q[i + 1]
  BY <1>1, HeadTailProperties
<1> HIDE DEF r
<1>3. PICK i \in 1..Len(q) : q[i] = n
  BY DEF OnWay
<1>4. CASE i = 1
  BY <1>1, <1>3, <1>4
<1>5. CASE i # 1
  <2>1. i - 1 \in 1..Len(r) /\ (i - 1) + 1 = i
    BY <1>1, <1>2, <1>3, <1>5
  <2>2. r[i - 1] = n
    BY <1>2, <1>3, <2>1
  <2>3. OnWay(r, n)
    BY <2>1, <2>2 DEF OnWay
  <2> QED  BY <2>3 DEF r
<1> QED  BY <1>4, <1>5

\* A message is published: only a watch message may be dropped, and only an event of
\* a service answers what was asked for it.
LEMMA PublishHeard ==
  ASSUME StateInv, HeardInv, NEW m \in Message, NEW drop, Publish(m, drop),
         m.kind \notin Watch => drop = {},
         log = <<>> => m.kind \notin Watch,
         UNCHANGED <<store, hands, known, ui, loader>>,
         asked' = asked \/ (m.kind \in Statuses /\ asked' = asked \ {m.id})
  PROVE  HeardInv'
<1> USE DEF StateInv, HeardInv
<1>1. log' = Append(log, m)
  BY DEF Publish
<1>2. /\ Len(log') = Len(log) + 1 /\ Len(log) \in Nat
      /\ \A n \in Positions : log'[n] = log[n]
  BY <1>1, LogGrows
<1>3. /\ "ui" \notin drop => uiQ' = Append(uiQ, Len(log) + 1)
      /\ "ui" \in drop => uiQ' = uiQ
      /\ "store" \notin drop => storeQ' = Append(storeQ, Len(log) + 1)
      /\ "store" \in drop => storeQ' = storeQ
  BY <1>2 DEF Publish
<1>4. uiQ \in Seq(Positions) /\ storeQ \in Seq(Positions)
  BY DEF Queues
<1>5. (\A n : OnWay(uiQ, n) => OnWay(uiQ', n)) /\ ("ui" \notin drop => OnWay(uiQ', Len(log) + 1))
  <2>1. OnWay(Append(uiQ, Len(log) + 1), Len(log) + 1)
        /\ \A n : OnWay(uiQ, n) => OnWay(Append(uiQ, Len(log) + 1), n)
    BY <1>4, AppendOnWay
  <2> QED  BY <1>3, <2>1
<1>6. (\A n : OnWay(storeQ, n) => OnWay(storeQ', n)) /\ ("store" \notin drop => OnWay(storeQ', Len(log) + 1))
  <2>1. OnWay(Append(storeQ, Len(log) + 1), Len(log) + 1)
        /\ \A n : OnWay(storeQ, n) => OnWay(Append(storeQ, Len(log) + 1), n)
    BY <1>4, AppendOnWay
  <2> QED  BY <1>3, <2>1
<1>7. Heard'
  <2>1. CASE log = <<>>
    <3>1. Len(log) + 1 = 1 /\ "ui" \notin drop
      BY <2>1
    <3> QED  BY <1>5, <3>1 DEF Heard
  <2>2. CASE log # <<>>
    BY <1>5, <2>2 DEF Heard
  <2> QED  BY <2>1, <2>2
<1>8. ASSUME NEW s \in Services
      PROVE  /\ Of(s) \subseteq Of(s)'
             /\ \A k \in Of(s)' : k \in Of(s) \/ (k = Len(log) + 1 /\ m.kind \in Statuses)
             /\ m.id = s /\ m.kind \in Statuses => Len(log) + 1 \in Of(s)'
  BY <1>1, OfGrows
<1>9. StoreHears'
  <2> SUFFICES ASSUME NEW s \in Services, NEW n \in Of(s)' PROVE n <= store[s].seq \/ OnWay(storeQ', n)
    BY DEF StoreHears
  <2>1. CASE n \in Of(s)
    BY <1>6, <2>1 DEF StoreHears
  <2>2. CASE n = Len(log) + 1 /\ m.kind \in Statuses
    <3>1. drop = {}
      BY <2>2 DEF Statuses, Watch
    <3> QED  BY <1>6, <2>2, <3>1
  <2> QED  BY <1>8, <2>1, <2>2
<1>10. Spins'
  <2> SUFFICES ASSUME NEW s \in known, s \in loader, ui[s].status \in {"running", "failed"}
               PROVE  s \in asked' \/ \E n \in Of(s)' : n > ui[s].seq
    BY DEF Spins
  <2>1. s \in Services
    BY DEF PanelOK
  <2>2. s \in asked \/ \E n \in Of(s) : n > ui[s].seq
    BY DEF Spins
  <2>3. CASE s \in asked /\ s \notin asked'
    <3>1. m.id = s /\ m.kind \in Statuses
      BY <2>3
    <3>2. Len(log) + 1 \in Of(s)'
      BY <1>8, <2>1, <3>1
    <3>3. ui[s].seq \in Nat /\ ui[s].seq <= Len(log)
      <4>1. ui[s].seq \in Nat /\ Shows(s, ui[s])
        BY <2>1 DEF PanelOK, Good, State
      <4> QED  BY <1>2, <4>1 DEF Shows, Of
    <3> QED  BY <1>2, <3>2, <3>3
  <2> QED  BY <1>8, <2>1, <2>2, <2>3
<1> QED  BY <1>7, <1>9, <1>10

\* The store's next message is not older than what it has of a service.
LEMMA StoreAdvances ==
  ASSUME StateInv, StoreStep, NEW s \in Services, NEW n \in Of(s),
         n <= store[s].seq \/ n = Head(storeQ)
  PROVE  n <= store'[s].seq
<1> USE DEF StateInv
<1> DEFINE h == Head(storeQ)
           m == log[h]
<1>1. /\ storeQ # <<>>
      /\ store' = IF m.kind = "profile" THEN [t \in Services |-> NewSnapshot]
                  ELSE [store EXCEPT ![m.id] = Stored(@, h, m)]
  BY DEF StoreStep
<1>2. h \in Positions /\ h \in Nat /\ h = storeQ[1] /\ 1 \in 1..Len(storeQ)
  BY <1>1 DEF Queues, Positions
<1> HIDE DEF h
<1>3. n \in Nat /\ n > 0 /\ n \in Positions /\ log[n].kind \in Statuses /\ log[n].id = s
  BY EventFacts
<1>4. /\ store[s] \in Snapshot /\ Shows(s, store[s]) /\ Attempted(store[s])
      /\ store[s].seq \in Nat /\ store[s].seq < h
  BY <1>2 DEF StoreOK, Snapshot
<1>5. n <= h
  BY <1>2, <1>3, <1>4 DEF h
<1>6. m.kind # "profile"
  <2> SUFFICES ASSUME m.kind = "profile" PROVE FALSE
    OBVIOUS
  <2>1. h = 1
    BY <1>2 DEF Log, Positioned
  <2>2. n = h
    BY <1>3, <1>5, <2>1
  <2> QED  BY <1>3, <2>2 DEF Statuses
<1>7. store' = [store EXCEPT ![m.id] = Stored(@, h, m)]
  BY <1>1, <1>6
<1>8. DOMAIN store = Services
  BY DEF StoreOK
<1>9. CASE m.id # s
  <2>1. store'[s] = store[s]
    BY <1>7, <1>8, <1>9
  <2>2. n # h
    BY <1>3, <1>9
  <2> QED  BY <2>1, <2>2 DEF h
<1>10. CASE m.id = s
  <2>1. store'[s] = Stored(store[s], h, m)
    BY <1>7, <1>8, <1>10
  <2>2. m.kind \in Statuses \cup Watch
    <3>1. m \in Message
      BY <1>2 DEF Log, Positions
    <3> QED  BY <1>6, <3>1 DEF Message, Kinds
  <2>3. CASE m.kind \in Statuses
    <3>1. h \in Of(s)
      BY <1>2, <1>10, <2>3 DEF Of, Positions
    <3>2. store'[s].seq = h
      BY <1>4, <2>1, <3>1, StoredGood
    <3> QED  BY <1>5, <3>2
  <2>4. CASE m.kind \in Watch
    <3>1. store'[s] = [store[s] EXCEPT !.watchSeq = h, !.watching = (m.kind = "watched")]
      BY <2>1, <2>4 DEF Stored, Watch
    <3>2. store'[s].seq = store[s].seq
      BY <1>4, <3>1 DEF Snapshot
    <3>3. n # h
      BY <1>3, <2>4 DEF Statuses, Watch
    <3> QED  BY <3>2, <3>3 DEF h
  <2> QED  BY <2>2, <2>3, <2>4
<1> QED  BY <1>9, <1>10

\* Nothing about the panel changes.
LEMMA SpinsKept ==
  ASSUME UNCHANGED <<log, known, ui, loader, asked>>, Spins PROVE Spins'
BY DEF Spins, Of

\* Nothing about the store changes.
LEMMA StoreHearsKept ==
  ASSUME UNCHANGED <<log, store, storeQ>>, StoreHears PROVE StoreHears'
BY DEF StoreHears, Of

LEMMA StoreStepHeard ==
  ASSUME StateInv, HeardInv, StoreStep PROVE HeardInv'
<1> USE DEF StateInv, HeardInv
<1>1. storeQ # <<>> /\ storeQ' = Tail(storeQ) /\ UNCHANGED <<log, uiQ, hands, known, ui, loader, asked>>
  BY DEF StoreStep
<1>2. Heard' /\ Spins'
  BY <1>1, SpinsKept DEF Heard
<1>3. storeQ \in Seq(Positions)
  BY DEF Queues
<1>4. ASSUME NEW s \in Services, NEW n \in Of(s) PROVE n <= store'[s].seq \/ OnWay(storeQ', n)
  <2>1. n <= store[s].seq \/ n = Head(storeQ) \/ OnWay(Tail(storeQ), n)
    BY <1>1, <1>3, TailOnWay DEF StoreHears
  <2> QED  BY <1>1, <2>1, StoreAdvances
<1>5. \A s : Of(s)' = Of(s)
  BY <1>1 DEF Of
<1>6. StoreHears'
  BY <1>4, <1>5 DEF StoreHears
<1> QED  BY <1>2, <1>6

LEMMA ReceiveHeard ==
  ASSUME StateInv, HeardInv, Receive PROVE HeardInv'
<1> USE DEF StateInv, HeardInv
<1>1. /\ uiQ # <<>> /\ uiQ' = Tail(uiQ) /\ hands' = hands \cup {Head(uiQ)}
      /\ UNCHANGED <<log, storeQ, store, known, ui, loader, asked>>
  BY DEF Receive
<1>2. uiQ \in Seq(Positions)
  BY DEF Queues
<1>3. OnWay(uiQ, 1) => 1 = Head(uiQ) \/ OnWay(uiQ', 1)
  BY <1>1, <1>2, TailOnWay
<1>4. Heard'
  BY <1>1, <1>3 DEF Heard
<1> QED  BY <1>1, <1>4, SpinsKept, StoreHearsKept

LEMMA HandleHeard ==
  ASSUME StateInv, HeardInv, NEW n, HandleMessage(n) PROVE HeardInv'
<1> USE DEF StateInv, HeardInv
<1>1. /\ n \in hands /\ hands' = hands \ {n} /\ UNCHANGED <<log, uiQ, storeQ, store, asked>>
      /\ HandleLifecycle(n) \/ HandleWatch(n) \/ HandleProfileResolved(n)
  BY DEF HandleMessage
<1>2. n \in Positions
  BY <1>1 DEF Queues
<1>3. known \in {{}, Services} /\ DOMAIN ui = Services /\ \A t \in Services : Good(t, ui[t])
  BY DEF PanelOK
<1>4. log[n].kind \in Statuses \cup Watch => n # 1 /\ ~HandleProfileResolved(n)
  BY <1>2 DEF Log, Positioned, Statuses, Watch, HandleProfileResolved
<1>5. Heard'
  <2>1. CASE HandleProfileResolved(n)
    BY <2>1 DEF Heard, HandleProfileResolved
  <2>2. CASE HandleLifecycle(n) \/ HandleWatch(n)
    <3>1. known' = known /\ log[n].kind \in Statuses \cup Watch
      BY <2>2 DEF HandleLifecycle, HandleWatch
    <3> QED  BY <1>1, <1>4, <3>1 DEF Heard
  <2> QED  BY <1>1, <2>1, <2>2
<1>6. Spins'
  <2>1. CASE HandleProfileResolved(n)
    BY <2>1 DEF Spins, HandleProfileResolved
  <2>2. CASE HandleWatch(n)
    <3>1. known' = known /\ loader' = loader
      BY <2>2 DEF HandleWatch
    <3>2. ASSUME NEW t \in Services PROVE ui'[t].status = ui[t].status /\ ui'[t].seq = ui[t].seq
      <4>1. ui[t] \in State
        BY <1>3 DEF Good
      <4>2. \/ ui' = ui
            \/ ui' = [ui EXCEPT ![log[n].id].watchSeq = n, ![log[n].id].watching = (log[n].kind = "watched")]
        BY <2>2 DEF HandleWatch
      <4> QED  BY <1>3, <4>1, <4>2 DEF State
    <3> QED  BY <1>1, <1>3, <3>1, <3>2 DEF Spins, Of
  <2>3. CASE HandleLifecycle(n)
    <3> DEFINE s == log[n].id
               k == log[n].kind
    <3>1. k \in Statuses /\ known' = known
      BY <2>3 DEF HandleLifecycle
    <3>2. CASE ~NotOlder(n)
      BY <1>1, <2>3, <3>1, <3>2, SpinsKept DEF HandleLifecycle
    <3>3. CASE NotOlder(n)
      <4>1. /\ ui' = [ui EXCEPT ![s] = Marked(Handled(@, n), n)]
            /\ loader' = Spinner(s, k)
        BY <2>3, <3>3 DEF HandleLifecycle, Marked
      <4>2. s \in Services /\ n \in Of(s) /\ ui[s].seq <= n
        <5>1. s \in known /\ n >= ui[s].seq
          BY <3>3 DEF NotOlder
        <5>2. ui[s].seq \in Nat /\ n \in Nat
          BY <1>2, <1>3, <5>1 DEF Good, State, Positions
        <5> QED  BY <1>2, <1>3, <3>1, <5>1, <5>2 DEF Of, Positions
      <4>3. ui'[s].status = k
        <5>1. Good(s, Marked(Handled(ui[s], n), n)) /\ Marked(Handled(ui[s], n), n).seq = n
          BY <1>3, <4>2, HandledGood
        <5>2. n > 0
          BY <4>2, EventFacts
        <5>3. ui'[s] = Marked(Handled(ui[s], n), n)
          BY <1>3, <4>1, <4>2
        <5> HIDE DEF s, k
        <5>4. ui'[s].status = log[n].kind
          BY <5>1, <5>2, <5>3 DEF Good, Shows
        <5> QED  BY <5>4 DEF k
      <4>4. k \in {"running", "failed"} => s \notin loader'
        BY <4>1 DEF Spinner
      <4> HIDE DEF s, k
      <4>5. \A t \in Services : t # s => ui'[t] = ui[t]
        BY <1>3, <4>1, <4>2
      <4>6. \A t \in Services : t # s => (t \in loader' <=> t \in loader)
        BY <3>1, <4>1 DEF Spinner, Statuses
      <4> QED  BY <1>1, <1>3, <3>1, <4>3, <4>4, <4>5, <4>6 DEF Spins, Of
    <3> QED  BY <3>2, <3>3
  <2> QED  BY <1>1, <2>1, <2>2, <2>3
<1> QED  BY <1>1, <1>5, <1>6, StoreHearsKept

\* Filling in slots leaves what is known of watching.
LEMMA BackfillWatch ==
  ASSUME NEW t \in State, NEW n \in Nat, NEW a \in Nat, NEW age \in Nat
  PROVE  Backfill(t, n, a, age).watchSeq = t.watchSeq /\ Backfill(t, n, a, age) \in State
<1>1. Backfill(t, n, a, age) \in State
  BY Filled DEF Filling
<1> QED  BY <1>1 DEF Backfill, State

LEMMA KnowWatch ==
  ASSUME NEW t \in State, NEW a \in Nat
  PROVE  Know(t, a) \in State /\ Know(t, a).watchSeq = t.watchSeq
BY KnowFields DEF Know, State

\* A snapshot's two ways to fill the numbers in.
LEMMA FilledWatch ==
  ASSUME NEW t \in State, NEW d \in Nat, NEW p \in Snapshot
  PROVE  /\ Backfill(Know(t, p.attempt), p.seq, p.attempt, p.age) \in State
         /\ Backfill(Know(t, p.attempt), p.seq, p.attempt, p.age).watchSeq = t.watchSeq
         /\ Backfill(t, p.seq, d, p.age) \in State
         /\ Backfill(t, p.seq, d, p.age).watchSeq = t.watchSeq
<1>1. p.attempt \in Nat /\ p.seq \in Nat /\ p.age \in Nat
  BY DEF Snapshot
<1>2. Know(t, p.attempt) \in State /\ Know(t, p.attempt).watchSeq = t.watchSeq
  BY <1>1, KnowWatch
<1>3. Backfill(t, p.seq, d, p.age) \in State
  BY <1>1, BackfillWatch
<1>4. Backfill(t, p.seq, d, p.age).watchSeq = t.watchSeq
  BY <1>1, BackfillWatch
<1> DEFINE k == Know(t, p.attempt)
<1>5. k \in State
  BY <1>2
<1> HIDE DEF k
<1>6. Backfill(k, p.seq, p.attempt, p.age) \in State
  BY <1>1, <1>5, BackfillWatch
<1>7. Backfill(k, p.seq, p.attempt, p.age).watchSeq = k.watchSeq
  BY <1>1, <1>5, BackfillWatch
<1> QED  BY <1>2, <1>3, <1>4, <1>6, <1>7 DEF k

\* Neither the store's snapshot nor a slot touches what is known of watching, unless
\* the snapshot's is as new.
LEMMA ReconciledWatch ==
  ASSUME NEW u \in State, NEW p \in Snapshot
  PROVE  Reconciled(u, p).watchSeq = u.watchSeq
<1>1. /\ u.attempt \in Nat /\ p.attempt \in Nat /\ p.seq \in Nat /\ p.age \in Nat
  BY DEF State, Snapshot
<1> DEFINE v == IF u.attempt = p.attempt THEN u ELSE [u EXCEPT !.sampled = 0]
           b == Backfill(Know(v, p.attempt), p.seq, p.attempt, p.age)
           c == Backfill(v, p.seq, u.attempt, p.age)
           w == IF p.status = "running" \/ p.attempt \notin {0, u.attempt} THEN b
                ELSE IF u.active THEN c ELSE v
           x == CASE p.status = "starting" -> [v EXCEPT !.active = TRUE]
                  [] p.status \in {"running", "failed", "stopped"} -> [w EXCEPT !.active = FALSE]
                  [] OTHER -> v
           y == Know(x, p.attempt)
<1>4. v \in State /\ v.watchSeq = u.watchSeq
  BY DEF State
<1>5. Reconciled(u, p) = [y EXCEPT !.seq = p.seq, !.status = p.status, !.timed = p.timed]
  BY DEF Reconciled
<1>v. w \in {v, b, c}
  OBVIOUS
<1>x. x = v \/ x = [v EXCEPT !.active = TRUE] \/ x = [w EXCEPT !.active = FALSE]
  OBVIOUS
<1> HIDE DEF v, w, x, y
<1>6. b \in State /\ b.watchSeq = u.watchSeq /\ c \in State /\ c.watchSeq = u.watchSeq
  BY <1>1, <1>4, FilledWatch DEF b, c
<1> HIDE DEF b, c
<1>7. w \in State /\ w.watchSeq = u.watchSeq
  BY <1>v, <1>4, <1>6
<1>8. x \in State /\ x.watchSeq = u.watchSeq
  BY <1>4, <1>7, <1>x DEF State
<1>9. y \in State /\ y.watchSeq = u.watchSeq
  BY <1>1, <1>8, KnowWatch DEF y
<1> QED  BY <1>5, <1>9 DEF State

LEMMA SampledWatch ==
  ASSUME NEW u \in State PROVE Sampled(u).watchSeq = u.watchSeq
BY DEF Sampled, State

\* After a tick, a service shows the store's event if that is newer, and else the one
\* it showed; and it is watched as the store says or as something newer does.
LEMMA TickShows ==
  ASSUME StateInv, Tick, NEW s \in known
  PROVE  /\ store[s].seq > ui[s].seq => ui'[s].seq = store[s].seq /\ ui'[s].status = store[s].status
         /\ ~(store[s].seq > ui[s].seq) => ui'[s].seq = ui[s].seq /\ ui'[s].status = ui[s].status
         /\ ui'[s].watchSeq >= store[s].watchSeq
<1> USE DEF StateInv
<1> DEFINE u == ui[s]
           p == store[s]
           r == Refreshed(u, p)
           v == IF Applies(u, p) THEN Reconciled(u, p) ELSE u
<1>1. s \in Services
  BY DEF PanelOK
<1>2. ui'[s] = Sampled(r)
  BY <1>1 DEF Tick
<1>3. /\ p \in Snapshot /\ Shows(s, p) /\ Attempted(p) /\ (p.seq > 0 => p.age = log[p.seq].age)
      /\ Good(s, u)
  BY <1>1 DEF StoreOK, PanelOK
<1> HIDE DEF u, p
<1>4. u.seq \in Nat /\ p.seq \in Nat /\ u.watchSeq \in Nat /\ p.watchSeq \in Nat /\ u \in State
  BY <1>3 DEF Good, State, Snapshot
<1>5. Good(s, r) /\ Good(s, Sampled(r)) /\ Sampled(r).seq = r.seq
  BY <1>1, <1>3, RefreshedGood, SampledGood
<1>6. /\ v \in State /\ v.watchSeq = u.watchSeq
      /\ v.seq = IF p.seq > u.seq THEN p.seq ELSE u.seq
  <2>1. CASE Applies(u, p)
    <3>1. p.seq >= u.seq
      BY <1>4, <2>1 DEF Applies
    <3>2. Reconciled(u, p) \in State /\ Reconciled(u, p).seq = p.seq
      BY <1>1, <1>3, <1>4, <3>1, ReconciledGood DEF Good
    <3>3. Reconciled(u, p).watchSeq = u.watchSeq
      BY <1>3, <1>4, ReconciledWatch
    <3> QED  BY <1>4, <2>1, <3>1, <3>2, <3>3
  <2>2. CASE ~Applies(u, p)
    BY <1>4, <2>2 DEF Applies
  <2> QED  BY <2>1, <2>2
<1>7. r = IF p.watchSeq >= u.watchSeq THEN [v EXCEPT !.watchSeq = p.watchSeq, !.watching = p.watching] ELSE v
  BY DEF Refreshed
<1> HIDE DEF v
<1>8. r.seq = v.seq /\ r.watchSeq >= p.watchSeq
  BY <1>4, <1>6, <1>7 DEF State
<1> HIDE DEF r
<1>9. Sampled(r).watchSeq = r.watchSeq
  BY <1>5, SampledWatch DEF Good
<1>10. Shows(s, Sampled(r)) /\ Shows(s, u)
  BY <1>3, <1>5 DEF Good
<1>11. CASE p.seq > u.seq
  <2>1. Sampled(r).seq = p.seq /\ p.seq > 0
    BY <1>4, <1>5, <1>6, <1>8, <1>11
  <2>2. Sampled(r).status = p.status
    BY <1>3, <1>10, <2>1 DEF Shows
  <2> QED  BY <1>2, <1>4, <1>8, <1>9, <1>11, <2>1, <2>2 DEF u, p
<1>12. CASE ~(p.seq > u.seq)
  <2>1. Sampled(r).seq = u.seq
    BY <1>4, <1>5, <1>6, <1>8, <1>12
  <2>2. Sampled(r).status = u.status
    BY <1>4, <1>10, <2>1 DEF Shows
  <2> QED  BY <1>2, <1>4, <1>8, <1>9, <1>12, <2>1, <2>2 DEF u, p
<1> QED  BY <1>11, <1>12

LEMMA TickHeard ==
  ASSUME StateInv, HeardInv, Tick PROVE HeardInv'
<1> USE DEF StateInv, HeardInv
<1>1. UNCHANGED <<log, uiQ, hands, storeQ, store, known, asked>>
  BY DEF Tick
<1>2. Heard' /\ StoreHears'
  BY <1>1, StoreHearsKept DEF Heard
<1>3. ASSUME NEW s \in known, s \in loader', ui'[s].status \in {"running", "failed"}
      PROVE  s \in asked \/ \E n \in Of(s) : n > ui'[s].seq
  <2>1. s \in Services
    BY DEF PanelOK
  <2>2. CASE store[s].seq > ui[s].seq
    <3>1. ui'[s].status = store[s].status
      BY <2>2, TickShows
    <3>2. Advanced(s)
      BY <2>2 DEF Advanced
    <3>3. s \notin loader'
      BY <1>3, <2>1, <3>1, <3>2 DEF Tick
    <3> QED  BY <1>3, <3>3
  <2>3. CASE ~(store[s].seq > ui[s].seq)
    <3>1. ui'[s].status = ui[s].status /\ ui'[s].seq = ui[s].seq
      BY <2>3, TickShows
    <3>2. s \in loader
      BY <1>3 DEF Tick
    <3> QED  BY <1>3, <3>1, <3>2 DEF Spins
  <2> QED  BY <2>2, <2>3
<1>4. Spins'
  BY <1>1, <1>3 DEF Spins, Of
<1> QED  BY <1>2, <1>4

\* A key asks for what it has spinners for.
LEMMA KeyHeard ==
  ASSUME HeardInv, UNCHANGED <<log, uiQ, hands, storeQ, store, known, ui>>,
         NEW S, asked' = asked \cup S, loader' = loader \cup S
  PROVE  HeardInv'
BY DEF HeardInv, Heard, StoreHears, Spins, Of

LEMMA InitHeard == Init => HeardInv
<1> SUFFICES ASSUME Init PROVE HeardInv
  OBVIOUS
<1>1. log = <<>> /\ known = {} /\ Len(log) = 0
  BY DEF Init
<1>2. \A s : Of(s) = {}
  BY <1>1 DEF Of
<1> QED  BY <1>1, <1>2 DEF HeardInv, Heard, StoreHears, Spins

LEMMA NextHeard == StateInv /\ HeardInv /\ [Next]_vars => HeardInv'
<1> SUFFICES ASSUME StateInv, HeardInv, [Next]_vars PROVE HeardInv'
  OBVIOUS
<1>1. CASE PublishProfile
  <2> DEFINE m == [kind |-> "profile", id |-> "", attempt |-> 0, age |-> 0]
  <2>1. m \in Message /\ m.kind \notin Watch
    BY DEF Message, Kinds, Watch
  <2>2. Publish(m, {}) /\ UNCHANGED <<store, hands, known, ui, loader, asked>>
    BY <1>1 DEF PublishProfile
  <2> HIDE DEF m
  <2> QED  BY <2>1, <2>2, PublishHeard
<1>2. ASSUME NEW s \in Services, NEW k \in Statuses, NEW age \in 0..MaxSecs, PublishLifecycle(s, k, age)
      PROVE  HeardInv'
  <2> DEFINE m == [kind |-> k, id |-> s, attempt |-> life'[s].attempt, age |-> age]
  <2>1. Publish(m, {}) /\ UNCHANGED <<store, hands, known, ui, loader>> /\ asked' = asked \ {s}
    BY <1>2 DEF PublishLifecycle
  <2>2. m \in Message
    <3>1. life'[s].attempt \in Nat
      BY LifecycleStep, <1>2 DEF StateInv, LifeOK
    <3>2. age \in Nat
      BY StateAssumption
    <3> QED  BY <3>1, <3>2 DEF Message, Kinds
  <2>3. m.kind = k /\ m.id = s
    OBVIOUS
  <2> HIDE DEF m
  <2>4. k \notin Watch
    BY DEF Statuses, Watch
  <2> QED  BY <2>1, <2>2, <2>3, <2>4, PublishHeard
<1>3. ASSUME NEW s \in Services, NEW k \in Watch, NEW drop, PublishWatch(s, k, drop)
      PROVE  HeardInv'
  <2> DEFINE m == [kind |-> k, id |-> s, attempt |-> 0, age |-> 0]
  <2>1. log # <<>> /\ Publish(m, drop) /\ UNCHANGED <<store, hands, known, ui, loader, asked>>
    BY <1>3 DEF PublishWatch
  <2>2. m \in Message /\ m.kind \in Watch
    BY DEF Message, Kinds
  <2> HIDE DEF m
  <2> QED  BY <2>1, <2>2, PublishHeard
<1>4. CASE StoreStep
  BY <1>4, StoreStepHeard
<1>5. CASE Receive
  BY <1>5, ReceiveHeard
<1>6. CASE Update
  BY <1>6, HandleHeard DEF Update
<1>7. CASE Tick
  BY <1>7, TickHeard
<1>8. ASSUME NEW S, Command(S) PROVE HeardInv'
  BY <1>8, KeyHeard DEF Command
<1>9. CASE QuitKey
  <2>1. asked' = asked \cup {} /\ loader' = loader \cup {}
    BY <1>9 DEF QuitKey
  <2> QED  BY <1>9, <2>1, KeyHeard DEF QuitKey
<1>10. CASE UNCHANGED vars
  <2>1. asked' = asked \cup {} /\ loader' = loader \cup {}
    BY <1>10 DEF vars
  <2> QED  BY <1>10, <2>1, KeyHeard DEF vars
<1>11. CASE RestartFailedKey
  BY <1>8, <1>11 DEF RestartFailedKey
<1>12. CASE \E s \in Services : ServiceKey(s)
  BY <1>8, <1>12 DEF ServiceKey
<1> QED  BY <1>1, <1>2, <1>3, <1>4, <1>5, <1>6, <1>7, <1>9, <1>10, <1>11, <1>12 DEF Next, Lifecycle

\* The last event of a service is the one that is shown.
LEMMA ShownIsLast ==
  ASSUME StateInv, NEW s \in Services, NEW n \in Of(s), \A k \in Of(s) : k <= n
  PROVE  Shown(s) = log[n].kind
<1>1. Of(s) \subseteq 1..Len(log) /\ Len(log) \in Nat
  BY DEF Of, StateInv, Log
<1>2. Last(Of(s)) \in Of(s) /\ \A k \in Of(s) : k <= Last(Of(s))
  BY <1>1, LastIsLast
<1>3. n = Last(Of(s))
  BY <1>1, <1>2
<1> QED  BY <1>3 DEF Shown

\* A tick, when everything has come.
LEMMA SettledByTick ==
  ASSUME StateInv, HeardInv, StateInv', HeardInv', Delivered, Tick PROVE Settled'
<1> USE DEF HeardInv
<1>1. uiQ = <<>> /\ hands = {} /\ storeQ = <<>> /\ UNCHANGED <<log, known, store, asked>>
  BY DEF Delivered, Tick
<1>2. \A n : ~OnWay(uiQ, n) /\ ~OnWay(storeQ, n)
  BY <1>1 DEF OnWay
<1>3. log # <<>> => known = Services
  BY <1>1, <1>2 DEF Heard
<1>4. ASSUME NEW s \in known
      PROVE  /\ Of(s) # {} => ui'[s].status = Shown(s)
             /\ ui'[s].watchSeq >= store[s].watchSeq
             /\ s \in loader' /\ ui'[s].status \in {"running", "failed"} => s \in asked
  <2>1. s \in Services
    BY DEF StateInv, PanelOK
  <2>2. /\ store[s] \in Snapshot /\ Shows(s, store[s]) /\ store[s].seq \in Nat
        /\ Good(s, ui[s]) /\ ui[s].seq \in Nat
    BY <2>1 DEF StateInv, StoreOK, PanelOK, Snapshot, Good, State
  <2>3. \A n \in Of(s) : n \in Nat /\ n <= store[s].seq
    BY <1>2, <2>1, EventFacts DEF StoreHears, StateInv
  <2>4. ui'[s].seq >= store[s].seq /\ ui'[s].seq \in Nat
    BY <2>2, TickShows
  <2>5. \A n \in Of(s) : n <= ui'[s].seq
    BY <2>2, <2>3, <2>4
  <2>6. Shows(s, ui[s])'
    BY <2>1 DEF StateInv, PanelOK, Good
  <2>7. Of(s)' = Of(s)
    BY <1>1 DEF Of
  <2>8. ASSUME Of(s) # {} PROVE ui'[s].status = Shown(s)
    <3>1. PICK k \in Of(s) : k \in Nat /\ k > 0
      BY <2>1, <2>8, EventFacts DEF StateInv
    <3>2. ui'[s].seq > 0
      BY <2>4, <2>5, <3>1
    <3>3. ui'[s].seq \in Of(s) /\ ui'[s].status = log[ui'[s].seq].kind
      BY <1>1, <2>6, <2>7, <3>2 DEF Shows
    <3> QED  BY <2>1, <2>5, <3>3, ShownIsLast
  <2>9. ASSUME s \in loader', ui'[s].status \in {"running", "failed"} PROVE s \in asked
    <3>1. s \in asked' \/ \E n \in Of(s)' : n > ui'[s].seq
      BY <1>1, <2>9 DEF Spins
    <3> QED  BY <1>1, <2>3, <2>4, <2>5, <2>7, <3>1
  <2> QED  BY <2>8, <2>9, TickShows
<1> QED  BY <1>1, <1>3, <1>4 DEF Settled, Shown, Of

\* A key, or nothing, leaves it so.
LEMMA SettledKept ==
  ASSUME Settled, UNCHANGED <<log, known, ui, store>>,
         NEW S, asked' = asked \cup S, loader' = loader \cup S
  PROVE  Settled'
BY DEF Settled, Shown, Of

\* Once everything that was published has come to the panel and to the store, the next
\* tick shows it: the last event of every service, and no spinner that nothing asked
\* for; and so it stays until something more is published (update.go:80-100,
\* model.go:340-443).
THEOREM PanelSettles == Spec => TickSettles
<1> DEFINE A == Delivered /\ log' = log /\ (Tick \/ Settled) => Settled'
<1>1. Init => StateInv /\ HeardInv
  BY InitState, InitHeard
<1>2. StateInv /\ HeardInv /\ [Next]_vars => StateInv' /\ HeardInv'
  BY NextState, NextHeard
<1>3. StateInv /\ HeardInv /\ StateInv' /\ HeardInv' /\ [Next]_vars => [A]_vars
  <2> SUFFICES ASSUME StateInv, HeardInv, StateInv', HeardInv', [Next]_vars,
                      Delivered, log' = log, Tick \/ Settled
               PROVE  Settled'
    OBVIOUS
  <2>1. CASE Tick
    BY <2>1, SettledByTick
  <2>2. CASE Settled /\ ~Tick
    <3>1. Len(log) \in Nat
      BY DEF StateInv, Log
    <3>2. \A m : log' # Append(log, m)
      BY <3>1
    <3>3. ~Lifecycle
      BY <3>2 DEF Lifecycle, PublishProfile, PublishLifecycle, PublishWatch, Publish
    <3>4. ~StoreStep /\ ~Receive /\ ~Update
      BY DEF Delivered, StoreStep, Receive, Update, HandleMessage
    <3>5. ASSUME NEW S, Command(S) PROVE Settled'
      BY <2>2, <3>5, SettledKept DEF Command
    <3>6. CASE RestartFailedKey \/ \E s \in Services : ServiceKey(s)
      BY <3>5, <3>6 DEF RestartFailedKey, ServiceKey
    <3>7. CASE QuitKey \/ UNCHANGED vars
      <4>1. asked' = asked \cup {} /\ loader' = loader \cup {} /\ UNCHANGED <<known, ui, store>>
        BY <3>7 DEF QuitKey, vars
      <4> QED  BY <2>2, <4>1, SettledKept
    <3> QED  BY <2>2, <3>3, <3>4, <3>6, <3>7 DEF Next
  <2> QED  BY <2>1, <2>2
<1> HIDE DEF A
<1>4. Spec => [][A]_vars
  BY <1>1, <1>2, <1>3, PTL DEF Spec
<1> QED  BY <1>4 DEF TickSettles, A
=============================================================================
