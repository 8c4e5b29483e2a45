----------------------------- MODULE BusProofs -----------------------------
(***************************************************************************)
(* Proofs about the event bus for any publishers, subscriptions, buffer    *)
(* and number of messages: no send on a closed channel, no critical        *)
(* message lost, no overflow that the pump is not woken for, the           *)
(* refinement of Delivery, and what a receiver may conclude from it.       *)
(***************************************************************************)
EXTENDS Bus, SequenceTheorems, TLAPS

\* Who holds which lock: publishers exclude one another and whoever closes.
Locks ==
  /\ \A p \in Publishers :
       /\ pc[p] # "idle" => publishMu = p
       /\ pc[p] = "rlock" => seq < MaxSeq
  /\ writer => Readers = {}
  /\ ~writer => toClose = {}
  /\ \A s \in Subs : (s \in toClose => state[s] \in {"open", "closing"})
                     /\ (state[s] = "closing" => s \in toClose)

\* What a publisher still has to do: it offers the last message to
\* subscriptions that stay open as long.
Offers ==
  \A p \in Publishers :
    /\ pc[p] \in {"idle", "rlock"} => todo[p] = {}
    /\ pc[p] \notin {"idle", "rlock"} =>
         /\ msg[p] = seq /\ seq \in Messages
         /\ \A s \in todo[p] : state[s] = "open" /\ from[s] < seq
    /\ pc[p] \in {"try", "queue", "notify"} => at[p] \in todo[p]
    /\ pc[p] \in {"try", "queue"} => overflow[at[p]] = <<>>

\* A subscription's channel, overflow and pump agree with its life cycle.
Subscriptions ==
  \A s \in Subs :
    /\ state[s] = "new" => got[s] = <<>> /\ ch[s] = <<>> /\ overflow[s] = <<>> /\ pump[s] = "wait" /\ ~sig[s]
    /\ pump[s] = "done" => state[s] \in {"closing", "closed"}
    /\ state[s] = "closed" => pump[s] = "done"
    /\ pump[s] \in {"send", "pop"} => overflow[s] # <<>>
    /\ from[s] <= seq

\* What s has been given, in no order.
Given(s) == Among(got[s]) \cup Among(ch[s]) \cup Among(Waiting(s))

\* The publisher has not yet put its message where s will find it.
Owes(p, s) == s \in todo[p] /\ ~(pc[p] = "notify" /\ at[p] = s)

\* A subscription has only what was published, all that is critical but for the
\* message being offered, and the one being offered once it is queued.
Contents ==
  \A s \in Subs :
    /\ \A n \in Given(s) : n <= seq
    /\ \A p \in Publishers :
         /\ Owes(p, s) => seq \notin Given(s)
         /\ pc[p] = "notify" /\ at[p] = s => seq \in Given(s)
    /\ state[s] = "open" =>
         \A n \in critical : n > from[s] =>
           n \in Given(s) \/ (n = seq /\ \E p \in Publishers : Owes(p, s))

IInv == TypeOK /\ Locks /\ Offers /\ Subscriptions /\ Contents

USE DEF seqVars, pubVars, lockVars, chanVars

-----------------------------------------------------------------------------
(* Sequences *)

\* What is among a sequence that got longer.
LEMMA AmongAppend ==
  ASSUME NEW S, NEW q \in Seq(S), NEW x \in S
  PROVE  Among(Append(q, x)) = Among(q) \cup {x}
<1>1. Len(Append(q, x)) = Len(q) + 1 /\ Len(q) \in Nat
  BY AppendProperties, LenProperties
<1>2. \A i \in 1..Len(q) : Append(q, x)[i] = q[i]
  BY AppendProperties
<1>3. Append(q, x)[Len(q) + 1] = x
  BY AppendProperties
<1>4. ASSUME NEW y \in Among(Append(q, x)) PROVE y \in Among(q) \cup {x}
  BY <1>1, <1>2, <1>3, <1>4 DEF Among
<1>5. ASSUME NEW y \in Among(q) \cup {x} PROVE y \in Among(Append(q, x))
  BY <1>1, <1>2, <1>3, <1>5 DEF Among
<1> QED  BY <1>4, <1>5

\* What is among a sequence is its head or among its tail.
LEMMA AmongHeadTail ==
  ASSUME NEW S, NEW q \in Seq(S), q # <<>>
  PROVE  Among(q) = {Head(q)} \cup Among(Tail(q)) /\ Head(q) \in S /\ Tail(q) \in Seq(S)
<1>1. /\ Len(Tail(q)) = Len(q) - 1 /\ Len(q) \in Nat \ {0}
      /\ \A i \in 1..Len(Tail(q)) : Tail(q)[i] = q[i + 1]
      /\ Head(q) \in S /\ Tail(q) \in Seq(S)
  BY HeadTailProperties, EmptySeq
<1>2. Head(q) = q[1]
  OBVIOUS
<1>3. ASSUME NEW y \in Among(q) PROVE y \in {Head(q)} \cup Among(Tail(q))
  <2>1. PICK i \in 1..Len(q) : y = q[i]
    BY DEF Among
  <2>2. CASE i = 1
    BY <2>1, <2>2, <1>2
  <2>3. CASE i # 1
    <3>1. i - 1 \in 1..Len(Tail(q)) /\ Tail(q)[i - 1] = q[i]
      BY <1>1, <2>3
    <3> QED  BY <2>1, <3>1 DEF Among
  <2> QED  BY <2>2, <2>3
<1>4. ASSUME NEW y \in {Head(q)} \cup Among(Tail(q)) PROVE y \in Among(q)
  <2>1. CASE y = Head(q)
    BY <2>1, <1>1, <1>2 DEF Among
  <2>2. CASE y \in Among(Tail(q))
    <3>1. PICK i \in 1..Len(Tail(q)) : y = Tail(q)[i]
      BY <2>2 DEF Among
    <3>2. i + 1 \in 1..Len(q) /\ y = q[i + 1]
      BY <1>1, <3>1
    <3> QED  BY <3>2 DEF Among
  <2> QED  BY <1>4, <2>1, <2>2
<1> QED  BY <1>1, <1>3, <1>4

\* Nothing is among the empty sequence.
LEMMA AmongEmpty == Among(<<>>) = {}
  BY DEF Among

\* What is among two sequences in a row.
LEMMA AmongConcat ==
  ASSUME NEW S, NEW q \in Seq(S), NEW r \in Seq(S)
  PROVE  Among(q \o r) = Among(q) \cup Among(r)
<1>1. /\ Len(q \o r) = Len(q) + Len(r) /\ Len(q) \in Nat /\ Len(r) \in Nat
      /\ \A i \in 1..Len(q) + Len(r) : (q \o r)[i] = IF i <= Len(q) THEN q[i] ELSE r[i - Len(q)]
  BY ConcatProperties, LenProperties
<1>2. ASSUME NEW y \in Among(q \o r) PROVE y \in Among(q) \cup Among(r)
  <2>1. PICK i \in 1..Len(q) + Len(r) : y = (q \o r)[i]
    BY <1>1 DEF Among
  <2>2. CASE i <= Len(q)
    BY <1>1, <2>1, <2>2 DEF Among
  <2>3. CASE ~(i <= Len(q))
    <3>1. i - Len(q) \in 1..Len(r) /\ y = r[i - Len(q)]
      BY <1>1, <2>1, <2>3
    <3> QED  BY <3>1 DEF Among
  <2> QED  BY <2>2, <2>3
<1>3. ASSUME NEW y \in Among(q) PROVE y \in Among(q \o r)
  <2>1. PICK i \in 1..Len(q) : y = q[i]
    BY <1>3 DEF Among
  <2>2. i \in 1..Len(q \o r) /\ (q \o r)[i] = y
    BY <1>1, <2>1
  <2> QED  BY <2>2 DEF Among
<1>4. ASSUME NEW y \in Among(r) PROVE y \in Among(q \o r)
  <2>1. PICK i \in 1..Len(r) : y = r[i]
    BY <1>4 DEF Among
  <2>2. i + Len(q) \in 1..Len(q \o r) /\ (q \o r)[i + Len(q)] = y
    BY <1>1, <2>1
  <2> QED  BY <2>2 DEF Among
<1> QED  BY <1>2, <1>3, <1>4

\* An element moves from the head of one sequence to the end of the one before.
LEMMA ConcatMove ==
  ASSUME NEW S, NEW q \in Seq(S), NEW r \in Seq(S), r # <<>>
  PROVE  Append(q, Head(r)) \o Tail(r) = q \o r
<1>1. /\ Head(r) \in S /\ Tail(r) \in Seq(S) /\ Len(Tail(r)) = Len(r) - 1
      /\ \A i \in 1..Len(Tail(r)) : Tail(r)[i] = r[i + 1]
  BY HeadTailProperties
<1>2. Len(r) \in Nat \ {0} /\ Len(q) \in Nat /\ Head(r) = r[1]
  BY EmptySeq, LenProperties
<1> DEFINE a == Append(q, Head(r))
<1>3. /\ a \in Seq(S) /\ Len(a) = Len(q) + 1
      /\ \A i \in 1..Len(q) : a[i] = q[i]
      /\ a[Len(q) + 1] = Head(r)
  BY <1>1, AppendProperties
<1> HIDE DEF a
<1>4. /\ a \o Tail(r) \in Seq(S) /\ Len(a \o Tail(r)) = Len(a) + Len(Tail(r))
      /\ \A i \in 1..Len(a) + Len(Tail(r)) :
           (a \o Tail(r))[i] = IF i <= Len(a) THEN a[i] ELSE Tail(r)[i - Len(a)]
  BY <1>1, <1>3, ConcatProperties
<1>5. /\ q \o r \in Seq(S) /\ Len(q \o r) = Len(q) + Len(r)
      /\ \A i \in 1..Len(q) + Len(r) : (q \o r)[i] = IF i <= Len(q) THEN q[i] ELSE r[i - Len(q)]
  BY ConcatProperties
<1>6. Len(a \o Tail(r)) = Len(q \o r)
  BY <1>1, <1>2, <1>3, <1>4, <1>5
<1>7. ASSUME NEW i \in 1..Len(q \o r) PROVE (a \o Tail(r))[i] = (q \o r)[i]
  <2>1. CASE i <= Len(q)
    BY <1>2, <1>3, <1>4, <1>5, <1>6, <2>1
  <2>2. CASE i = Len(q) + 1
    BY <1>2, <1>3, <1>4, <1>5, <1>6, <2>2
  <2>3. CASE i > Len(q) + 1
    <3>1. i - Len(a) \in 1..Len(Tail(r))
      BY <1>1, <1>2, <1>3, <1>5, <2>3
    <3>2. Tail(r)[i - Len(a)] = r[i - Len(q)]
      BY <1>1, <1>2, <1>3, <2>3, <3>1
    <3> QED  BY <1>2, <1>3, <1>4, <1>5, <1>6, <2>3, <3>2
  <2>4. i \in Nat /\ Len(q) \in Nat
    BY <1>2, <1>5
  <2>5. i <= Len(q) \/ i = Len(q) + 1 \/ i > Len(q) + 1
    BY <2>4
  <2> QED  BY <2>1, <2>2, <2>3, <2>5
<1>8. a \o Tail(r) = q \o r
  BY <1>4, <1>5, <1>6, <1>7, SeqEqual
<1> QED  BY <1>8 DEF a

\* Appending to the second of two sequences appends to both.
LEMMA ConcatAppend ==
  ASSUME NEW S, NEW q \in Seq(S), NEW r \in Seq(S), NEW x \in S
  PROVE  q \o Append(r, x) = Append(q \o r, x)
<1>1. <<x>> \in Seq(S)
  OBVIOUS
<1>2. Append(r, x) = r \o <<x>>
  BY AppendIsConcat
<1>3. q \o r \in Seq(S) /\ Append(q \o r, x) = (q \o r) \o <<x>>
  BY ConcatProperties, AppendIsConcat
<1>4. (q \o r) \o <<x>> = q \o (r \o <<x>>)
  BY <1>1, ConcatAssociative
<1> QED  BY <1>2, <1>3, <1>4

\* The head of two sequences in a row is that of the first.
LEMMA ConcatTail ==
  ASSUME NEW S, NEW q \in Seq(S), NEW r \in Seq(S), q # <<>>
  PROVE  q \o r # <<>> /\ Head(q \o r) = Head(q) /\ Tail(q \o r) = Tail(q) \o r
<1>1. /\ Head(q) \in S /\ Tail(q) \in Seq(S) /\ Len(Tail(q)) = Len(q) - 1
      /\ \A i \in 1..Len(Tail(q)) : Tail(q)[i] = q[i + 1]
  BY HeadTailProperties
<1>2. Len(q) \in Nat \ {0} /\ Len(r) \in Nat
  BY EmptySeq, LenProperties
<1> DEFINE c == q \o r
<1>3. /\ c \in Seq(S) /\ Len(c) = Len(q) + Len(r)
      /\ \A i \in 1..Len(q) + Len(r) : c[i] = IF i <= Len(q) THEN q[i] ELSE r[i - Len(q)]
  BY ConcatProperties
<1> HIDE DEF c
<1>4. c # <<>>
  BY <1>2, <1>3
<1>5. Head(c) = Head(q)
  BY <1>2, <1>3
<1>6. /\ Tail(c) \in Seq(S) /\ Len(Tail(c)) = Len(c) - 1
      /\ \A i \in 1..Len(Tail(c)) : Tail(c)[i] = c[i + 1]
  BY <1>3, <1>4, HeadTailProperties
<1>7. /\ Tail(q) \o r \in Seq(S) /\ Len(Tail(q) \o r) = Len(Tail(q)) + Len(r)
      /\ \A i \in 1..Len(Tail(q)) + Len(r) :
           (Tail(q) \o r)[i] = IF i <= Len(Tail(q)) THEN Tail(q)[i] ELSE r[i - Len(Tail(q))]
  BY <1>1, ConcatProperties
<1>8. Len(Tail(c)) = Len(Tail(q) \o r)
  BY <1>1, <1>2, <1>3, <1>6, <1>7
<1>9. ASSUME NEW i \in 1..Len(Tail(c)) PROVE Tail(c)[i] = (Tail(q) \o r)[i]
  <2>1. Tail(c)[i] = c[i + 1]
    BY <1>6
  <2>2. CASE i <= Len(Tail(q))
    BY <1>1, <1>2, <1>3, <1>6, <1>7, <2>1, <2>2
  <2>3. CASE ~(i <= Len(Tail(q)))
    <3>1. c[i + 1] = r[i + 1 - Len(q)] /\ (Tail(q) \o r)[i] = r[i - Len(Tail(q))]
      BY <1>1, <1>2, <1>3, <1>6, <1>7, <2>3
    <3>2. i + 1 - Len(q) = i - Len(Tail(q))
      BY <1>1, <1>2
    <3> QED  BY <2>1, <3>1, <3>2
  <2> QED  BY <2>2, <2>3
<1>10. Tail(c) = Tail(q) \o r
  BY <1>6, <1>7, <1>8, <1>9, SeqEqual
<1> QED  BY <1>4, <1>5, <1>10 DEF c

\* What is left of two sequences when the second is lost.
LEMMA ConcatFront ==
  ASSUME NEW S, NEW q \in Seq(S), NEW r \in Seq(S)
  PROVE  Len(q) \in 0..Len(q \o r) /\ SubSeq(q \o r, 1, Len(q)) = q
<1>1. /\ q \o r \in Seq(S) /\ Len(q \o r) = Len(q) + Len(r) /\ Len(q) \in Nat /\ Len(r) \in Nat
      /\ \A i \in 1..Len(q) + Len(r) : (q \o r)[i] = IF i <= Len(q) THEN q[i] ELSE r[i - Len(q)]
  BY ConcatProperties, LenProperties
<1>2. \A i \in 1..Len(q) : (q \o r)[i] = q[i] /\ q[i] \in S
  BY <1>1, ElementOfSeq
<1> DEFINE u == SubSeq(q \o r, 1, Len(q))
<1>3. /\ u \in Seq(S) /\ Len(u) = IF 1 <= Len(q) THEN Len(q) - 1 + 1 ELSE 0
      /\ \A i \in 1..Len(q) - 1 + 1 : u[i] = (q \o r)[1 + i - 1]
  BY <1>1, <1>2, SubSeqProperties
<1> HIDE DEF u
<1>4. Len(u) = Len(q)
  BY <1>1, <1>3
<1>5. \A i \in 1..Len(u) : u[i] = q[i]
  BY <1>1, <1>2, <1>3, <1>4
<1>6. u = q
  BY <1>3, <1>4, <1>5, SeqEqual
<1> QED  BY <1>1, <1>6 DEF u

-----------------------------------------------------------------------------
(* Types *)

\* The types of the publishers' variables.
PubTypes ==
  /\ seq \in 0..MaxSeq /\ critical \subseteq 1..seq
  /\ publishMu \in Publishers \cup {None}
  /\ pc \in [Publishers -> {"idle", "rlock", "offer", "try", "queue", "notify"}]
  /\ msg \in [Publishers -> 0..MaxSeq]
  /\ todo \in [Publishers -> SUBSET Subs]
  /\ at \in [Publishers -> Subs \cup {None}]

\* Those of the subscriptions' life cycle.
LifeTypes ==
  /\ closed \in BOOLEAN
  /\ writer \in BOOLEAN /\ toClose \subseteq Subs
  /\ state \in [Subs -> {"new", "open", "closing", "closed"}]
  /\ from \in [Subs -> 0..MaxSeq]

\* Those of the pumps.
PumpTypes ==
  /\ sig \in [Subs -> BOOLEAN]
  /\ pump \in [Subs -> {"wait", "check", "send", "pop", "done"}]

\* Those of the messages on their way.
SeqTypes ==
  /\ ch \in [Subs -> Seq(Messages)] /\ \A s \in Subs : Len(ch[s]) <= Buffer
  /\ overflow \in [Subs -> Seq(Messages)]
  /\ got \in [Subs -> Seq(Messages)]

\* TypeOK is all of these.
LEMMA Types == TypeOK <=> PubTypes /\ LifeTypes /\ PumpTypes /\ SeqTypes
  BY DEF TypeOK, PubTypes, LifeTypes, PumpTypes, SeqTypes

\* The publishers keep their types.
LEMMA PubTypesPreserved == ASSUME TypeOK, Locks, Offers, Next PROVE PubTypes'
<1> USE BusAssumption DEF PubTypes
<1>t. PubTypes
  BY Types
<1>1. ASSUME NEW p \in Publishers, LockPublish(p) PROVE PubTypes'
  BY <1>t, <1>1 DEF LockPublish, Goto
<1>2. ASSUME NEW p \in Publishers, NEW crit \in BOOLEAN, BeginPublish(p, crit) PROVE PubTypes'
  <2>1. CASE closed
    BY <1>t, <1>2, <2>1 DEF BeginPublish, Goto
  <2>2. CASE ~closed
    <3>1. seq < MaxSeq
      BY <1>2 DEF BeginPublish, Locks
    <3>2. seq + 1 \in 0..MaxSeq
      BY <1>t, <3>1
    <3>3. critical' \subseteq 1..seq'
      <4>1. critical' \subseteq critical \cup {seq + 1} /\ seq' = seq + 1
        BY <1>2, <2>2, Zenon DEF BeginPublish
      <4>2. critical \subseteq 1..(seq + 1) /\ seq + 1 \in 1..(seq + 1)
        BY <1>t
      <4> QED  BY <4>1, <4>2
    <3> QED  BY <1>t, <1>2, <2>2, <3>2, <3>3 DEF BeginPublish, Goto, Subscribed
  <2> QED  BY <2>1, <2>2
<1>3. ASSUME NEW p \in Publishers, EndPublish(p) PROVE PubTypes'
  BY <1>t, <1>3 DEF EndPublish, Goto
<1>4. ASSUME NEW p \in Publishers, NEW s \in Subs,
             UNCHANGED <<seq, critical, publishMu, msg>>,
             at' = at \/ at' = [at EXCEPT ![p] = s],
             NEW l \in {"offer", "try", "queue", "notify"}, Goto(p, l),
             todo' = todo \/ todo' = [todo EXCEPT ![p] = @ \ {s}]
      PROVE  PubTypes'
  <2>1. at' \in [Publishers -> Subs \cup {None}]
    BY <1>t, <1>4
  <2>2. todo' \in [Publishers -> SUBSET Subs]
    BY <1>t, <1>4
  <2>3. pc' \in [Publishers -> {"idle", "rlock", "offer", "try", "queue", "notify"}]
    BY <1>t, <1>4 DEF Goto
  <2> QED  BY <1>t, <1>4, <2>1, <2>2, <2>3
<1>5. ASSUME NEW p \in Publishers, NEW s \in Subs, Offer(p, s) \/ Try(p, s) \/ Queue(p, s) \/ Notify(p, s)
      PROVE  PubTypes'
  <2>1. UNCHANGED <<seq, critical, publishMu, msg>> /\ (at' = at \/ at' = [at EXCEPT ![p] = s])
    BY <1>5, Zenon DEF Offer, Try, Queue, Notify
  <2>2. /\ todo' = todo \/ todo' = [todo EXCEPT ![p] = @ \ {s}]
        /\ Goto(p, "offer") \/ Goto(p, "try") \/ Goto(p, "queue") \/ Goto(p, "notify")
    BY <1>5 DEF Offer, Try, Queue, Notify, Served
  <2> QED  BY <2>1, <2>2, <1>4
<1>6. ASSUME NEW s \in Subs, PumpStep(s) PROVE PubTypes'
  BY <1>t, <1>6 DEF PumpStep, PumpWake, PumpCheck, PumpQuit, PumpSend, PumpPop
<1>7. ASSUME NEW s \in Subs, Receive(s) \/ Subscribe(s) \/ Unsubscribe(s) PROVE PubTypes'
  BY <1>t, <1>7 DEF Receive, Subscribe, Unsubscribe
<1>8. CASE Close \/ CloserStep
  BY <1>t, <1>8 DEF Close, CloserStep, WriteUnlock, CloseSub, CloseChan
<1> QED  BY <1>1, <1>2, <1>3, <1>5, <1>6, <1>7, <1>8 DEF Next, PublisherStep

\* The life cycle and the pumps keep theirs.
LEMMA LifeTypesPreserved == ASSUME TypeOK, Next PROVE LifeTypes' /\ PumpTypes'
<1> USE BusAssumption DEF LifeTypes, PumpTypes, Goto, Served, PumpTo
<1>t. LifeTypes /\ PumpTypes /\ seq \in 0..MaxSeq
  BY Types DEF PubTypes
<1>1. ASSUME NEW p \in Publishers, LockPublish(p) \/ PublisherStep(p) PROVE LifeTypes' /\ PumpTypes'
  BY <1>t, <1>1 DEF LockPublish, PublisherStep, BeginPublish, EndPublish, Offer, Try, Queue, Notify
<1>2. ASSUME NEW s \in Subs, PumpStep(s) PROVE LifeTypes' /\ PumpTypes'
  BY <1>t, <1>2 DEF PumpStep, PumpWake, PumpCheck, PumpQuit, PumpSend, PumpPop
<1>3. ASSUME NEW s \in Subs, Receive(s) \/ Subscribe(s) \/ Unsubscribe(s) PROVE LifeTypes' /\ PumpTypes'
  BY <1>t, <1>3 DEF Receive, Subscribe, Unsubscribe
<1>4. CASE Close \/ CloserStep
  BY <1>t, <1>4 DEF Close, Subscribed, CloserStep, WriteUnlock, CloseSub, CloseChan
<1> QED  BY <1>1, <1>2, <1>3, <1>4 DEF Next

\* The channels, overflows and receivers keep theirs.
LEMMA SeqTypesPreserved == ASSUME TypeOK, Offers, Subscriptions, Next PROVE SeqTypes'
<1> USE DEF SeqTypes, Goto, Served, PumpTo
<1>t. SeqTypes /\ Buffer \in Nat \ {0}
  BY Types, BusAssumption
<1>1. ASSUME NEW p \in Publishers, PublisherStep(p), UNCHANGED <<ch, overflow>> PROVE SeqTypes'
  BY <1>t, <1>1 DEF PublisherStep, BeginPublish, EndPublish, Offer, Try, Queue, Notify
<1>2. ASSUME NEW p \in Publishers, LockPublish(p) PROVE SeqTypes'
  BY <1>t, <1>2 DEF LockPublish
<1>3. ASSUME NEW p \in Publishers, NEW s \in Subs, Offer(p, s) \/ Queue(p, s),
             overflow' = [overflow EXCEPT ![s] = Append(@, msg[p])]
      PROVE  SeqTypes'
  <2>1. msg[p] \in Messages
    BY <1>3 DEF Offer, Queue, Offers
  <2>2. Append(overflow[s], msg[p]) \in Seq(Messages)
    BY <1>t, <2>1
  <2>3. UNCHANGED <<ch, got>>
    BY <1>3 DEF Offer, Queue
  <2> QED  BY <1>t, <1>3, <2>2, <2>3
<1>4. ASSUME NEW s \in Subs, NEW x \in Messages, Len(ch[s]) < Buffer, UNCHANGED <<overflow, got>>,
             ch' = [ch EXCEPT ![s] = Append(@, x)]
      PROVE  SeqTypes'
  <2>1. Append(ch[s], x) \in Seq(Messages) /\ Len(Append(ch[s], x)) <= Buffer
    BY <1>t, <1>4
  <2> QED  BY <1>t, <1>4, <2>1
<1>5. ASSUME NEW p \in Publishers, NEW s \in Subs, Try(p, s) PROVE SeqTypes'
  <2>1. msg[p] \in Messages
    BY <1>5 DEF Try, Offers
  <2>2. CASE Len(ch[s]) < Buffer
    BY <1>5, <2>1, <2>2, <1>4 DEF Try
  <2>3. CASE ~(Len(ch[s]) < Buffer)
    BY <1>t, <1>5, <2>3 DEF Try
  <2> QED  BY <2>2, <2>3
<1>6. ASSUME NEW s \in Subs, PumpWake(s) \/ PumpCheck(s) \/ PumpQuit(s) PROVE SeqTypes'
  BY <1>t, <1>6 DEF PumpWake, PumpCheck, PumpQuit
<1>7. ASSUME NEW s \in Subs, PumpSend(s) PROVE SeqTypes'
  <2>1. overflow[s] # <<>> /\ overflow[s] \in Seq(Messages)
    BY <1>t, <1>7 DEF PumpSend, Subscriptions
  <2>2. Head(overflow[s]) \in Messages
    BY <2>1, HeadTailProperties
  <2> QED  BY <1>7, <2>2, <1>4 DEF PumpSend
<1>8. ASSUME NEW s \in Subs, PumpPop(s) PROVE SeqTypes'
  <2>1. overflow[s] # <<>> /\ overflow[s] \in Seq(Messages)
    BY <1>t, <1>8 DEF PumpPop, Subscriptions
  <2>2. Tail(overflow[s]) \in Seq(Messages)
    BY <2>1, HeadTailProperties
  <2> QED  BY <1>t, <1>8, <2>2 DEF PumpPop
<1>9. ASSUME NEW s \in Subs, Receive(s) PROVE SeqTypes'
  <2>1. ch[s] # <<>> /\ ch[s] \in Seq(Messages) /\ got[s] \in Seq(Messages)
    BY <1>t, <1>9 DEF Receive
  <2>2. Head(ch[s]) \in Messages /\ Tail(ch[s]) \in Seq(Messages) /\ Len(Tail(ch[s])) = Len(ch[s]) - 1
    BY <2>1, HeadTailProperties
  <2>3. Append(got[s], Head(ch[s])) \in Seq(Messages)
    BY <2>1, <2>2
  <2>4. Len(Tail(ch[s])) <= Buffer
    BY <1>t, <2>1, <2>2, LenProperties
  <2>5. overflow' = overflow /\ ch' = [ch EXCEPT ![s] = Tail(ch[s])]
        /\ got' = [got EXCEPT ![s] = Append(got[s], Head(ch[s]))]
    BY <1>9 DEF Receive
  <2> QED  BY <1>t, <2>2, <2>3, <2>4, <2>5
<1>10. ASSUME NEW s \in Subs, Subscribe(s) \/ Unsubscribe(s) PROVE SeqTypes'
  BY <1>t, <1>10 DEF Subscribe, Unsubscribe
<1>11. CASE Close \/ CloserStep
  BY <1>t, <1>11 DEF Close, CloserStep, WriteUnlock, CloseSub, CloseChan
<1>12. ASSUME NEW p \in Publishers, NEW s \in Subs, Offer(p, s) \/ Queue(p, s),
              overflow' # [overflow EXCEPT ![s] = Append(@, msg[p])]
       PROVE  UNCHANGED <<ch, overflow>>
  BY <1>12 DEF Offer, Queue
<1>13. ASSUME NEW p \in Publishers, PublisherStep(p) PROVE SeqTypes'
  <2>1. ASSUME NEW crit \in BOOLEAN, BeginPublish(p, crit) PROVE SeqTypes'
    BY <1>t, <2>1 DEF BeginPublish
  <2>2. ASSUME NEW s \in Subs, Notify(p, s) PROVE SeqTypes'
    BY <1>t, <2>2 DEF Notify
  <2>3. CASE EndPublish(p)
    BY <1>t, <2>3 DEF EndPublish
  <2> QED  BY <1>1, <1>3, <1>5, <1>12, <1>13, <2>1, <2>2, <2>3 DEF PublisherStep
<1> QED  BY <1>2, <1>6, <1>7, <1>8, <1>9, <1>10, <1>11, <1>13 DEF Next, PumpStep

-----------------------------------------------------------------------------
(* Locks *)

\* While one publisher is busy the others are idle.
LEMMA OneBusy ==
  ASSUME Locks, NEW p \in Publishers, NEW q \in Publishers, q # p, pc[p] # "idle"
  PROVE  pc[q] = "idle"
  BY DEF Locks

\* The locks exclude whom they should.
LEMMA LocksPreserved == ASSUME TypeOK, Locks, Offers, Next PROVE Locks'
<1>t. PubTypes /\ LifeTypes /\ None \notin Publishers
  BY Types, BusAssumption
<1>1. ASSUME NEW p \in Publishers, LockPublish(p) PROVE Locks'
  BY <1>t, <1>1 DEF Locks, LockPublish, Goto, Readers, PubTypes
<1>2. ASSUME NEW p \in Publishers, NEW crit \in BOOLEAN, BeginPublish(p, crit) PROVE Locks'
  <2>1. UNCHANGED <<writer, toClose, state>> /\ ~writer
    BY <1>2 DEF BeginPublish
  <2>2. \A q \in Publishers : q # p => pc'[q] = "idle"
    BY <1>t, <1>2, OneBusy DEF BeginPublish, Goto, PubTypes
  <2>3. pc'[p] # "rlock" /\ (pc'[p] # "idle" => publishMu' = p)
    BY <1>t, <1>2 DEF BeginPublish, Goto, PubTypes, Locks
  <2> QED  BY <2>1, <2>2, <2>3 DEF Locks
<1>3. ASSUME NEW p \in Publishers, EndPublish(p) PROVE Locks'
  BY <1>t, <1>3 DEF Locks, EndPublish, Goto, Readers, PubTypes
<1>4. ASSUME NEW p \in Publishers, NEW s \in Subs, Offer(p, s) \/ Try(p, s) \/ Queue(p, s) \/ Notify(p, s)
      PROVE  Locks'
  <2>1. UNCHANGED <<writer, toClose, state, publishMu, seq>> /\ pc[p] \notin {"idle", "rlock"}
    BY <1>4 DEF Offer, Try, Queue, Notify
  <2>2. Goto(p, "offer") \/ Goto(p, "try") \/ Goto(p, "queue") \/ Goto(p, "notify")
    BY <1>4 DEF Offer, Try, Queue, Notify, Served
  <2>3. ~writer
    BY <2>1 DEF Locks, Readers
  <2> QED  BY <1>t, <2>1, <2>2, <2>3 DEF Locks, Goto, PubTypes
<1>5. ASSUME NEW s \in Subs, PumpStep(s) \/ Receive(s) PROVE Locks'
  BY <1>5 DEF Locks, Readers, PumpStep, PumpWake, PumpCheck, PumpQuit, PumpSend, PumpPop, Receive
<1>6. ASSUME NEW s \in Subs, Subscribe(s) \/ Unsubscribe(s) PROVE Locks'
  BY <1>t, <1>6 DEF Locks, Readers, Subscribe, Unsubscribe, WriteLock, LifeTypes
<1>7. CASE Close
  BY <1>t, <1>7 DEF Locks, Readers, Close, WriteLock, Subscribed, LifeTypes
<1>8. CASE WriteUnlock
  BY <1>8 DEF Locks, Readers, WriteUnlock
<1>9. ASSUME NEW s \in Subs, CloseSub(s) \/ CloseChan(s) PROVE Locks'
  BY <1>t, <1>9 DEF Locks, Readers, CloseSub, CloseChan, LifeTypes
<1> QED  BY <1>1, <1>2, <1>3, <1>4, <1>5, <1>6, <1>7, <1>8, <1>9 DEF Next, PublisherStep, CloserStep

\* A publisher offers the last message to subscriptions that are open.
LEMMA OffersPreserved == ASSUME TypeOK, Locks, Offers, Subscriptions, Next PROVE Offers'
<1>t. PubTypes /\ LifeTypes /\ SeqTypes /\ None \notin Publishers
  BY Types, BusAssumption
<1>1. ASSUME NEW p \in Publishers, LockPublish(p) PROVE Offers'
  BY <1>t, <1>1 DEF Offers, LockPublish, Goto, PubTypes
<1>2. ASSUME NEW p \in Publishers, NEW crit \in BOOLEAN, BeginPublish(p, crit) PROVE Offers'
  <2>1. \A q \in Publishers : q # p => pc'[q] = "idle" /\ todo'[q] = {}
    BY <1>t, <1>2, OneBusy DEF BeginPublish, Goto, PubTypes, Offers
  <2>2. CASE closed
    BY <1>t, <1>2, <2>1, <2>2 DEF BeginPublish, Goto, PubTypes, Offers
  <2>3. CASE ~closed
    <3>1. seq' = seq + 1 /\ msg'[p] = seq' /\ pc'[p] = "offer" /\ todo'[p] = Subscribed
          /\ UNCHANGED <<state, from>>
      BY <1>t, <1>2, <2>3 DEF BeginPublish, Goto, PubTypes
    <3>2. seq' \in Messages
      <4>1. seq < MaxSeq
        BY <1>2 DEF Locks, BeginPublish
      <4> QED  BY <1>t, <3>1, <4>1, BusAssumption DEF PubTypes, Messages
    <3>3. \A s \in todo'[p] : state'[s] = "open" /\ from'[s] < seq'
      BY <1>t, <3>1 DEF Subscribed, Subscriptions, LifeTypes, PubTypes
    <3> QED  BY <2>1, <3>1, <3>2, <3>3 DEF Offers, Messages
  <2> QED  BY <2>2, <2>3
<1>3. ASSUME NEW p \in Publishers, EndPublish(p) PROVE Offers'
  BY <1>t, <1>3 DEF Offers, EndPublish, Goto, PubTypes
<1>4. ASSUME NEW p \in Publishers, NEW s \in Subs, Offer(p, s) \/ Try(p, s) \/ Queue(p, s) \/ Notify(p, s)
      PROVE  Offers'
  <2>1. \A q \in Publishers : q # p => pc'[q] = "idle" /\ todo'[q] = {}
    <3> SUFFICES ASSUME NEW q \in Publishers, q # p PROVE pc'[q] = "idle" /\ todo'[q] = {}
      OBVIOUS
    <3>1. pc[q] = "idle" /\ todo[q] = {}
      BY <1>4, OneBusy DEF Offer, Try, Queue, Notify, Offers
    <3> QED  BY <1>t, <1>4, <3>1 DEF Offer, Try, Queue, Notify, Goto, Served, PubTypes
  <2>2. UNCHANGED <<seq, msg, state, from>> /\ pc[p] \notin {"idle", "rlock"} /\ s \in todo[p]
    BY <1>4 DEF Offer, Try, Queue, Notify, Offers
  <2>3. pc'[p] \in {"offer", "try", "queue", "notify"} /\ todo'[p] \subseteq todo[p]
    BY <1>t, <1>4 DEF Offer, Try, Queue, Notify, Goto, Served, PubTypes
  <2>4. pc'[p] \in {"try", "queue", "notify"} => at'[p] = s /\ todo'[p] = todo[p]
    BY <1>t, <1>4 DEF Offer, Try, Queue, Notify, Goto, Served, PubTypes
  <2>5. pc'[p] \in {"try", "queue"} => overflow[s] = <<>> /\ overflow' = overflow
    BY <1>t, <1>4 DEF Offer, Try, Queue, Notify, Goto, Served, PubTypes, Offers
  <2> QED  BY <2>1, <2>2, <2>3, <2>4, <2>5 DEF Offers
<1>5. ASSUME NEW s \in Subs, PumpPop(s) PROVE Offers'
  <2>1. overflow[s] # <<>> /\ \A u \in Subs : u # s => overflow'[u] = overflow[u]
    BY <1>t, <1>5 DEF PumpPop, Subscriptions, SeqTypes
  <2>2. UNCHANGED <<pc, msg, todo, at, seq, state, from>>
    BY <1>5 DEF PumpPop
  <2>3. \A p \in Publishers : todo[p] \subseteq Subs
    BY <1>t DEF PubTypes
  <2> QED  BY <2>1, <2>2, <2>3 DEF Offers
<1>6. ASSUME NEW s \in Subs, PumpWake(s) \/ PumpCheck(s) \/ PumpSend(s) \/ PumpQuit(s) \/ Receive(s) PROVE Offers'
  BY <1>6 DEF Offers, PumpWake, PumpCheck, PumpSend, PumpQuit, Receive
<1>7. ASSUME NEW s \in Subs, Subscribe(s) \/ Unsubscribe(s) PROVE Offers'
  BY <1>7 DEF Offers, Subscribe, Unsubscribe, WriteLock, Readers
<1>8. CASE Close \/ WriteUnlock
  BY <1>8 DEF Offers, Close, WriteUnlock
<1>9. ASSUME NEW s \in Subs, CloseSub(s) \/ CloseChan(s) PROVE Offers'
  BY <1>9 DEF Offers, CloseSub, CloseChan, Locks, Readers
<1> QED  BY <1>1, <1>2, <1>3, <1>4, <1>5, <1>6, <1>7, <1>8, <1>9 DEF Next, PublisherStep, PumpStep, CloserStep

\* Channels, overflows and pumps follow the life of their subscription.
LEMMA SubscriptionsPreserved == ASSUME TypeOK, Locks, Offers, Subscriptions, Next PROVE Subscriptions'
<1>t. PubTypes /\ LifeTypes /\ PumpTypes /\ SeqTypes
  BY Types
<1>1. ASSUME NEW p \in Publishers, LockPublish(p) \/ EndPublish(p) PROVE Subscriptions'
  BY <1>1 DEF Subscriptions, LockPublish, EndPublish
<1>2. ASSUME NEW p \in Publishers, NEW crit \in BOOLEAN, BeginPublish(p, crit) PROVE Subscriptions'
  <2>1. UNCHANGED <<state, got, ch, overflow, pump, sig, from>>
    BY <1>2 DEF BeginPublish
  <2>2. seq' = seq \/ seq' = seq + 1
    BY <1>2 DEF BeginPublish
  <2> QED  BY <1>t, <2>1, <2>2 DEF Subscriptions, PubTypes, LifeTypes
<1>3. ASSUME NEW p \in Publishers, NEW s \in Subs, Offer(p, s) \/ Try(p, s) \/ Queue(p, s) \/ Notify(p, s)
      PROVE  Subscriptions'
  <2>1. state[s] = "open" /\ UNCHANGED <<state, got, pump, from, seq>>
    BY <1>3 DEF Offer, Try, Queue, Notify, Offers
  <2>2. \A u \in Subs : u # s => ch'[u] = ch[u] /\ overflow'[u] = overflow[u] /\ sig'[u] = sig[u]
    BY <1>t, <1>3 DEF Offer, Try, Queue, Notify, SeqTypes, PumpTypes
  <2>3. overflow'[s] = overflow[s] \/ overflow'[s] = Append(overflow[s], msg[p])
    BY <1>t, <1>3 DEF Offer, Try, Queue, Notify, SeqTypes
  <2>4. msg[p] \in Messages /\ overflow[s] \in Seq(Messages)
    BY <1>t, <1>3 DEF Offer, Try, Queue, Notify, Offers, SeqTypes
  <2>5. Append(overflow[s], msg[p]) # <<>>
    BY <2>4, AppendProperties
  <2>6. \A u \in Subs : pump[u] \in {"send", "pop"} => overflow'[u] # <<>>
    BY <2>2, <2>3, <2>5 DEF Subscriptions
  <2> QED  BY <2>1, <2>2, <2>6 DEF Subscriptions
<1>4. ASSUME NEW s \in Subs, PumpWake(s) \/ PumpCheck(s) \/ PumpQuit(s) PROVE Subscriptions'
  BY <1>t, <1>4 DEF Subscriptions, PumpWake, PumpCheck, PumpQuit, PumpTo, Quit, PumpTypes, LifeTypes
<1>5. ASSUME NEW s \in Subs, PumpSend(s) \/ PumpPop(s) PROVE Subscriptions'
  <2>1. UNCHANGED <<state, got, from, seq, sig>> /\ state[s] # "new" /\ pump'[s] \in {"pop", "check"}
        /\ pump[s] # "done"
    BY <1>t, <1>5 DEF Subscriptions, PumpSend, PumpPop, PumpTo, PumpTypes
  <2>2. \A u \in Subs : u # s => ch'[u] = ch[u] /\ overflow'[u] = overflow[u] /\ pump'[u] = pump[u]
    BY <1>t, <1>5 DEF PumpSend, PumpPop, PumpTo, PumpTypes, SeqTypes
  <2>3. pump'[s] = "pop" => overflow'[s] # <<>>
    BY <1>t, <1>5 DEF Subscriptions, PumpSend, PumpPop, PumpTo, PumpTypes
  <2> QED  BY <2>1, <2>2, <2>3 DEF Subscriptions
<1>6. ASSUME NEW s \in Subs, Receive(s) PROVE Subscriptions'
  <2>1. UNCHANGED <<state, overflow, from, seq, sig, pump>> /\ state[s] # "new"
    BY <1>6 DEF Subscriptions, Receive
  <2>2. \A u \in Subs : u # s => ch'[u] = ch[u] /\ got'[u] = got[u]
    BY <1>t, <1>6 DEF Receive, SeqTypes
  <2> QED  BY <2>1, <2>2 DEF Subscriptions
<1>7. ASSUME NEW s \in Subs, Subscribe(s) \/ Unsubscribe(s) PROVE Subscriptions'
  BY <1>t, <1>7 DEF Subscriptions, Subscribe, Unsubscribe, LifeTypes, PubTypes
<1>8. CASE Close \/ WriteUnlock
  BY <1>8 DEF Subscriptions, Close, WriteUnlock
<1>9. ASSUME NEW s \in Subs, CloseSub(s) \/ CloseChan(s) PROVE Subscriptions'
  BY <1>t, <1>9 DEF Subscriptions, CloseSub, CloseChan, LifeTypes
<1> QED  BY <1>1, <1>2, <1>3, <1>4, <1>5, <1>6, <1>7, <1>8, <1>9 DEF Next, PublisherStep, PumpStep, CloserStep

-----------------------------------------------------------------------------
(* What a subscription has been given *)

\* What waits is a sequence of messages.
LEMMA WaitingTyped ==
  ASSUME TypeOK, Subscriptions, NEW s \in Subs
  PROVE  Waiting(s) \in Seq(Messages)
<1>1. SeqTypes /\ overflow[s] \in Seq(Messages)
  BY Types DEF SeqTypes
<1>2. pump[s] = "pop" => overflow[s] # <<>>
  BY DEF Subscriptions
<1>3. overflow[s] # <<>> => Tail(overflow[s]) \in Seq(Messages)
  BY <1>1, HeadTailProperties
<1> QED  BY <1>1, <1>2, <1>3 DEF Waiting

\* What is queued waits behind what is there.
LEMMA WaitingAppend ==
  ASSUME TypeOK, Subscriptions, NEW s \in Subs, NEW x \in Messages,
         overflow' = [overflow EXCEPT ![s] = Append(@, x)], UNCHANGED pump
  PROVE  Waiting(s)' = Append(Waiting(s), x) /\ \A u \in Subs : u # s => Waiting(u)' = Waiting(u)
<1>1. overflow[s] \in Seq(Messages) /\ overflow'[s] = Append(overflow[s], x)
      /\ \A u \in Subs : u # s => overflow'[u] = overflow[u]
  BY Types DEF SeqTypes
<1>2. \A u \in Subs : u # s => Waiting(u)' = Waiting(u)
  BY <1>1 DEF Waiting
<1>3. CASE pump[s] # "pop"
  BY <1>1, <1>2, <1>3 DEF Waiting
<1>4. CASE pump[s] = "pop"
  <2>1. overflow[s] # <<>>
    BY <1>4 DEF Subscriptions
  <2>2. <<x>> \in Seq(Messages)
    OBVIOUS
  <2>3. Append(overflow[s], x) = overflow[s] \o <<x>>
    BY <1>1, AppendIsConcat
  <2>4. Tail(overflow[s] \o <<x>>) = Tail(overflow[s]) \o <<x>>
    BY <1>1, <2>1, <2>2, ConcatTail
  <2>5. Tail(overflow[s]) \in Seq(Messages)
    BY <1>1, <2>1, HeadTailProperties
  <2>6. Append(Tail(overflow[s]), x) = Tail(overflow[s]) \o <<x>>
    BY <2>5, AppendIsConcat
  <2> QED  BY <1>1, <1>2, <1>4, <2>3, <2>4, <2>6 DEF Waiting
<1> QED  BY <1>3, <1>4

\* The pump's steps that move no message.
LEMMA PumpKeepsWaiting ==
  ASSUME TypeOK, NEW s \in Subs, PumpWake(s) \/ PumpCheck(s) \/ PumpQuit(s)
  PROVE  \A u \in Subs : Waiting(u)' = Waiting(u)
<1>1. PumpTypes
  BY Types
<1> QED  BY <1>1 DEF PumpWake, PumpCheck, PumpQuit, PumpTo, PumpTypes, Waiting

\* The pump takes the head of what waits and appends it to the channel.
LEMMA PumpMoves ==
  ASSUME TypeOK, Subscriptions, NEW s \in Subs, PumpSend(s)
  PROVE  /\ Waiting(s) # <<>> /\ ch'[s] = Append(ch[s], Head(Waiting(s))) /\ Waiting(s)' = Tail(Waiting(s))
         /\ \A u \in Subs : u # s => ch'[u] = ch[u] /\ Waiting(u)' = Waiting(u)
<1>1. PumpTypes /\ SeqTypes
  BY Types
<1>2. pump[s] = "send" /\ overflow[s] # <<>> /\ pump' = [pump EXCEPT ![s] = "pop"]
      /\ overflow' = overflow /\ ch' = [ch EXCEPT ![s] = Append(@, Head(overflow[s]))]
  BY DEF PumpSend, PumpTo, Subscriptions
<1> QED  BY <1>1, <1>2 DEF Waiting, PumpTypes, SeqTypes

\* Its pop then removes what does not wait any more.
LEMMA PumpPopKeepsWaiting ==
  ASSUME TypeOK, NEW s \in Subs, PumpPop(s)
  PROVE  \A u \in Subs : Waiting(u)' = Waiting(u)
<1>1. PumpTypes /\ SeqTypes
  BY Types
<1>2. pump[s] = "pop" /\ pump' = [pump EXCEPT ![s] = "check"]
      /\ overflow' = [overflow EXCEPT ![s] = Tail(@)]
  BY DEF PumpPop, PumpTo
<1> QED  BY <1>1, <1>2 DEF Waiting, PumpTypes, SeqTypes

\* Nothing but a publisher's step gives a subscription more or takes from it.
LEMMA GivenKept ==
  ASSUME TypeOK, Subscriptions,
         NEW s \in Subs, PumpStep(s) \/ Receive(s)
  PROVE  \A u \in Subs : Given(u)' = Given(u)
<1>1. SeqTypes
  BY Types
<1>2. CASE PumpWake(s) \/ PumpCheck(s) \/ PumpQuit(s)
  <2>1. UNCHANGED <<ch, got>>
    BY <1>2 DEF PumpWake, PumpCheck, PumpQuit
  <2> QED  BY <1>2, <2>1, PumpKeepsWaiting DEF Given, Among
<1>3. CASE PumpPop(s)
  <2>1. UNCHANGED <<ch, got>>
    BY <1>3 DEF PumpPop
  <2> QED  BY <1>3, <2>1, PumpPopKeepsWaiting DEF Given, Among
<1>4. CASE PumpSend(s)
  <2>1. UNCHANGED got
    BY <1>4 DEF PumpSend
  <2>2. /\ Waiting(s) # <<>> /\ ch'[s] = Append(ch[s], Head(Waiting(s))) /\ Waiting(s)' = Tail(Waiting(s))
        /\ \A u \in Subs : u # s => ch'[u] = ch[u] /\ Waiting(u)' = Waiting(u)
    BY <1>4, PumpMoves
  <2>3. Waiting(s) \in Seq(Messages) /\ ch[s] \in Seq(Messages)
    BY <1>1, WaitingTyped DEF SeqTypes
  <2>4. Among(Waiting(s)) = {Head(Waiting(s))} \cup Among(Tail(Waiting(s))) /\ Head(Waiting(s)) \in Messages
    BY <2>2, <2>3, AmongHeadTail
  <2>5. Among(Append(ch[s], Head(Waiting(s)))) = Among(ch[s]) \cup {Head(Waiting(s))}
    BY <2>3, <2>4, AmongAppend
  <2>6. Given(s)' = Among(got[s]) \cup Among(Append(ch[s], Head(Waiting(s)))) \cup Among(Tail(Waiting(s)))
    BY <2>1, <2>2 DEF Given, Among
  <2>7. Given(s)' = Given(s)
    BY <2>4, <2>5, <2>6 DEF Given
  <2>8. \A u \in Subs : u # s => Given(u)' = Given(u)
    BY <2>1, <2>2 DEF Given, Among
  <2> QED  BY <2>7, <2>8
<1>5. CASE Receive(s)
  <2>1. /\ ch[s] # <<>> /\ ch[s] \in Seq(Messages) /\ got[s] \in Seq(Messages)
        /\ got'[s] = Append(got[s], Head(ch[s])) /\ ch'[s] = Tail(ch[s])
        /\ \A u \in Subs : u # s => got'[u] = got[u] /\ ch'[u] = ch[u]
    BY <1>1, <1>5 DEF Receive, SeqTypes
  <2>2. \A u \in Subs : Waiting(u)' = Waiting(u)
    BY <1>5 DEF Receive, Waiting
  <2>3. Among(ch[s]) = {Head(ch[s])} \cup Among(Tail(ch[s])) /\ Head(ch[s]) \in Messages
    BY <2>1, AmongHeadTail
  <2>4. Among(Append(got[s], Head(ch[s]))) = Among(got[s]) \cup {Head(ch[s])}
    BY <2>1, <2>3, AmongAppend
  <2>5. Given(s)' = Among(Append(got[s], Head(ch[s]))) \cup Among(Tail(ch[s])) \cup Among(Waiting(s))
    BY <2>1, <2>2 DEF Given, Among
  <2>6. Given(s)' = Given(s)
    BY <2>3, <2>4, <2>5 DEF Given
  <2>7. \A u \in Subs : u # s => Given(u)' = Given(u)
    BY <2>1, <2>2 DEF Given, Among
  <2> QED  BY <2>6, <2>7
<1> QED  BY <1>2, <1>3, <1>4, <1>5 DEF PumpStep

\* A publisher gives its message to one subscription.
LEMMA GivenMore ==
  ASSUME TypeOK, Subscriptions, NEW s \in Subs, NEW x \in Messages, UNCHANGED <<got, pump>>,
         \/ overflow' = [overflow EXCEPT ![s] = Append(@, x)] /\ UNCHANGED ch
         \/ ch' = [ch EXCEPT ![s] = Append(@, x)] /\ UNCHANGED overflow
  PROVE  Given(s)' = Given(s) \cup {x} /\ \A u \in Subs : u # s => Given(u)' = Given(u)
<1>1. SeqTypes
  BY Types
<1>2. CASE overflow' = [overflow EXCEPT ![s] = Append(@, x)] /\ UNCHANGED ch
  <2>1. Waiting(s)' = Append(Waiting(s), x) /\ \A u \in Subs : u # s => Waiting(u)' = Waiting(u)
    BY <1>2, WaitingAppend
  <2>2. Among(Append(Waiting(s), x)) = Among(Waiting(s)) \cup {x}
    BY WaitingTyped, AmongAppend
  <2>3. Given(s)' = Among(got[s]) \cup Among(ch[s]) \cup Among(Append(Waiting(s), x))
    BY <1>2, <2>1 DEF Given, Among
  <2>4. \A u \in Subs : u # s => Given(u)' = Given(u)
    BY <1>2, <2>1 DEF Given, Among
  <2> QED  BY <2>2, <2>3, <2>4 DEF Given
<1>3. CASE ch' = [ch EXCEPT ![s] = Append(@, x)] /\ UNCHANGED overflow
  <2>1. ch'[s] = Append(ch[s], x) /\ ch[s] \in Seq(Messages) /\ \A u \in Subs : u # s => ch'[u] = ch[u]
    BY <1>1, <1>3 DEF SeqTypes
  <2>2. \A u \in Subs : Waiting(u)' = Waiting(u)
    BY <1>3 DEF Waiting
  <2>3. Among(Append(ch[s], x)) = Among(ch[s]) \cup {x}
    BY <2>1, AmongAppend
  <2>4. Given(s)' = Among(got[s]) \cup Among(Append(ch[s], x)) \cup Among(Waiting(s))
    BY <2>1, <2>2 DEF Given, Among
  <2>5. \A u \in Subs : u # s => Given(u)' = Given(u)
    BY <2>1, <2>2 DEF Given, Among
  <2> QED  BY <2>3, <2>4, <2>5 DEF Given
<1> QED  BY <1>2, <1>3

\* Steps that publish nothing and give nothing disturb nothing.
LEMMA ContentsFrame ==
  ASSUME Contents, UNCHANGED <<seq, critical, pc, todo, at, from>>,
         \A s \in Subs : Given(s)' = Given(s),
         \A s \in Subs : state'[s] = "open" => state[s] = "open"
  PROVE  Contents'
<1>1. \A p \in Publishers, s \in Subs : Owes(p, s)' <=> Owes(p, s)
  BY DEF Owes
<1>2. ASSUME NEW s \in Subs, NEW n \in critical', state'[s] = "open", n > from'[s]
      PROVE  n \in Given(s)' \/ (n = seq' /\ \E p \in Publishers : Owes(p, s)')
  <2>1. n \in Given(s) \/ (n = seq /\ \E p \in Publishers : Owes(p, s))
    BY <1>2 DEF Contents
  <2> QED  BY <1>1, <2>1
<1> QED  BY <1>1, <1>2 DEF Contents

\* While nobody owes anything: all that is critical has been given.
LEMMA NoDebt ==
  ASSUME Contents, \A p \in Publishers : todo[p] = {},
         NEW s \in Subs, state[s] = "open", NEW n \in critical, n > from[s]
  PROVE  n \in Given(s)
  BY DEF Contents, Owes

\* A new message is one that nobody has and that every open subscription is owed.
LEMMA ContentsBegin ==
  ASSUME IInv, NEW p \in Publishers, NEW crit \in BOOLEAN, BeginPublish(p, crit)
  PROVE  Contents'
<1>t. PubTypes /\ LifeTypes /\ SeqTypes
  BY Types DEF IInv
<1> USE DEF IInv
<1>1. \A q \in Publishers : todo[q] = {} /\ pc[q] # "notify"
  BY OneBusy DEF BeginPublish, Offers
<1>2. \A s \in Subs : Given(s)' = Given(s)
  BY DEF BeginPublish, Given, Among, Waiting
<1>3. CASE closed
  <2>1. UNCHANGED <<seq, critical, todo, from, state>>
    BY <1>3 DEF BeginPublish
  <2>2. \A q \in Publishers : pc'[q] # "notify"
    BY <1>t, <1>1, <1>3 DEF BeginPublish, Goto, PubTypes
  <2>3. \A q \in Publishers, s \in Subs : ~Owes(q, s)'
    BY <1>1, <2>1 DEF Owes
  <2>4. \A s \in Subs : \A n \in Given(s)' : n <= seq'
    BY <1>2, <2>1 DEF Contents
  <2>5. \A s \in Subs : state'[s] = "open" => \A n \in critical' : n > from'[s] => n \in Given(s)'
    BY <1>1, <1>2, <2>1, NoDebt
  <2> QED  BY <2>2, <2>3, <2>4, <2>5 DEF Contents
<1>4. CASE ~closed
  <2>1. /\ seq' = seq + 1 /\ pc'[p] = "offer" /\ todo'[p] = Subscribed
        /\ \A q \in Publishers : pc'[q] # "notify"
        /\ UNCHANGED <<state, from>>
        /\ \A n \in critical' : n = seq + 1 \/ n \in critical
    BY <1>t, <1>1, <1>4 DEF BeginPublish, Goto, PubTypes
  <2>2. \A s \in Subs : \A n \in Given(s)' : n <= seq
    BY <1>2 DEF Contents
  <2>3. \A s \in Subs : Given(s) \subseteq Int
    <3> SUFFICES ASSUME NEW s \in Subs PROVE Given(s) \subseteq Int
      OBVIOUS
    <3>1. got[s] \in Seq(Messages) /\ ch[s] \in Seq(Messages) /\ Waiting(s) \in Seq(Messages)
      BY <1>t, WaitingTyped DEF SeqTypes
    <3>2. \A q \in Seq(Messages) : Among(q) \subseteq Messages
      BY ElementOfSeq DEF Among
    <3> QED  BY <3>1, <3>2 DEF Given, Messages
  <2>4. seq \in Int
    BY <1>t DEF PubTypes
  <2>5. \A s \in Subs : (\A n \in Given(s)' : n <= seq') /\ seq' \notin Given(s)'
    BY <1>2, <2>1, <2>2, <2>3, <2>4
  <2>6. ASSUME NEW s \in Subs, state'[s] = "open", NEW n \in critical', n > from'[s]
        PROVE  n \in Given(s)' \/ (n = seq' /\ \E q \in Publishers : Owes(q, s)')
    <3>1. CASE n = seq + 1
      <4>1. s \in Subscribed
        BY <2>1, <2>6 DEF Subscribed, Locks, BeginPublish
      <4>2. Owes(p, s)'
        BY <2>1, <4>1 DEF Owes
      <4> QED  BY <2>1, <3>1, <4>2
    <3>2. CASE n \in critical
      BY <1>1, <1>2, <2>1, <2>6, <3>2, NoDebt
    <3> QED  BY <2>1, <3>1, <3>2
  <2> QED  BY <2>1, <2>5, <2>6 DEF Contents
<1> QED  BY <1>3, <1>4

\* The steps of a publisher that is offering its message to s: it still owes it,
\* has given it, or need not.
LEMMA ContentsOffer ==
  ASSUME IInv, NEW p \in Publishers, NEW s \in todo[p], pc[p] # "idle",
         UNCHANGED <<seq, critical, from, state>>,
         \A q \in Publishers : q # p => pc'[q] = pc[q] /\ todo'[q] = todo[q],
         todo[p] \ {s} \subseteq todo'[p], todo'[p] \subseteq todo[p],
         pc'[p] = "notify" => at'[p] = s,
         pc[p] = "notify" => at[p] = s,
         \A u \in Subs : u # s => Given(u)' = Given(u),
         Given(s)' = Given(s) \/ Given(s)' = Given(s) \cup {seq},
         Owes(p, s)' => seq \notin Given(s)',
         pc'[p] = "notify" => seq \in Given(s)',
         ~Owes(p, s)' => seq \in Given(s)' \/ seq \notin critical
  PROVE  Contents'
<1> USE DEF IInv
<1>1. \A q \in Publishers : q # p => pc'[q] = "idle" /\ todo'[q] = {} /\ todo[q] = {}
  BY OneBusy DEF Offers
<1>2. s \in Subs /\ seq \in Nat
  BY Types DEF PubTypes
<1>3. \A u \in Subs : u # s => (Owes(p, u)' <=> Owes(p, u))
  BY DEF Owes
<1>4. \A q \in Publishers, u \in Subs : q # p => ~Owes(q, u) /\ ~Owes(q, u)'
  BY <1>1 DEF Owes
<1>5. ASSUME NEW u \in Subs PROVE \A n \in Given(u)' : n <= seq'
  BY <1>2 DEF Contents
<1>6. ASSUME NEW u \in Subs, NEW q \in Publishers
      PROVE  /\ Owes(q, u)' => seq' \notin Given(u)'
             /\ pc'[q] = "notify" /\ at'[q] = u => seq' \in Given(u)'
  <2>1. CASE q # p
    BY <1>1, <1>4, <2>1
  <2>2. CASE q = p /\ u = s
    BY <2>2
  <2>3. CASE q = p /\ u # s
    BY <1>3, <2>3 DEF Contents
  <2> QED  BY <2>1, <2>2, <2>3
<1>7. ASSUME NEW u \in Subs, state'[u] = "open", NEW n \in critical', n > from'[u]
      PROVE  n \in Given(u)' \/ (n = seq' /\ \E q \in Publishers : Owes(q, u)')
  <2>1. n \in Given(u) \/ (n = seq /\ \E q \in Publishers : Owes(q, u))
    BY <1>7 DEF Contents
  <2>2. CASE n \in Given(u)
    BY <2>2
  <2>3. CASE n = seq /\ Owes(p, u)
    <3>1. CASE u = s
      BY <1>7, <2>3, <3>1
    <3>2. CASE u # s
      BY <1>3, <2>3, <3>2
    <3> QED  BY <3>1, <3>2
  <2> QED  BY <1>4, <2>1, <2>2, <2>3
<1> QED  BY <1>5, <1>6, <1>7 DEF Contents

\* Each of the steps of send is one of these.
LEMMA ContentsSend ==
  ASSUME IInv, NEW p \in Publishers, NEW s \in Subs,
         Offer(p, s) \/ Try(p, s) \/ Queue(p, s) \/ Notify(p, s)
  PROVE  Contents'
<1> USE DEF IInv
<1>t. PubTypes /\ LifeTypes /\ SeqTypes
  BY Types
<1>1. /\ s \in todo[p] /\ pc[p] \notin {"idle", "rlock"} /\ msg[p] = seq /\ seq \in Messages
      /\ state[s] = "open"
  BY DEF Offer, Try, Queue, Notify, Offers
<1>2. UNCHANGED <<seq, critical, from, state, got, pump>>
  BY DEF Offer, Try, Queue, Notify
<1>3. \A q \in Publishers : q # p => pc'[q] = pc[q] /\ todo'[q] = todo[q]
  BY <1>t DEF Offer, Try, Queue, Notify, Goto, Served, PubTypes
<1>4. todo[p] \ {s} \subseteq todo'[p] /\ todo'[p] \subseteq todo[p]
  BY <1>t DEF Offer, Try, Queue, Notify, Goto, Served, PubTypes
<1>5. (pc'[p] = "notify" => at'[p] = s) /\ (pc[p] = "notify" => at[p] = s)
  BY <1>t DEF Offer, Try, Queue, Notify, Goto, Served, PubTypes
<1>6. CASE UNCHANGED <<ch, overflow>> /\ s \in todo'[p] /\ pc'[p] # "notify"
  <2>1. \A u \in Subs : Given(u)' = Given(u)
    BY <1>2, <1>6 DEF Given, Among, Waiting
  <2>2. pc[p] # "notify"
    BY <1>t, <1>6 DEF Notify, Offer, Try, Queue, Served, PubTypes
  <2>3. Owes(p, s) /\ Owes(p, s)'
    BY <1>1, <1>6, <2>2 DEF Owes
  <2>4. seq \notin Given(s)'
    BY <2>1, <2>3 DEF Contents
  <2> QED  BY <1>1, <1>2, <1>3, <1>4, <1>5, <1>6, <2>1, <2>3, <2>4, ContentsOffer
<1>7. CASE UNCHANGED <<ch, overflow>> /\ s \notin todo'[p]
  <2>1. \A u \in Subs : Given(u)' = Given(u)
    BY <1>2, <1>7 DEF Given, Among, Waiting
  <2>2. pc'[p] # "notify"
    BY <1>t, <1>7, <1>1 DEF Notify, Offer, Try, Queue, Served, Goto, PubTypes
  <2>3. ~Owes(p, s)'
    BY <1>7 DEF Owes
  <2>4. seq \in Given(s)' \/ seq \notin critical
    <3>1. CASE pc[p] = "notify"
      BY <1>1, <1>5, <2>1, <3>1 DEF Contents
    <3>2. CASE pc[p] # "notify"
      <4>1. seq \notin critical
        BY <1>t, <1>1, <1>7, <3>2 DEF Offer, Try, Queue, Notify, Critical, Goto, PubTypes, SeqTypes
      <4> QED  BY <4>1
    <3> QED  BY <3>1, <3>2
  <2> QED  BY <1>1, <1>2, <1>3, <1>4, <1>5, <1>7, <2>1, <2>2, <2>3, <2>4, ContentsOffer
<1>8. CASE \/ overflow' = [overflow EXCEPT ![s] = Append(@, msg[p])] /\ UNCHANGED ch /\ pc'[p] = "notify"
           \/ ch' = [ch EXCEPT ![s] = Append(@, msg[p])] /\ UNCHANGED overflow /\ s \notin todo'[p]
  <2>1. Given(s)' = Given(s) \cup {seq} /\ \A u \in Subs : u # s => Given(u)' = Given(u)
    BY <1>1, <1>2, <1>8, GivenMore
  <2>2. ~Owes(p, s)'
    BY <1>5, <1>8 DEF Owes
  <2> QED  BY <1>1, <1>2, <1>3, <1>4, <1>5, <2>1, <2>2, ContentsOffer
<1>9. CASE Offer(p, s)
  <2>1. \/ UNCHANGED <<ch, overflow>> /\ s \in todo'[p] /\ pc'[p] # "notify"
        \/ UNCHANGED <<ch, overflow>> /\ s \notin todo'[p]
        \/ overflow' = [overflow EXCEPT ![s] = Append(@, msg[p])] /\ UNCHANGED ch /\ pc'[p] = "notify"
    BY <1>t, <1>1, <1>9 DEF Offer, Goto, Served, PubTypes
  <2> QED  BY <2>1, <1>6, <1>7, <1>8
<1>10. CASE Try(p, s)
  <2>1. \/ UNCHANGED <<ch, overflow>> /\ s \in todo'[p] /\ pc'[p] # "notify"
        \/ UNCHANGED <<ch, overflow>> /\ s \notin todo'[p]
        \/ ch' = [ch EXCEPT ![s] = Append(@, msg[p])] /\ UNCHANGED overflow /\ s \notin todo'[p]
    BY <1>t, <1>1, <1>10 DEF Try, Goto, Served, PubTypes
  <2> QED  BY <2>1, <1>6, <1>7, <1>8
<1>11. CASE Queue(p, s)
  <2>1. overflow' = [overflow EXCEPT ![s] = Append(@, msg[p])] /\ UNCHANGED ch /\ pc'[p] = "notify"
    BY <1>t, <1>1, <1>11 DEF Queue, Goto, PubTypes
  <2> QED  BY <2>1, <1>8
<1>12. CASE Notify(p, s)
  <2>1. UNCHANGED <<ch, overflow>> /\ s \notin todo'[p]
    BY <1>t, <1>1, <1>12 DEF Notify, Served, PubTypes
  <2> QED  BY <2>1, <1>7
<1> QED  BY <1>9, <1>10, <1>11, <1>12

\* What subscriptions have been given stays right.
LEMMA ContentsPreserved == ASSUME IInv, Next PROVE Contents'
<1> USE DEF IInv
<1>t. PubTypes /\ LifeTypes /\ SeqTypes
  BY Types
<1>1. ASSUME NEW p \in Publishers, LockPublish(p) \/ EndPublish(p) PROVE Contents'
  <2>1. /\ UNCHANGED <<seq, critical, todo, from, state>> /\ todo[p] = {} /\ pc'[p] # "notify"
        /\ \A q \in Publishers : q # p => pc'[q] = pc[q]
    BY <1>t, <1>1 DEF LockPublish, EndPublish, Goto, PubTypes, Offers
  <2>2. \A u \in Subs : Given(u)' = Given(u)
    BY <1>1 DEF LockPublish, EndPublish, Given, Among, Waiting
  <2>3. UNCHANGED at
    BY <1>1 DEF LockPublish, EndPublish
  <2>4. \A q \in Publishers, s \in Subs : Owes(q, s)' <=> Owes(q, s)
    BY <2>1, <2>3 DEF Owes
  <2>5. ASSUME NEW s \in Subs, NEW n \in critical', state'[s] = "open", n > from'[s]
        PROVE  n \in Given(s)' \/ (n = seq' /\ \E q \in Publishers : Owes(q, s)')
    <3>1. n \in Given(s) \/ (n = seq /\ \E q \in Publishers : Owes(q, s))
      BY <2>1, <2>5 DEF Contents
    <3> QED  BY <2>1, <2>2, <2>4, <3>1
  <2>6. ASSUME NEW s \in Subs, NEW q \in Publishers, pc'[q] = "notify", at'[q] = s PROVE seq' \in Given(s)'
    BY <2>1, <2>2, <2>3, <2>6 DEF Contents
  <2> QED  BY <2>1, <2>2, <2>4, <2>5, <2>6 DEF Contents
<1>2. ASSUME NEW s \in Subs, PumpStep(s) \/ Receive(s) PROVE Contents'
  <2>1. UNCHANGED <<seq, critical, pc, todo, at, from, state>>
    BY <1>2 DEF PumpStep, PumpWake, PumpCheck, PumpSend, PumpPop, PumpQuit, Receive
  <2> QED  BY <1>2, <2>1, GivenKept, ContentsFrame
<1>3. ASSUME NEW s \in Subs, Subscribe(s) PROVE Contents'
  <2>1. /\ UNCHANGED <<seq, critical, pc, todo, at>>
        /\ from'[s] = seq /\ \A u \in Subs : u # s => from'[u] = from[u] /\ state'[u] = state[u]
    BY <1>t, <1>3 DEF Subscribe, LifeTypes
  <2>2. \A u \in Subs : Given(u)' = Given(u)
    BY <1>3 DEF Subscribe, Given, Among, Waiting
  <2>3. \A p \in Publishers, u \in Subs : Owes(p, u)' <=> Owes(p, u)
    BY <2>1 DEF Owes
  <2>4. ASSUME NEW u \in Subs, NEW n \in critical', state'[u] = "open", n > from'[u]
        PROVE  n \in Given(u)' \/ (n = seq' /\ \E q \in Publishers : Owes(q, u)')
    <3>1. CASE u = s
      <4>1. n \in 1..seq /\ n > seq
        BY <1>t, <2>1, <2>4, <3>1 DEF PubTypes
      <4> QED  BY <1>t, <4>1 DEF PubTypes
    <3>2. CASE u # s
      <4>1. n \in Given(u) \/ (n = seq /\ \E q \in Publishers : Owes(q, u))
        BY <2>1, <2>4, <3>2 DEF Contents
      <4> QED  BY <2>1, <2>2, <2>3, <4>1
    <3> QED  BY <3>1, <3>2
  <2> QED  BY <2>1, <2>2, <2>3, <2>4 DEF Contents
<1>4. CASE \/ \E s \in Subs : Unsubscribe(s) \/ CloseSub(s) \/ CloseChan(s)
           \/ Close \/ WriteUnlock
  <2>1. UNCHANGED <<seq, critical, pc, todo, at, from, got, ch, overflow, pump>>
    BY <1>4 DEF Unsubscribe, CloseSub, CloseChan, Close, WriteUnlock
  <2>2. \A s \in Subs : state'[s] = "open" => state[s] = "open"
    BY <1>t, <1>4 DEF Unsubscribe, CloseSub, CloseChan, Close, WriteUnlock, LifeTypes
  <2>3. \A u \in Subs : Given(u)' = Given(u)
    BY <2>1 DEF Given, Among, Waiting
  <2> QED  BY <2>1, <2>2, <2>3, ContentsFrame
<1> QED  BY <1>1, <1>2, <1>3, <1>4, ContentsBegin, ContentsSend DEF Next, PublisherStep, CloserStep

-----------------------------------------------------------------------------
(* The invariant and what follows from it *)

\* The bus starts in the invariant.
LEMMA BusInit == Init => IInv
<1> SUFFICES ASSUME Init PROVE IInv
  OBVIOUS
<1> USE BusAssumption DEF Init
<1>1. <<>> \in Seq(Messages) /\ Len(<<>>) = 0
  OBVIOUS
<1>2. PubTypes
  BY DEF PubTypes
<1>3. LifeTypes
  <2>1. 0 \in 0..MaxSeq
    OBVIOUS
  <2>2. from \in [Subs -> 0..MaxSeq] /\ state \in [Subs -> {"new", "open", "closing", "closed"}]
    BY <2>1
  <2>3. closed \in BOOLEAN /\ writer \in BOOLEAN /\ toClose \subseteq Subs
    OBVIOUS
  <2> QED  BY <2>2, <2>3 DEF LifeTypes
<1>9. PumpTypes
  BY DEF PumpTypes
<1>4. SeqTypes
  BY <1>1 DEF SeqTypes
<1>5. Locks /\ Offers
  BY DEF Locks, Offers
<1>6. Subscriptions
  BY DEF Subscriptions
<1>7. \A s \in Subs : Given(s) = {}
  BY AmongEmpty DEF Given, Waiting
<1>8. Contents
  BY <1>7 DEF Contents, Owes
<1> QED  BY <1>2, <1>3, <1>9, <1>4, <1>5, <1>6, <1>8, Types DEF IInv

\* Every step keeps the invariant.
LEMMA BusStep == IInv /\ [Next]_vars => IInv'
<1> SUFFICES ASSUME IInv, [Next]_vars PROVE IInv'
  OBVIOUS
<1>1. CASE Next
  <2>1. TypeOK'
    <3>1. PubTypes' /\ LifeTypes' /\ PumpTypes' /\ SeqTypes'
      BY <1>1, PubTypesPreserved, LifeTypesPreserved, SeqTypesPreserved DEF IInv
    <3> QED  BY <3>1 DEF TypeOK, PubTypes, LifeTypes, PumpTypes, SeqTypes
  <2> QED  BY <1>1, <2>1, LocksPreserved, OffersPreserved, SubscriptionsPreserved, ContentsPreserved DEF IInv
<1>2. CASE UNCHANGED vars
  <2> USE <1>2 DEF vars
  <2>1. TypeOK' /\ Locks' /\ Offers' /\ Subscriptions'
    BY DEF IInv, TypeOK, Locks, Readers, Offers, Subscriptions
  <2>2. \A s \in Subs : Given(s)' = Given(s)
    BY DEF Given, Among, Waiting
  <2>3. Contents'
    BY <2>2, ContentsFrame DEF IInv
  <2> QED  BY <2>1, <2>3 DEF IInv
<1> QED  BY <1>1, <1>2

\* Every state of the bus is well typed, its locks exclude, and subscriptions
\* have what they should.
THEOREM BusInvariant == Spec => []IInv
  BY BusInit, BusStep, PTL DEF Spec

\* For any publishers, subscriptions and buffer: nobody is about to send on a
\* channel that is closed (subscriber.go:117-131).
THEOREM BusNoSendOnClosed == Spec => []NoSendOnClosed
<1>1. IInv => NoSendOnClosed
  <2> SUFFICES ASSUME IInv, NEW s \in Subs, state[s] = "closed"
               PROVE  /\ pump[s] = "done"
                      /\ \A p \in Publishers : ~(pc[p] \in {"try", "queue", "notify"} /\ at[p] = s)
    BY DEF NoSendOnClosed
  <2> QED  BY DEF IInv, Offers, Subscriptions
<1> QED  BY <1>1, BusInvariant, PTL

\* What is in a stream is what has been given.
LEMMA StreamGiven ==
  ASSUME TypeOK, Subscriptions, NEW s \in Subs
  PROVE  Among(Stream(s)) = Given(s)
<1>1. got[s] \in Seq(Messages) /\ ch[s] \in Seq(Messages) /\ Waiting(s) \in Seq(Messages)
  BY Types, WaitingTyped DEF SeqTypes
<1>2. got[s] \o ch[s] \in Seq(Messages) /\ Among(got[s] \o ch[s]) = Among(got[s]) \cup Among(ch[s])
  BY <1>1, AmongConcat, ConcatProperties
<1>3. \A q \in Seq(Messages) : Among(q \o Waiting(s)) = Among(q) \cup Among(Waiting(s))
  BY <1>1, AmongConcat
<1> QED  BY <1>2, <1>3 DEF Stream, Given

\* For any publishers, subscriptions and buffer: a critical message is never
\* dropped for an open subscription (ARCHITECTURE.md:100).
THEOREM BusCriticalKept == Spec => []CriticalKept
<1>1. IInv => CriticalKept
  <2> SUFFICES ASSUME IInv, NEW s \in Subs, state[s] = "open", NEW n \in critical, n > from[s]
               PROVE  \/ n \in Among(Stream(s))
                      \/ \E p \in Publishers : msg[p] = n /\ pc[p] # "idle" /\ s \in todo[p]
    BY DEF CriticalKept
  <2>1. n \in Given(s) \/ (n = seq /\ \E p \in Publishers : Owes(p, s))
    BY DEF IInv, Contents
  <2>2. CASE n \in Given(s)
    BY <2>2, StreamGiven DEF IInv
  <2>3. ASSUME NEW p \in Publishers, Owes(p, s), n = seq
        PROVE  msg[p] = n /\ pc[p] # "idle" /\ s \in todo[p]
    BY <2>3 DEF IInv, Owes, Offers
  <2> QED  BY <2>1, <2>2, <2>3
<1> QED  BY <1>1, BusInvariant, PTL

-----------------------------------------------------------------------------
(* The pump is woken *)

\* An open subscription with an overflow has a pump at work, a token for it, or a
\* publisher about to leave one.
Woken(s) ==
  state[s] = "open" /\ overflow[s] # <<>> =>
    \/ pump[s] \in {"check", "send", "pop"}
    \/ sig[s]
    \/ \E p \in Publishers : pc[p] = "notify" /\ at[p] = s

PumpWoken == \A s \in Subs : Woken(s)

\* No step leaves an overflow behind that nobody will look at.
LEMMA WokenKept == ASSUME IInv, PumpWoken, Next PROVE PumpWoken'
<1>t. PubTypes /\ LifeTypes /\ PumpTypes /\ SeqTypes /\ Locks /\ Offers /\ Subscriptions
  BY Types DEF IInv
<1> USE DEF PumpWoken, Woken
<1>1. ASSUME NEW p \in Publishers,
             LockPublish(p) \/ EndPublish(p) \/ (\E crit \in BOOLEAN : BeginPublish(p, crit))
      PROVE  PumpWoken'
  <2>1. /\ UNCHANGED <<state, overflow, pump, sig, at>> /\ pc[p] # "notify"
        /\ \A q \in Publishers : q # p => pc'[q] = pc[q]
    BY <1>t, <1>1 DEF LockPublish, EndPublish, BeginPublish, Goto, PubTypes
  <2> QED  BY <2>1
<1>2. ASSUME NEW p \in Publishers, NEW s \in Subs, Offer(p, s) \/ Try(p, s) \/ Queue(p, s)
      PROVE  PumpWoken'
  <2>1. /\ UNCHANGED <<state, pump, sig>> /\ pc[p] # "notify"
        /\ \A q \in Publishers : q # p => pc'[q] = pc[q] /\ at'[q] = at[q]
        /\ \A u \in Subs : overflow'[u] = overflow[u] \/ (u = s /\ pc'[p] = "notify" /\ at'[p] = s)
    BY <1>t, <1>2 DEF Offer, Try, Queue, Served, Goto, PubTypes, SeqTypes
  <2> QED  BY <2>1
<1>3. ASSUME NEW p \in Publishers, NEW s \in Subs, Notify(p, s) PROVE PumpWoken'
  <2>1. /\ UNCHANGED <<state, pump, overflow, at>> /\ at[p] = s /\ sig'[s]
        /\ \A q \in Publishers : q # p => pc'[q] = pc[q]
        /\ \A u \in Subs : u # s => sig'[u] = sig[u]
    BY <1>t, <1>3 DEF Notify, Served, Goto, PubTypes, PumpTypes
  <2> QED  BY <2>1
<1>4. ASSUME NEW s \in Subs, PumpStep(s) PROVE PumpWoken'
  <2>1. /\ UNCHANGED <<state, pc, at>>
        /\ \A u \in Subs : u # s => pump'[u] = pump[u] /\ overflow'[u] = overflow[u] /\ sig'[u] = sig[u]
    BY <1>t, <1>4 DEF PumpStep, PumpWake, PumpCheck, PumpSend, PumpPop, PumpQuit, PumpTo, PumpTypes, SeqTypes
  <2>2. state[s] # "open" \/ overflow'[s] = <<>> \/ pump'[s] \in {"check", "send", "pop"}
    BY <1>t, <1>4 DEF PumpStep, PumpWake, PumpCheck, PumpSend, PumpPop, PumpQuit, Quit, PumpTo, PumpTypes
  <2> QED  BY <2>1, <2>2
<1>5. ASSUME NEW s \in Subs, Receive(s) \/ Unsubscribe(s) PROVE PumpWoken'
  BY <1>5 DEF Receive, Unsubscribe
<1>6. ASSUME NEW s \in Subs, Subscribe(s) PROVE PumpWoken'
  BY <1>t, <1>6 DEF Subscribe, Subscriptions, LifeTypes
<1>7. CASE Close \/ WriteUnlock
  BY <1>7 DEF Close, WriteUnlock
<1>8. ASSUME NEW s \in Subs, CloseSub(s) \/ CloseChan(s) PROVE PumpWoken'
  BY <1>t, <1>8 DEF CloseSub, CloseChan, LifeTypes
<1> QED  BY <1>1, <1>2, <1>3, <1>4, <1>5, <1>6, <1>7, <1>8 DEF Next, PublisherStep, CloserStep

\* A critical message in the overflow never waits for a pump that nobody wakes,
\* although the channel may have been drained between the failed send and the
\* append, and one token stands for any number of messages (subscriber.go:62-111).
THEOREM BusPumpWoken == Spec => []PumpWoken
<1>1. Init => PumpWoken
  BY DEF Init, PumpWoken, Woken
<1>2. IInv /\ PumpWoken /\ [Next]_vars => PumpWoken'
  <2> SUFFICES ASSUME PumpWoken, UNCHANGED vars PROVE PumpWoken'
    BY WokenKept
  <2> QED  BY DEF vars, PumpWoken, Woken
<1> QED  BY <1>1, <1>2, BusInvariant, PTL DEF Spec

-----------------------------------------------------------------------------
(* The refinement of Delivery *)

\* A subscription that keeps its sequences, and whose pump neither pops nor
\* ends, keeps what it can still get.
LEMMA PendingFrame ==
  ASSUME NEW s \in Subs, ch'[s] = ch[s], Waiting(s)' = Waiting(s), pump'[s] = "done" <=> pump[s] = "done"
  PROVE  Pending(s)' = Pending(s)
  BY DEF Pending

\* What a subscription has accepted is what it has been given, as long as it
\* is open.
LEMMA AcceptedGiven ==
  ASSUME TypeOK, Subscriptions, NEW s \in Subs, state[s] = "open"
  PROVE  Promise!Accepted(s) = Given(s) /\ Pending(s) = ch[s] \o Waiting(s)
<1>1. got[s] \in Seq(Messages) /\ ch[s] \in Seq(Messages) /\ Waiting(s) \in Seq(Messages)
  BY Types, WaitingTyped DEF SeqTypes
<1>2. Pending(s) = ch[s] \o Waiting(s)
  BY DEF Pending, Subscriptions
<1>3. Among(Pending(s)) = Among(ch[s]) \cup Among(Waiting(s))
  BY <1>1, <1>2, AmongConcat
<1>4. Promise!Accepted(s) = Among(got[s]) \cup Among(Pending(s))
  BY DEF Promise!Accepted, Among
<1> QED  BY <1>2, <1>3, <1>4 DEF Given

\* The variables of Delivery stand still.
Still == UNCHANGED <<seq, critical, from, got>> /\ (\A s \in Subs : Pending(s)' = Pending(s))
         /\ \A s \in Subs : state'[s] = "open" <=> state[s] = "open"

\* Then Delivery stutters.
LEMMA Stutters == ASSUME Still PROVE UNCHANGED Promise!deliveryVars
<1>1. {s \in Subs : state[s] = "open"}' = {s \in Subs : state[s] = "open"}
  BY DEF Still
<1>2. [s \in Subs |-> Pending(s)]' = [s \in Subs |-> Pending(s)]
  BY DEF Still
<1> QED  BY <1>1, <1>2 DEF Still, Promise!deliveryVars

\* A publisher's step that gives its message to s is Accept.
LEMMA GivingAccepts ==
  ASSUME IInv, NEW p \in Publishers, NEW s \in Subs, Owes(p, s), pc[p] # "idle",
         UNCHANGED <<seq, critical, from, state, got, pump>>,
         \/ overflow' = [overflow EXCEPT ![s] = Append(@, seq)] /\ UNCHANGED ch
         \/ ch' = [ch EXCEPT ![s] = Append(@, seq)] /\ UNCHANGED overflow /\ overflow[s] = <<>>
  PROVE  Promise!Accept(s, seq) /\ seq \in 1..seq
<1> USE DEF IInv
<1>t. PubTypes /\ SeqTypes
  BY Types
<1>1. state[s] = "open" /\ from[s] < seq /\ seq \in Messages
  BY DEF Owes, Offers
<1>2. Promise!Accepted(s) = Given(s) /\ Pending(s) = ch[s] \o Waiting(s) /\ pump[s] # "done"
  BY <1>1, AcceptedGiven DEF Subscriptions
<1>3. ch[s] \in Seq(Messages) /\ Waiting(s) \in Seq(Messages)
  BY <1>t, WaitingTyped DEF SeqTypes
<1>4. Pending(s)' = Append(Pending(s), seq) /\ \A u \in Subs : u # s => Pending(u)' = Pending(u)
  <2>1. CASE overflow' = [overflow EXCEPT ![s] = Append(@, seq)] /\ UNCHANGED ch
    <3>1. Waiting(s)' = Append(Waiting(s), seq) /\ \A u \in Subs : u # s => Waiting(u)' = Waiting(u)
      BY <1>1, <2>1, WaitingAppend
    <3>2. Pending(s)' = ch[s] \o Append(Waiting(s), seq)
      BY <1>2, <2>1, <3>1 DEF Pending
    <3>3. ch[s] \o Append(Waiting(s), seq) = Append(ch[s] \o Waiting(s), seq)
      <4>1. \A q, r \in Seq(Messages), x \in Messages : q \o Append(r, x) = Append(q \o r, x)
        BY ConcatAppend
      <4> QED  BY <1>1, <1>3, <4>1
    <3>4. \A u \in Subs : u # s => Pending(u)' = Pending(u)
      BY <2>1, <3>1 DEF Pending
    <3> QED  BY <1>2, <3>2, <3>3, <3>4
  <2>2. CASE ch' = [ch EXCEPT ![s] = Append(@, seq)] /\ UNCHANGED overflow /\ overflow[s] = <<>>
    <3>1. \A u \in Subs : Waiting(u)' = Waiting(u)
      BY <2>2 DEF Waiting
    <3>2. Waiting(s) = <<>>
      BY <2>2 DEF Waiting, Subscriptions
    <3>3. ch'[s] = Append(ch[s], seq) /\ \A u \in Subs : u # s => ch'[u] = ch[u]
      BY <1>t, <2>2 DEF SeqTypes
    <3>4. \A u \in Subs : u # s => Pending(u)' = Pending(u)
      BY <3>1, <3>3 DEF Pending
    <3>5. Pending(s)' = Append(ch[s], seq) \o <<>>
      BY <1>2, <3>1, <3>2, <3>3 DEF Pending
    <3>6. Append(ch[s], seq) \in Seq(Messages)
      BY <1>1, <1>3, AppendProperties
    <3>7. Append(ch[s], seq) \o <<>> = Append(ch[s], seq) /\ ch[s] \o <<>> = ch[s]
      BY <1>3, <3>6, ConcatEmptySeq
    <3> QED  BY <1>2, <3>2, <3>4, <3>5, <3>7
  <2> QED  BY <2>1, <2>2
<1>5. \A m \in Given(s) : m < seq
  <2>1. \A m \in Given(s) : m <= seq
    BY DEF Contents
  <2>2. seq \notin Given(s)
    BY DEF Contents
  <2>3. Given(s) \subseteq Int
    <3>1. got[s] \in Seq(Messages)
      BY <1>t DEF SeqTypes
    <3>2. \A q \in Seq(Messages) : Among(q) \subseteq Messages
      BY ElementOfSeq DEF Among
    <3> QED  BY <1>3, <3>1, <3>2 DEF Given, Messages
  <2>4. seq \in Int
    BY <1>t DEF PubTypes
  <2> QED  BY <2>1, <2>2, <2>3, <2>4
<1>6. \A m \in critical : from[s] < m /\ m < seq => m \in Given(s)
  <2>1. critical \subseteq Int /\ seq \in Int
    BY <1>t DEF PubTypes
  <2> QED  BY <1>1, <2>1, Types DEF Contents, LifeTypes
<1>7. [u \in Subs |-> Pending(u)]' = [[u \in Subs |-> Pending(u)] EXCEPT ![s] = Append(@, seq)]
  BY <1>4
<1>8. seq \in 1..seq
  BY <1>1 DEF Messages
<1>9. s \in {u \in Subs : state[u] = "open"} /\ seq > from[s]
  BY <1>1
<1> QED  BY <1>2, <1>5, <1>6, <1>7, <1>8, <1>9 DEF Promise!Accept

\* The bus starts as Delivery does.
LEMMA DeliveryInit == Init => Promise!Init
<1> SUFFICES ASSUME Init PROVE Promise!Init
  OBVIOUS
<1>1. \A s \in Subs : Pending(s) = <<>>
  <2>1. <<>> \in Seq(Messages) /\ <<>> \o <<>> = <<>>
    BY ConcatEmptySeq
  <2> QED  BY <2>1 DEF Init, Pending, Waiting
<1>2. {s \in Subs : state[s] = "open"} = {}
  BY DEF Init
<1> QED  BY <1>1, <1>2 DEF Init, Promise!Init

\* A publisher's steps are Publish, Accept or none of Delivery's.
LEMMA PublisherDelivers ==
  ASSUME IInv, NEW p \in Publishers, LockPublish(p) \/ PublisherStep(p)
  PROVE  Promise!Next \/ UNCHANGED Promise!deliveryVars
<1> USE DEF IInv
<1>t. PubTypes /\ SeqTypes
  BY Types
<1>1. CASE LockPublish(p) \/ EndPublish(p)
  <2>1. Still
    BY <1>1 DEF LockPublish, EndPublish, Still, Pending, Waiting
  <2> QED  BY <2>1, Stutters
<1>2. ASSUME NEW crit \in BOOLEAN, BeginPublish(p, crit) PROVE Promise!Next \/ UNCHANGED Promise!deliveryVars
  <2>1. UNCHANGED <<state, from, got, ch, overflow, pump>>
    BY <1>2 DEF BeginPublish
  <2>2. CASE closed
    <3>1. Still
      BY <1>2, <2>1, <2>2 DEF BeginPublish, Still, Pending, Waiting
    <3> QED  BY <3>1, Stutters
  <2>3. CASE ~closed
    <3>1. seq < MaxSeq
      BY <1>2 DEF BeginPublish, Locks
    <3>2. seq' = seq + 1 /\ critical' \in {critical, critical \cup {seq + 1}}
      BY <1>2, <2>3, Zenon DEF BeginPublish
    <3>3. [s \in Subs |-> Pending(s)]' = [s \in Subs |-> Pending(s)]
      BY <2>1 DEF Pending, Waiting
    <3>4. {s \in Subs : state[s] = "open"}' = {s \in Subs : state[s] = "open"}
      BY <2>1
    <3>5. Promise!Publish
      BY <2>1, <3>1, <3>2, <3>3, <3>4 DEF Promise!Publish
    <3> QED  BY <3>5 DEF Promise!Next
  <2> QED  BY <2>2, <2>3
<1>3. ASSUME NEW s \in Subs, Offer(p, s) \/ Try(p, s) \/ Queue(p, s) \/ Notify(p, s)
      PROVE  Promise!Next \/ UNCHANGED Promise!deliveryVars
  <2>1. UNCHANGED <<seq, critical, from, state, got, pump>> /\ pc[p] # "idle"
    BY <1>3 DEF Offer, Try, Queue, Notify
  <2>2. CASE UNCHANGED <<ch, overflow>>
    <3>1. Still
      BY <2>1, <2>2 DEF Still, Pending, Waiting
    <3> QED  BY <3>1, Stutters
  <2>3. CASE ~UNCHANGED <<ch, overflow>>
    <3>1. s \in todo[p] /\ msg[p] = seq /\ pc[p] # "notify"
      BY <1>3, <2>3 DEF Offer, Try, Queue, Notify, Offers
    <3>2. \/ overflow' = [overflow EXCEPT ![s] = Append(@, seq)] /\ UNCHANGED ch
          \/ ch' = [ch EXCEPT ![s] = Append(@, seq)] /\ UNCHANGED overflow /\ overflow[s] = <<>>
      BY <1>3, <2>3, <3>1 DEF Offer, Try, Queue, Notify, Offers
    <3>3. Promise!Accept(s, seq) /\ seq \in 1..seq
      BY <2>1, <3>1, <3>2, GivingAccepts DEF Owes
    <3> QED  BY <3>3 DEF Promise!Next
  <2> QED  BY <2>2, <2>3
<1> QED  BY <1>1, <1>2, <1>3 DEF PublisherStep

\* The pump's steps are none of Delivery's, but that it loses what waits when it quits.
LEMMA PumpDelivers ==
  ASSUME IInv, NEW s \in Subs, PumpStep(s)
  PROVE  Promise!Next \/ UNCHANGED Promise!deliveryVars
<1> USE DEF IInv
<1>t. PumpTypes /\ SeqTypes
  BY Types
<1>0. UNCHANGED <<seq, critical, from, state, got>>
  BY DEF PumpStep, PumpWake, PumpCheck, PumpSend, PumpPop, PumpQuit
<1>1. CASE PumpWake(s) \/ PumpCheck(s) \/ PumpPop(s)
  <2>1. UNCHANGED ch /\ \A u \in Subs : pump'[u] = "done" <=> pump[u] = "done"
    BY <1>t, <1>1 DEF PumpWake, PumpCheck, PumpPop, PumpTo, PumpTypes
  <2>2. \A u \in Subs : Waiting(u)' = Waiting(u)
    BY <1>1, PumpKeepsWaiting, PumpPopKeepsWaiting
  <2>3. Still
    BY <1>0, <2>1, <2>2, PendingFrame DEF Still
  <2> QED  BY <2>3, Stutters
<1>2. CASE PumpSend(s)
  <2>1. /\ Waiting(s) # <<>> /\ ch'[s] = Append(ch[s], Head(Waiting(s))) /\ Waiting(s)' = Tail(Waiting(s))
        /\ \A u \in Subs : u # s => ch'[u] = ch[u] /\ Waiting(u)' = Waiting(u)
    BY <1>2, PumpMoves
  <2>2. \A u \in Subs : pump'[u] = "done" <=> pump[u] = "done"
    BY <1>t, <1>2 DEF PumpSend, PumpTo, PumpTypes
  <2>3. pump[s] # "done"
    BY <1>2 DEF PumpSend
  <2>4. Append(ch[s], Head(Waiting(s))) \o Tail(Waiting(s)) = ch[s] \o Waiting(s)
    BY <1>t, <2>1, WaitingTyped, ConcatMove DEF SeqTypes
  <2>5. Pending(s)' = Pending(s)
    BY <2>1, <2>2, <2>3, <2>4 DEF Pending
  <2>6. \A u \in Subs : u # s => Pending(u)' = Pending(u)
    BY <2>1, <2>2, PendingFrame
  <2>7. Still
    BY <1>0, <2>5, <2>6 DEF Still
  <2> QED  BY <2>7, Stutters
<1>3. CASE PumpQuit(s)
  <2>1. /\ pump[s] # "done" /\ pump'[s] = "done" /\ \A u \in Subs : u # s => pump'[u] = pump[u]
        /\ UNCHANGED <<ch, overflow>> /\ state[s] # "open"
    BY <1>t, <1>3 DEF PumpQuit, PumpTo, Quit, PumpTypes
  <2>2. ch[s] \in Seq(Messages) /\ Waiting(s) \in Seq(Messages)
    BY <1>t, WaitingTyped DEF SeqTypes
  <2>3. Pending(s) = ch[s] \o Waiting(s)
    BY <2>1 DEF Pending
  <2>4. Pending(s)' = ch[s]
    BY <2>1, <2>2, ConcatEmptySeq DEF Pending
  <2>5. \A u \in Subs : u # s => Pending(u)' = Pending(u)
    BY <2>1 DEF Pending, Waiting
  <2>6. Len(ch[s]) \in 0..Len(Pending(s)) /\ SubSeq(Pending(s), 1, Len(ch[s])) = ch[s]
    BY <2>2, <2>3, ConcatFront
  <2>7. [u \in Subs |-> Pending(u)]' = [[u \in Subs |-> Pending(u)] EXCEPT ![s] = SubSeq(@, 1, Len(ch[s]))]
    BY <2>4, <2>5, <2>6
  <2>8. Promise!Lose(s, Len(ch[s]))
    BY <1>0, <2>1, <2>7 DEF Promise!Lose
  <2>9. Len(ch[s]) \in 0..Len([u \in Subs |-> Pending(u)][s])
    BY <2>6
  <2> QED  BY <2>8, <2>9 DEF Promise!Next
<1> QED  BY <1>1, <1>2, <1>3 DEF PumpStep

\* A receiver takes what is first.
LEMMA ReceiveDelivers == ASSUME IInv, NEW s \in Subs, Receive(s) PROVE Promise!Receive(s)
<1> USE DEF IInv
<1>t. SeqTypes
  BY Types
<1> DEFINE r == IF pump[s] = "done" THEN <<>> ELSE Waiting(s)
<1>1. /\ ch[s] # <<>> /\ ch'[s] = Tail(ch[s]) /\ \A u \in Subs : u # s => ch'[u] = ch[u]
      /\ got' = [got EXCEPT ![s] = Append(@, Head(ch[s]))]
      /\ UNCHANGED <<seq, critical, from, state, overflow, pump>>
  BY <1>t DEF Receive, SeqTypes
<1>2. ch[s] \in Seq(Messages) /\ r \in Seq(Messages)
  <2>1. <<>> \in Seq(Messages)
    OBVIOUS
  <2> QED  BY <1>t, <2>1, WaitingTyped DEF SeqTypes
<1>3. Pending(s) = ch[s] \o r /\ Pending(s)' = Tail(ch[s]) \o r
  BY <1>1 DEF Pending, Waiting
<1> HIDE DEF r
<1>4. ch[s] \o r # <<>> /\ Head(ch[s] \o r) = Head(ch[s]) /\ Tail(ch[s] \o r) = Tail(ch[s]) \o r
  BY <1>1, <1>2, ConcatTail
<1>5. \A u \in Subs : u # s => Pending(u)' = Pending(u)
  BY <1>1 DEF Pending, Waiting
<1>6. [u \in Subs |-> Pending(u)]' = [[u \in Subs |-> Pending(u)] EXCEPT ![s] = Tail(@)]
  BY <1>3, <1>4, <1>5
<1>7. {u \in Subs : state[u] = "open"}' = {u \in Subs : state[u] = "open"}
  BY <1>1
<1>8. [u \in Subs |-> Pending(u)][s] # <<>> /\ Head([u \in Subs |-> Pending(u)][s]) = Head(ch[s])
  BY <1>3, <1>4
<1> QED  BY <1>1, <1>6, <1>7, <1>8 DEF Promise!Receive

\* Subscribing and closing begin and end a subscription.
LEMMA LifeDelivers ==
  ASSUME IInv, \/ \E s \in Subs : Subscribe(s) \/ Unsubscribe(s) \/ CloseSub(s) \/ CloseChan(s)
               \/ Close \/ WriteUnlock
  PROVE  Promise!Next \/ UNCHANGED Promise!deliveryVars
<1> USE DEF IInv
<1>t. LifeTypes
  BY Types
<1>1. UNCHANGED <<seq, critical, got>> /\ \A s \in Subs : Pending(s)' = Pending(s)
  BY DEF Subscribe, Unsubscribe, CloseSub, CloseChan, Close, WriteUnlock, Pending, Waiting
<1>2. [s \in Subs |-> Pending(s)]' = [s \in Subs |-> Pending(s)]
  BY <1>1
<1>3. ASSUME NEW s \in Subs, Subscribe(s) PROVE Promise!Next
  <2>1. state[s] = "new" /\ from' = [from EXCEPT ![s] = seq]
        /\ {u \in Subs : state[u] = "open"}' = {u \in Subs : state[u] = "open"} \cup {s}
    BY <1>t, <1>3 DEF Subscribe, LifeTypes
  <2>2. Promise!Open(s)
    BY <1>1, <1>2, <2>1 DEF Promise!Open
  <2> QED  BY <2>2 DEF Promise!Next
<1>4. ASSUME NEW s \in Subs, CloseSub(s) PROVE Promise!Next
  <2>1. s \in {u \in Subs : state[u] = "open"} /\ from' = from
        /\ {u \in Subs : state[u] = "open"}' = {u \in Subs : state[u] = "open"} \ {s}
    BY <1>t, <1>4 DEF CloseSub, LifeTypes
  <2>2. Promise!End(s)
    BY <1>1, <1>2, <2>1 DEF Promise!End
  <2> QED  BY <2>2 DEF Promise!Next
<1>5. ASSUME NEW s \in Subs, Unsubscribe(s) \/ CloseChan(s) PROVE Still
  BY <1>t, <1>1, <1>5 DEF Still, Unsubscribe, CloseChan, LifeTypes
<1>6. CASE Close \/ WriteUnlock
  <2>1. Still
    BY <1>1, <1>6 DEF Still, Close, WriteUnlock
  <2> QED  BY <2>1, Stutters
<1> QED  BY <1>3, <1>4, <1>5, <1>6, Stutters

\* Every step of the bus is one of Delivery's, or none.
LEMMA StepDelivers ==
  ASSUME IInv, [Next]_vars
  PROVE  Promise!Next \/ UNCHANGED Promise!deliveryVars
<1>1. ASSUME NEW p \in Publishers, LockPublish(p) \/ PublisherStep(p)
      PROVE  Promise!Next \/ UNCHANGED Promise!deliveryVars
  BY <1>1, PublisherDelivers
<1>2. ASSUME NEW s \in Subs, PumpStep(s) PROVE Promise!Next \/ UNCHANGED Promise!deliveryVars
  BY <1>2, PumpDelivers
<1>3. ASSUME NEW s \in Subs, Receive(s) PROVE Promise!Next
  BY <1>3, ReceiveDelivers DEF Promise!Next
<1>4. CASE UNCHANGED vars
  <2>1. Still
    BY <1>4 DEF vars, Still, Pending, Waiting
  <2> QED  BY <2>1, Stutters
<1> QED  BY <1>1, <1>2, <1>3, <1>4, LifeDelivers DEF Next, CloserStep

\* For any publishers, subscriptions and buffer: the bus implements Delivery,
\* so that a subscriber gets what it is given in the order of the sequence
\* numbers, and misses nothing critical before a later message.
THEOREM BusDelivers == Spec => DeliversInOrder
<1>1. IInv /\ [Next]_vars => [Promise!Next]_(Promise!deliveryVars)
  BY StepDelivers
<1> QED  BY <1>1, DeliveryInit, BusInvariant, PTL DEF Spec, DeliversInOrder, Promise!Spec

-----------------------------------------------------------------------------
(* What a receiver may rely on *)

\* Every number in q is after those before it, and comes after every critical one
\* that was published since s subscribed and is less.
InFull(q, s) ==
  \A i \in 1..Len(q) :
    /\ \A j \in 1..i - 1 : q[j] < q[i]
    /\ \A m \in critical : from[s] < m /\ m < q[i] => \E j \in 1..i - 1 : q[j] = m

\* What s has received or can still get
Coming(s) == got[s] \o Pending(s)

ComingInv == \A s \in Subs : InFull(Coming(s), s)

\* The first n of a sequence.
LEMMA FrontOfSeq ==
  ASSUME NEW S, NEW q \in Seq(S), NEW n \in 0..Len(q)
  PROVE  /\ SubSeq(q, 1, n) \in Seq(S) /\ Len(SubSeq(q, 1, n)) = n
         /\ \A i \in 1..n : SubSeq(q, 1, n)[i] = q[i]
<1>1. Len(q) \in Nat /\ \A i \in 1..n : q[i] \in S
  BY ElementOfSeq, LenProperties
<1>2. SubSeq(q, 1, n) = [i \in 1..n |-> q[i]]
  BY <1>1
<1> QED  BY <1>1, <1>2

\* A sequence behind another, and its first elements behind that.
LEMMA ConcatSame ==
  ASSUME NEW S, NEW g \in Seq(S), NEW q \in Seq(S), NEW r \in Seq(S), Len(r) <= Len(q),
         \A i \in 1..Len(r) : r[i] = q[i]
  PROVE  /\ Len(g \o q) \in Nat /\ Len(g \o r) \in Nat /\ Len(g \o r) <= Len(g \o q)
         /\ \A i \in 1..Len(g \o r) : (g \o r)[i] = (g \o q)[i]
<1>1. /\ Len(g \o q) = Len(g) + Len(q) /\ Len(g) \in Nat /\ Len(q) \in Nat
      /\ \A i \in 1..Len(g) + Len(q) : (g \o q)[i] = IF i <= Len(g) THEN g[i] ELSE q[i - Len(g)]
  BY ConcatProperties, LenProperties
<1>2. /\ Len(g \o r) = Len(g) + Len(r) /\ Len(r) \in Nat
      /\ \A i \in 1..Len(g) + Len(r) : (g \o r)[i] = IF i <= Len(g) THEN g[i] ELSE r[i - Len(g)]
  BY ConcatProperties, LenProperties
<1> QED  BY <1>1, <1>2

\* What comes first of such a sequence is one.
LEMMA FrontInFull ==
  ASSUME NEW s, NEW q, NEW r, InFull(q, s), Len(q) \in Nat, Len(r) \in Nat, Len(r) <= Len(q),
         \A i \in 1..Len(r) : r[i] = q[i]
  PROVE  InFull(r, s)
<1> SUFFICES ASSUME NEW i \in 1..Len(r)
             PROVE  /\ \A j \in 1..i - 1 : r[j] < r[i]
                    /\ \A m \in critical : from[s] < m /\ m < r[i] => \E j \in 1..i - 1 : r[j] = m
  BY DEF InFull
<1>1. i \in 1..Len(q) /\ r[i] = q[i] /\ \A j \in 1..i - 1 : r[j] = q[j]
  OBVIOUS
<1> QED  BY <1>1 DEF InFull

\* One more number goes behind those there are and the critical ones before it.
LEMMA AppendInFull ==
  ASSUME NEW s, NEW q \in Seq(Messages), NEW n \in Messages, InFull(q, s),
         \A m \in Among(q) : m < n,
         \A m \in critical : from[s] < m /\ m < n => m \in Among(q)
  PROVE  InFull(Append(q, n), s)
<1> DEFINE r == Append(q, n)
<1>1. Len(r) = Len(q) + 1 /\ Len(q) \in Nat /\ r[Len(q) + 1] = n /\ \A i \in 1..Len(q) : r[i] = q[i]
  BY AppendProperties, LenProperties
<1> HIDE DEF r
<1>2. ASSUME NEW i \in 1..Len(r)
      PROVE  /\ \A j \in 1..i - 1 : r[j] < r[i]
             /\ \A m \in critical : from[s] < m /\ m < r[i] => \E j \in 1..i - 1 : r[j] = m
  <2>1. CASE i \in 1..Len(q)
    <3>1. r[i] = q[i] /\ \A j \in 1..i - 1 : r[j] = q[j]
      BY <1>1, <2>1
    <3> QED  BY <2>1, <3>1 DEF InFull
  <2>2. CASE i = Len(q) + 1
    <3>1. r[i] = n /\ i - 1 = Len(q) /\ \A j \in 1..i - 1 : r[j] = q[j]
      BY <1>1, <2>2
    <3>2. \A j \in 1..Len(q) : q[j] \in Among(q)
      BY DEF Among
    <3>3. \A m \in Among(q) : \E j \in 1..Len(q) : q[j] = m
      BY DEF Among
    <3> QED  BY <3>1, <3>2, <3>3
  <2> QED  BY <1>1, <2>1, <2>2
<1> QED  BY <1>2 DEF InFull, r

\* What a subscription can still get is numbers.
LEMMA PendingTyped ==
  ASSUME IInv, NEW s \in Subs
  PROVE  /\ got[s] \in Seq(Messages) /\ Pending(s) \in Seq(Messages) /\ Coming(s) \in Seq(Messages)
         /\ Promise!Accepted(s) = Among(Coming(s)) /\ Among(Coming(s)) \subseteq Given(s)
<1>1. got[s] \in Seq(Messages) /\ ch[s] \in Seq(Messages) /\ Waiting(s) \in Seq(Messages)
  BY Types, WaitingTyped DEF IInv, SeqTypes
<1>2. <<>> \in Seq(Messages)
  OBVIOUS
<1>3. Pending(s) \in Seq(Messages)
  BY <1>1, <1>2, ConcatProperties DEF Pending
<1>4. Coming(s) \in Seq(Messages) /\ Among(Coming(s)) = Among(got[s]) \cup Among(Pending(s))
  BY <1>1, <1>3, ConcatProperties, AmongConcat DEF Coming
<1>5. Promise!Accepted(s) = Among(got[s]) \cup Among(Pending(s))
  BY DEF Promise!Accepted, Among
<1>6. Among(Pending(s)) \subseteq Among(ch[s]) \cup Among(Waiting(s))
  <2>1. Among(ch[s] \o <<>>) = Among(ch[s]) \cup Among(<<>>)
    BY <1>1, <1>2, AmongConcat
  <2>2. Among(<<>>) = {}
    BY DEF Among
  <2>3. Among(ch[s] \o Waiting(s)) = Among(ch[s]) \cup Among(Waiting(s))
    BY <1>1, AmongConcat
  <2> QED  BY <2>1, <2>2, <2>3 DEF Pending
<1>7. Among(Coming(s)) \subseteq Given(s)
  BY <1>4, <1>6 DEF Given
<1> QED  BY <1>1, <1>3, <1>4, <1>5, <1>7

\* A step of Delivery keeps the order and leaves out nothing critical.
LEMMA ComingKept ==
  ASSUME IInv, ComingInv, Promise!Next \/ UNCHANGED Promise!deliveryVars
  PROVE  ComingInv'
<1>t. /\ seq \in 0..MaxSeq /\ critical \subseteq 1..seq /\ MaxSeq \in Nat
      /\ got \in [Subs -> Seq(Messages)] /\ from \in [Subs -> 0..MaxSeq]
  BY BusAssumption DEF IInv, TypeOK
<1> DEFINE P == [u \in Subs |-> Pending(u)]
<1>p. \A u \in Subs : P[u] = Pending(u) /\ P'[u] = Pending(u)'
  OBVIOUS
<1>d. P \in [Subs -> Seq(Messages)]
  BY PendingTyped
<1>s. ASSUME UNCHANGED <<critical, from, got>>, P' = P PROVE ComingInv'
  BY <1>p, <1>s DEF ComingInv, Coming, InFull
<1>1. CASE Promise!Publish
  <2>1. UNCHANGED <<from, got>> /\ P' = P /\ critical' \subseteq critical \cup {seq + 1}
    BY <1>1 DEF Promise!Publish
  <2>2. ASSUME NEW s \in Subs PROVE InFull(Coming(s), s)'
    <3>1. Coming(s)' = Coming(s)
      BY <1>p, <2>1 DEF Coming
    <3>2. \A i \in 1..Len(Coming(s)) : Coming(s)[i] \in Among(Coming(s))
      BY DEF Among
    <3>3. \A i \in 1..Len(Coming(s)) : Coming(s)[i] <= seq /\ Coming(s)[i] \in Messages
      <4>1. \A n \in Among(Coming(s)) : n <= seq
        BY PendingTyped DEF IInv, Contents
      <4>2. \A i \in 1..Len(Coming(s)) : Coming(s)[i] \in Messages
        BY PendingTyped, ElementOfSeq
      <4> QED  BY <3>2, <4>1, <4>2
    <3>4. \A i \in 1..Len(Coming(s)), m \in critical' : m < Coming(s)[i] => m \in critical
      BY <1>t, <2>1, <3>3 DEF Messages
    <3> QED  BY <2>1, <3>1, <3>4 DEF ComingInv, InFull
  <2> QED  BY <2>2 DEF ComingInv
<1>2. ASSUME NEW s \in Subs, Promise!Open(s) PROVE ComingInv'
  <2>1. UNCHANGED <<critical, got>> /\ P' = P /\ from' = [from EXCEPT ![s] = seq]
    BY <1>2 DEF Promise!Open
  <2>2. ASSUME NEW u \in Subs PROVE InFull(Coming(u), u)'
    <3>1. Coming(u)' = Coming(u)
      BY <1>p, <2>1 DEF Coming
    <3>2. from'[u] >= from[u] /\ from[u] \in Int /\ from'[u] \in Int /\ critical \subseteq Int
      BY <1>t, <2>1 DEF IInv, Subscriptions
    <3> QED  BY <2>1, <3>1, <3>2 DEF ComingInv, InFull
  <2> QED  BY <2>2 DEF ComingInv
<1>3. ASSUME NEW s \in Subs, NEW n \in 1..seq, Promise!Accept(s, n) PROVE ComingInv'
  <2>1. /\ UNCHANGED <<critical, from, got>> /\ P' = [P EXCEPT ![s] = Append(@, n)]
        /\ \A m \in Among(Coming(s)) : m < n
        /\ \A m \in critical : from[s] < m /\ m < n => m \in Among(Coming(s))
    BY <1>3, PendingTyped DEF Promise!Accept
  <2>2. n \in Messages /\ Coming(s) \in Seq(Messages) /\ got[s] \in Seq(Messages) /\ Pending(s) \in Seq(Messages)
    BY <1>t, PendingTyped DEF Messages
  <2>3. Pending(s)' = Append(Pending(s), n) /\ \A u \in Subs : u # s => Pending(u)' = Pending(u)
    BY <1>p, <1>d, <2>1
  <2>4. Coming(s)' = Append(Coming(s), n)
    <3>1. Coming(s)' = got[s] \o Append(Pending(s), n)
      BY <2>1, <2>3 DEF Coming
    <3> DEFINE g == got[s]
               r == Pending(s)
    <3>2. g \in Seq(Messages) /\ r \in Seq(Messages)
      BY <2>2
    <3> HIDE DEF g, r
    <3>3. g \o Append(r, n) = Append(g \o r, n)
      BY <2>2, <3>2, ConcatAppend
    <3> QED  BY <3>1, <3>3 DEF Coming, g, r
  <2>5. InFull(Append(Coming(s), n), s)
    BY <2>1, <2>2, AppendInFull DEF ComingInv
  <2>6. InFull(Coming(s), s)'
    BY <2>1, <2>4, <2>5 DEF InFull
  <2>7. \A u \in Subs : u # s => Coming(u)' = Coming(u)
    BY <2>1, <2>3 DEF Coming
  <2> QED  BY <2>1, <2>6, <2>7 DEF ComingInv, InFull
<1>4. ASSUME NEW s \in Subs, Promise!Receive(s) PROVE ComingInv'
  <2>1. /\ UNCHANGED <<critical, from>> /\ P[s] # <<>> /\ P' = [P EXCEPT ![s] = Tail(@)]
        /\ got' = [got EXCEPT ![s] = Append(@, Head(P[s]))]
    BY <1>4 DEF Promise!Receive
  <2>2. /\ Pending(s) # <<>> /\ Pending(s)' = Tail(Pending(s)) /\ got'[s] = Append(got[s], Head(Pending(s)))
        /\ \A u \in Subs : u # s => Pending(u)' = Pending(u) /\ got'[u] = got[u]
    BY <1>p, <1>d, <1>t, <2>1
  <2>3. got[s] \in Seq(Messages) /\ Pending(s) \in Seq(Messages)
    BY PendingTyped
  <2>4. Coming(s)' = Coming(s)
    BY <2>2, <2>3, ConcatMove DEF Coming
  <2>5. \A u \in Subs : Coming(u)' = Coming(u)
    BY <2>2, <2>4 DEF Coming
  <2> QED  BY <2>1, <2>5 DEF ComingInv, InFull
<1>5. ASSUME NEW s \in Subs, Promise!End(s) PROVE ComingInv'
  <2>1. UNCHANGED <<critical, from, got>> /\ P' = P
    BY <1>5 DEF Promise!End
  <2> QED  BY <1>s, <2>1
<1>6. ASSUME NEW s \in Subs, NEW n \in 0..Len(P[s]), Promise!Lose(s, n) PROVE ComingInv'
  <2>1. UNCHANGED <<critical, from, got>> /\ P' = [P EXCEPT ![s] = SubSeq(@, 1, n)]
    BY <1>6 DEF Promise!Lose
  <2>2. Pending(s)' = SubSeq(Pending(s), 1, n) /\ \A u \in Subs : u # s => Pending(u)' = Pending(u)
    BY <1>p, <1>d, <2>1
  <2>3. got[s] \in Seq(Messages) /\ Pending(s) \in Seq(Messages) /\ n \in 0..Len(Pending(s))
    BY <1>p, PendingTyped
  <2>4. /\ SubSeq(Pending(s), 1, n) \in Seq(Messages) /\ Len(SubSeq(Pending(s), 1, n)) = n
        /\ \A i \in 1..n : SubSeq(Pending(s), 1, n)[i] = Pending(s)[i]
    BY <2>3, FrontOfSeq
  <2>5. Coming(s)' = got[s] \o SubSeq(Pending(s), 1, n)
    BY <2>1, <2>2 DEF Coming
  <2> DEFINE g == got[s]
             q == Pending(s)
             r == SubSeq(Pending(s), 1, n)
             c == g \o q
             d == g \o r
  <2>6. g \in Seq(Messages) /\ q \in Seq(Messages) /\ r \in Seq(Messages) /\ Len(r) <= Len(q) /\ \A i \in 1..Len(r) : r[i] = q[i]
    BY <2>3, <2>4
  <2>7. InFull(c, s) /\ Coming(s)' = d
    BY <2>5 DEF ComingInv, Coming
  <2> HIDE DEF g, q, r
  <2>8. InFull(Coming(s), s)'
    <3>1. Len(c) \in Nat /\ Len(d) \in Nat /\ Len(d) <= Len(c) /\ \A i \in 1..Len(d) : d[i] = c[i]
      <4>1. g \in Seq(Messages)
        BY <2>6
      <4>2. q \in Seq(Messages)
        BY <2>6
      <4>3. r \in Seq(Messages)
        BY <2>6
      <4>4. Len(r) <= Len(q) /\ \A i \in 1..Len(r) : r[i] = q[i]
        BY <2>6
      <4> QED  BY <4>1, <4>2, <4>3, <4>4, ConcatSame
    <3> HIDE DEF c, d
    <3>2. InFull(d, s)
      BY <2>7, <3>1, FrontInFull
    <3> QED  BY <2>1, <2>7, <3>2 DEF InFull
  <2>9. \A u \in Subs : u # s => Coming(u)' = Coming(u)
    BY <2>1, <2>2 DEF Coming
  <2> QED  BY <2>1, <2>8, <2>9 DEF ComingInv, InFull
<1>7. CASE UNCHANGED Promise!deliveryVars
  BY <1>s, <1>7 DEF Promise!deliveryVars
<1> QED  BY <1>1, <1>2, <1>3, <1>4, <1>5, <1>6, <1>7 DEF Promise!Next

\* What has been received from a subscription, in the order it came.
ReceivedInFull ==
  \A s \in Subs : InFull(got[s], s)

\* What a subscriber has received is in the order of publication, each message once, and
\* between any two of them no critical message is missing: the queues of commands and of
\* lifecycle events, which are critical, lose nothing and reorder nothing, as Orchestrator
\* and ServicesState take for granted (subscriber.go:38-111, ARCHITECTURE.md:100).
THEOREM BusReceivedInFull == Spec => []ReceivedInFull
<1>1. Init => ComingInv
  <2> SUFFICES ASSUME Init, NEW s \in Subs PROVE InFull(Coming(s), s)
    BY DEF ComingInv
  <2>1. <<>> \in Seq(Messages) /\ <<>> \o <<>> = <<>> /\ Len(<<>>) = 0
    BY ConcatEmptySeq
  <2>2. Coming(s) = <<>>
    BY <2>1 DEF Init, Coming, Pending, Waiting
  <2> QED  BY <2>1, <2>2 DEF InFull
<1>2. IInv /\ ComingInv /\ [Next]_vars => ComingInv'
  BY StepDelivers, ComingKept
<1>3. IInv /\ ComingInv => ReceivedInFull
  <2> SUFFICES ASSUME IInv, ComingInv, NEW s \in Subs PROVE InFull(got[s], s)
    BY DEF ReceivedInFull
  <2>1. got[s] \in Seq(Messages) /\ Pending(s) \in Seq(Messages)
    BY PendingTyped
  <2>2. /\ Len(Coming(s)) = Len(got[s]) + Len(Pending(s)) /\ Len(got[s]) \in Nat /\ Len(Pending(s)) \in Nat
        /\ \A i \in 1..Len(got[s]) : Coming(s)[i] = got[s][i]
    BY <2>1, ConcatProperties, LenProperties DEF Coming
  <2> QED  BY <2>2, FrontInFull DEF ComingInv
<1> QED  BY <1>1, <1>2, <1>3, BusInvariant, PTL DEF Spec

=============================================================================
