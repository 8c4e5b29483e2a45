----------------------------- MODULE StoreProofs -----------------------------
(***************************************************************************)
(* Proofs about the runtime store for any set of services, process ids and *)
(* messages, delivered in any order.                                       *)
(***************************************************************************)
EXTENDS Store, FiniteSetTheorems, TLAPS

\* TypeOK but for the range of the counts, which follows from CountsExact.
Shape ==
  /\ resolved \in BOOLEAN
  /\ known \subseteq Services
  /\ services \in [Services -> ServiceState]
  /\ counts \in [Statuses -> Int] /\ total \in Int
  /\ sampling \in BOOLEAN /\ sampler \in {"idle", "copy", "read", "store"}
  /\ pids \in [Services -> Pids \cup {Zero}]
  /\ stats \in [Services -> Pids \cup {Zero}]
  /\ delivered \subseteq Messages

\* Nothing is handled before the profile, and a sequence number is one message's.
Numbered ==
  /\ ~resolved => known = {} /\ delivered = {}
  /\ \A d, e \in delivered : d.seq = e.seq => d = e

\* LatestWins, in the form that is inductive: what is shown comes from a
\* delivered message, and no delivered one is newer.
ShownIsDelivered ==
  \A s \in known :
    /\ \A d \in Of(s, Statuses) : d.seq <= services[s].seq
    /\ services[s].seq > 0 =>
         \E d \in Of(s, Statuses) : d.seq = services[s].seq /\ d.kind = services[s].status
    /\ \A d \in Of(s, Watch) : d.seq <= services[s].watchSeq
    /\ services[s].watchSeq > 0 =>
         \E d \in Of(s, Watch) : d.seq = services[s].watchSeq
                                 /\ services[s].watching = (d.kind = "watched")

\* The sampler holds statistics of the pids it copied.
StatsOfCopy == \A s \in Services : stats[s] # Zero /\ sampler = "store" => stats[s] = pids[s]

IInv == Shape /\ CountsExact /\ Numbered /\ ShownIsDelivered /\ StatsOfCopy
        /\ UsageOfShownPid /\ NothingLeftOver

-----------------------------------------------------------------------------
(* Counting *)

\* The known services are finitely many.
LEMMA KnownFinite ==
  ASSUME Shape
  PROVE  IsFiniteSet(known) /\ \A x \in Statuses : IsFiniteSet(Showing(x))
<1>1. known \subseteq Services /\ \A x \in Statuses : Showing(x) \subseteq Services
  BY DEF Shape, Showing
<1> QED  BY <1>1, StoreAssumption, FS_Subset

\* Moving one service from one status to another moves one unit of the counts.
LEMMA TransitionCounts ==
  ASSUME Shape, CountsExact, NEW s \in known, NEW new \in Statuses,
         known' = known, total' = total,
         counts' = Moved(services[s].status, new),
         \A t \in known : services'[t].status = IF t = s THEN new ELSE services[t].status
  PROVE  CountsExact'
<1> DEFINE old == services[s].status
<1>1. old \in Statuses /\ s \in Showing(old)
  BY DEF Shape, ServiceState, Showing
<1>2. SUFFICES ASSUME NEW x \in Statuses PROVE counts'[x] = Cardinality(Showing(x)')
  BY DEF CountsExact
<1>3. Showing(x)' = IF x = new THEN Showing(x) \cup {s} ELSE Showing(x) \ {s}
  BY DEF Showing
<1>4. IsFiniteSet(Showing(x)) /\ counts[x] = Cardinality(Showing(x)) /\ counts[x] \in Int
  BY KnownFinite DEF CountsExact, Shape
<1>5. x # old => s \notin Showing(x)
  BY DEF Showing
<1>6. CASE x = old /\ x = new
  <2>1. Showing(x)' = Showing(x)
    BY <1>1, <1>3, <1>6
  <2>2. counts'[x] = counts[x]
    BY <1>1, <1>4, <1>6 DEF Moved, Shape
  <2> QED  BY <2>1, <2>2, <1>4
<1>7. CASE x = old /\ x # new
  <2>1. Cardinality(Showing(x)') = Cardinality(Showing(x)) - 1
    BY <1>1, <1>3, <1>4, <1>7, FS_RemoveElement
  <2>2. counts'[x] = counts[x] - 1
    BY <1>1, <1>4, <1>7 DEF Moved, Shape
  <2> QED  BY <2>1, <2>2, <1>4
<1>8. CASE x # old /\ x = new
  <2>1. Cardinality(Showing(x)') = Cardinality(Showing(x)) + 1
    <3>1. Showing(x)' = Showing(x) \cup {s} /\ s \notin Showing(x)
      BY <1>3, <1>5, <1>8
    <3> QED  BY <3>1, <1>4, FS_AddElement
  <2>2. counts'[x] = counts[x] + 1
    BY <1>1, <1>4, <1>8 DEF Moved, Shape
  <2> QED  BY <2>1, <2>2, <1>4
<1>9. CASE x # old /\ x # new
  <2>1. Showing(x)' = Showing(x)
    BY <1>3, <1>5, <1>9
  <2>2. counts'[x] = counts[x]
    BY <1>1, <1>4, <1>9 DEF Moved, Shape
  <2> QED  BY <2>1, <2>2, <1>4
<1> QED  BY <1>6, <1>7, <1>8, <1>9

\* As long as no status changes, neither do the counts.
LEMMA CountsStay ==
  ASSUME CountsExact, known' = known, total' = total, counts' = counts,
         \A t \in known : services'[t].status = services[t].status
  PROVE  CountsExact'
<1>1. \A x \in Statuses : Showing(x)' = Showing(x)
  BY DEF Showing
<1> QED  BY <1>1 DEF CountsExact

-----------------------------------------------------------------------------
(* The handlers *)

LEMMA MessageFields ==
  ASSUME NEW m \in Messages
  PROVE  /\ m.seq \in 1..MaxSeq /\ m.seq \in Nat /\ m.seq > 0
         /\ m.id \in Services /\ m.kind \in Statuses \cup Watch /\ m.err \in Errors
         /\ m.kind \in Started => m.pid \in Pids
<1>1. /\ m.seq \in 1..MaxSeq /\ m.id \in Services
      /\ m.kind \in Statuses \cup Watch
      /\ m.kind \in Started => m.pid \in Pids
  <2>1. CASE m \in StartedMessages
    BY <2>1 DEF StartedMessages, Started, Statuses
  <2>2. CASE m \in FailedMessages
    BY <2>2 DEF FailedMessages, Started, Statuses
  <2>3. CASE m \in OtherMessages
    BY <2>3 DEF OtherMessages, Started, Statuses, Watch
  <2> QED  BY <2>1, <2>2, <2>3 DEF Messages
<1>2. m.err \in Errors
  BY DEF Messages, StartedMessages, FailedMessages, OtherMessages, Errors
<1>3. m.seq \in Nat /\ m.seq > 0
  BY <1>1, StoreAssumption
<1> QED  BY <1>1, <1>2, <1>3

\* What every lifecycle handler does: a newer message takes effect on its own
\* service, whose process and statistics it leaves consistent.
Takes(m, r) ==
  /\ Transition(m, r)
  /\ r \in ServiceState
  /\ r.watching = services[m.id].watching /\ r.watchSeq = services[m.id].watchSeq
  /\ r.usage # Zero => r.usage = r.pid
  /\ m.kind \in {"stopped", "failed"} => r.pid = Zero /\ r.startTime = Zero /\ r.usage = Zero

LEMMA HandlersTake ==
  ASSUME IInv, NEW m \in Messages, m.kind \in Statuses,
         \/ HandleServiceStarting(m) \/ HandleServiceReady(m) \/ HandleServiceStopped(m)
         \/ HandleServiceFailed(m) \/ HandleServiceRestarting(m) \/ HandleServiceStopping(m)
  PROVE  \E r : Takes(m, r)
<1> DEFINE q == services[m.id]
<1>1. m.id \in known /\ m.id \in Services /\ q \in ServiceState
  BY DEF IInv, Shape, HandleServiceStarting, HandleServiceReady, HandleServiceStopped,
         HandleServiceFailed, HandleServiceRestarting, HandleServiceStopping, Transition, Fresh
<1>2. q.usage # Zero => q.usage = q.pid
  BY <1>1 DEF IInv, UsageOfShownPid
<1>3. CASE HandleServiceStarting(m)
  <2> DEFINE r == [q EXCEPT !.pid = m.pid, !.startTime = m.pid, !.err = "", !.usage = Zero]
  <2>1. m.pid \in Pids
    BY <1>3, MessageFields DEF HandleServiceStarting, Started
  <2>2. Takes(m, r)
    BY <1>1, <1>3, <2>1 DEF HandleServiceStarting, Takes, ServiceState, Errors
  <2> QED  BY <2>2
<1>4. CASE HandleServiceReady(m)
  <2> DEFINE new == q.pid # m.pid \/ q.startTime # m.pid
             r == [q EXCEPT !.pid = m.pid, !.startTime = m.pid, !.err = "",
                            !.usage = IF new THEN Zero ELSE @]
  <2>1. m.pid \in Pids
    BY <1>4, MessageFields DEF HandleServiceReady, Started
  <2>2. Transition(m, r) /\ m.kind = "running"
    BY <1>4 DEF HandleServiceReady
  <2>3. r \in ServiceState
    BY <1>1, <2>1 DEF ServiceState, Errors
  <2>4. r.usage # Zero => r.usage = r.pid
    BY <1>1, <1>2 DEF ServiceState
  <2>5. r.watching = q.watching /\ r.watchSeq = q.watchSeq
    BY <1>1 DEF ServiceState
  <2> QED  BY <2>2, <2>3, <2>4, <2>5 DEF Takes
<1>5. CASE HandleServiceStopped(m)
  <2> DEFINE r == [q EXCEPT !.pid = Zero, !.startTime = Zero, !.err = "", !.usage = Zero]
  <2>1. Takes(m, r)
    BY <1>1, <1>5 DEF HandleServiceStopped, Takes, ServiceState, Errors
  <2> QED  BY <2>1
<1>6. CASE HandleServiceFailed(m)
  <2> DEFINE r == [q EXCEPT !.pid = Zero, !.startTime = Zero, !.err = m.err, !.usage = Zero]
  <2>1. m.err \in Errors
    BY MessageFields
  <2>2. Takes(m, r)
    BY <1>1, <1>6, <2>1 DEF HandleServiceFailed, Takes, ServiceState
  <2> QED  BY <2>2
<1>7. CASE HandleServiceRestarting(m)
  <2> DEFINE r == [q EXCEPT !.startTime = Zero, !.usage = Zero]
  <2>1. Takes(m, r)
    BY <1>1, <1>7 DEF HandleServiceRestarting, Takes, ServiceState
  <2> QED  BY <2>1
<1>8. CASE HandleServiceStopping(m)
  BY <1>1, <1>2, <1>8 DEF HandleServiceStopping, Takes, ServiceState
<1> QED  BY <1>3, <1>4, <1>5, <1>6, <1>7, <1>8

LEMMA HandlePreserves ==
  ASSUME IInv, NEW m \in Messages, HandleEvent(m)
  PROVE  IInv'
<1> USE DEF IInv
<1>1. /\ resolved /\ delivered' = delivered \cup {m}
      /\ UNCHANGED <<resolved, known, total, sampling, sampler, pids, stats>>
      /\ \A d \in delivered : d.seq = m.seq => d = m
  BY DEF HandleEvent, samplerVars
<1>2. Numbered'
  BY <1>1 DEF Numbered
<1>3. StatsOfCopy'
  BY <1>1 DEF StatsOfCopy
<1>m. m.seq \in 1..MaxSeq /\ m.id \in Services /\ m.kind \in Statuses \cup Watch
      /\ m.seq \in Nat /\ m.seq > 0
  BY MessageFields
<1>w. Statuses \cap Watch = {}
  BY DEF Statuses, Watch
<1>o. \A s \in Services : /\ Of(s, Statuses)' = IF m.id = s /\ m.kind \in Statuses
                                            THEN Of(s, Statuses) \cup {m} ELSE Of(s, Statuses)
                          /\ Of(s, Watch)' = IF m.id = s /\ m.kind \in Watch
                                            THEN Of(s, Watch) \cup {m} ELSE Of(s, Watch)
  BY <1>1 DEF Of
<1>4. ASSUME \E r : Takes(m, r), m.kind \in Statuses  PROVE IInv'
  <2>1. PICK r : Takes(m, r)
    BY <1>4
  <2>2. /\ m.id \in known /\ m.seq > services[m.id].seq
        /\ services' = [services EXCEPT ![m.id] = [r EXCEPT !.status = m.kind, !.seq = m.seq]]
        /\ counts' = Moved(services[m.id].status, m.kind)
    BY <2>1 DEF Takes, Transition, Fresh
  <2> DEFINE n == [r EXCEPT !.status = m.kind, !.seq = m.seq]
  <2>3. /\ n \in ServiceState /\ n.status = m.kind /\ n.seq = m.seq
        /\ n.watching = r.watching /\ n.watchSeq = r.watchSeq
        /\ n.pid = r.pid /\ n.startTime = r.startTime /\ n.usage = r.usage
    <3>1. /\ r \in ServiceState /\ m.kind \in Statuses /\ m.seq \in 0..MaxSeq
      BY <2>1, <1>4, <1>m DEF Takes
    <3> QED  BY <3>1 DEF ServiceState
  <2>4. \A t \in Services : services'[t] = IF t = m.id THEN n ELSE services[t]
    BY <2>2, <1>m DEF Shape
  <2>5. CountsExact'
    <3>1. \A t \in known : services'[t].status = IF t = m.id THEN m.kind ELSE services[t].status
      BY <2>3, <2>4 DEF Shape
    <3> QED  BY <3>1, <2>2, <1>1, <1>4, TransitionCounts
  <2>6. Shape'
    <3>1. services' \in [Services -> ServiceState]
      BY <2>2, <2>3 DEF Shape
    <3>2. services[m.id].status \in Statuses
      BY <1>m DEF Shape, ServiceState
    <3>3. counts' \in [Statuses -> Int]
      BY <3>2, <2>2, <1>4 DEF Shape, Moved
    <3> QED  BY <3>1, <3>3, <1>1 DEF Shape
  <2>7. UsageOfShownPid'
    BY <2>1, <2>3, <2>4, <1>1 DEF UsageOfShownPid, Takes, Shape
  <2>8. NothingLeftOver'
    BY <2>1, <2>3, <2>4, <1>1 DEF NothingLeftOver, Takes, Shape
  <2>9. ShownIsDelivered'
    <3> SUFFICES ASSUME NEW s \in known
                 PROVE  /\ \A d \in Of(s, Statuses)' : d.seq <= services'[s].seq
                        /\ services'[s].seq > 0 =>
                             \E d \in Of(s, Statuses)' :
                               d.seq = services'[s].seq /\ d.kind = services'[s].status
                        /\ \A d \in Of(s, Watch)' : d.seq <= services'[s].watchSeq
                        /\ services'[s].watchSeq > 0 =>
                             \E d \in Of(s, Watch)' : d.seq = services'[s].watchSeq
                               /\ services'[s].watching = (d.kind = "watched")
      BY <1>1 DEF ShownIsDelivered
    <3>1. s \in Services /\ services[s] \in ServiceState
      BY DEF Shape
    <3>2. CASE s # m.id
      BY <3>1, <3>2, <2>4, <1>o DEF ShownIsDelivered
    <3>3. CASE s = m.id
      <4>1. services'[s] = n /\ Of(s, Statuses)' = Of(s, Statuses) \cup {m}
            /\ Of(s, Watch)' = Of(s, Watch)
        BY <3>1, <3>3, <2>4, <1>o, <1>4, <1>w
      <4>2. \A d \in Of(s, Statuses) : d.seq <= services[s].seq
        BY DEF ShownIsDelivered
      <4>3. \A d \in Of(s, Statuses) : d.seq \in Nat
        BY MessageFields DEF Of, Shape
      <4>4. services[s].seq \in Nat
        BY <3>1, StoreAssumption DEF ServiceState
      <4>5. \A d \in Of(s, Statuses)' : d.seq <= n.seq
        BY <4>1, <4>2, <4>3, <4>4, <2>2, <2>3, <3>3, <1>m
      <4>6. n.watchSeq = services[s].watchSeq /\ n.watching = services[s].watching
        BY <2>1, <2>3, <3>3 DEF Takes
      <4>7. m \in Of(s, Statuses)' /\ m.seq = n.seq /\ m.kind = n.status
        BY <4>1, <2>3
      <4> QED  BY <4>1, <4>5, <4>6, <4>7 DEF ShownIsDelivered
    <3> QED  BY <3>2, <3>3
  <2> QED  BY <1>2, <1>3, <2>5, <2>6, <2>7, <2>8, <2>9
<1>5. CASE SetWatching(m)
  <2>w. PICK w \in BOOLEAN : w = (m.kind = "watched")
    BY Zenon
  <2> DEFINE q == services[m.id]
             n == [q EXCEPT !.watching = w, !.watchSeq = m.seq]
  <2>1. /\ m.kind \in Watch /\ m.id \in known /\ m.seq > q.watchSeq /\ counts' = counts
    BY <1>5, <2>w, Zenon DEF SetWatching
  <2>2. q \in ServiceState
    BY <1>m DEF Shape
  <2>3. /\ n \in ServiceState /\ n.status = q.status /\ n.seq = q.seq /\ n.pid = q.pid
        /\ n.startTime = q.startTime /\ n.usage = q.usage
        /\ n.watchSeq = m.seq /\ n.watching = w
    <3>1. m.seq \in 0..MaxSeq
      BY <1>m
    <3>2. n \in ServiceState
      BY <3>1, <2>2, <2>w DEF ServiceState
    <3>3. /\ n.status = q.status /\ n.seq = q.seq /\ n.pid = q.pid
          /\ n.startTime = q.startTime /\ n.usage = q.usage /\ n.watchSeq = m.seq
      BY <2>2 DEF ServiceState
    <3>4. n.watching = w
      BY <2>2 DEF ServiceState
    <3> QED  BY <3>2, <3>3, <3>4
  <2>4. services' = [services EXCEPT ![m.id] = n]
    BY <1>5, <2>w, Zenon DEF SetWatching
  <2>5. \A t \in Services : services'[t] = IF t = m.id THEN n ELSE services[t]
    BY <2>4, <1>m DEF Shape
  <2>6. CountsExact'
    <3>1. \A t \in known : services'[t].status = services[t].status
      BY <2>3, <2>5 DEF Shape
    <3> QED  BY <3>1, <2>1, <1>1, CountsStay
  <2>7. Shape'
    BY <2>1, <2>3, <2>4, <1>1 DEF Shape
  <2>8. UsageOfShownPid' /\ NothingLeftOver'
    <3>1. \A t \in known : /\ services'[t].status = services[t].status
                           /\ services'[t].pid = services[t].pid
                           /\ services'[t].startTime = services[t].startTime
                           /\ services'[t].usage = services[t].usage
      BY <2>3, <2>5 DEF Shape
    <3> QED  BY <3>1, <1>1 DEF UsageOfShownPid, NothingLeftOver
  <2>9. ShownIsDelivered'
    <3> SUFFICES ASSUME NEW s \in known
                 PROVE  /\ \A d \in Of(s, Statuses)' : d.seq <= services'[s].seq
                        /\ services'[s].seq > 0 =>
                             \E d \in Of(s, Statuses)' :
                               d.seq = services'[s].seq /\ d.kind = services'[s].status
                        /\ \A d \in Of(s, Watch)' : d.seq <= services'[s].watchSeq
                        /\ services'[s].watchSeq > 0 =>
                             \E d \in Of(s, Watch)' : d.seq = services'[s].watchSeq
                               /\ services'[s].watching = (d.kind = "watched")
      BY <1>1 DEF ShownIsDelivered
    <3>1. s \in Services /\ services[s] \in ServiceState
      BY DEF Shape
    <3>2. CASE s # m.id
      BY <3>1, <3>2, <2>5, <1>o DEF ShownIsDelivered
    <3>3. CASE s = m.id
      <4>1. services'[s] = n /\ Of(s, Watch)' = Of(s, Watch) \cup {m}
            /\ Of(s, Statuses)' = Of(s, Statuses)
        BY <3>1, <3>3, <2>5, <2>1, <1>o, <1>w
      <4>2. \A d \in Of(s, Watch) : d.seq <= services[s].watchSeq
        BY DEF ShownIsDelivered
      <4>3. \A d \in Of(s, Watch) : d.seq \in Nat
        BY MessageFields DEF Of, Shape
      <4>4. services[s].watchSeq \in Nat
        BY <3>1, StoreAssumption DEF ServiceState
      <4>5. \A d \in Of(s, Watch)' : d.seq <= n.watchSeq
        BY <4>1, <4>2, <4>3, <4>4, <2>1, <2>3, <3>3, <1>m
      <4>6. n.seq = services[s].seq /\ n.status = services[s].status
        BY <2>3, <3>3
      <4>7. m \in Of(s, Watch)' /\ m.seq = n.watchSeq /\ n.watching = (m.kind = "watched")
        BY <4>1, <2>3, <2>w, Zenon
      <4> QED  BY <4>1, <4>5, <4>6, <4>7 DEF ShownIsDelivered
    <3> QED  BY <3>2, <3>3
  <2> QED  BY <1>2, <1>3, <2>6, <2>7, <2>8, <2>9
<1>6. CASE Ignore(m)
  <2>1. services' = services /\ counts' = counts
    BY <1>6 DEF Ignore
  <2>2. CountsExact'
    BY <2>1, <1>1, CountsStay
  <2>3. Shape'
    BY <2>1, <1>1 DEF Shape
  <2>4. UsageOfShownPid' /\ NothingLeftOver'
    BY <2>1, <1>1 DEF UsageOfShownPid, NothingLeftOver
  <2>5. ShownIsDelivered'
    BY <2>1, <1>1, <1>o, <1>6, <1>m, <1>w DEF ShownIsDelivered, Ignore, Shape
  <2> QED  BY <1>2, <1>3, <2>2, <2>3, <2>4, <2>5
<1>7. ASSUME \/ HandleServiceStarting(m) \/ HandleServiceReady(m) \/ HandleServiceStopped(m)
             \/ HandleServiceFailed(m) \/ HandleServiceRestarting(m) \/ HandleServiceStopping(m)
      PROVE  IInv'
  <2>1. m.kind \in Statuses
    BY <1>7 DEF HandleServiceStarting, HandleServiceReady, HandleServiceStopped,
                HandleServiceFailed, HandleServiceRestarting, HandleServiceStopping, Statuses
  <2>2. \E r : Takes(m, r)
    BY <2>1, <1>7, HandlersTake
  <2> QED  BY <2>1, <2>2, <1>4
<1> QED  BY <1>5, <1>6, <1>7 DEF HandleEvent

LEMMA ResolvePreserves ==
  ASSUME IInv, NEW P \in SUBSET Services, ResolveProfile(P)
  PROVE  IInv'
<1> USE DEF IInv
<1>1. /\ known' = P /\ resolved' /\ delivered' = {} /\ total' = Cardinality(P)
      /\ services' = [s \in Services |-> NewState]
      /\ counts' = [x \in Statuses |-> IF x = "starting" THEN Cardinality(P) ELSE 0]
      /\ UNCHANGED <<sampling, sampler, pids, stats>>
  BY DEF ResolveProfile, samplerVars, Numbered
<1>2. Cardinality(P) \in Nat
  BY StoreAssumption, FS_Subset, FS_CardinalityType
<1>3. NewState \in ServiceState
  BY StoreAssumption DEF NewState, ServiceState, Statuses, Errors
<1>4. Shape'
  BY <1>1, <1>2, <1>3 DEF Shape, ResolveProfile
<1>5. CountsExact'
  <2>1. \A x \in Statuses : Showing(x)' = IF x = "starting" THEN P ELSE {}
    BY <1>1 DEF Showing, NewState
  <2>2. Cardinality({}) = 0
    BY FS_EmptySet
  <2> QED  BY <2>1, <2>2, <1>1 DEF CountsExact
<1>6. Numbered' /\ StatsOfCopy'
  BY <1>1 DEF Numbered, StatsOfCopy
<1>7. ShownIsDelivered'
  <2>1. \A s \in P : services'[s].seq = 0 /\ services'[s].watchSeq = 0
    BY <1>1 DEF NewState
  <2>2. \A s \in P : Of(s, Statuses)' = {} /\ Of(s, Watch)' = {}
    BY <1>1 DEF Of
  <2> QED  BY <1>1, <2>1, <2>2 DEF ShownIsDelivered
<1>8. UsageOfShownPid' /\ NothingLeftOver'
  BY <1>1 DEF UsageOfShownPid, NothingLeftOver, NewState
<1> QED  BY <1>4, <1>5, <1>6, <1>7, <1>8

-----------------------------------------------------------------------------
(* The sampler *)

LEMMA SamplePreserves ==
  ASSUME IInv, Tick \/ CopyPids \/ \E ok \in SUBSET Services : ReadStats(ok)
  PROVE  IInv'
<1> USE DEF IInv
<1>1. UNCHANGED <<resolved, known, services, counts, total, delivered>>
  BY DEF Tick, CopyPids, ReadStats, stateVars
<1>2. CountsExact'
  BY <1>1, CountsStay
<1>3. Numbered' /\ UsageOfShownPid' /\ NothingLeftOver'
  BY <1>1 DEF Numbered, UsageOfShownPid, NothingLeftOver
<1>4. ShownIsDelivered'
  BY <1>1 DEF ShownIsDelivered, Of
<1>5. Shape' /\ StatsOfCopy'
  <2>1. CASE Tick
    BY <2>1 DEF Tick, Shape, StatsOfCopy, stateVars
  <2>2. CASE CopyPids
    BY <2>2 DEF CopyPids, Shape, StatsOfCopy, stateVars, ServiceState
  <2>3. CASE \E ok \in SUBSET Services : ReadStats(ok)
    BY <2>3 DEF ReadStats, Shape, StatsOfCopy, stateVars
  <2> QED  BY <2>1, <2>2, <2>3
<1> QED  BY <1>2, <1>3, <1>4, <1>5

LEMMA StoreStatsPreserves ==
  ASSUME IInv, StoreStats
  PROVE  IInv'
<1> USE DEF IInv
<1>1. /\ sampler = "store" /\ sampler' = "idle" /\ sampling' = FALSE
      /\ UNCHANGED <<resolved, known, counts, total, pids, stats, delivered>>
  BY DEF StoreStats
<1> DEFINE Hit(s) == s \in known /\ stats[s] # Zero /\ services[s].pid = pids[s]
           n(s) == IF Hit(s) THEN [services[s] EXCEPT !.usage = stats[s]] ELSE services[s]
<1>2. services' = [s \in Services |-> n(s)]
  BY DEF StoreStats
<1>3. ASSUME NEW s \in Services
      PROVE  /\ services'[s] = n(s) /\ n(s) \in ServiceState
             /\ n(s).status = services[s].status /\ n(s).seq = services[s].seq
             /\ n(s).pid = services[s].pid /\ n(s).startTime = services[s].startTime
             /\ n(s).watching = services[s].watching /\ n(s).watchSeq = services[s].watchSeq
             /\ n(s).usage = IF Hit(s) THEN stats[s] ELSE services[s].usage
  <2>1. services[s] \in ServiceState /\ stats[s] \in Pids \cup {Zero}
    BY DEF Shape
  <2> QED  BY <2>1, <1>2 DEF ServiceState
<1>4. Shape'
  BY <1>1, <1>2, <1>3 DEF Shape
<1>5. CountsExact'
  <2>1. \A t \in known : services'[t].status = services[t].status
    BY <1>3 DEF Shape
  <2> QED  BY <2>1, <1>1, CountsStay
<1>6. Numbered' /\ StatsOfCopy'
  BY <1>1 DEF Numbered, StatsOfCopy
<1>7. ShownIsDelivered'
  <2>1. \A s \in known : Of(s, Statuses)' = Of(s, Statuses) /\ Of(s, Watch)' = Of(s, Watch)
    BY <1>1 DEF Of
  <2>2. \A s \in known : /\ services'[s].seq = services[s].seq
                         /\ services'[s].status = services[s].status
                         /\ services'[s].watchSeq = services[s].watchSeq
                         /\ services'[s].watching = services[s].watching
    BY <1>3 DEF Shape
  <2> QED  BY <2>1, <2>2, <1>1 DEF ShownIsDelivered
<1>8. \A s \in known : Hit(s) => stats[s] = services[s].pid
  BY <1>1 DEF StatsOfCopy, Shape
<1>9. UsageOfShownPid'
  BY <1>1, <1>3, <1>8 DEF UsageOfShownPid, Shape
<1>10. NothingLeftOver'
  BY <1>1, <1>3, <1>8 DEF NothingLeftOver, Shape
<1> QED  BY <1>4, <1>5, <1>6, <1>7, <1>9, <1>10

-----------------------------------------------------------------------------
(* The invariant and what follows from it *)

LEMMA InitEstablishes == Init => IInv
<1> SUFFICES ASSUME Init PROVE IInv
  OBVIOUS
<1>1. NewState \in ServiceState
  BY StoreAssumption DEF NewState, ServiceState, Statuses, Errors
<1>2. Shape
  <2>1. services \in [Services -> ServiceState]
    BY <1>1 DEF Init
  <2>2. counts \in [Statuses -> Int] /\ total \in Int
    BY DEF Init
  <2>3. delivered \subseteq Messages
    BY DEF Init
  <2> QED  BY <2>1, <2>2, <2>3 DEF Init, Shape
<1>3. CountsExact
  <2>1. known = {} /\ \A x \in Statuses : Showing(x) = {}
    BY DEF Init, Showing
  <2> QED  BY <2>1, FS_EmptySet DEF CountsExact, Init
<1> QED  BY <1>2, <1>3 DEF IInv, Init, Numbered, ShownIsDelivered, StatsOfCopy,
                           UsageOfShownPid, NothingLeftOver

LEMMA NextPreserves == IInv /\ [Next]_vars => IInv'
<1> SUFFICES ASSUME IInv, [Next]_vars PROVE IInv'
  OBVIOUS
<1>1. ASSUME NEW P \in SUBSET Services, ResolveProfile(P) PROVE IInv'
  BY <1>1, ResolvePreserves
<1>2. ASSUME NEW m \in Messages, HandleEvent(m) PROVE IInv'
  BY <1>2, HandlePreserves
<1>3. CASE Tick \/ CopyPids \/ \E ok \in SUBSET Services : ReadStats(ok)
  BY <1>3, SamplePreserves
<1>4. CASE StoreStats
  BY <1>4, StoreStatsPreserves
<1>5. CASE UNCHANGED vars
  <2>1. UNCHANGED <<resolved, known, services, counts, total, sampling, sampler, pids, stats,
                    delivered>>
    BY <1>5 DEF vars, stateVars, samplerVars
  <2>2. CountsExact'
    BY <2>1, CountsStay DEF IInv
  <2> QED  BY <2>1, <2>2 DEF IInv, Shape, Numbered, ShownIsDelivered, Of, StatsOfCopy,
                             UsageOfShownPid, NothingLeftOver
<1> QED  BY <1>1, <1>2, <1>3, <1>4, <1>5 DEF Next, SamplerStep

LEMMA LatestFollows == IInv => LatestWins
<1> SUFFICES ASSUME IInv, NEW s \in known
             PROVE  /\ \A m \in Newest(Of(s, Statuses)) :
                         services[s].status = m.kind /\ services[s].seq = m.seq
                    /\ \A m \in Newest(Of(s, Watch)) :
                         services[s].watching = (m.kind = "watched")
  BY DEF LatestWins
<1>1. services[s] \in ServiceState /\ services[s].seq \in Nat /\ services[s].watchSeq \in Nat
  BY StoreAssumption DEF IInv, Shape, ServiceState
<1>2. \A d \in delivered : d.seq \in Nat /\ d.seq > 0
  BY MessageFields DEF IInv, Shape
<1>3. ASSUME NEW m \in Newest(Of(s, Statuses))
      PROVE  services[s].status = m.kind /\ services[s].seq = m.seq
  <2>1. m \in Of(s, Statuses) /\ m \in delivered /\ m.seq <= services[s].seq
    BY DEF IInv, ShownIsDelivered, Newest, Of
  <2>2. services[s].seq > 0
    BY <2>1, <1>1, <1>2
  <2>3. PICK d \in Of(s, Statuses) : d.seq = services[s].seq /\ d.kind = services[s].status
    BY <2>2 DEF IInv, ShownIsDelivered
  <2>4. d \in delivered /\ d.seq <= m.seq
    BY <2>3 DEF Newest, Of
  <2>5. d.seq = m.seq
    BY <2>1, <2>3, <2>4, <1>1, <1>2
  <2>6. d = m
    BY <2>1, <2>4, <2>5 DEF IInv, Numbered
  <2> QED  BY <2>3, <2>6
<1>4. ASSUME NEW m \in Newest(Of(s, Watch))
      PROVE  services[s].watching = (m.kind = "watched")
  <2>1. m \in Of(s, Watch) /\ m \in delivered /\ m.seq <= services[s].watchSeq
    BY DEF IInv, ShownIsDelivered, Newest, Of
  <2>2. services[s].watchSeq > 0
    BY <2>1, <1>1, <1>2
  <2>3. PICK d \in Of(s, Watch) : d.seq = services[s].watchSeq
                                  /\ services[s].watching = (d.kind = "watched")
    BY <2>2 DEF IInv, ShownIsDelivered
  <2>4. d \in delivered /\ d.seq <= m.seq
    BY <2>3 DEF Newest, Of
  <2>5. d.seq = m.seq
    BY <2>1, <2>3, <2>4, <1>1, <1>2
  <2>6. d = m
    BY <2>1, <2>4, <2>5 DEF IInv, Numbered
  <2> QED  BY <2>3, <2>6
<1> QED  BY <1>3, <1>4

\* The store keeps its inductive invariant whatever is delivered, and when.
THEOREM StoreInvariant == Spec => []IInv
<1> QED  BY InitEstablishes, NextPreserves, PTL DEF Spec

\* Type correctness of the store; in particular no count is ever negative.
THEOREM StoreTypeOK == Spec => []TypeOK
<1>1. IInv => TypeOK
  <2> SUFFICES ASSUME IInv PROVE TypeOK
    OBVIOUS
  <2>1. total \in Nat /\ \A x \in Statuses : counts[x] \in Nat
    BY KnownFinite, FS_CardinalityType DEF IInv, CountsExact
  <2> QED  BY <2>1 DEF IInv, Shape, TypeOK
<1> QED  BY <1>1, StoreInvariant, PTL

\* The counts are those of the statuses shown, for any profile.
THEOREM StoreCounts == Spec => []CountsExact
<1>1. IInv => CountsExact
  BY DEF IInv
<1> QED  BY <1>1, StoreInvariant, PTL

\* The newest message wins in any order of delivery, repetition and loss.
THEOREM StoreLatestWins == Spec => []LatestWins
<1> QED  BY LatestFollows, StoreInvariant, PTL

\* Statistics are those of the pid shown, whatever the sampler was told late.
THEOREM StoreUsage == Spec => []UsageOfShownPid
<1>1. IInv => UsageOfShownPid
  BY DEF IInv
<1> QED  BY <1>1, StoreInvariant, PTL

\* A service that has ended shows nothing of its process (store.go:424-508,
\* 614-622).
THEOREM StoreNothingLeftOver == Spec => []NothingLeftOver
<1>1. IInv => NothingLeftOver
  BY DEF IInv
<1> QED  BY <1>1, StoreInvariant, PTL

=============================================================================
