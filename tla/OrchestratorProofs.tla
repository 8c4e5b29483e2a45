------------------------- MODULE OrchestratorProofs -------------------------
(***************************************************************************)
(* Proofs about the orchestrator for any services, tiers, numbers of       *)
(* workers, attempts, commands and process handles.  The first part is     *)
(* about the process registry by itself, whatever its callers do; the rest *)
(* shows that the orchestrator's goroutines are such callers, so that what *)
(* holds of the registry holds of it under them.                           *)
(***************************************************************************)
EXTENDS Orchestrator, Topology, FiniteSetTheorems, SequenceTheorems, WellFoundedInduction, TLAPS

\* Every entry was registered before the next order to be handed out.
OrdersBelowNext ==
  \A s \in Services :
    /\ processes[s] # None => processes[s].order < nextOrder
    /\ detached[s] # None => detached[s].order < nextOrder

\* OrdersDistinct, spelled out over the two maps: the form that is inductive.
OrdersApart ==
  \A s, t \in Services :
    /\ s # t /\ processes[s] # None /\ processes[t] # None
         => processes[s].order # processes[t].order
    /\ s # t /\ detached[s] # None /\ detached[t] # None
         => detached[s].order # detached[t].order
    /\ processes[s] # None /\ detached[t] # None
         => processes[s].order # detached[t].order

\* What the registry says of its WaitGroup, with the count of this module.
Counted == wg = Cardinality(Reg!Outstanding)

\* The inductive invariant of the registry, for whatever callers it has.
RegistryInv ==
  /\ Reg!TypeOK
  /\ Reg!OneMapPerService /\ Reg!TrackedExactlyOnce /\ Counted
  /\ OrdersBelowNext /\ OrdersApart

\* Control states of a goroutine of startTier.
ServicePCs == {"idle", "acquire", "launch", "await", "abort", "add", "backoff", "release", "done"}

\* Main is stopping one service.
StopPCs == {"lookup", "announce", "detach", "reap", "report"}

\* Which goroutine can be where, and for what.
Control ==
  /\ pc[Main] \in MainPCs
  /\ pc[Main] \in StopPCs => svc[Main] \in Services /\ op[Main] \in {"stop", "shutdown"}
  /\ pc[Main] = "shutdown" => op[Main] = "shutdown"
  /\ \A s \in Services : pc[s] \in ServicePCs /\ svc[s] = s /\ op[s] = "start"
  /\ \A t \in Tasks : /\ pc[t] \in WorkPCs
                      /\ pc[t] # "idle" => svc[t] \in Services /\ op[t] \in {"resume", "restart"}

\* Services below the current tier are done, those above it have not begun.
Tiers ==
  /\ tier \in 1..(NumTiers + 1)
  /\ tierOpen => tier <= NumTiers
  /\ \A s \in Services : /\ TierOf[s] < tier => pc[s] = "done"
                         /\ TierOf[s] > tier => pc[s] = "idle"
                         /\ TierOf[s] = tier /\ ~tierOpen => pc[s] = "idle"

\* The goroutine has launched cur[t] and not registered it.
HoldsNew(t) == pc[t] \in {"await", "abort", "add"}

\* The goroutine is stopping cur[t], which it found in the registry.
HoldsOld(t) == pc[t] \in {"announce", "detach", "reap", "report"}

\* What a goroutine that launched a process knows of it.
NewHandles ==
  \A t \in Services \cup Tasks : HoldsNew(t) =>
    /\ cur[t] \in Procs /\ life[cur[t]] = "fresh" /\ proc[cur[t]] # "unborn"
    /\ owner[cur[t]] = svc[t]
    /\ pc[t] # "abort" => proc[cur[t]] \in {"alive", "exited"}

\* A process is launched by one goroutine.
NewHandlesDistinct ==
  \A t, u \in Services \cup Tasks : HoldsNew(t) /\ HoldsNew(u) /\ cur[t] = cur[u] => t = u

\* What a goroutine that stops a process knows of it.
OldHandles ==
  \A t \in Tasks \cup {Main} : HoldsOld(t) =>
    cur[t] \in Procs /\ life[cur[t]] # "fresh" /\ owner[cur[t]] = svc[t]

\* The registry holds a process for the service it runs, and one that is
\* attached has not been terminated.
Attached ==
  \A s \in Services, p \in Procs :
    /\ Reg!HeldFor(s, p) => owner[p] = s
    /\ Reg!Holds(processes, s, p) => proc[p] \in {"alive", "exited"}

\* A process that exists runs a service; it has an exit watcher from its
\* registration on.
Watchers ==
  \A p \in Procs :
    /\ proc[p] = "unborn" => life[p] = "fresh"
    /\ proc[p] # "unborn" => owner[p] \in Services
    /\ life[p] = "fresh" <=> watcher[p] = "none"

Handles ==
  /\ NewHandles /\ NewHandlesDistinct /\ OldHandles /\ Attached /\ Watchers
  /\ RemovedMeansGone /\ IntendedStopSilent

\* A step that keeps what Tiers says: a service that moves had begun and was
\* not done.
TiersKept ==
  /\ UNCHANGED <<tier, tierOpen>>
  /\ \A s \in Services : pc'[s] # pc[s] => pc[s] \notin {"idle", "done"} /\ pc'[s] # "idle"

\* A step that moves no goroutine into or out of a worker slot.
HoldersKept == sem' = sem /\ SlotHolders' = SlotHolders

\* A step that moves no goroutine into or out of a guarded section.
GuardKept == guard' = guard /\ \A s \in Services : InGuard(s)' = InGuard(s)

\* A step that touches no handle, and gives none to a goroutine.
HandlesKept ==
  /\ UNCHANGED <<regVars, procVars>>
  /\ \A t \in Services \cup Tasks : HoldsNew(t)' =>
       /\ HoldsNew(t) /\ cur'[t] = cur[t] /\ svc'[t] = svc[t]
       /\ pc[t] = "abort" => pc'[t] = "abort"
  /\ \A t \in Tasks \cup {Main} : HoldsOld(t)' => HoldsOld(t) /\ cur'[t] = cur[t] /\ svc'[t] = svc[t]

\* The inductive invariant; RegistryInv is that of the registry.
IInv ==
  /\ TypeOK /\ Control /\ Tiers /\ SlotsExact /\ GuardExclusive
  /\ Handles
  /\ RegistryInv

USE DEF regVars, mainVars, threadVars, tierVars, lockVars, procVars, pubVars, stopVars

-----------------------------------------------------------------------------
(* The registry by itself: counting outstanding handles *)

\* There are finitely many outstanding handles, in every state.
LEMMA OutstandingCounted ==
  Cardinality(Reg!Outstanding) \in Nat /\ Cardinality(Reg!Outstanding') \in Nat
<1>1. Reg!Outstanding \subseteq Procs /\ Reg!Outstanding' \subseteq Procs
  BY DEF Reg!Outstanding
<1>2. IsFiniteSet(Reg!Outstanding) /\ IsFiniteSet(Reg!Outstanding')
  BY <1>1, ProcsFinite, FS_Subset
<1> QED  BY <1>2, FS_CardinalityType

\* A handle that becomes outstanding raises the count by one.
LEMMA CountUp ==
  ASSUME Reg!TypeOK, NEW p \in Procs, life[p] = "fresh",
         Reg!Outstanding' = Reg!Outstanding \cup {p}
  PROVE  Cardinality(Reg!Outstanding') = Cardinality(Reg!Outstanding) + 1
<1>1. Reg!Outstanding \subseteq Procs /\ p \notin Reg!Outstanding
  BY DEF Reg!Outstanding
<1>2. IsFiniteSet(Reg!Outstanding)
  BY <1>1, ProcsFinite, FS_Subset
<1> QED  BY <1>1, <1>2, FS_AddElement

\* A handle that stops being outstanding lowers the count by one.
LEMMA CountDown ==
  ASSUME Reg!TypeOK, NEW p \in Procs, life[p] = "tracked",
         Reg!Outstanding' = Reg!Outstanding \ {p}
  PROVE  Cardinality(Reg!Outstanding') = Cardinality(Reg!Outstanding) - 1
<1>1. Reg!Outstanding \subseteq Procs /\ p \in Reg!Outstanding
  BY DEF Reg!Outstanding
<1>2. IsFiniteSet(Reg!Outstanding)
  BY <1>1, ProcsFinite, FS_Subset
<1> QED  BY <1>1, <1>2, FS_RemoveElement

-----------------------------------------------------------------------------
(* Each operation preserves the invariant *)

\* Add of a handle not yet registered, whatever the service holds.
LEMMA RegistryAdd ==
  ASSUME RegistryInv, NEW s \in Services, NEW p \in Procs, life[p] = "fresh", Reg!Add(s, p)
  PROVE  RegistryInv'
<1> USE DEF RegistryInv
<1> DEFINE e == [proc |-> p, order |-> nextOrder]
<1>e. e \in Reg!Entry /\ e # None /\ e.proc = p /\ e.order = nextOrder
  BY NoneAssumption DEF Reg!TypeOK, Reg!Entry
<1>1. Reg!TypeOK'
  BY <1>e DEF Reg!TypeOK, Reg!Add, Reg!Life
<1>2. /\ processes' = [processes EXCEPT ![s] = e]
      /\ detached' = [detached EXCEPT ![s] = None]
  BY DEF Reg!Add
<1>3. /\ \A t \in Services : processes'[t] = IF t = s THEN e ELSE processes[t]
      /\ \A t \in Services : detached'[t] = IF t = s THEN None ELSE detached[t]
  BY <1>2 DEF Reg!TypeOK
<1>4. Reg!OneMapPerService'
  BY <1>3 DEF Reg!OneMapPerService
<1>5. \A q \in Procs, t \in Services :
        Reg!HeldFor(t, q)' <=> IF t = s THEN q = p ELSE Reg!HeldFor(t, q)
  BY <1>3, <1>e DEF Reg!HeldFor, Reg!Holds
<1>6. \A q \in Procs : life'[q] = IF q = p THEN "tracked"
                                  ELSE IF Reg!HeldFor(s, q) THEN "lost" ELSE life[q]
  BY DEF Reg!Add
<1>7. Reg!TrackedExactlyOnce'
  <2>1. \A t \in Services : ~Reg!HeldFor(t, p)
    BY DEF Reg!TrackedExactlyOnce
  <2>2. ASSUME NEW q \in Procs
        PROVE  life'[q] = "tracked" <=> \E t \in Services : Reg!HeldFor(t, q)'
    <3>1. CASE q = p
      BY <3>1, <1>5, <1>6
    <3>2. CASE q # p /\ Reg!HeldFor(s, q)
      <4>1. \A t \in Services : t # s => ~Reg!HeldFor(t, q)
        BY <3>2 DEF Reg!TrackedExactlyOnce
      <4> QED  BY <3>2, <4>1, <1>5, <1>6
    <3>3. CASE q # p /\ ~Reg!HeldFor(s, q)
      BY <3>3, <1>5, <1>6 DEF Reg!TrackedExactlyOnce
    <3> QED  BY <3>1, <3>2, <3>3
  <2>3. \A q \in Procs : \A t, u \in Services :
          Reg!HeldFor(t, q)' /\ Reg!HeldFor(u, q)' => t = u
    BY <2>1, <1>5 DEF Reg!TrackedExactlyOnce
  <2> QED  BY <2>2, <2>3 DEF Reg!TrackedExactlyOnce
<1>8. Counted'
  <2>1. \A q \in Procs : Reg!HeldFor(s, q) => life[q] = "tracked"
    BY DEF Reg!TrackedExactlyOnce
  <2>2. Reg!Outstanding' = Reg!Outstanding \cup {p}
    BY <2>1, <1>6 DEF Reg!Outstanding
  <2>3. Cardinality(Reg!Outstanding') = Cardinality(Reg!Outstanding) + 1
    BY <2>2, CountUp
  <2> QED  BY <2>3 DEF Counted, Reg!Add
<1>9. OrdersBelowNext'
  BY <1>3, <1>e DEF OrdersBelowNext, Reg!Add, Reg!TypeOK, Reg!Entry
<1>10. OrdersApart'
  BY <1>3, <1>e DEF OrdersApart, OrdersBelowNext, Reg!TypeOK, Reg!Entry
<1> QED  BY <1>1, <1>4, <1>7, <1>8, <1>9, <1>10

\* Detach moves an entry, or does nothing.
LEMMA RegistryDetach ==
  ASSUME RegistryInv, NEW s \in Services, Reg!Detach(s)
  PROVE  RegistryInv'
<1> USE DEF RegistryInv
<1>1. CASE processes[s] # None
  <2>1. Reg!TypeOK'
    BY <1>1 DEF Reg!TypeOK, Reg!Detach
  <2>2. /\ \A t \in Services : processes'[t] = IF t = s THEN None ELSE processes[t]
        /\ \A t \in Services : detached'[t] = IF t = s THEN processes[s] ELSE detached[t]
        /\ detached[s] = None
    BY <1>1 DEF Reg!TypeOK, Reg!Detach, Reg!OneMapPerService
  <2>3. \A q \in Procs, t \in Services : Reg!HeldFor(t, q)' <=> Reg!HeldFor(t, q)
    BY <2>2, <1>1 DEF Reg!HeldFor, Reg!Holds
  <2>4. Reg!OneMapPerService'
    BY <2>2 DEF Reg!OneMapPerService
  <2>5. Reg!TrackedExactlyOnce'
    BY <2>3 DEF Reg!TrackedExactlyOnce, Reg!Detach
  <2>6. Counted'
    BY DEF Counted, Reg!Outstanding, Reg!Detach
  <2>7. OrdersBelowNext'
    BY <2>2, <1>1 DEF OrdersBelowNext, Reg!Detach
  <2>8. OrdersApart'
    BY <2>2, <1>1 DEF OrdersApart
  <2> QED  BY <2>1, <2>4, <2>5, <2>6, <2>7, <2>8
<1>2. CASE processes[s] = None
  BY <1>2 DEF Reg!Detach, Reg!TypeOK, Reg!OneMapPerService, Reg!TrackedExactlyOnce, Reg!HeldFor, Reg!Holds,
              Counted, Reg!Outstanding, OrdersBelowNext, OrdersApart
<1> QED  BY <1>1, <1>2

\* Remove takes the handle out of the one map that holds it, or does nothing.
LEMMA RegistryRemove ==
  ASSUME RegistryInv, NEW s \in Services, NEW p \in Procs, Reg!Remove(s, p)
  PROVE  RegistryInv'
<1> USE DEF RegistryInv
<1>1. CASE Reg!RemoveNothing(s, p)
  BY <1>1 DEF Reg!RemoveNothing, Reg!regVars, Reg!TypeOK, Reg!OneMapPerService, Reg!TrackedExactlyOnce, Reg!HeldFor,
              Reg!Holds, Counted, Reg!Outstanding, OrdersBelowNext, OrdersApart
<1>2. ASSUME Reg!RemoveDetached(s, p) \/ Reg!RemoveAttached(s, p)  PROVE RegistryInv'
  <2>2. /\ Reg!HeldFor(s, p)
        /\ life[p] = "tracked"
    BY <1>2 DEF Reg!RemoveDetached, Reg!RemoveAttached, Reg!Unexpected, Reg!HeldFor, Reg!TrackedExactlyOnce
  <2>3. \A t \in Services : /\ processes'[t] = IF t = s THEN None ELSE processes[t]
                            /\ detached'[t] = IF t = s THEN None ELSE detached[t]
    BY <1>2 DEF Reg!RemoveDetached, Reg!RemoveAttached, Reg!Unexpected, Reg!Holds, Reg!TypeOK, Reg!OneMapPerService
  <2>4. \A q \in Procs, t \in Services : Reg!HeldFor(t, q)' <=> (t # s /\ Reg!HeldFor(t, q))
    BY <2>3 DEF Reg!HeldFor, Reg!Holds
  <2>5. \A q \in Procs : Reg!HeldFor(s, q) => q = p
    BY <2>2 DEF Reg!HeldFor, Reg!Holds, Reg!OneMapPerService
  <2>6. /\ life' = [life EXCEPT ![p] = "removed"]
        /\ wg' = wg - 1
        /\ nextOrder' = nextOrder
    BY <1>2 DEF Reg!RemoveDetached, Reg!RemoveAttached
  <2>7. Reg!OneMapPerService'
    BY <2>3 DEF Reg!OneMapPerService
  <2>8. Reg!TrackedExactlyOnce'
    <3>1. \A t \in Services : t # s => ~Reg!HeldFor(t, p)
      BY <2>2 DEF Reg!TrackedExactlyOnce
    <3>2. ASSUME NEW q \in Procs
          PROVE  life'[q] = "tracked" <=> \E t \in Services : Reg!HeldFor(t, q)'
      <4>1. CASE q = p
        BY <4>1, <3>1, <2>4, <2>6 DEF Reg!TypeOK
      <4>2. CASE q # p
        <5>1. life'[q] = life[q] /\ ~Reg!HeldFor(s, q)
          BY <4>2, <2>5, <2>6 DEF Reg!TypeOK
        <5> QED  BY <5>1, <2>4 DEF Reg!TrackedExactlyOnce
      <4> QED  BY <4>1, <4>2
    <3>3. \A q \in Procs : \A t, u \in Services :
            Reg!HeldFor(t, q)' /\ Reg!HeldFor(u, q)' => t = u
      BY <2>4 DEF Reg!TrackedExactlyOnce
    <3> QED  BY <3>2, <3>3 DEF Reg!TrackedExactlyOnce
  <2>9. Counted'
    <3>1. Reg!Outstanding' = Reg!Outstanding \ {p}
      BY <2>6 DEF Reg!Outstanding, Reg!TypeOK
    <3>2. Cardinality(Reg!Outstanding') = Cardinality(Reg!Outstanding) - 1
      BY <3>1, <2>2, CountDown
    <3> QED  BY <3>2, <2>6 DEF Counted
  <2>1. Reg!TypeOK'
    <3>1. wg' \in Nat
      BY <2>9, OutstandingCounted DEF Counted
    <3>2. /\ processes' \in [Services -> Reg!Entry \cup {None}]
          /\ detached' \in [Services -> Reg!Entry \cup {None}]
      BY <1>2 DEF Reg!RemoveDetached, Reg!RemoveAttached, Reg!TypeOK
    <3> QED  BY <3>1, <3>2, <2>6 DEF Reg!TypeOK, Reg!Life
  <2>10. OrdersBelowNext'
    BY <2>3, <2>6 DEF OrdersBelowNext
  <2>11. OrdersApart'
    BY <2>3 DEF OrdersApart
  <2> QED  BY <2>1, <2>7, <2>8, <2>9, <2>10, <2>11
<1> QED  BY <1>1, <1>2 DEF Reg!Remove

-----------------------------------------------------------------------------
(* The invariant of the registry and what follows from it *)

\* An empty registry has it.
LEMMA RegistryInit == Reg!Init => RegistryInv
<1> SUFFICES ASSUME Reg!Init PROVE RegistryInv
  OBVIOUS
<1>1. \A p \in Procs : life[p] = "fresh"
  BY DEF Reg!Init
<1>2. Reg!Outstanding = {}
  BY <1>1 DEF Reg!Outstanding
<1>3. Counted
  BY <1>2, FS_EmptySet DEF Counted, Reg!Init
<1>4. Reg!TypeOK
  BY DEF Reg!Init, Reg!TypeOK, Reg!Life
<1>5. \A s \in Services : processes[s] = None /\ detached[s] = None
  BY DEF Reg!Init
<1>6. Reg!OneMapPerService /\ OrdersBelowNext /\ OrdersApart
  BY <1>5 DEF Reg!OneMapPerService, OrdersBelowNext, OrdersApart
<1>7. Reg!TrackedExactlyOnce
  BY <1>1, <1>5 DEF Reg!TrackedExactlyOnce, Reg!HeldFor, Reg!Holds
<1> QED  BY <1>3, <1>4, <1>6, <1>7 DEF RegistryInv

\* Every call preserves it.
LEMMA RegistryNext == RegistryInv /\ [Reg!Next]_(Reg!regVars) => RegistryInv'
<1> SUFFICES ASSUME RegistryInv, [Reg!Next]_(Reg!regVars) PROVE RegistryInv'
  OBVIOUS
<1>1. ASSUME NEW s \in Services, NEW p \in Procs, life[p] = "fresh", Reg!Add(s, p) PROVE RegistryInv'
  BY <1>1, RegistryAdd
<1>2. ASSUME NEW s \in Services, Reg!Detach(s) PROVE RegistryInv'
  BY <1>2, RegistryDetach
<1>3. ASSUME NEW s \in Services, NEW p \in Procs, Reg!Remove(s, p) PROVE RegistryInv'
  BY <1>3, RegistryRemove
<1>4. CASE UNCHANGED Reg!regVars
  BY <1>4 DEF Reg!regVars, RegistryInv, Reg!TypeOK, Reg!OneMapPerService, Reg!TrackedExactlyOnce, Reg!HeldFor,
              Reg!Holds, Counted, Reg!Outstanding, OrdersBelowNext, OrdersApart
<1> QED  BY <1>1, <1>2, <1>3, <1>4 DEF Reg!Next

\* The count of this module is the registry's.
LEMMA CountedExactly == Counted => Reg!WaitGroupExact
  BY DEF Counted, Reg!WaitGroupExact, Cardinality, Reg!Cardinality

\* OrdersDistinct follows from the inductive form.
LEMMA OrdersFollow == RegistryInv => Reg!OrdersDistinct
<1> SUFFICES ASSUME RegistryInv, NEW e \in Reg!Snapshot, NEW f \in Reg!Snapshot, e.order = f.order
             PROVE  e = f
  BY DEF Reg!OrdersDistinct
<1>1. PICK s \in Services : \E x \in {processes[s], detached[s]} \ {None} :
        e = [id |-> s, proc |-> x.proc, order |-> x.order]
  BY DEF Reg!Snapshot
<1>2. PICK t \in Services : \E y \in {processes[t], detached[t]} \ {None} :
        f = [id |-> t, proc |-> y.proc, order |-> y.order]
  BY DEF Reg!Snapshot
<1>3. PICK x \in {processes[s], detached[s]} \ {None} :
        e = [id |-> s, proc |-> x.proc, order |-> x.order]
  BY <1>1
<1>4. PICK y \in {processes[t], detached[t]} \ {None} :
        f = [id |-> t, proc |-> y.proc, order |-> y.order]
  BY <1>2
<1>5. x.order = y.order
  BY <1>3, <1>4
<1>6. s = t
  BY <1>3, <1>4, <1>5 DEF RegistryInv, OrdersApart
<1>7. x = y
  BY <1>3, <1>4, <1>6 DEF RegistryInv, Reg!OneMapPerService
<1> QED  BY <1>3, <1>4, <1>6, <1>7

\* The registry keeps its inductive invariant whatever the callers do.
THEOREM RegistryInvariant == Reg!Spec => []RegistryInv
<1> QED  BY RegistryInit, RegistryNext, PTL DEF Reg!Spec

\* Type correctness of the registry (registry.go:55-61).
THEOREM RegistryTypeOK == Reg!Spec => []Reg!TypeOK
<1>1. RegistryInv => Reg!TypeOK
  BY DEF RegistryInv
<1> QED  BY <1>1, RegistryInvariant, PTL

\* A service is in at most one of the two maps (registry.go:84, 143-145).
THEOREM RegistryOneMap == Reg!Spec => []Reg!OneMapPerService
<1>1. RegistryInv => Reg!OneMapPerService
  BY DEF RegistryInv
<1> QED  BY <1>1, RegistryInvariant, PTL

\* A tracked handle is held exactly once, by one service, in one map.
THEOREM RegistryTrackedOnce == Reg!Spec => []Reg!TrackedExactlyOnce
<1>1. RegistryInv => Reg!TrackedExactlyOnce
  BY DEF RegistryInv
<1> QED  BY <1>1, RegistryInvariant, PTL

\* The WaitGroup counts the handles added and not Done, so wg.Done never
\* panics and Wait does not return while a process is tracked.
THEOREM RegistryWaitGroup == Reg!Spec => [](Reg!WaitGroupExact /\ wg >= 0)
<1>1. RegistryInv => Reg!WaitGroupExact /\ wg >= 0
  BY CountedExactly DEF RegistryInv, Reg!TypeOK
<1> QED  BY <1>1, RegistryInvariant, PTL

\* The shutdown order is total: no two tracked entries share an order.
THEOREM RegistryOrders == Reg!Spec => []Reg!OrdersDistinct
<1> QED  BY OrdersFollow, RegistryInvariant, PTL

-----------------------------------------------------------------------------
(* What some steps change *)

\* A command that names a service is received by a goroutine that was idle.
LEMMA SpawnStep ==
  ASSUME TypeOK, NEW o, Spawn(o), queue # <<>>, Head(queue).cmd # "stopall"
  PROVE  \E t \in Tasks : /\ pc[t] = "idle"
                          /\ pc' = [pc EXCEPT ![t] = "acquire"]
                          /\ op' = [op EXCEPT ![t] = o]
                          /\ \E s \in Services : svc' = [svc EXCEPT ![t] = s]
<1>1. Head(queue).id \in Services
  <2>1. Head(queue) \in Commands
    BY DEF TypeOK
  <2> QED  BY <2>1 DEF Commands
<1> DEFINE t == CHOOSE u \in Tasks : At(u, "idle")
<1>2. t \in Tasks /\ pc[t] = "idle"
  BY DEF Spawn, At
<1>3. pc' = [pc EXCEPT ![t] = "acquire"] /\ op' = [op EXCEPT ![t] = o]
      /\ svc' = [svc EXCEPT ![t] = Head(queue).id]
  BY DEF Spawn, Goto
<1> QED  BY <1>1, <1>2, <1>3

\* Clients, signals, file changes and dying processes leave the goroutines,
\* their locks and the registry alone.
LEMMA EnvironmentFrame ==
  Environment => UNCHANGED <<regVars, threadVars, tierVars, lockVars, owner, watcher>>
<1>1. ASSUME NEW c, NEW s, Request(c, s) \/ FileChange(s)
      PROVE  UNCHANGED <<regVars, threadVars, tierVars, lockVars, owner, watcher>>
  BY <1>1 DEF Request, FileChange
<1>2. ASSUME QuitKey \/ SendSignal \/ ParentCancel
      PROVE  UNCHANGED <<regVars, threadVars, tierVars, lockVars, owner, watcher>>
  BY <1>2 DEF QuitKey, SendSignal, ParentCancel
<1>3. ASSUME NEW p, Die(p)
      PROVE  UNCHANGED <<regVars, threadVars, tierVars, lockVars, owner, watcher>>
  BY <1>3 DEF Die
<1> QED  BY <1>1, <1>2, <1>3 DEF Environment

-----------------------------------------------------------------------------
(* Control, tiers, worker slots and the guard *)

\* The control of every goroutine stays within its own states.
LEMMA ControlPreserved == ASSUME TypeOK, Control, Next PROVE Control'
<1> USE ThreadAssumption DEF Control, Threads, At, Goto, Unwind, ServicePCs, MainPCs, WorkPCs,
                             StopPCs
<1>p. pc \in [Threads -> MainPCs \cup WorkPCs] /\ svc \in [Threads -> Services \cup {None}]
      /\ op \in [Threads -> {"start", "resume", "restart", "stop", "shutdown", "none"}]
  BY DEF TypeOK
<1>q. /\ queue \in Seq(Commands)
      /\ plan \subseteq Entries
  BY DEF TypeOK
<1>1. ASSUME NEW t \in Services \cup Tasks, ServiceStep(t) PROVE Control'
  <2>1. CASE LaunchFails(t) \/ Abort(t)
    BY <2>1, <1>p DEF LaunchFails, Abort, AttemptFailed
  <2>2. CASE ~(LaunchFails(t) \/ Abort(t))
    BY <1>1, <2>2, <1>p DEF ServiceStep, Acquire, AcquireCancelled, Release, Launch, Ready,
       NotReady, Backoff, BackoffCancelled, AddProcess
  <2> QED  BY <2>1, <2>2
<1>2. ASSUME NEW t \in Tasks, TaskStep(t) \/ StopStep(t) PROVE Control'
  BY <1>2, <1>p DEF TaskStep, Lock, LockBusy, Unlock, RestartLookup, ResumeLookup,
     StopStep, DetachAndTerminate, Reap
<1>3. CASE MainStep
  <2>1. CASE StartupComplete \/ TakeSignal \/ SeeCancelled \/ TakeStopAll \/ IgnoreWatch
    BY <2>1, <1>p DEF StartupComplete, TakeSignal, SeeCancelled, TakeStopAll, IgnoreWatch,
       Receives, Selecting, BeginShutdown
  <2>2. CASE TakeStop
    BY <2>2, <1>p, <1>q DEF TakeStop, Receives, Selecting, Commands
  <2>3. CASE TakeStart \/ TakeRestart \/ TakeWatch
    <3>1. PICK o \in {"resume", "restart"} :
            Spawn(o) /\ queue # <<>> /\ Head(queue).cmd # "stopall"
      BY <2>3 DEF TakeStart, TakeRestart, TakeWatch, Receives
    <3> QED  BY <3>1, <1>p, SpawnStep
  <2>4. CASE StopLookup \/ AnnounceStopping \/ ReportStopped
    BY <2>4, <1>p DEF StopLookup, AnnounceStopping, ReportStopped, StopReturns
  <2>5. CASE Drain \/ TakeSnapshot \/ ShutdownDone \/ StopStep(Main)
    BY <2>5, <1>p DEF Drain, TakeSnapshot, ShutdownDone, StopStep, DetachAndTerminate, Reap
  <2>6. ASSUME NEW e \in undetached, DetachNext(e) PROVE Control'
    BY <2>6, <1>p DEF DetachNext
  <2>7. ASSUME NEW e \in plan, StopNext(e) PROVE Control'
    BY <2>7, <1>p, <1>q DEF StopNext, Entries
  <2> QED  BY <1>3, <2>1, <2>2, <2>3, <2>4, <2>5, <2>6, <2>7 DEF MainStep
<1>4. CASE StartTier
  BY <1>4, <1>p DEF StartTier, InTier
<1>5. CASE EndTier
  BY <1>5 DEF EndTier
<1>6. ASSUME NEW p \in Procs, SeeExit(p) \/ ReportExit(p) PROVE Control'
  BY <1>6 DEF SeeExit, ReportExit
<1>7. CASE Environment
  BY <1>7, EnvironmentFrame
<1>8. CASE Finished
  BY <1>8 DEF Finished, vars
<1> QED  BY <1>1, <1>2, <1>3, <1>4, <1>5, <1>6, <1>7, <1>8 DEF Next

\* Only StartTier and EndTier are about tiers.
LEMMA TiersFrame ==
  ASSUME TypeOK, Control, Next, ~StartTier, ~EndTier
  PROVE  TiersKept
<1> USE ThreadAssumption DEF Control, Threads, At, Goto, Unwind, ServicePCs, TiersKept
<1>p. pc \in [Threads -> MainPCs \cup WorkPCs]
  BY DEF TypeOK
<1>1. ASSUME NEW t \in Services \cup Tasks, ServiceStep(t) PROVE TiersKept
  BY <1>1, <1>p DEF ServiceStep, Acquire, AcquireCancelled, Release, Launch, LaunchFails, Ready,
     NotReady, Abort, Backoff, BackoffCancelled, AddProcess, AttemptFailed, NoteFailure
<1>2. ASSUME NEW t \in Tasks, TaskStep(t) \/ StopStep(t) PROVE TiersKept
  BY <1>2, <1>p DEF TaskStep, Lock, LockBusy, Unlock, RestartLookup, ResumeLookup,
     StopStep, DetachAndTerminate, Reap
<1>3. CASE MainStep
  <2>1. CASE TakeStart \/ TakeRestart \/ TakeWatch
    <3>1. PICK o \in {"resume", "restart"} :
            Spawn(o) /\ queue # <<>> /\ Head(queue).cmd # "stopall"
      BY <2>1 DEF TakeStart, TakeRestart, TakeWatch, Receives
    <3>2. UNCHANGED <<tier, tierOpen>>
      BY <3>1 DEF Spawn
    <3> QED  BY <3>1, <3>2, <1>p, SpawnStep
  <2>2. CASE ~(TakeStart \/ TakeRestart \/ TakeWatch)
    BY <1>3, <2>2, <1>p DEF MainStep, StartupComplete, TakeSignal, SeeCancelled, TakeStopAll,
       IgnoreWatch, TakeStop, StopLookup, AnnounceStopping, ReportStopped, Drain, TakeSnapshot,
       ShutdownDone, DetachNext, StopNext, StopStep, DetachAndTerminate, Reap, BeginShutdown,
       StopReturns
  <2> QED  BY <2>1, <2>2
<1>4. ASSUME NEW p \in Procs, SeeExit(p) \/ ReportExit(p) PROVE TiersKept
  BY <1>4 DEF SeeExit, ReportExit
<1>5. CASE Environment
  BY <1>5, EnvironmentFrame
<1>6. CASE Finished
  BY <1>6 DEF Finished, vars
<1> QED  BY <1>1, <1>2, <1>3, <1>4, <1>5, <1>6 DEF Next

\* The tiers advance one at a time.
LEMMA TiersPreserved == ASSUME TypeOK, Control, Tiers, Next PROVE Tiers'
<1> USE TierAssumption, ThreadAssumption DEF Tiers
<1>p. pc \in [Threads -> MainPCs \cup WorkPCs]
  BY DEF TypeOK
<1>1. CASE StartTier
  BY <1>1, <1>p DEF StartTier, InTier, StartupDone, Threads
<1>2. CASE EndTier
  BY <1>2, <1>p DEF EndTier, InTier, At
<1>3. CASE TiersKept
  BY <1>3 DEF TiersKept
<1> QED  BY <1>1, <1>2, <1>3, TiersFrame

\* Only Acquire and Release change who holds a worker slot.
LEMMA HoldersFrame ==
  ASSUME TypeOK, Control, Tiers, Next, \A t \in Services \cup Tasks : ~Acquire(t) /\ ~Release(t)
  PROVE  HoldersKept
<1> USE ThreadAssumption DEF Control, Threads, At, Goto, Unwind, ServicePCs, HoldersKept,
                             SlotHolders
<1>p. pc \in [Threads -> MainPCs \cup WorkPCs]
  BY DEF TypeOK
<1>1. ASSUME NEW t \in Services \cup Tasks, ServiceStep(t) PROVE HoldersKept
  BY <1>1, <1>p DEF ServiceStep, AcquireCancelled, Launch, LaunchFails, Ready,
     NotReady, Abort, Backoff, BackoffCancelled, AddProcess, AttemptFailed, NoteFailure
<1>2. ASSUME NEW t \in Tasks, TaskStep(t) \/ StopStep(t) PROVE HoldersKept
  BY <1>2, <1>p DEF TaskStep, Lock, LockBusy, Unlock, RestartLookup, ResumeLookup,
     StopStep, DetachAndTerminate, Reap
<1>3. CASE MainStep
  <2>1. CASE TakeStart \/ TakeRestart \/ TakeWatch
    <3>1. PICK o \in {"resume", "restart"} :
            Spawn(o) /\ queue # <<>> /\ Head(queue).cmd # "stopall"
      BY <2>1 DEF TakeStart, TakeRestart, TakeWatch, Receives
    <3>2. UNCHANGED sem
      BY <3>1 DEF Spawn
    <3> QED  BY <3>1, <3>2, <1>p, SpawnStep
  <2>2. CASE ~(TakeStart \/ TakeRestart \/ TakeWatch)
    BY <1>3, <2>2, <1>p DEF MainStep, StartupComplete, TakeSignal, SeeCancelled, TakeStopAll,
       IgnoreWatch, TakeStop, StopLookup, AnnounceStopping, ReportStopped, Drain, TakeSnapshot,
       ShutdownDone, DetachNext, StopNext, StopStep, DetachAndTerminate, Reap, BeginShutdown,
       StopReturns
  <2> QED  BY <2>1, <2>2
<1>4. CASE StartTier
  <2>1. \A s \in InTier(tier) : pc[s] = "idle"
    BY <1>4, TierAssumption DEF StartTier, InTier, Tiers
  <2> QED  BY <1>4, <2>1, <1>p DEF StartTier
<1>5. CASE EndTier
  BY <1>5 DEF EndTier
<1>6. ASSUME NEW p \in Procs, SeeExit(p) \/ ReportExit(p) PROVE HoldersKept
  BY <1>6 DEF SeeExit, ReportExit
<1>7. CASE Environment
  BY <1>7, EnvironmentFrame
<1>8. CASE Finished
  BY <1>8 DEF Finished, vars
<1> QED  BY <1>1, <1>2, <1>3, <1>4, <1>5, <1>6, <1>7, <1>8 DEF Next

\* Acquire takes a free slot and Release gives back one that is held.
LEMMA SlotsPreserved == ASSUME TypeOK, Control, Tiers, SlotsExact, Next PROVE SlotsExact'
<1> USE DEF SlotsExact
<1>p. pc \in [Threads -> MainPCs \cup WorkPCs]
  BY DEF TypeOK
<1>f. IsFiniteSet(SlotHolders) /\ Cardinality(SlotHolders) \in Nat
  <2>1. IsFiniteSet(Services \cup Tasks)
    BY ThreadAssumption, FS_Union
  <2>2. SlotHolders \subseteq Services \cup Tasks
    BY DEF SlotHolders
  <2> QED  BY <2>1, <2>2, FS_Subset, FS_CardinalityType
<1>1. ASSUME NEW t \in Services \cup Tasks, Acquire(t) PROVE SlotsExact'
  <2>1. SlotHolders' = SlotHolders \cup {t} /\ t \notin SlotHolders
    BY <1>1, <1>p, ThreadAssumption DEF Acquire, At, Goto, SlotHolders, Threads
  <2>2. Cardinality(SlotHolders') = Cardinality(SlotHolders) + 1
    BY <2>1, <1>f, FS_AddElement
  <2>3. sem' = sem + 1 /\ sem < Workers
    BY <1>1 DEF Acquire
  <2> QED  BY <2>2, <2>3, <1>f, LimitAssumption
<1>2. ASSUME NEW t \in Services \cup Tasks, Release(t) PROVE SlotsExact'
  <2>1. SlotHolders' = SlotHolders \ {t} /\ t \in SlotHolders
    BY <1>2, <1>p, ThreadAssumption DEF Release, At, Goto, SlotHolders, Threads
  <2>2. Cardinality(SlotHolders') = Cardinality(SlotHolders) - 1
    BY <2>1, <1>f, FS_RemoveElement
  <2>3. sem' = sem - 1
    BY <1>2 DEF Release
  <2> QED  BY <2>2, <2>3, <1>f, LimitAssumption
<1>3. CASE HoldersKept
  BY <1>3 DEF HoldersKept
<1> QED  BY <1>1, <1>2, <1>3, HoldersFrame

\* Only Lock and Unlock change who is in a guarded section.
LEMMA GuardFrame ==
  ASSUME TypeOK, Control, Next, \A t \in Tasks : ~Lock(t) /\ ~Unlock(t)
  PROVE  GuardKept
<1> USE ThreadAssumption DEF Control, Threads, At, Goto, Unwind, ServicePCs, GuardKept, InGuard
<1>p. pc \in [Threads -> MainPCs \cup WorkPCs] /\ svc \in [Threads -> Services \cup {None}]
  BY DEF TypeOK
<1>1. ASSUME NEW t \in Services \cup Tasks, ServiceStep(t) PROVE GuardKept
  BY <1>1, <1>p DEF ServiceStep, Acquire, AcquireCancelled, Release, Launch, LaunchFails, Ready,
     NotReady, Abort, Backoff, BackoffCancelled, AddProcess, AttemptFailed, NoteFailure
<1>2. ASSUME NEW t \in Tasks, TaskStep(t) \/ StopStep(t) PROVE GuardKept
  BY <1>2, <1>p DEF TaskStep, LockBusy, RestartLookup, ResumeLookup,
     StopStep, DetachAndTerminate, Reap
<1>3. CASE MainStep
  <2>1. CASE TakeStart \/ TakeRestart \/ TakeWatch
    <3>1. PICK o \in {"resume", "restart"} :
            Spawn(o) /\ queue # <<>> /\ Head(queue).cmd # "stopall"
      BY <2>1 DEF TakeStart, TakeRestart, TakeWatch, Receives
    <3>2. UNCHANGED guard
      BY <3>1 DEF Spawn
    <3> QED  BY <3>1, <3>2, <1>p, SpawnStep
  <2>2. CASE ~(TakeStart \/ TakeRestart \/ TakeWatch)
    BY <1>3, <2>2, <1>p DEF MainStep, StartupComplete, TakeSignal, SeeCancelled, TakeStopAll,
       IgnoreWatch, TakeStop, StopLookup, AnnounceStopping, ReportStopped, Drain, TakeSnapshot,
       ShutdownDone, DetachNext, StopNext, StopStep, DetachAndTerminate, Reap, BeginShutdown,
       StopReturns
  <2> QED  BY <2>1, <2>2
<1>4. CASE StartTier \/ EndTier
  BY <1>4, <1>p DEF StartTier, EndTier, InTier
<1>5. ASSUME NEW p \in Procs, SeeExit(p) \/ ReportExit(p) PROVE GuardKept
  BY <1>5 DEF SeeExit, ReportExit
<1>6. CASE Environment
  BY <1>6, EnvironmentFrame
<1>7. CASE Finished
  BY <1>7 DEF Finished, vars
<1> QED  BY <1>1, <1>2, <1>3, <1>4, <1>5, <1>6, <1>7 DEF Next

\* Lock locks a service that is not locked, and Unlock the one its goroutine locked.
LEMMA GuardPreserved == ASSUME TypeOK, Control, GuardExclusive, Next PROVE GuardExclusive'
<1> USE DEF GuardExclusive
<1>p. pc \in [Threads -> MainPCs \cup WorkPCs] /\ guard \subseteq Services
  BY DEF TypeOK
<1>1. ASSUME NEW t \in Tasks, Lock(t) PROVE GuardExclusive'
  <2>1. svc[t] \in Services /\ svc[t] \notin guard /\ guard' = guard \cup {svc[t]}
    BY <1>1 DEF Lock, At, Control
  <2>2. \A s \in Services : InGuard(s)' = IF s = svc[t] THEN InGuard(s) \cup {t} ELSE InGuard(s)
    BY <1>1, <1>p, ThreadAssumption DEF Lock, At, Goto, InGuard, Threads
  <2> QED  BY <2>1, <2>2
<1>2. ASSUME NEW t \in Tasks, Unlock(t) PROVE GuardExclusive'
  <2>1. svc[t] \in Services /\ guard' = guard \ {svc[t]} /\ t \in InGuard(svc[t])
    BY <1>2 DEF Unlock, At, Control, InGuard
  <2>2. \A s \in Services : InGuard(s)' = InGuard(s) \ {t}
    BY <1>2, <1>p, ThreadAssumption DEF Unlock, At, Goto, InGuard, Threads
  <2>3. \A s \in Services : s # svc[t] => t \notin InGuard(s)
    BY DEF InGuard
  <2> QED  BY <2>1, <2>2, <2>3
<1>3. CASE GuardKept
  BY <1>3 DEF GuardKept
<1> QED  BY <1>1, <1>2, <1>3, GuardFrame

-----------------------------------------------------------------------------
(* The registry *)

\* Every step is one of the registry's own, or leaves it alone.
LEMMA RegistryStep ==
  ASSUME TypeOK, Control, NewHandles, OldHandles, Watchers, Next
  PROVE  [Reg!Next]_(Reg!regVars)
<1> USE DEF Reg!regVars
<1>a. ASSUME NEW t \in Services \cup Tasks, AddProcess(t) PROVE Reg!Next
  <2>1. svc[t] \in Services /\ cur[t] \in Procs /\ life[cur[t]] = "fresh"
    BY <1>a DEF AddProcess, At, Control, NewHandles, HoldsNew
  <2> QED  BY <1>a, <2>1 DEF AddProcess, Reg!Next
<1>b. ASSUME NEW t \in Tasks \cup {Main}, StopStep(t) PROVE Reg!Next
  <2>1. svc[t] \in Services /\ cur[t] \in Procs
    BY <1>b DEF StopStep, DetachAndTerminate, Reap, At, Control, StopPCs, OldHandles, HoldsOld
  <2> QED  BY <1>b, <2>1 DEF StopStep, DetachAndTerminate, Reap, Reg!Next
<1>c. ASSUME NEW p \in Procs, SeeExit(p) PROVE Reg!Next
  <2>1. owner[p] \in Services
    BY <1>c DEF SeeExit, Watchers
  <2> QED  BY <1>c, <2>1 DEF SeeExit, Reg!Next
<1>d. ASSUME NEW e \in undetached, DetachNext(e) PROVE Reg!Next
  <2>1. e.id \in Services
    BY DEF TypeOK, Entries
  <2> QED  BY <1>d, <2>1 DEF DetachNext, Reg!Next
<1>1. ASSUME NEW t \in Services \cup Tasks, ServiceStep(t), ~AddProcess(t) PROVE UNCHANGED regVars
  BY <1>1 DEF ServiceStep, Acquire, AcquireCancelled, Release, Launch, LaunchFails, Ready,
     NotReady, Abort, Backoff, BackoffCancelled
<1>2. ASSUME NEW t \in Tasks, TaskStep(t) PROVE UNCHANGED regVars
  BY <1>2 DEF TaskStep, Lock, LockBusy, Unlock, RestartLookup, ResumeLookup
<1>3. ASSUME MainStep, ~StopStep(Main), \A e \in undetached : ~DetachNext(e)
      PROVE  UNCHANGED regVars
  <2>1. CASE TakeStart \/ TakeRestart \/ TakeWatch
    BY <2>1 DEF TakeStart, TakeRestart, TakeWatch, Spawn
  <2>2. CASE ~(TakeStart \/ TakeRestart \/ TakeWatch)
    BY <1>3, <2>2 DEF MainStep, StartupComplete, TakeSignal, SeeCancelled, TakeStopAll,
       IgnoreWatch, TakeStop, StopLookup, AnnounceStopping, ReportStopped, Drain, TakeSnapshot,
       ShutdownDone, StopNext, BeginShutdown
  <2> QED  BY <2>1, <2>2
<1>4. CASE StartTier \/ EndTier
  BY <1>4 DEF StartTier, EndTier
<1>5. ASSUME NEW p \in Procs, ReportExit(p) PROVE UNCHANGED regVars
  BY <1>5 DEF ReportExit
<1>6. CASE Environment
  BY <1>6, EnvironmentFrame
<1>7. CASE Finished
  BY <1>7 DEF Finished, vars
<1> QED  BY <1>a, <1>b, <1>c, <1>d, <1>1, <1>2, <1>3, <1>4, <1>5, <1>6, <1>7 DEF Next

\* The registry's invariant, from the proofs of the registry.
LEMMA RegistryPreserved ==
  ASSUME TypeOK, Control, NewHandles, OldHandles, Watchers, RegistryInv, Next
  PROVE  RegistryInv'
<1>1. RegistryInv /\ [Reg!Next]_(Reg!regVars) => RegistryInv'
  BY RegistryNext
<1> QED  BY <1>1, RegistryStep

\* What the rest needs of it: types, and that a held handle is tracked.
LEMMA RegistryFacts ==
  ASSUME RegistryInv
  PROVE  /\ Reg!TypeOK
         /\ \A s \in Services, p \in Procs : Reg!HeldFor(s, p) => life[p] = "tracked"
         /\ \A s \in Services : processes[s] = None \/ detached[s] = None
<1>1. Reg!TypeOK
  BY DEF RegistryInv
<1>2. \A s \in Services, p \in Procs : Reg!HeldFor(s, p) => life[p] = "tracked"
  BY DEF RegistryInv, Reg!TrackedExactlyOnce, Reg!HeldFor, Reg!Holds
<1>3. \A s \in Services : processes[s] = None \/ detached[s] = None
  BY DEF RegistryInv, Reg!OneMapPerService
<1> QED  BY <1>1, <1>2, <1>3

\* Detach moves an entry and says nothing else.
LEMMA DetachFacts ==
  ASSUME Reg!TypeOK, NEW s \in Services, Reg!Detach(s), processes[s] = None \/ detached[s] = None
  PROVE  /\ life' = life
         /\ \A u \in Services, q \in Procs :
              /\ Reg!HeldFor(u, q)' => Reg!HeldFor(u, q)
              /\ Reg!Holds(processes, u, q)' => u # s /\ Reg!Holds(processes, u, q)
  BY DEF Reg!TypeOK, Reg!Detach, Reg!HeldFor, Reg!Holds

\* Remove marks the handle, if it was held, and adds no entry.
LEMMA RemoveFacts ==
  ASSUME Reg!TypeOK, NEW s \in Services, NEW p \in Procs, Reg!Remove(s, p)
  PROVE  /\ life' = life \/ (Reg!HeldFor(s, p) /\ life' = [life EXCEPT ![p] = "removed"])
         /\ \A u \in Services, q \in Procs :
              /\ Reg!HeldFor(u, q)' => Reg!HeldFor(u, q)
              /\ Reg!Holds(processes, u, q)' => Reg!Holds(processes, u, q)
<1> USE DEF Reg!TypeOK, Reg!HeldFor, Reg!Holds, Reg!regVars
<1>1. CASE Reg!RemoveDetached(s, p)
  BY <1>1 DEF Reg!RemoveDetached
<1>2. CASE Reg!RemoveAttached(s, p)
  BY <1>2 DEF Reg!RemoveAttached, Reg!Unexpected
<1>3. CASE Reg!RemoveNothing(s, p)
  BY <1>3 DEF Reg!RemoveNothing
<1> QED  BY <1>1, <1>2, <1>3 DEF Reg!Remove

-----------------------------------------------------------------------------
(* Handles *)

\* The types that the lemmas below need.
LEMMA HandleTypes ==
  ASSUME TypeOK
  PROVE  /\ pc \in [Threads -> MainPCs \cup WorkPCs] /\ svc \in [Threads -> Services \cup {None}]
         /\ cur \in [Threads -> Procs \cup {None}] /\ life \in [Procs -> Reg!Life]
         /\ proc \in [Procs -> {"unborn", "alive", "signalled", "exited", "killed"}]
         /\ owner \in [Procs -> Services \cup {None}]
         /\ watcher \in [Procs -> {"none", "waiting", "reporting", "done"}]
  BY DEF TypeOK, Reg!TypeOK

\* The steps that touch handles.
TouchesHandles ==
  \/ \E t \in Services \cup Tasks : Launch(t) \/ NotReady(t) \/ AddProcess(t)
  \/ \E t \in Tasks : RestartLookup(t)
  \/ StopLookup
  \/ \E t \in Tasks \cup {Main} : StopStep(t)
  \/ \E e \in undetached : DetachNext(e)
  \/ \E p \in Procs : SeeExit(p) \/ ReportExit(p) \/ Die(p)

\* Every other step keeps the handles as they are.
LEMMA HandlesFrame ==
  ASSUME TypeOK, Control, Next, ~TouchesHandles
  PROVE  HandlesKept
<1> USE ThreadAssumption DEF Control, Threads, At, Goto, Unwind, ServicePCs, HandlesKept, HoldsNew,
                             HoldsOld
<1>p. pc \in [Threads -> MainPCs \cup WorkPCs] /\ svc \in [Threads -> Services \cup {None}]
  BY DEF TypeOK
<1>1. ASSUME NEW t \in Services \cup Tasks, ServiceStep(t) PROVE HandlesKept
  <2>1. ~Launch(t) /\ ~NotReady(t) /\ ~AddProcess(t)
    BY DEF TouchesHandles
  <2>2. CASE LaunchFails(t) \/ Abort(t)
    BY <2>2, <1>p DEF LaunchFails, Abort, AttemptFailed
  <2>3. CASE Release(t)
    <3>1. cur \in [Threads -> Procs \cup {None}]
      BY DEF TypeOK
    <3>2. \A u \in Threads \ {t} : cur'[u] = cur[u] /\ pc'[u] = pc[u]
      BY <2>3, <3>1, <1>p DEF Release
    <3> QED  BY <2>3, <3>2, <1>p DEF Release
  <2>4. CASE ~(LaunchFails(t) \/ Abort(t) \/ Release(t))
    BY <1>1, <2>1, <2>4, <1>p DEF ServiceStep, Acquire, AcquireCancelled, Ready, Backoff,
       BackoffCancelled
  <2> QED  BY <2>2, <2>3, <2>4
<1>2. ASSUME NEW t \in Tasks, TaskStep(t) PROVE HandlesKept
  <2>1. ~RestartLookup(t)
    BY DEF TouchesHandles
  <2> QED  BY <1>2, <2>1, <1>p DEF TaskStep, Lock, LockBusy, Unlock, ResumeLookup
<1>3. CASE MainStep
  <2>1. CASE TakeStart \/ TakeRestart \/ TakeWatch
    <3>1. PICK o \in {"resume", "restart"} :
            Spawn(o) /\ queue # <<>> /\ Head(queue).cmd # "stopall"
      BY <2>1 DEF TakeStart, TakeRestart, TakeWatch, Receives
    <3>2. UNCHANGED <<regVars, procVars, cur>>
      BY <3>1 DEF Spawn
    <3> QED  BY <3>1, <3>2, <1>p, SpawnStep
  <2>2. CASE ~(TakeStart \/ TakeRestart \/ TakeWatch)
    <3>1. ~StopLookup /\ ~StopStep(Main) /\ \A e \in undetached : ~DetachNext(e)
      BY DEF TouchesHandles
    <3> QED  BY <1>3, <2>2, <3>1, <1>p DEF MainStep, StartupComplete, TakeSignal, SeeCancelled,
       TakeStopAll, IgnoreWatch, TakeStop, AnnounceStopping, ReportStopped, Drain, TakeSnapshot,
       ShutdownDone, StopNext, BeginShutdown, StopReturns
  <2> QED  BY <2>1, <2>2
<1>4. CASE StartTier \/ EndTier
  BY <1>4, <1>p DEF StartTier, EndTier, InTier
<1>5. CASE Environment
  <2>1. \A p \in Procs : ~Die(p)
    BY DEF TouchesHandles
  <2>2. UNCHANGED proc
    BY <1>5, <2>1 DEF Environment, Request, FileChange, QuitKey, SendSignal, ParentCancel
  <2> QED  BY <1>5, <2>2, EnvironmentFrame
<1>6. CASE Finished
  BY <1>6 DEF Finished, vars
<1>7. ~StopStep(Main) /\ \A t \in Tasks : ~StopStep(t)
  BY DEF TouchesHandles
<1>8. \A p \in Procs : ~SeeExit(p) /\ ~ReportExit(p)
  BY DEF TouchesHandles
<1> QED  BY <1>1, <1>2, <1>3, <1>4, <1>5, <1>6, <1>7, <1>8 DEF Next

\* A step that touches no handle preserves what is known of them.
LEMMA KeptPreserves == ASSUME TypeOK, Handles, HandlesKept PROVE Handles'
<1> USE DEF Handles, HandlesKept
<1>1. NewHandles'
  BY DEF NewHandles, HoldsNew
<1>2. NewHandlesDistinct'
  BY DEF NewHandlesDistinct
<1>3. OldHandles'
  BY DEF OldHandles
<1>4. Attached' /\ Watchers' /\ RemovedMeansGone' /\ IntendedStopSilent'
  BY DEF Attached, Reg!HeldFor, Reg!Holds, Watchers, RemovedMeansGone, Gone, IntendedStopSilent
<1> QED  BY <1>1, <1>2, <1>3, <1>4

\* A new process takes a handle that nobody knows.
LEMMA LaunchPreserves ==
  ASSUME TypeOK, Control, Handles, RegistryInv, NEW t \in Services \cup Tasks, Launch(t)
  PROVE  Handles'
<1> USE ThreadAssumption DEF Handles, Threads, HoldsNew, HoldsOld
<1> DEFINE f == Fresh
<1>f. f \in Procs /\ proc[f] = "unborn"
  BY DEF Launch, Fresh
<1>s. svc[t] \in Services
  BY DEF Launch, At, Control
<1>1. /\ proc' = [proc EXCEPT ![f] = "alive"]
      /\ owner' = [owner EXCEPT ![f] = svc[t]]
      /\ cur' = [cur EXCEPT ![t] = f]
      /\ pc' = [pc EXCEPT ![t] = "await"]
      /\ UNCHANGED <<regVars, svc, watcher>>
  BY DEF Launch, Goto
<1> HIDE DEF f
<1>2. life[f] = "fresh"
  BY <1>f DEF Watchers
<1>3. NewHandles'
  BY <1>f, <1>s, <1>1, <1>2, HandleTypes DEF NewHandles
<1>4. NewHandlesDistinct'
  <2>1. \A u \in Services \cup Tasks : HoldsNew(u) => cur[u] # f
    BY <1>f DEF NewHandles
  <2> QED  BY <2>1, <1>1, HandleTypes DEF NewHandlesDistinct
<1>5. OldHandles'
  BY <1>f, <1>1, <1>2, HandleTypes DEF OldHandles
<1>6. Attached'
  <2>1. \A s \in Services : ~Reg!HeldFor(s, f)
    BY <1>2, <1>f, RegistryFacts
  <2> QED  BY <2>1, <1>1, <1>f, HandleTypes DEF Attached, Reg!HeldFor, Reg!Holds
<1>7. Watchers'
  BY <1>f, <1>s, <1>1, <1>2, HandleTypes DEF Watchers
<1>8. RemovedMeansGone' /\ IntendedStopSilent'
  BY <1>f, <1>1, <1>2, HandleTypes DEF RemovedMeansGone, IntendedStopSilent, Gone
<1> QED  BY <1>3, <1>4, <1>5, <1>6, <1>7, <1>8

\* A process that is not registered is terminated.
LEMMA NotReadyPreserves ==
  ASSUME TypeOK, Control, Handles, RegistryInv, NEW t \in Services \cup Tasks, NotReady(t)
  PROVE  Handles'
<1> USE ThreadAssumption DEF Handles, Threads, HoldsNew, HoldsOld
<1> DEFINE p == cur[t]
<1>p. p \in Procs /\ life[p] = "fresh" /\ HoldsNew(t)
  BY DEF NotReady, At, NewHandles
<1>1. /\ \A q \in Procs : q # p => proc'[q] = proc[q]
      /\ proc'[p] = IF proc[p] = "alive" THEN "signalled" ELSE proc[p]
      /\ pc' = [pc EXCEPT ![t] = "abort"]
      /\ UNCHANGED <<regVars, svc, cur, owner, watcher>>
  BY <1>p, HandleTypes DEF NotReady, Goto, Terminate
<1>2. \A u \in Services \cup Tasks : u # t /\ HoldsNew(u) => cur[u] # p
  BY <1>p DEF NewHandlesDistinct
<1> HIDE DEF p
<1>3. NewHandles'
  BY <1>p, <1>1, <1>2, HandleTypes DEF NewHandles, p
<1>4. NewHandlesDistinct'
  BY <1>p, <1>1, HandleTypes DEF NewHandlesDistinct
<1>5. OldHandles'
  BY <1>1, HandleTypes DEF OldHandles
<1>6. Attached'
  <2>1. \A s \in Services : ~Reg!HeldFor(s, p)
    BY <1>p, RegistryFacts
  <2> QED  BY <2>1, <1>1 DEF Attached, Reg!HeldFor, Reg!Holds
<1>7. Watchers'
  BY <1>p, <1>1 DEF Watchers
<1>8. RemovedMeansGone' /\ IntendedStopSilent'
  BY <1>p, <1>1 DEF RemovedMeansGone, IntendedStopSilent, Gone
<1> QED  BY <1>3, <1>4, <1>5, <1>6, <1>7, <1>8

\* Registration: the handle is no longer new, and gets its exit watcher.
LEMMA AddPreserves ==
  ASSUME TypeOK, Control, Handles, RegistryInv, NEW t \in Services \cup Tasks, AddProcess(t)
  PROVE  Handles'
<1> USE ThreadAssumption DEF Handles, Threads, HoldsNew, HoldsOld
<1> DEFINE p == cur[t]  s == svc[t]
<1>p. /\ p \in Procs /\ life[p] = "fresh" /\ HoldsNew(t) /\ s \in Services
      /\ owner[p] = s /\ proc[p] \in {"alive", "exited"}
  BY DEF AddProcess, At, NewHandles, Control
<1>1. /\ watcher' = [watcher EXCEPT ![p] = "waiting"]
      /\ pc' = [pc EXCEPT ![t] = Unwind(t)] /\ Unwind(t) \in {"release", "unlock"}
      /\ UNCHANGED <<svc, cur, proc, owner>>
  BY DEF AddProcess, Goto, Unwind
<1>2. \A q \in Procs : life'[q] = IF q = p THEN "tracked"
                                   ELSE IF Reg!HeldFor(s, q) THEN "lost" ELSE life[q]
  BY <1>p DEF AddProcess, Reg!Add
<1>3. \A u \in Services \cup Tasks : u # t /\ HoldsNew(u) => cur[u] # p
  BY <1>p DEF NewHandlesDistinct
<1>4. \A u \in Services, q \in Procs : Reg!HeldFor(u, q) => life[q] = "tracked"
  BY RegistryFacts
<1>5. \A u \in Services, q \in Procs :
        /\ Reg!HeldFor(u, q)' => Reg!HeldFor(u, q) \/ (u = s /\ q = p)
        /\ Reg!Holds(processes, u, q)' => Reg!Holds(processes, u, q) \/ (u = s /\ q = p)
  <2>1. /\ processes' = [processes EXCEPT ![s] = [proc |-> p, order |-> nextOrder]]
        /\ detached' = [detached EXCEPT ![s] = None]
    BY DEF AddProcess, Reg!Add
  <2> QED  BY <2>1, <1>p DEF TypeOK, Reg!TypeOK, Reg!HeldFor, Reg!Holds
<1> HIDE DEF p, s
<1>6. NewHandles'
  BY <1>1, <1>2, <1>3, <1>4, <1>p, HandleTypes DEF NewHandles
<1>7. NewHandlesDistinct'
  BY <1>1, HandleTypes DEF NewHandlesDistinct
<1>8. OldHandles'
  BY <1>1, <1>2, HandleTypes DEF OldHandles
<1>9. Attached'
  BY <1>1, <1>5, <1>p DEF Attached
<1>10. Watchers'
  BY <1>1, <1>2, <1>4, <1>p, HandleTypes DEF Watchers
<1>11. RemovedMeansGone' /\ IntendedStopSilent'
  BY <1>1, <1>2, <1>p, HandleTypes DEF RemovedMeansGone, IntendedStopSilent, Gone
<1> QED  BY <1>6, <1>7, <1>8, <1>9, <1>10, <1>11

\* Get returns a process that is registered for the service.
LEMMA GetFacts ==
  ASSUME TypeOK, Attached, RegistryInv, NEW s \in Services, Reg!Exists(s)
  PROVE  /\ Reg!Get(s).proc \in Procs /\ life[Reg!Get(s).proc] = "tracked"
         /\ owner[Reg!Get(s).proc] = s
<1> DEFINE e == Reg!Get(s)
<1>1. e \in Reg!Entry /\ (processes[s] = e \/ detached[s] = e) /\ e # None
  BY DEF TypeOK, Reg!TypeOK, Reg!Exists, Reg!Get
<1>2. e.proc \in Procs /\ Reg!HeldFor(s, e.proc)
  BY <1>1 DEF Reg!Entry, Reg!HeldFor, Reg!Holds
<1> QED  BY <1>2, RegistryFacts DEF Attached

\* A goroutine that looks a service up to stop it gets a registered process.
LEMMA LookupPreserves ==
  ASSUME TypeOK, Control, Handles, RegistryInv, NEW t \in Tasks \cup {Main},
         (t \in Tasks /\ RestartLookup(t)) \/ (t = Main /\ StopLookup)
  PROVE  Handles'
<1> USE ThreadAssumption DEF Handles, Threads, HoldsNew, HoldsOld
<1>1. /\ svc[t] \in Services /\ pc[t] = "lookup"
      /\ UNCHANGED <<regVars, procVars, svc>>
  BY DEF RestartLookup, StopLookup, At, Control, StopPCs
<1>2. CASE Reg!Exists(svc[t])
  <2> DEFINE p == Reg!Get(svc[t]).proc
  <2>1. p \in Procs /\ life[p] = "tracked" /\ owner[p] = svc[t]
    BY <1>1, <1>2, GetFacts
  <2>2. /\ cur' = [cur EXCEPT ![t] = p]
        /\ \E l \in {"detach", "announce"} : pc' = [pc EXCEPT ![t] = l]
    BY <1>2 DEF RestartLookup, StopLookup, Goto
  <2> HIDE DEF p
  <2>3. NewHandles' /\ NewHandlesDistinct'
    BY <1>1, <2>2, HandleTypes DEF NewHandles, NewHandlesDistinct
  <2>4. OldHandles'
    BY <1>1, <2>1, <2>2, HandleTypes DEF OldHandles
  <2>5. Attached' /\ Watchers' /\ RemovedMeansGone' /\ IntendedStopSilent'
    BY <1>1 DEF Attached, Reg!HeldFor, Reg!Holds, Watchers, RemovedMeansGone, Gone,
       IntendedStopSilent
  <2> QED  BY <2>3, <2>4, <2>5
<1>3. CASE ~Reg!Exists(svc[t])
  <2>1. UNCHANGED cur /\ \E l \in {"launch", "select", "shutdown"} : pc' = [pc EXCEPT ![t] = l]
    BY <1>3 DEF RestartLookup, StopLookup, Goto, StopReturns
  <2>2. HandlesKept
    BY <1>1, <2>1, HandleTypes DEF HandlesKept
  <2> QED  BY <2>2, KeptPreserves
<1> QED  BY <1>2, <1>3

\* Detach and Terminate: the service has no attached process any more, so none
\* that is attached is terminated.
LEMMA DetachAndTerminatePreserves ==
  ASSUME TypeOK, Control, Handles, RegistryInv, NEW t \in Tasks \cup {Main}, DetachAndTerminate(t)
  PROVE  Handles'
<1> USE ThreadAssumption DEF Handles, Threads, HoldsNew, HoldsOld
<1> DEFINE p == cur[t]  s == svc[t]
<1>p. p \in Procs /\ life[p] # "fresh" /\ owner[p] = s /\ s \in Services /\ pc[t] = "detach"
  BY DEF DetachAndTerminate, At, OldHandles, Control, StopPCs
<1>1. /\ \A q \in Procs : q # p => proc'[q] = proc[q]
      /\ proc'[p] = IF proc[p] = "alive" THEN "signalled" ELSE proc[p]
      /\ pc' = [pc EXCEPT ![t] = "reap"]
      /\ UNCHANGED <<svc, cur, owner, watcher>>
  BY <1>p, HandleTypes DEF DetachAndTerminate, Goto, Terminate
<1>2. /\ life' = life
      /\ \A u \in Services, q \in Procs :
           /\ Reg!HeldFor(u, q)' => Reg!HeldFor(u, q)
           /\ Reg!Holds(processes, u, q)' => u # s /\ Reg!Holds(processes, u, q)
  BY <1>p, RegistryFacts, DetachFacts DEF DetachAndTerminate
<1>3. \A u \in Services : u # s => ~Reg!Holds(processes, u, p)
  BY <1>p DEF Attached, Reg!HeldFor
<1> HIDE DEF p, s
<1>4. NewHandles'
  BY <1>p, <1>1, <1>2, HandleTypes DEF NewHandles
<1>5. NewHandlesDistinct'
  BY <1>p, <1>1, HandleTypes DEF NewHandlesDistinct
<1>6. OldHandles'
  BY <1>p, <1>1, <1>2, HandleTypes DEF OldHandles
<1>7. Attached'
  BY <1>p, <1>1, <1>2, <1>3 DEF Attached
<1>8. Watchers'
  BY <1>p, <1>1, <1>2 DEF Watchers
<1>9. RemovedMeansGone' /\ IntendedStopSilent'
  BY <1>p, <1>1, <1>2 DEF RemovedMeansGone, IntendedStopSilent, Gone
<1> QED  BY <1>4, <1>5, <1>6, <1>7, <1>8, <1>9

\* A Remove of a process that is gone; its exit watcher, if it is the one to
\* call, reports only an attached process.
LEMMA RemovePreserves ==
  ASSUME TypeOK, Control, Handles, RegistryInv, NEW s \in Services, NEW p \in Procs,
         Reg!Remove(s, p), Gone(p), life[p] # "fresh",
         UNCHANGED <<svc, cur, proc, owner>>,
         NEW w \in {"waiting", "reporting", "done"},
         UNCHANGED watcher
           \/ (watcher' = [watcher EXCEPT ![p] = w] /\ (w = "reporting" => proc[p] = "exited")),
         \A t \in Services \cup Tasks :
           HoldsNew(t)' => HoldsNew(t) /\ (pc[t] = "abort" => pc'[t] = "abort"),
         \A t \in Tasks \cup {Main} : HoldsOld(t)' => HoldsOld(t)
  PROVE  Handles'
<1> USE DEF Handles
<1>1. /\ life' = life \/ (Reg!HeldFor(s, p) /\ life' = [life EXCEPT ![p] = "removed"])
      /\ \A u \in Services, q \in Procs :
           /\ Reg!HeldFor(u, q)' => Reg!HeldFor(u, q)
           /\ Reg!Holds(processes, u, q)' => Reg!Holds(processes, u, q)
  BY RegistryFacts, RemoveFacts
<1>2. \A q \in Procs : /\ life'[q] = "fresh" <=> life[q] = "fresh"
                       /\ life'[q] = "removed" => q = p \/ life[q] = "removed"
  BY <1>1, HandleTypes
<1>3. NewHandles'
  BY <1>2 DEF NewHandles, HoldsNew
<1>4. NewHandlesDistinct'
  BY DEF NewHandlesDistinct
<1>5. OldHandles'
  BY <1>2 DEF OldHandles
<1>6. Attached'
  BY <1>1 DEF Attached
<1>7. Watchers'
  BY <1>2, HandleTypes DEF Watchers
<1>8. RemovedMeansGone'
  BY <1>2 DEF RemovedMeansGone, Gone
<1>9. IntendedStopSilent'
  BY HandleTypes DEF IntendedStopSilent
<1> QED  BY <1>3, <1>4, <1>5, <1>6, <1>7, <1>8, <1>9

\* doStop removes the process it waited for.
LEMMA ReapPreserves ==
  ASSUME TypeOK, Control, Handles, RegistryInv, NEW t \in Tasks \cup {Main}, Reap(t)
  PROVE  Handles'
<1>1. /\ cur[t] \in Procs /\ life[cur[t]] # "fresh" /\ svc[t] \in Services /\ pc[t] = "reap"
      /\ Gone(cur[t]) /\ Reg!Remove(svc[t], cur[t])
      /\ \E l \in {"report", "launch"} : pc' = [pc EXCEPT ![t] = l]
      /\ UNCHANGED <<svc, cur, proc, owner, watcher>>
  BY DEF Reap, At, Goto, Handles, OldHandles, HoldsOld, Control, StopPCs
<1>2. /\ \A u \in Services \cup Tasks :
           HoldsNew(u)' => HoldsNew(u) /\ (pc[u] = "abort" => pc'[u] = "abort")
      /\ \A u \in Tasks \cup {Main} : HoldsOld(u)' => HoldsOld(u)
  BY <1>1, HandleTypes, ThreadAssumption DEF HoldsNew, HoldsOld, Threads
<1> QED  BY <1>1, <1>2, RemovePreserves

\* The exit watcher removes its process and reports it if it was attached.
LEMMA SeeExitPreserves ==
  ASSUME TypeOK, Control, Handles, RegistryInv, NEW p \in Procs, SeeExit(p)
  PROVE  Handles'
<1>1. /\ owner[p] \in Services /\ life[p] # "fresh" /\ Gone(p) /\ Reg!Remove(owner[p], p)
      /\ UNCHANGED <<pc, svc, cur, proc, owner>>
  BY DEF SeeExit, Handles, Watchers
<1> DEFINE w == IF Reg!Unexpected(owner[p], p) THEN "reporting" ELSE "done"
<1>2. watcher' = [watcher EXCEPT ![p] = w] /\ w \in {"waiting", "reporting", "done"}
  BY DEF SeeExit
<1>3. w = "reporting" => proc[p] = "exited"
  BY <1>1 DEF Reg!Unexpected, Handles, Attached, Gone
<1> HIDE DEF w
<1>4. /\ \A u \in Services \cup Tasks :
           HoldsNew(u)' => HoldsNew(u) /\ (pc[u] = "abort" => pc'[u] = "abort")
      /\ \A u \in Tasks \cup {Main} : HoldsOld(u)' => HoldsOld(u)
  BY <1>1 DEF HoldsNew, HoldsOld
<1> QED  BY <1>1, <1>2, <1>3, <1>4, RemovePreserves

\* A reported exit is done with.
LEMMA ReportExitPreserves ==
  ASSUME TypeOK, Handles, NEW p \in Procs, ReportExit(p)
  PROVE  Handles'
<1> USE DEF Handles
<1>1. /\ watcher[p] = "reporting" /\ watcher' = [watcher EXCEPT ![p] = "done"]
      /\ UNCHANGED <<regVars, threadVars, proc, owner>>
  BY DEF ReportExit
<1>2. NewHandles' /\ NewHandlesDistinct' /\ OldHandles'
  BY <1>1 DEF NewHandles, NewHandlesDistinct, OldHandles, HoldsNew, HoldsOld
<1>3. Attached' /\ RemovedMeansGone'
  BY <1>1 DEF Attached, Reg!HeldFor, Reg!Holds, RemovedMeansGone, Gone
<1>4. Watchers' /\ IntendedStopSilent'
  BY <1>1, HandleTypes DEF Watchers, IntendedStopSilent
<1> QED  BY <1>2, <1>3, <1>4

\* A process dies: by itself, or because it was terminated.
LEMMA DiePreserves ==
  ASSUME TypeOK, Handles, NEW p \in Procs, Die(p)
  PROVE  Handles'
<1> USE DEF Handles
<1>1. /\ proc[p] \in {"alive", "signalled"}
      /\ proc' = [proc EXCEPT ![p] = IF proc[p] = "alive" THEN "exited" ELSE "killed"]
      /\ UNCHANGED <<regVars, threadVars, owner, watcher>>
  BY DEF Die
<1>2. NewHandles' /\ NewHandlesDistinct' /\ OldHandles'
  BY <1>1, HandleTypes DEF NewHandles, NewHandlesDistinct, OldHandles, HoldsNew, HoldsOld
<1>3. Attached'
  BY <1>1, HandleTypes DEF Attached, Reg!HeldFor, Reg!Holds
<1>4. Watchers' /\ IntendedStopSilent' /\ RemovedMeansGone'
  BY <1>1, HandleTypes DEF Watchers, IntendedStopSilent, RemovedMeansGone, Gone
<1> QED  BY <1>2, <1>3, <1>4

\* Shutdown detaches an entry of its snapshot.
LEMMA DetachNextPreserves ==
  ASSUME TypeOK, Handles, RegistryInv, NEW e \in undetached, DetachNext(e)
  PROVE  Handles'
<1> USE DEF Handles
<1>1. e.id \in Services /\ Reg!Detach(e.id) /\ UNCHANGED <<threadVars, procVars>>
  BY DEF DetachNext, TypeOK, Entries
<1>2. /\ life' = life
      /\ \A u \in Services, q \in Procs :
           /\ Reg!HeldFor(u, q)' => Reg!HeldFor(u, q)
           /\ Reg!Holds(processes, u, q)' => Reg!Holds(processes, u, q)
  BY <1>1, RegistryFacts, DetachFacts
<1>3. NewHandles' /\ NewHandlesDistinct' /\ OldHandles'
  BY <1>1, <1>2 DEF NewHandles, NewHandlesDistinct, OldHandles, HoldsNew, HoldsOld
<1>4. Attached'
  BY <1>1, <1>2 DEF Attached
<1>5. Watchers' /\ IntendedStopSilent' /\ RemovedMeansGone'
  BY <1>1, <1>2 DEF Watchers, IntendedStopSilent, RemovedMeansGone, Gone
<1> QED  BY <1>3, <1>4, <1>5

\* Every step preserves what is known of the handles.
LEMMA HandlesPreserved ==
  ASSUME TypeOK, Control, Handles, RegistryInv, Next
  PROVE  Handles'
<1>1. ASSUME NEW t \in Services \cup Tasks, Launch(t) \/ NotReady(t) \/ AddProcess(t)
      PROVE  Handles'
  BY <1>1, LaunchPreserves, NotReadyPreserves, AddPreserves
<1>2. ASSUME NEW t \in Tasks, RestartLookup(t) PROVE Handles'
  BY <1>2, LookupPreserves
<1>3. CASE StopLookup
  BY <1>3, LookupPreserves
<1>4. ASSUME NEW t \in Tasks \cup {Main}, StopStep(t) PROVE Handles'
  BY <1>4, DetachAndTerminatePreserves, ReapPreserves DEF StopStep
<1>5. ASSUME NEW e \in undetached, DetachNext(e) PROVE Handles'
  BY <1>5, DetachNextPreserves
<1>6. ASSUME NEW p \in Procs, SeeExit(p) \/ ReportExit(p) \/ Die(p) PROVE Handles'
  BY <1>6, SeeExitPreserves, ReportExitPreserves, DiePreserves
<1>7. CASE HandlesKept
  BY <1>7, KeptPreserves
<1> QED  BY <1>1, <1>2, <1>3, <1>4, <1>5, <1>6, <1>7, HandlesFrame DEF TouchesHandles

-----------------------------------------------------------------------------
(* Types *)

\* A published event is one of the statuses, and only services are watched.
LEMMA PublishTypes ==
  ASSUME TypeOK, NEW s \in Services, NEW st \in Statuses, Publish(s, st)
  PROVE  status' \in [Services -> Statuses] /\ watching' \subseteq Services
  BY DEF TypeOK, Publish

\* Only services fail to start.
LEMMA NoteFailureTypes ==
  ASSUME TypeOK, NEW t, NoteFailure(t)
  PROVE  failed' \subseteq Services /\ UNCHANGED <<tier, tierOpen, announced>>
  BY DEF TypeOK, NoteFailure

\* SnapshotReverse returns entries.
LEMMA SnapshotTypes == TypeOK => Reg!Snapshot \subseteq Entries
  BY DEF TypeOK, Reg!TypeOK, Reg!Snapshot, Reg!Entry, Entries

\* The types of the goroutines' variables.
ThreadTypes ==
  /\ pc \in [Threads -> MainPCs \cup WorkPCs]
  /\ op \in [Threads -> {"start", "resume", "restart", "stop", "shutdown", "none"}]
  /\ svc \in [Threads -> Services \cup {None}]
  /\ cur \in [Threads -> Procs \cup {None}]
  /\ attempt \in [Threads -> Nat]

\* Of the variables that Main and the clients share.
MainTypes ==
  /\ phase \in {"startup", "running", "stopping", "stopped"}
  /\ cancelled \in BOOLEAN /\ signal \in BOOLEAN
  /\ queue \in Seq(Commands) /\ sent \in Nat
  /\ snapshot \subseteq Entries /\ undetached \subseteq Entries /\ plan \subseteq Entries

\* And of what goroutines publish and hold.
SharedTypes ==
  /\ failed \subseteq Services /\ announced \subseteq 1..NumTiers
  /\ guard \subseteq Services
  /\ proc \in [Procs -> {"unborn", "alive", "signalled", "exited", "killed"}]
  /\ owner \in [Procs -> Services \cup {None}]
  /\ watcher \in [Procs -> {"none", "waiting", "reporting", "done"}]
  /\ status \in [Services -> Statuses] /\ watching \subseteq Services

\* Every step keeps the goroutines' variables well typed.
LEMMA ThreadTypesPreserved ==
  ASSUME TypeOK, Control, Handles, RegistryInv, Next
  PROVE  ThreadTypes'
<1> USE ThreadAssumption DEF ThreadTypes, Control, Threads, At, Goto, Unwind, ServicePCs, MainPCs,
                             WorkPCs, StopPCs
<1>p. ThreadTypes
  BY DEF TypeOK
<1>1. ASSUME NEW t \in Services \cup Tasks, ServiceStep(t) PROVE ThreadTypes'
  <2>1. CASE Launch(t)
    <3>1. Fresh \in Procs
      BY <2>1 DEF Launch, Fresh
    <3> QED  BY <2>1, <3>1, <1>p DEF Launch
  <2>2. CASE LaunchFails(t) \/ Abort(t)
    BY <2>2, <1>p DEF LaunchFails, Abort, AttemptFailed
  <2>3. CASE ~Launch(t) /\ ~(LaunchFails(t) \/ Abort(t))
    BY <1>1, <2>3, <1>p DEF ServiceStep, Acquire, AcquireCancelled, Release, Ready, NotReady,
       Backoff, BackoffCancelled, AddProcess
  <2> QED  BY <2>1, <2>2, <2>3
<1>2. ASSUME NEW t \in Tasks, TaskStep(t) \/ StopStep(t) PROVE ThreadTypes'
  <2>1. CASE RestartLookup(t)
    <3>1. Reg!Exists(svc[t]) => Reg!Get(svc[t]).proc \in Procs
      BY <2>1, GetFacts DEF RestartLookup, Handles
    <3> QED  BY <2>1, <3>1, <1>p DEF RestartLookup
  <2>2. CASE ~RestartLookup(t)
    BY <1>2, <2>2, <1>p DEF TaskStep, Lock, LockBusy, Unlock, ResumeLookup,
       StopStep, DetachAndTerminate, Reap
  <2> QED  BY <2>1, <2>2
<1>3. CASE MainStep
  <2>1. CASE StartupComplete \/ TakeSignal \/ SeeCancelled \/ TakeStopAll \/ IgnoreWatch
    BY <2>1, <1>p DEF StartupComplete, TakeSignal, SeeCancelled, TakeStopAll, IgnoreWatch,
       BeginShutdown
  <2>2. CASE TakeStop
    BY <2>2, <1>p, ControlPreserved DEF TakeStop
  <2>3. CASE TakeStart \/ TakeRestart \/ TakeWatch
    <3>1. PICK o \in {"resume", "restart"} :
            Spawn(o) /\ queue # <<>> /\ Head(queue).cmd # "stopall"
      BY <2>3 DEF TakeStart, TakeRestart, TakeWatch, Receives
    <3>2. UNCHANGED <<cur, attempt>>
      BY <3>1 DEF Spawn
    <3>3. PICK u \in Tasks, s \in Services :
            /\ pc' = [pc EXCEPT ![u] = "acquire"] /\ op' = [op EXCEPT ![u] = o]
            /\ svc' = [svc EXCEPT ![u] = s]
      BY <3>1, SpawnStep
    <3> QED  BY <3>2, <3>3, <1>p
  <2>4. CASE StopLookup
    <3>1. Reg!Exists(svc[Main]) => Reg!Get(svc[Main]).proc \in Procs
      BY <2>4, GetFacts DEF StopLookup, Handles
    <3> QED  BY <2>4, <3>1, <1>p DEF StopLookup, StopReturns
  <2>5. CASE AnnounceStopping \/ ReportStopped \/ Drain \/ TakeSnapshot \/ ShutdownDone
             \/ StopStep(Main)
    BY <2>5, <1>p DEF AnnounceStopping, ReportStopped, StopReturns, Drain, TakeSnapshot,
       ShutdownDone, StopStep, DetachAndTerminate, Reap
  <2>6. ASSUME NEW e \in undetached, DetachNext(e) PROVE ThreadTypes'
    BY <2>6, <1>p DEF DetachNext
  <2>7. ASSUME NEW e \in plan, StopNext(e) PROVE ThreadTypes'
    <3>1. e.id \in Services
      BY DEF TypeOK, Entries
    <3> QED  BY <2>7, <3>1, <1>p DEF StopNext
  <2> QED  BY <1>3, <2>1, <2>2, <2>3, <2>4, <2>5, <2>6, <2>7 DEF MainStep
<1>4. CASE StartTier \/ EndTier
  BY <1>4, <1>p DEF StartTier, EndTier
<1>5. ASSUME NEW p \in Procs, SeeExit(p) \/ ReportExit(p) PROVE ThreadTypes'
  BY <1>5, <1>p DEF SeeExit, ReportExit
<1>6. CASE Environment
  BY <1>6, <1>p, EnvironmentFrame
<1>7. CASE Finished
  BY <1>7, <1>p DEF Finished, vars
<1> QED  BY <1>1, <1>2, <1>3, <1>4, <1>5, <1>6, <1>7 DEF Next

\* Every step keeps Main's variables and the queue well typed.
LEMMA MainTypesPreserved ==
  ASSUME TypeOK, Control, Next
  PROVE  MainTypes'
<1> USE DEF MainTypes
<1>p. MainTypes
  BY DEF TypeOK
<1>1. ASSUME NEW t \in Services \cup Tasks, ServiceStep(t) PROVE MainTypes'
  BY <1>1, <1>p DEF ServiceStep, Acquire, AcquireCancelled, Release, Launch, LaunchFails, Ready,
     NotReady, Abort, Backoff, BackoffCancelled, AddProcess
<1>2. ASSUME NEW t \in Tasks, TaskStep(t) \/ StopStep(t) PROVE MainTypes'
  BY <1>2, <1>p DEF TaskStep, Lock, LockBusy, Unlock, RestartLookup, ResumeLookup,
     StopStep, DetachAndTerminate, Reap
<1>3. CASE MainStep
  <2>0. CASE StartupComplete
    BY <2>0, <1>p DEF StartupComplete
  <2>1. CASE TakeSignal \/ SeeCancelled \/ TakeStopAll
    <3>1. BeginShutdown
      BY <2>1 DEF TakeSignal, SeeCancelled, TakeStopAll
    <3>2. /\ cancelled' = TRUE /\ queue' = <<>> /\ signal' = FALSE /\ sent' = 0
          /\ UNCHANGED phase \/ phase' = "stopping"
          /\ UNCHANGED <<snapshot, undetached, plan>>
      BY <3>1 DEF BeginShutdown
    <3>3. <<>> \in Seq(Commands)
      OBVIOUS
    <3>4. phase' \in {"startup", "running", "stopping", "stopped"} /\ signal' \in BOOLEAN
      BY <3>1, <3>2, <1>p
    <3> QED  BY <3>2, <3>3, <3>4, <1>p
  <2>2. CASE TakeStop \/ IgnoreWatch
    BY <2>2, <1>p DEF TakeStop, IgnoreWatch, Receives
  <2>3. CASE TakeStart \/ TakeRestart \/ TakeWatch
    BY <2>3, <1>p DEF TakeStart, TakeRestart, TakeWatch, Receives, Spawn
  <2>4. CASE TakeSnapshot
    BY <2>4, <1>p, SnapshotTypes DEF TakeSnapshot
  <2>5. CASE StopLookup \/ AnnounceStopping \/ ReportStopped \/ Drain \/ ShutdownDone
             \/ StopStep(Main)
    BY <2>5, <1>p DEF StopLookup, AnnounceStopping, ReportStopped, Drain, ShutdownDone, StopStep,
       DetachAndTerminate, Reap
  <2>6. ASSUME NEW e \in undetached, DetachNext(e) PROVE MainTypes'
    BY <2>6, <1>p DEF DetachNext
  <2>7. ASSUME NEW e \in plan, StopNext(e) PROVE MainTypes'
    BY <2>7, <1>p DEF StopNext
  <2> QED  BY <1>3, <2>0, <2>1, <2>2, <2>3, <2>4, <2>5, <2>6, <2>7 DEF MainStep
<1>4. CASE StartTier \/ EndTier
  BY <1>4, <1>p DEF StartTier, EndTier
<1>5. ASSUME NEW p \in Procs, SeeExit(p) \/ ReportExit(p) PROVE MainTypes'
  BY <1>5, <1>p DEF SeeExit, ReportExit
<1>6. CASE Environment
  <2>1. ASSUME NEW c \in {"start", "stop", "restart"}, NEW s \in Services, Request(c, s)
        PROVE  MainTypes'
    <3>1. [cmd |-> c, id |-> s] \in Commands
      BY DEF Commands
    <3> QED  BY <2>1, <3>1, <1>p DEF Request
  <2>2. ASSUME NEW s \in Services, FileChange(s) PROVE MainTypes'
    <3>1. [cmd |-> "watch", id |-> s] \in Commands
      BY DEF Commands
    <3> QED  BY <2>2, <3>1, <1>p DEF FileChange
  <2>3. CASE QuitKey
    <3>1. [cmd |-> "stopall"] \in Commands
      BY DEF Commands
    <3>2. Cardinality(Tasks) \in Nat
      BY ThreadAssumption, FS_CardinalityType
    <3> QED  BY <2>3, <3>1, <3>2, <1>p DEF QuitKey
  <2>4. CASE SendSignal \/ ParentCancel
    BY <2>4, <1>p DEF SendSignal, ParentCancel
  <2>5. ASSUME NEW p \in Procs, Die(p) PROVE MainTypes'
    BY <2>5, <1>p DEF Die
  <2> QED  BY <1>6, <2>1, <2>2, <2>3, <2>4, <2>5 DEF Environment
<1>7. CASE Finished
  BY <1>7, <1>p DEF Finished, vars
<1> QED  BY <1>1, <1>2, <1>3, <1>4, <1>5, <1>6, <1>7 DEF Next

\* Every step keeps the shared variables well typed.
LEMMA SharedTypesPreserved ==
  ASSUME TypeOK, Control, Tiers, Handles, Next
  PROVE  SharedTypes'
<1> USE DEF SharedTypes, Control, At
<1>p. SharedTypes
  BY DEF TypeOK
<1>q. ASSUME UNCHANGED <<failed, announced, guard, procVars, pubVars>> PROVE SharedTypes'
  BY <1>p, <1>q
<1>s. {"starting", "running", "failed", "stopping", "stopped", "restarting"} \subseteq Statuses
  BY DEF Statuses
<1>1. ASSUME NEW t \in Services \cup Tasks, ServiceStep(t), pc[t] # "idle", svc[t] \in Services
      PROVE  SharedTypes'
  <2>1. CASE AcquireCancelled(t)
    <3>1. UNCHANGED pubVars
            \/ (status' \in [Services -> Statuses] /\ watching' \subseteq Services)
      BY <2>1, <1>s, PublishTypes DEF AcquireCancelled
    <3>2. failed' \subseteq Services /\ UNCHANGED <<announced, guard, procVars>>
      BY <2>1, NoteFailureTypes DEF AcquireCancelled
    <3> QED  BY <3>1, <3>2, <1>p
  <2>2. CASE Launch(t)
    <3>1. Fresh \in Procs
      BY <2>2 DEF Launch, Fresh
    <3> QED  BY <1>1, <2>2, <3>1, <1>p, <1>s DEF Launch, Publish
  <2>3. CASE LaunchFails(t) \/ Abort(t)
    <3>1. AttemptFailed(t) /\ UNCHANGED <<guard, procVars>>
      BY <2>3 DEF LaunchFails, Abort
    <3>2. UNCHANGED pubVars
            \/ (status' \in [Services -> Statuses] /\ watching' \subseteq Services)
      BY <1>1, <3>1, <1>s, PublishTypes DEF AttemptFailed
    <3>3. failed' \subseteq Services /\ UNCHANGED announced
      BY <3>1, <1>p, NoteFailureTypes DEF AttemptFailed
    <3> QED  BY <3>1, <3>2, <3>3, <1>p
  <2>4. CASE BackoffCancelled(t)
    BY <2>4, <1>p, NoteFailureTypes DEF BackoffCancelled
  <2>5. CASE NotReady(t) \/ AddProcess(t)
    <3>1. proc' \in [Procs -> {"unborn", "alive", "signalled", "exited", "killed"}]
      BY <2>5, <1>p DEF NotReady, AddProcess, Terminate
    <3>2. watcher' \in [Procs -> {"none", "waiting", "reporting", "done"}]
      BY <2>5, <1>p DEF NotReady, AddProcess
    <3>3. UNCHANGED <<failed, announced, guard, owner, pubVars>>
      BY <2>5 DEF NotReady, AddProcess
    <3> QED  BY <3>1, <3>2, <3>3, <1>p
  <2>6. CASE Acquire(t) \/ Release(t) \/ Backoff(t)
    BY <2>6, <1>q DEF Acquire, Release, Backoff
  <2>7. CASE Ready(t)
    <3>1. status' \in [Services -> Statuses] /\ watching' \subseteq Services
      BY <1>1, <1>s, <2>7, PublishTypes DEF Ready
    <3> QED  BY <2>7, <3>1, <1>p DEF Ready
  <2> QED  BY <1>1, <2>1, <2>2, <2>3, <2>4, <2>5, <2>6, <2>7 DEF ServiceStep
<1>2. ASSUME NEW t \in Tasks, TaskStep(t) \/ StopStep(t) PROVE SharedTypes'
  <2>1. CASE Lock(t)
    <3>1. svc[t] \in Services
      BY <2>1 DEF Lock
    <3>2. UNCHANGED pubVars
            \/ (status' \in [Services -> Statuses] /\ watching' \subseteq Services)
      BY <2>1, <3>1, <1>s, PublishTypes DEF Lock
    <3>3. guard' = guard \cup {svc[t]} /\ UNCHANGED <<failed, announced, procVars>>
      BY <2>1 DEF Lock
    <3> QED  BY <3>1, <3>2, <3>3, <1>p
  <2>2. CASE Unlock(t)
    BY <2>2, <1>p DEF Unlock
  <2>3. CASE LockBusy(t) \/ RestartLookup(t) \/ ResumeLookup(t)
    BY <2>3, <1>q DEF LockBusy, RestartLookup, ResumeLookup
  <2>4. CASE StopStep(t)
    <3>1. proc' \in [Procs -> {"unborn", "alive", "signalled", "exited", "killed"}]
      BY <2>4, <1>p DEF StopStep, DetachAndTerminate, Reap, Terminate
    <3>2. UNCHANGED <<failed, announced, guard, owner, watcher, pubVars>>
      BY <2>4 DEF StopStep, DetachAndTerminate, Reap
    <3> QED  BY <3>1, <3>2, <1>p
  <2> QED  BY <1>2, <2>1, <2>2, <2>3, <2>4 DEF TaskStep
<1>3. CASE MainStep
  <2>1. CASE AnnounceStopping \/ ReportStopped
    <3>1. status' \in [Services -> Statuses] /\ watching' \subseteq Services
      BY <2>1, <1>s, PublishTypes DEF AnnounceStopping, ReportStopped, StopPCs
    <3>2. UNCHANGED <<failed, announced, guard, procVars>>
      BY <2>1 DEF AnnounceStopping, ReportStopped
    <3> QED  BY <3>1, <3>2, <1>p
  <2>2. CASE StopStep(Main)
    <3>1. proc' \in [Procs -> {"unborn", "alive", "signalled", "exited", "killed"}]
      BY <2>2, <1>p DEF StopStep, DetachAndTerminate, Reap, Terminate
    <3>2. UNCHANGED <<failed, announced, guard, owner, watcher, pubVars>>
      BY <2>2 DEF StopStep, DetachAndTerminate, Reap
    <3> QED  BY <3>1, <3>2, <1>p
  <2>3. CASE TakeStart \/ TakeRestart \/ TakeWatch
    BY <2>3, <1>q DEF TakeStart, TakeRestart, TakeWatch, Spawn
  <2>4. CASE ~(AnnounceStopping \/ ReportStopped \/ StopStep(Main)
               \/ TakeStart \/ TakeRestart \/ TakeWatch)
    <3>1. UNCHANGED <<failed, announced, guard, procVars, pubVars>>
      BY <1>3, <2>4 DEF MainStep, StartupComplete, TakeSignal, SeeCancelled, TakeStopAll,
         IgnoreWatch, TakeStop, StopLookup, Drain, TakeSnapshot, ShutdownDone, DetachNext,
         StopNext, BeginShutdown
    <3> QED  BY <3>1, <1>q
  <2> QED  BY <2>1, <2>2, <2>3, <2>4
<1>4. CASE StartTier
  BY <1>4, <1>q DEF StartTier
<1>5. CASE EndTier
  BY <1>5, <1>p, TierAssumption DEF EndTier, Tiers
<1>6. ASSUME NEW p \in Procs, SeeExit(p) \/ ReportExit(p) PROVE SharedTypes'
  <2>1. owner[p] \in Services
    BY <1>6 DEF SeeExit, ReportExit, Handles, Watchers
  <2>2. UNCHANGED pubVars
          \/ (status' \in [Services -> Statuses] /\ watching' \subseteq Services)
    BY <1>6, <1>s, <2>1, PublishTypes DEF SeeExit, ReportExit
  <2>3. watcher' \in [Procs -> {"none", "waiting", "reporting", "done"}]
    BY <1>6, <1>p DEF SeeExit, ReportExit
  <2>4. UNCHANGED <<failed, announced, guard, proc, owner>>
    BY <1>6 DEF SeeExit, ReportExit
  <2> QED  BY <2>2, <2>3, <2>4, <1>p
<1>7. CASE Environment
  <2>1. UNCHANGED pubVars
    BY <1>7 DEF Environment, Request, FileChange, QuitKey, SendSignal, ParentCancel, Die
  <2>2. UNCHANGED proc \/ \E p \in Procs : Die(p)
    BY <1>7 DEF Environment, Request, FileChange, QuitKey, SendSignal, ParentCancel
  <2>3. proc' \in [Procs -> {"unborn", "alive", "signalled", "exited", "killed"}]
    BY <2>2, <1>p DEF Die
  <2>4. UNCHANGED <<failed, announced, guard, owner, watcher>>
    BY <1>7, EnvironmentFrame
  <2> QED  BY <2>1, <2>3, <2>4, <1>p
<1>8. CASE Finished
  BY <1>8, <1>q DEF Finished, vars
<1>9. \A t \in Services \cup Tasks : ServiceStep(t) => pc[t] # "idle" /\ svc[t] \in Services
  BY DEF ServiceStep, Acquire, AcquireCancelled, Release, Launch, LaunchFails, Ready, NotReady,
     Abort, Backoff, BackoffCancelled, AddProcess
<1> QED  BY <1>1, <1>2, <1>3, <1>4, <1>5, <1>6, <1>7, <1>8, <1>9 DEF Next

-----------------------------------------------------------------------------
(* The invariant *)

\* The invariant holds initially.
LEMMA InitEstablishes == Init => IInv
<1> SUFFICES ASSUME Init PROVE IInv
  OBVIOUS
<1> USE ThreadAssumption, TierAssumption, LimitAssumption
<1>1. RegistryInv
  BY RegistryInit DEF Init
<1>2. TypeOK
  <2>1. Reg!TypeOK
    BY <1>1, RegistryFacts
  <2>2. ThreadTypes
    BY DEF Init, ThreadTypes, Threads, MainPCs, WorkPCs
  <2>3. MainTypes
    <3>1. <<>> \in Seq(Commands)
      OBVIOUS
    <3> QED  BY <3>1 DEF Init, MainTypes
  <2>4. SharedTypes
    BY DEF Init, SharedTypes, Statuses
  <2>5. tier \in Nat /\ tierOpen \in BOOLEAN /\ sem \in Nat
    BY DEF Init
  <2> QED  BY <2>1, <2>2, <2>3, <2>4, <2>5 DEF TypeOK, ThreadTypes, MainTypes, SharedTypes
<1>3. Control /\ Tiers
  BY DEF Init, Control, Tiers, Threads, MainPCs, WorkPCs, ServicePCs, StopPCs
<1>4. SlotsExact
  <2>1. SlotHolders = {}
    BY DEF Init, SlotHolders, Threads
  <2> QED  BY <2>1, FS_EmptySet DEF Init, SlotsExact
<1>5. GuardExclusive
  BY DEF Init, GuardExclusive, InGuard, Threads
<1>6. Handles
  BY DEF Init, Reg!Init, Handles, NewHandles, NewHandlesDistinct, OldHandles, HoldsNew, HoldsOld,
     Attached, Reg!HeldFor, Reg!Holds, Watchers, RemovedMeansGone, IntendedStopSilent, Threads
<1> QED  BY <1>1, <1>2, <1>3, <1>4, <1>5, <1>6 DEF IInv

\* Every step preserves the invariant.
LEMMA NextPreserves == IInv /\ [Next]_vars => IInv'
<1> SUFFICES ASSUME IInv, [Next]_vars PROVE IInv'
  OBVIOUS
<1>i. TypeOK /\ Control /\ Tiers /\ SlotsExact /\ GuardExclusive /\ Handles /\ RegistryInv
  BY DEF IInv
<1>1. CASE Next
  <2>1. Control' /\ Tiers' /\ SlotsExact' /\ GuardExclusive'
    BY <1>i, <1>1, ControlPreserved, TiersPreserved, SlotsPreserved, GuardPreserved
  <2>2. RegistryInv' /\ Handles'
    BY <1>i, <1>1, RegistryPreserved, HandlesPreserved DEF Handles
  <2>3. TypeOK'
    <3>1. Reg!TypeOK'
      BY <2>2 DEF RegistryInv
    <3>2. ThreadTypes' /\ MainTypes' /\ SharedTypes'
      BY <1>i, <1>1, ThreadTypesPreserved, MainTypesPreserved, SharedTypesPreserved
    <3>3. tier' \in Nat /\ tierOpen' \in BOOLEAN
      <4>1. tierOpen' \in BOOLEAN
        BY <1>i, <1>1, TiersFrame DEF TypeOK, StartTier, EndTier, TiersKept
      <4> QED  BY <2>1, <4>1, TierAssumption DEF Tiers
    <3>4. sem' \in Nat
      <4>1. SlotHolders' \subseteq Services \cup Tasks /\ IsFiniteSet(Services \cup Tasks)
        BY ThreadAssumption, FS_Union DEF SlotHolders
      <4> QED  BY <2>1, <4>1, FS_Subset, FS_CardinalityType DEF SlotsExact
    <3> QED  BY <3>1, <3>2, <3>3, <3>4 DEF TypeOK, ThreadTypes, MainTypes, SharedTypes
  <2> QED  BY <2>1, <2>2, <2>3 DEF IInv
<1>2. CASE UNCHANGED vars
  <2>1. RegistryInv'
    <3>1. [Reg!Next]_(Reg!regVars)
      BY <1>2 DEF vars, Reg!regVars
    <3> QED  BY <3>1, <1>i, RegistryNext
  <2>2. HandlesKept /\ TiersKept /\ HoldersKept /\ GuardKept
    BY <1>2 DEF vars, HandlesKept, TiersKept, HoldersKept, GuardKept, HoldsNew, HoldsOld,
       SlotHolders, InGuard
  <2>3. Handles'
    BY <1>i, <2>2, KeptPreserves
  <2>4. Tiers' /\ SlotsExact' /\ GuardExclusive'
    BY <1>i, <2>2 DEF Tiers, TiersKept, SlotsExact, HoldersKept, GuardExclusive, GuardKept
  <2>5. Control'
    BY <1>i, <1>2 DEF vars, Control
  <2>6. TypeOK'
    BY <1>i, <1>2 DEF vars, TypeOK, Reg!TypeOK
  <2> QED  BY <2>1, <2>3, <2>4, <2>5, <2>6 DEF IInv
<1> QED  BY <1>1, <1>2

\* The inductive invariant holds in every reachable state.
THEOREM OrchestratorInvariant == Spec => []IInv
<1> QED  BY InitEstablishes, NextPreserves, PTL DEF Spec

-----------------------------------------------------------------------------
(* Theorems *)

\* Type correctness; in particular the semaphore is never released below zero
\* and the WaitGroup never goes negative (worker.go:29-40, registry.go:154).
THEOREM OrchestratorTypeOK == Spec => []TypeOK
<1>1. IInv => TypeOK
  BY DEF IInv
<1> QED  BY <1>1, OrchestratorInvariant, PTL

\* However many commands and file changes are handled at once, one service has
\* one restart or start in progress (guard.go, service.go:163, 221).
THEOREM OrchestratorGuard == Spec => []GuardExclusive
<1>1. IInv => GuardExclusive
  BY DEF IInv
<1> QED  BY <1>1, OrchestratorInvariant, PTL

\* The worker slots in use are those of the goroutines that hold one, and they
\* never exceed concurrency.workers (worker.go:29-40).
THEOREM OrchestratorSlots == Spec => []SlotsExact
<1>1. IInv => SlotsExact
  BY DEF IInv
<1> QED  BY <1>1, OrchestratorInvariant, PTL

\* The registry forgets a process only when it is gone (service.go:327, 442).
THEOREM OrchestratorRemoved == Spec => []RemovedMeansGone
<1>1. IInv => RemovedMeansGone
  BY DEF IInv, Handles
<1> QED  BY <1>1, OrchestratorInvariant, PTL

\* A process that was terminated on purpose is never reported as an unexpected
\* exit (service.go:444-447).
THEOREM OrchestratorSilent == Spec => []IntendedStopSilent
<1>1. IInv => IntendedStopSilent
  BY DEF IInv, Handles
<1> QED  BY <1>1, OrchestratorInvariant, PTL

\* No service is launched before the tiers below its own are done
\* (runner.go:335-349).
THEOREM OrchestratorTiers == Spec => []TiersInOrder
<1>1. IInv => TiersInOrder
  BY TierAssumption DEF IInv, Tiers, TiersInOrder, At
<1> QED  BY <1>1, OrchestratorInvariant, PTL

\* The orchestrator uses the registry as the registry's specification says: it
\* registers a handle at most once and changes it in no other way, so all that
\* is proved of the registry holds of it.
THEOREM OrchestratorRegistry == Spec => RegistrySpec
<1>1. Init => Reg!Init
  BY DEF Init
<1>2. IInv /\ [Next]_vars => [Reg!Next]_(Reg!regVars)
  <2> SUFFICES ASSUME IInv, [Next]_vars PROVE [Reg!Next]_(Reg!regVars)
    OBVIOUS
  <2>1. CASE Next
    BY <2>1, RegistryStep DEF IInv, Handles
  <2>2. CASE UNCHANGED vars
    BY <2>2 DEF vars, Reg!regVars
  <2> QED  BY <2>1, <2>2
<1> QED  BY <1>1, <1>2, OrchestratorInvariant, PTL DEF Spec, RegistrySpec, Reg!Spec

\* What is proved of the registry alone holds of it under the orchestrator's
\* goroutines (registry.go:54-169).
THEOREM OrchestratorRegistryConsistent == Spec => []RegistryConsistent
<1>1. IInv => RegistryConsistent
  <2> SUFFICES ASSUME IInv PROVE RegistryConsistent
    OBVIOUS
  <2>1. Reg!OrdersDistinct
    BY OrdersFollow DEF IInv
  <2>2. Reg!OneMapPerService /\ Reg!TrackedExactlyOnce /\ Reg!WaitGroupExact
    BY CountedExactly DEF IInv, RegistryInv
  <2> QED  BY <2>1, <2>2 DEF RegistryConsistent
<1> QED  BY <1>1, OrchestratorInvariant, PTL


-----------------------------------------------------------------------------
(* The tiers of a profile *)

\* Every non-empty set of numbers has a least one: this is what the proofs about
\* the two loops have in place of an induction.
LEMMA LeastNumber ==
  ASSUME NEW T, T \subseteq Nat, T # {} PROVE \E n \in T : \A m \in T : n <= m
<1> DEFINE R == {p \in Nat \X Nat : p[1] < p[2]}
<1>1. IsWellFoundedOn(R, Nat)
  BY NatLessThanWellFounded DEF OpToRel
<1>2. \A x, y \in Nat : x < y => <<x, y>> \in R
  OBVIOUS
<1> HIDE DEF R
<1>3. PICK n \in T : \A m \in T : ~ (<<m, n>> \in R)
  BY <1>1, WFMin
<1>4. \A m \in T : ~ (m < n)
  BY <1>2, <1>3
<1> QED  BY <1>4

\* The order after i services, given the orders before, and all orders up to n.
OrderAfter(text, f, i) == IF i = 0 THEN <<>> ELSE AddTier(f[i - 1], text[i])
Orders(text, f, n) == DOMAIN f = 0..n /\ \A i \in 0..n : f[i] = OrderAfter(text, f, i)

\* The loop over the services comes to an end.
LEMMA OrdersExist ==
  ASSUME NEW text, NEW len \in Nat PROVE \E f : Orders(text, f, len)
<1> DEFINE T == {n \in Nat : ~ \E f : Orders(text, f, n)}
<1> SUFFICES ASSUME T # {} PROVE FALSE
  OBVIOUS
<1>1. PICK n \in T : \A m \in T : n <= m
  BY LeastNumber
<1>2. n # 0
  <2> SUFFICES ASSUME n = 0 PROVE FALSE
    OBVIOUS
  <2> DEFINE f == [i \in 0..0 |-> <<>>]
  <2>1. Orders(text, f, 0)
    BY DEF Orders, OrderAfter
  <2> QED  BY <2>1
<1>3. n - 1 \in Nat /\ n - 1 \notin T
  BY <1>1, <1>2
<1>4. PICK f : Orders(text, f, n - 1)
  BY <1>3
<1> DEFINE g == [i \in 0..n |-> IF i < n THEN f[i] ELSE OrderAfter(text, f, n)]
<1>5. \A i \in 0..n - 1 : g[i] = f[i]
  BY <1>3
<1>6. ASSUME NEW i \in 0..n PROVE g[i] = OrderAfter(text, g, i)
  <2>1. CASE i = n
    <3>1. g[n] = OrderAfter(text, f, n)
      BY <1>3
    <3>2. g[n - 1] = f[n - 1]
      BY <1>3, <1>5
    <3> HIDE DEF g
    <3> QED  BY <2>1, <3>1, <3>2 DEF OrderAfter
  <2>2. CASE i # n
    <3>1. i \in 0..n - 1 /\ (i # 0 => i - 1 \in 0..n - 1)
      BY <1>3, <2>2
    <3>2. g[i] = f[i] /\ (i # 0 => g[i - 1] = f[i - 1])
      BY <1>5, <3>1
    <3>3. f[i] = OrderAfter(text, f, i)
      BY <1>4, <3>1 DEF Orders
    <3> HIDE DEF g
    <3> QED  BY <3>2, <3>3 DEF OrderAfter
  <2> QED  BY <2>1, <2>2
<1>7. DOMAIN g = 0..n
  OBVIOUS
<1> HIDE DEF g
<1>8. Orders(text, g, n)
  BY <1>6, <1>7 DEF Orders
<1> QED  BY <1>8

\* TierOrder is what the loop has after all services, with the default tier if
\* a service has none.
LEMMA TierOrderIsBuilt ==
  ASSUME NEW text, Len(text) \in Nat
  PROVE  \E f : /\ Orders(text, f, Len(text))
                /\ TierOrder(text) = IF \E i \in DOMAIN text : text[i].tier = NoTier
                                       THEN Append(f[Len(text)], Default) ELSE f[Len(text)]
<1> DEFINE named[i \in 0..Len(text)] == IF i = 0 THEN <<>> ELSE AddTier(named[i - 1], text[i])
<1>1. PICK f : Orders(text, f, Len(text))
  BY OrdersExist
<1>2. PICK f1 : f1 = [i \in 0..Len(text) |-> f[i]]
  OBVIOUS
<1>3. f1 = [i \in 0..Len(text) |-> IF i = 0 THEN <<>> ELSE AddTier(f1[i - 1], text[i])]
  <2>1. ASSUME NEW i \in 0..Len(text)
        PROVE  f[i] = IF i = 0 THEN <<>> ELSE AddTier(f1[i - 1], text[i])
    <3>1. i # 0 => i - 1 \in 0..Len(text)
      OBVIOUS
    <3>2. i # 0 => f1[i - 1] = f[i - 1]
      BY <1>2, <3>1
    <3>3. f[i] = OrderAfter(text, f, i)
      BY <1>1 DEF Orders
    <3> QED  BY <3>2, <3>3 DEF OrderAfter
  <2> QED  BY <1>2, <2>1
<1>4. named = [i \in 0..Len(text) |-> IF i = 0 THEN <<>> ELSE AddTier(named[i - 1], text[i])]
  BY <1>3, Zenon
<1>5. TierOrder(text) = IF \E i \in DOMAIN text : text[i].tier = NoTier
                          THEN Append(named[Len(text)], Default) ELSE named[Len(text)]
  BY DEF TierOrder
<1> HIDE DEF named
<1>6. Orders(text, named, Len(text))
  BY <1>4 DEF Orders, OrderAfter
<1> QED  BY <1>5, <1>6

\* o has the tiers that the first n services name, by first appearance.
ByAppearance(text, o, n) ==
  /\ o \in Seq({text[k].tier : k \in 1..Len(text)})
  /\ \A p \in 1..Len(o) : o[p] \notin {NoTier, Default} /\ \E k \in 1..n : text[k].tier = o[p]
  /\ \A p, q \in 1..Len(o) : p < q =>
       \E k \in 1..n : text[k].tier = o[p] /\ \A l \in 1..k : text[l].tier # o[q]
  /\ \A k \in 1..n : text[k].tier \in {NoTier, Default} \/ \E p \in 1..Len(o) : o[p] = text[k].tier

\* One more service keeps that.
LEMMA AddTierByAppearance ==
  ASSUME NEW text, Len(text) \in Nat, NEW n \in 1..Len(text), NEW o, ByAppearance(text, o, n - 1)
  PROVE  ByAppearance(text, AddTier(o, text[n]), n)
<1> DEFINE S == {text[k].tier : k \in 1..Len(text)}
           t == text[n].tier
<1>1. o \in Seq(S) /\ Len(o) \in Nat /\ DOMAIN o = 1..Len(o)
  BY LenProperties DEF ByAppearance
<1>2. t \in S /\ n - 1 \in Nat /\ 1..n - 1 \subseteq 1..n
  OBVIOUS
<1> HIDE DEF S, t
<1>3. CASE t \in {NoTier, Default} \/ Listed(o, t)
  <2>1. AddTier(o, text[n]) = o
    BY <1>3 DEF AddTier, t
  <2>2. t \in {NoTier, Default} \/ \E p \in 1..Len(o) : o[p] = t
    BY <1>1, <1>3 DEF Listed, Positions
  <2>3. \A k \in 1..n : text[k].tier \in {NoTier, Default} \/ \E p \in 1..Len(o) : o[p] = text[k].tier
    <3> TAKE k \in 1..n
    <3>1. k = n \/ k \in 1..n - 1
      OBVIOUS
    <3> QED  BY <2>2, <3>1 DEF ByAppearance, t
  <2>4. \A p \in 1..Len(o) : o[p] \notin {NoTier, Default} /\ \E k \in 1..n : text[k].tier = o[p]
    BY <1>2 DEF ByAppearance
  <2>5. \A p, q \in 1..Len(o) : p < q =>
          \E k \in 1..n : text[k].tier = o[p] /\ \A l \in 1..k : text[l].tier # o[q]
    <3> SUFFICES ASSUME NEW p \in 1..Len(o), NEW q \in 1..Len(o), p < q
                 PROVE  \E k \in 1..n : text[k].tier = o[p] /\ \A l \in 1..k : text[l].tier # o[q]
      OBVIOUS
    <3>1. PICK k \in 1..n - 1 : text[k].tier = o[p] /\ \A l \in 1..k : text[l].tier # o[q]
      BY DEF ByAppearance
    <3> QED  BY <1>2, <3>1
  <2>6. ByAppearance(text, o, n)
    BY <1>1, <2>3, <2>4, <2>5 DEF ByAppearance, S
  <2> QED  BY <2>1, <2>6
<1>4. CASE t \notin {NoTier, Default} /\ ~Listed(o, t)
  <2> DEFINE a == Append(o, t)
  <2>1. AddTier(o, text[n]) = a
    BY <1>4 DEF AddTier, t
  <2>2. /\ a \in Seq(S) /\ Len(a) = Len(o) + 1 /\ a[Len(a)] = t
        /\ \A p \in 1..Len(o) : a[p] = o[p]
    BY <1>1, <1>2, AppendProperties
  <2>3. \A l \in 1..n - 1 : text[l].tier # t
    <3>1. \A p \in 1..Len(o) : o[p] # t
      BY <1>1, <1>4 DEF Listed, Positions
    <3> QED  BY <1>4, <3>1 DEF ByAppearance
  <2> HIDE DEF a
  <2>4. ASSUME NEW p \in 1..Len(a)
        PROVE  a[p] \notin {NoTier, Default} /\ \E k \in 1..n : text[k].tier = a[p]
    <3>1. CASE p = Len(a)
      BY <1>4, <2>2, <3>1 DEF t
    <3>2. CASE p # Len(a)
      <4>1. p \in 1..Len(o)
        BY <1>1, <2>2, <3>2
      <4>2. o[p] \notin {NoTier, Default} /\ \E k \in 1..n - 1 : text[k].tier = o[p]
        BY <4>1 DEF ByAppearance
      <4> QED  BY <1>2, <2>2, <4>1, <4>2
    <3> QED  BY <3>1, <3>2
  <2>5. ASSUME NEW p \in 1..Len(a), NEW q \in 1..Len(a), p < q
        PROVE  \E k \in 1..n : text[k].tier = a[p] /\ \A l \in 1..k : text[l].tier # a[q]
    <3>1. p \in 1..Len(o) /\ a[p] = o[p]
      BY <1>1, <2>2, <2>5
    <3>2. CASE q = Len(a)
      <4>1. PICK k \in 1..n - 1 : text[k].tier = o[p]
        BY <3>1 DEF ByAppearance
      <4>2. \A l \in 1..k : text[l].tier # t
        BY <2>3, <4>1
      <4> QED  BY <1>2, <2>2, <3>1, <3>2, <4>1, <4>2
    <3>3. CASE q # Len(a)
      <4>1. q \in 1..Len(o) /\ a[q] = o[q]
        BY <1>1, <2>2, <3>3
      <4> QED  BY <1>2, <2>5, <3>1, <4>1 DEF ByAppearance
    <3> QED  BY <3>2, <3>3
  <2>6. ASSUME NEW k \in 1..n
        PROVE  text[k].tier \in {NoTier, Default} \/ \E p \in 1..Len(a) : a[p] = text[k].tier
    <3>1. CASE k = n
      BY <1>1, <2>2, <3>1 DEF t
    <3>2. CASE k # n
      <4>1. k \in 1..n - 1
        BY <3>2
      <4>2. ASSUME text[k].tier \notin {NoTier, Default} PROVE \E p \in 1..Len(a) : a[p] = text[k].tier
        <5>1. PICK p \in 1..Len(o) : o[p] = text[k].tier
          BY <4>1, <4>2 DEF ByAppearance
        <5>2. p \in 1..Len(a) /\ a[p] = o[p]
          BY <1>1, <2>2
        <5> QED  BY <5>1, <5>2
      <4> QED  BY <4>2
    <3> QED  BY <3>1, <3>2
  <2>7. ByAppearance(text, a, n)
    BY <2>2, <2>4, <2>5, <2>6 DEF ByAppearance, S
  <2> QED  BY <2>1, <2>7
<1> QED  BY <1>3, <1>4

\* And so all services.
LEMMA OrdersByAppearance ==
  ASSUME NEW text, Len(text) \in Nat, NEW f, Orders(text, f, Len(text)), NEW i \in 0..Len(text)
  PROVE  ByAppearance(text, f[i], i)
<1> DEFINE T == {n \in 0..Len(text) : ~ByAppearance(text, f[n], n)}
<1> SUFFICES ASSUME T # {} PROVE FALSE
  OBVIOUS
<1>0. T \subseteq Nat
  OBVIOUS
<1>1. PICK n \in T : \A m \in T : n <= m
  <2> HIDE DEF T
  <2> QED  BY <1>0, LeastNumber
<1>2. n \in 0..Len(text) /\ ~ByAppearance(text, f[n], n) /\ f[n] = OrderAfter(text, f, n)
  BY <1>1 DEF Orders
<1>3. CASE n = 0
  <2>1. f[n] = <<>>
    BY <1>2, <1>3 DEF OrderAfter
  <2> DEFINE S == {text[k].tier : k \in 1..Len(text)}
  <2>2. <<>> \in Seq(S) /\ 1..Len(<<>>) = {} /\ 1..0 = {}
    OBVIOUS
  <2>3. ByAppearance(text, <<>>, 0)
    BY <2>2 DEF ByAppearance
  <2> QED  BY <1>2, <1>3, <2>1, <2>3
<1>4. CASE n # 0
  <2>1. n \in 1..Len(text) /\ n - 1 \in 0..Len(text) /\ ~(n <= n - 1)
    BY <1>2, <1>4
  <2>2. ByAppearance(text, f[n - 1], n - 1)
    BY <1>1, <2>1
  <2>3. f[n] = AddTier(f[n - 1], text[n])
    BY <1>2, <1>4 DEF OrderAfter
  <2> QED  BY <1>2, <2>1, <2>2, <2>3, AddTierByAppearance
<1> QED  BY <1>3, <1>4

\* The order of a text: every tier it names is there, but for the default one, each
\* before those named later, and the default one, if it is there, at the end.
InTextOrder(text, order) ==
  /\ Len(order) \in Nat /\ DOMAIN order = 1..Len(order)
  /\ \A k \in 1..Len(text) : Named(text[k]) = Default \/ \E p \in 1..Len(order) : order[p] = Named(text[k])
  /\ \A p, q \in 1..Len(order) : p < q =>
       /\ order[p] # Default
       /\ order[q] = Default \/ \E k \in 1..Len(text) : /\ Named(text[k]) = order[p]
                                                       /\ \A l \in 1..k : Named(text[l]) # order[q]

LEMMA TierOrderInTextOrder ==
  ASSUME NEW S, NEW text \in Seq(S) PROVE InTextOrder(text, TierOrder(text))
<1> DEFINE T == {text[k].tier : k \in 1..Len(text)}
<1>1. Len(text) \in Nat /\ DOMAIN text = 1..Len(text) /\ Len(text) \in 0..Len(text)
  BY LenProperties
<1>2. PICK f : /\ Orders(text, f, Len(text))
               /\ TierOrder(text) = IF \E i \in DOMAIN text : text[i].tier = NoTier
                                      THEN Append(f[Len(text)], Default) ELSE f[Len(text)]
  BY <1>1, TierOrderIsBuilt
<1>3. PICK o : o = f[Len(text)]
  OBVIOUS
<1>4. ByAppearance(text, o, Len(text))
  BY <1>1, <1>2, <1>3, OrdersByAppearance
<1>5. o \in Seq(T) /\ Len(o) \in Nat /\ DOMAIN o = 1..Len(o)
  BY <1>4, LenProperties DEF ByAppearance
<1> HIDE DEF T
<1>6. NoTier # Default
  BY DEF NoTier, Default
<1>7. InTextOrder(text, o)
  <2>1. ASSUME NEW k \in 1..Len(text)
        PROVE  Named(text[k]) = Default \/ \E p \in 1..Len(o) : o[p] = Named(text[k])
    BY <1>4 DEF Named, ByAppearance
  <2>2. ASSUME NEW p \in 1..Len(o), NEW q \in 1..Len(o), p < q
        PROVE  /\ o[p] # Default
               /\ \E k \in 1..Len(text) : Named(text[k]) = o[p] /\ \A l \in 1..k : Named(text[l]) # o[q]
    <3>1. o[p] \notin {NoTier, Default} /\ o[q] \notin {NoTier, Default}
      BY <1>4 DEF ByAppearance
    <3>2. PICK k \in 1..Len(text) : text[k].tier = o[p] /\ \A l \in 1..k : text[l].tier # o[q]
      BY <1>4, <2>2 DEF ByAppearance
    <3>3. Named(text[k]) = o[p] /\ \A l \in 1..k : Named(text[l]) # o[q]
      BY <3>1, <3>2 DEF Named
    <3> QED  BY <3>1, <3>3
  <2> QED  BY <1>5, <2>1, <2>2 DEF InTextOrder
<1>8. InTextOrder(text, Append(o, Default))
  <2> DEFINE a == Append(o, Default)
  <2>1. /\ Len(a) = Len(o) + 1 /\ a[Len(a)] = Default /\ DOMAIN a = 1..Len(a)
        /\ \A p \in 1..Len(o) : a[p] = o[p]
    <3>1. o \in Seq(T \cup {Default})
      BY <1>5, SeqMonotonic
    <3> QED  BY <1>5, <3>1, AppendProperties, LenProperties
  <2> HIDE DEF a
  <2>2. ASSUME NEW k \in 1..Len(text)
        PROVE  Named(text[k]) = Default \/ \E p \in 1..Len(a) : a[p] = Named(text[k])
    <3>1. \A p \in 1..Len(o) : p \in 1..Len(a)
      BY <1>5, <2>1
    <3> QED  BY <1>7, <2>1, <3>1 DEF InTextOrder
  <2>3. ASSUME NEW p \in 1..Len(a), NEW q \in 1..Len(a), p < q
        PROVE  /\ a[p] # Default
               /\ a[q] = Default \/ \E k \in 1..Len(text) : /\ Named(text[k]) = a[p]
                                                           /\ \A l \in 1..k : Named(text[l]) # a[q]
    <3>1. p \in 1..Len(o) /\ a[p] = o[p]
      BY <1>5, <2>1, <2>3
    <3>2. a[p] # Default
      BY <1>4, <3>1 DEF ByAppearance
    <3>3. CASE q = Len(a)
      BY <2>1, <3>2, <3>3
    <3>4. CASE q # Len(a)
      <4>1. q \in 1..Len(o) /\ a[q] = o[q]
        BY <1>5, <2>1, <3>4
      <4> QED  BY <1>7, <2>3, <3>1, <3>2, <4>1 DEF InTextOrder
    <3> QED  BY <3>3, <3>4
  <2>4. Len(a) \in Nat
    BY <1>5, <2>1
  <2> QED  BY <2>1, <2>2, <2>3, <2>4 DEF InTextOrder, a
<1> QED  BY <1>2, <1>3, <1>7, <1>8

\* The name of the tier at index k of an order.
TierAt(order, k) == IF k \in DOMAIN order THEN order[k] ELSE Default

\* An index is a position of the order or the one after it, whatever the tier.
LEMMA TierIndexRange ==
  ASSUME NEW order, Len(order) \in Nat, DOMAIN order = 1..Len(order), NEW t
  PROVE  TierIndex(order, t) \in 1..Len(order) + 1
<1>1. ASSUME NEW u, Listed(order, u) PROVE (CHOOSE i \in Positions(order, u) : TRUE) \in 1..Len(order)
  <2>1. PICK i : i \in Positions(order, u)
    BY <1>1 DEF Listed
  <2>2. (CHOOSE k \in Positions(order, u) : TRUE) \in Positions(order, u)
    BY <2>1
  <2> QED  BY <2>2 DEF Positions
<1>2. 1..Len(order) \subseteq 1..Len(order) + 1 /\ Len(order) + 1 \in 1..Len(order) + 1
  OBVIOUS
<1>3. DefaultIndex(order) \in 1..Len(order) + 1
  BY <1>1, <1>2 DEF DefaultIndex
<1> QED  BY <1>1, <1>2, <1>3 DEF TierIndex

\* The index of a tier that is listed, or is the default one, is that of its name.
LEMMA TierIndexNames ==
  ASSUME NEW order, Len(order) \in Nat, DOMAIN order = 1..Len(order), NEW t,
         t = Default \/ \E p \in 1..Len(order) : order[p] = t
  PROVE  TierAt(order, TierIndex(order, t)) = t
<1>1. ASSUME NEW u, Listed(order, u) PROVE order[CHOOSE i \in Positions(order, u) : TRUE] = u
                                         /\ (CHOOSE i \in Positions(order, u) : TRUE) \in DOMAIN order
  <2>1. PICK i : i \in Positions(order, u)
    BY <1>1 DEF Listed
  <2>2. (CHOOSE k \in Positions(order, u) : TRUE) \in Positions(order, u)
    BY <2>1
  <2> QED  BY <2>2 DEF Positions
<1>2. CASE Listed(order, t)
  BY <1>1, <1>2 DEF TierIndex, TierAt
<1>3. CASE ~Listed(order, t)
  <2>1. t = Default
    BY <1>3 DEF Listed, Positions
  <2>2. TierIndex(order, t) = Len(order) + 1 /\ Len(order) + 1 \notin DOMAIN order
    BY <1>3, <2>1 DEF TierIndex, DefaultIndex
  <2> QED  BY <2>1, <2>2 DEF TierAt
<1> QED  BY <1>2, <1>3

\* Nothing is after the order if the default tier is in it.
LEMMA TierIndexBeyond ==
  ASSUME NEW order, Len(order) \in Nat, DOMAIN order = 1..Len(order), NEW t,
         TierIndex(order, t) \notin 1..Len(order)
  PROVE  \A k \in 1..Len(order) : order[k] # Default
<1>1. ASSUME NEW u, Listed(order, u) PROVE (CHOOSE i \in Positions(order, u) : TRUE) \in 1..Len(order)
  <2>1. PICK i : i \in Positions(order, u)
    BY <1>1 DEF Listed
  <2>2. (CHOOSE k \in Positions(order, u) : TRUE) \in Positions(order, u)
    BY <2>1
  <2> QED  BY <2>2 DEF Positions
<1>2. ~Listed(order, Default)
  BY <1>1 DEF TierIndex, DefaultIndex
<1> QED  BY <1>2 DEF Listed, Positions

\* What the loop of Ascending has after k indices.
AscendingAfter(used, f, k) ==
  IF k = 0 THEN <<>> ELSE IF k \in used THEN Append(f[k - 1], k) ELSE f[k - 1]
Ascends(used, f, n) == DOMAIN f = 0..n /\ \A k \in 0..n : f[k] = AscendingAfter(used, f, k)

LEMMA AscendsExist ==
  ASSUME NEW used, NEW len \in Nat PROVE \E f : Ascends(used, f, len)
<1> DEFINE T == {n \in Nat : ~ \E f : Ascends(used, f, n)}
<1> SUFFICES ASSUME T # {} PROVE FALSE
  OBVIOUS
<1>1. PICK n \in T : \A m \in T : n <= m
  BY LeastNumber
<1>2. n # 0
  <2> SUFFICES ASSUME n = 0 PROVE FALSE
    OBVIOUS
  <2> DEFINE f == [k \in 0..0 |-> <<>>]
  <2>1. Ascends(used, f, 0)
    BY DEF Ascends, AscendingAfter
  <2> QED  BY <2>1
<1>3. n - 1 \in Nat /\ n - 1 \notin T
  BY <1>1, <1>2
<1>4. PICK f : Ascends(used, f, n - 1)
  BY <1>3
<1> DEFINE g == [k \in 0..n |-> IF k < n THEN f[k] ELSE AscendingAfter(used, f, n)]
<1>5. \A k \in 0..n - 1 : g[k] = f[k]
  BY <1>3
<1>6. ASSUME NEW k \in 0..n PROVE g[k] = AscendingAfter(used, g, k)
  <2>1. CASE k = n
    <3>1. g[n] = AscendingAfter(used, f, n)
      BY <1>3
    <3>2. g[n - 1] = f[n - 1]
      BY <1>3, <1>5
    <3> HIDE DEF g
    <3> QED  BY <2>1, <3>1, <3>2 DEF AscendingAfter
  <2>2. CASE k # n
    <3>1. k \in 0..n - 1 /\ (k # 0 => k - 1 \in 0..n - 1)
      BY <1>3, <2>2
    <3>2. g[k] = f[k] /\ (k # 0 => g[k - 1] = f[k - 1])
      BY <1>5, <3>1
    <3>3. f[k] = AscendingAfter(used, f, k)
      BY <1>4, <3>1 DEF Ascends
    <3> HIDE DEF g
    <3> QED  BY <3>2, <3>3 DEF AscendingAfter
  <2> QED  BY <2>1, <2>2
<1>7. DOMAIN g = 0..n
  OBVIOUS
<1> HIDE DEF g
<1>8. Ascends(used, g, n)
  BY <1>6, <1>7 DEF Ascends
<1> QED  BY <1>8

LEMMA AscendingIsBuilt ==
  ASSUME NEW used, NEW n \in Nat
  PROVE  \E f : Ascends(used, f, n) /\ Ascending(used, n) = f[n]
<1> DEFINE ascending[k \in 0..n] ==
             IF k = 0 THEN <<>>
             ELSE IF k \in used THEN Append(ascending[k - 1], k) ELSE ascending[k - 1]
<1>1. PICK f : Ascends(used, f, n)
  BY AscendsExist
<1>2. PICK f1 : f1 = [k \in 0..n |-> f[k]]
  OBVIOUS
<1>3. f1 = [k \in 0..n |-> IF k = 0 THEN <<>>
                           ELSE IF k \in used THEN Append(f1[k - 1], k) ELSE f1[k - 1]]
  <2>1. ASSUME NEW k \in 0..n
        PROVE  f[k] = IF k = 0 THEN <<>>
                      ELSE IF k \in used THEN Append(f1[k - 1], k) ELSE f1[k - 1]
    <3>1. k # 0 => k - 1 \in 0..n
      OBVIOUS
    <3>2. k # 0 => f1[k - 1] = f[k - 1]
      BY <1>2, <3>1
    <3>3. f[k] = AscendingAfter(used, f, k)
      BY <1>1 DEF Ascends
    <3> QED  BY <3>2, <3>3 DEF AscendingAfter
  <2> QED  BY <1>2, <2>1
<1>4. ascending = [k \in 0..n |-> IF k = 0 THEN <<>>
                                  ELSE IF k \in used THEN Append(ascending[k - 1], k)
                                  ELSE ascending[k - 1]]
  BY <1>3, Zenon
<1>5. Ascending(used, n) = ascending[n]
  BY DEF Ascending
<1> HIDE DEF ascending
<1>6. Ascends(used, ascending, n)
  BY <1>4 DEF Ascends, AscendingAfter
<1> QED  BY <1>5, <1>6

\* a lists the indices of used up to n in ascending order.
Sorted(used, a, n) ==
  /\ a \in Seq(Nat)
  /\ \A p \in 1..Len(a) : a[p] \in used /\ a[p] \in 1..n
  /\ \A k \in 1..n : k \in used => \E p \in 1..Len(a) : a[p] = k
  /\ \A p, q \in 1..Len(a) : p < q => a[p] < a[q]

LEMMA AscendingSorts ==
  ASSUME NEW used, NEW n \in Nat PROVE Sorted(used, Ascending(used, n), n)
<1>1. PICK f : Ascends(used, f, n) /\ Ascending(used, n) = f[n]
  BY AscendingIsBuilt
<1> DEFINE T == {k \in 0..n : ~Sorted(used, f[k], k)}
<1> SUFFICES ASSUME T # {} PROVE FALSE
  BY <1>1
<1>2. T \subseteq Nat
  OBVIOUS
<1>3. PICK k \in T : \A m \in T : k <= m
  <2> HIDE DEF T
  <2> QED  BY <1>2, LeastNumber
<1>4. k \in 0..n /\ ~Sorted(used, f[k], k) /\ f[k] = AscendingAfter(used, f, k)
  BY <1>1, <1>3 DEF Ascends
<1>5. CASE k = 0
  <2>1. <<>> \in Seq(Nat) /\ 1..Len(<<>>) = {} /\ 1..0 = {}
    OBVIOUS
  <2>2. Sorted(used, <<>>, 0)
    BY <2>1 DEF Sorted
  <2> QED  BY <1>4, <1>5, <2>2 DEF AscendingAfter
<1>6. CASE k # 0
  <2>1. k - 1 \in 0..n /\ k \in Nat /\ ~(k <= k - 1)
    BY <1>4, <1>6
  <2>2. PICK b : b = f[k - 1]
    OBVIOUS
  <2>3. Sorted(used, b, k - 1)
    BY <1>3, <2>1, <2>2
  <2>4. b \in Seq(Nat) /\ Len(b) \in Nat
    BY <2>3, LenProperties DEF Sorted
  <2>5. CASE k \notin used
    <3>1. f[k] = b
      BY <1>4, <1>6, <2>2, <2>5 DEF AscendingAfter
    <3>2. \A i \in 1..k : i \in used => i \in 1..k - 1
      BY <2>1, <2>5
    <3>3. \A i \in 1..k - 1 : i \in 1..k
      BY <2>1
    <3>4. Sorted(used, b, k)
      BY <2>3, <3>2, <3>3 DEF Sorted
    <3> QED  BY <1>4, <3>1, <3>4
  <2>6. CASE k \in used
    <3> DEFINE a == Append(b, k)
    <3>1. f[k] = a
      BY <1>4, <1>6, <2>2, <2>6 DEF AscendingAfter
    <3>2. a \in Seq(Nat) /\ Len(a) = Len(b) + 1 /\ a[Len(a)] = k /\ \A p \in 1..Len(b) : a[p] = b[p]
      BY <2>1, <2>4, AppendProperties
    <3> HIDE DEF a
    <3>3. \A p \in 1..Len(a) : p = Len(a) \/ p \in 1..Len(b)
      BY <2>4, <3>2
    <3>4. \A p \in 1..Len(b) : b[p] \in used /\ b[p] \in 1..k - 1 /\ p \in 1..Len(a)
      BY <2>3, <2>4, <3>2 DEF Sorted
    <3>5. ASSUME NEW p \in 1..Len(a) PROVE a[p] \in used /\ a[p] \in 1..k
      <4>1. CASE p = Len(a)
        <5>1. k \in 1..k
          BY <1>4, <1>6
        <5> QED  BY <2>6, <3>2, <4>1, <5>1
      <4>2. CASE p # Len(a)
        <5>1. p \in 1..Len(b)
          BY <3>3, <4>2
        <5>2. a[p] = b[p] /\ b[p] \in used /\ b[p] \in 1..k - 1
          BY <3>2, <3>4, <5>1
        <5>3. 1..k - 1 \subseteq 1..k
          BY <2>1
        <5> QED  BY <5>2, <5>3
      <4> QED  BY <4>1, <4>2
    <3>6. ASSUME NEW i \in 1..k, i \in used PROVE \E p \in 1..Len(a) : a[p] = i
      <4>1. CASE i = k
        BY <2>4, <3>2, <4>1
      <4>2. CASE i # k
        <5>1. i \in 1..k - 1
          BY <2>1, <4>2
        <5>2. PICK p \in 1..Len(b) : b[p] = i
          BY <2>3, <3>6, <5>1 DEF Sorted
        <5> QED  BY <3>2, <3>4, <5>2
      <4> QED  BY <4>1, <4>2
    <3>7. ASSUME NEW p \in 1..Len(a), NEW q \in 1..Len(a), p < q PROVE a[p] < a[q]
      <4>1. p \in 1..Len(b)
        BY <2>4, <3>2, <3>7
      <4>2. CASE q = Len(a)
        BY <2>1, <3>2, <3>4, <4>1, <4>2
      <4>3. CASE q # Len(a)
        <5>1. q \in 1..Len(b)
          BY <3>3, <4>3
        <5> QED  BY <2>3, <3>2, <3>7, <4>1, <5>1 DEF Sorted
      <4> QED  BY <4>2, <4>3
    <3>8. Sorted(used, a, k)
      BY <3>2, <3>5, <3>6, <3>7 DEF Sorted
    <3> QED  BY <1>4, <3>1, <3>8
  <2> QED  BY <2>5, <2>6
<1> QED  BY <1>5, <1>6

\* The index of the tier of a service.
IndexOf(services, order, s) == TierIndex(order, ServiceTier(services, s))

\* Group gives each index that occurs one of n tiers, in ascending order: tier j has the
\* services with index at[j].
Groups(names, services, order, tiers, n, at) ==
  /\ n \in Nat /\ Len(tiers) = n /\ DOMAIN tiers = 1..n
  /\ \A j \in 1..n : at[j] \in 1..Len(order) + 1 /\ tiers[j].name = TierAt(order, at[j])
  /\ \A j \in 1..n : tiers[j].services = {s \in names : IndexOf(services, order, s) = at[j]}
  /\ \A j \in 1..n : tiers[j].services # {}
  /\ \A s \in names : \E j \in 1..n : s \in tiers[j].services
  /\ \A i, j \in 1..n : i < j => at[i] < at[j]

LEMMA GroupGroups ==
  ASSUME NEW names, NEW services, NEW order, Len(order) \in Nat, DOMAIN order = 1..Len(order)
  PROVE  \E n \in Nat, at \in Seq(Nat) : Groups(names, services, order, Group(names, services, order), n, at)
<1>1. PICK used : used = {IndexOf(services, order, s) : s \in names}
  OBVIOUS
<1>2. PICK m \in Nat : m = Len(order) + 1
  OBVIOUS
<1>3. PICK at : at = Ascending(used, m)
  OBVIOUS
<1>4. Sorted(used, at, m)
  BY <1>3, AscendingSorts
<1>5. at \in Seq(Nat) /\ Len(at) \in Nat /\ DOMAIN at = 1..Len(at)
  BY <1>4, LenProperties DEF Sorted
<1>6. PICK n \in Nat : n = Len(at)
  BY <1>5
<1> DEFINE Tier(j) == [name |-> TierAt(order, at[j]),
                       services |-> {s \in names : IndexOf(services, order, s) = at[j]}]
<1>7. PICK tiers : tiers = [j \in 1..n |-> Tier(j)]
  OBVIOUS
<1>8. Group(names, services, order) = tiers
  BY <1>1, <1>2, <1>3, <1>5, <1>6, <1>7 DEF Group, TierAt, IndexOf
<1>9. Len(tiers) = n /\ DOMAIN tiers = 1..n /\ \A j \in 1..n : tiers[j] = Tier(j)
  BY <1>7
<1>10. \A j \in 1..n : /\ tiers[j].name = TierAt(order, at[j])
                       /\ tiers[j].services = {s \in names : IndexOf(services, order, s) = at[j]}
  BY <1>9
<1>11. \A j \in 1..n : at[j] \in used /\ at[j] \in 1..Len(order) + 1
  BY <1>2, <1>4, <1>6 DEF Sorted
<1>12. \A j \in 1..n : tiers[j].services # {}
  BY <1>1, <1>10, <1>11
<1>13. ASSUME NEW s \in names PROVE \E j \in 1..n : s \in tiers[j].services
  <2>1. IndexOf(services, order, s) \in 1..m
    BY <1>2, TierIndexRange DEF IndexOf
  <2>2. IndexOf(services, order, s) \in used
    BY <1>1
  <2>3. PICK j \in 1..n : at[j] = IndexOf(services, order, s)
    BY <1>4, <1>6, <2>1, <2>2 DEF Sorted
  <2> QED  BY <1>10, <2>3
<1>14. \A i, j \in 1..n : i < j => at[i] < at[j]
  BY <1>4, <1>6 DEF Sorted
<1>15. Groups(names, services, order, tiers, n, at)
  BY <1>9, <1>10, <1>11, <1>12, <1>13, <1>14 DEF Groups
<1> QED  BY <1>5, <1>8, <1>15

\* Resolve has no error.
Resolves(profiles, services, order, p) == Resolve(profiles, services, order, p).error = ""

\* What TierAssumption says of Services, NumTiers and TierOf, of names and of a function
\* that gives each of them the index of its tier among tiers.
TiersOf(names, tiers, tierOf) ==
  /\ names # {} => Len(tiers) \in Nat \ {0}
  /\ tierOf \in [names -> 1..Len(tiers)]
  /\ \A k \in 1..Len(tiers) : \E s \in names : tierOf[s] = k
  /\ \A k \in 1..Len(tiers) : tiers[k].services = {s \in names : tierOf[s] = k}

\* What runner.Run gets from Resolve is what TierAssumption says of the tiers of a run:
\* the profile's services all exist, each of them is in exactly one tier, and no tier is
\* empty (discovery.go:158-197).
THEOREM ResolvedTiers ==
  ASSUME NEW S, NEW order \in Seq(S), NEW profiles, NEW services, NEW p,
         Resolves(profiles, services, order, p)
  PROVE  /\ Names(profiles[p], services) \subseteq DOMAIN services
         /\ \E tierOf : TiersOf(Names(profiles[p], services), Resolve(profiles, services, order, p).tiers, tierOf)
<1>1. PICK names, tiers : /\ names = Names(profiles[p], services)
                          /\ tiers = Resolve(profiles, services, order, p).tiers
  OBVIOUS
<1>2. names \subseteq DOMAIN services /\ tiers = Group(names, services, order)
  BY <1>1, Zenon DEF Resolves, Resolve, Failure
<1>3. Len(order) \in Nat /\ DOMAIN order = 1..Len(order)
  BY LenProperties
<1>4. PICK n \in Nat, at \in Seq(Nat) : Groups(names, services, order, tiers, n, at)
  BY <1>2, <1>3, GroupGroups
<1>5. n \in Nat /\ Len(tiers) = n
  BY <1>4 DEF Groups
<1>6. \A j \in 1..n : at[j] \in 1..Len(order) + 1
  BY <1>4 DEF Groups
<1>7. PICK tierOf : tierOf = [s \in names |-> CHOOSE k \in 1..n : s \in tiers[k].services]
  OBVIOUS
<1>8. ASSUME NEW i \in 1..n, NEW j \in 1..n, NEW s, s \in tiers[i].services, s \in tiers[j].services
      PROVE  i = j
  <2>1. at[i] = at[j]
    <3>1. IndexOf(services, order, s) = at[i]
      BY <1>4, <1>8 DEF Groups
    <3>2. IndexOf(services, order, s) = at[j]
      BY <1>4, <1>8 DEF Groups
    <3> QED  BY <3>1, <3>2
  <2>2. PICK x \in Nat : x = at[i] /\ x = at[j]
    <3>1. PICK y \in Nat : y = Len(order) + 1
      BY <1>3
    <3>2. at[i] \in 1..y
      BY <1>6, <3>1
    <3>3. \A z \in 1..y : z \in Nat
      BY <3>1
    <3> QED  BY <2>1, <3>2, <3>3
  <2>3. i < j => at[i] < at[j]
    BY <1>4 DEF Groups
  <2>4. j < i => at[j] < at[i]
    BY <1>4 DEF Groups
  <2>5. ~(i < j) /\ ~(j < i)
    BY <2>2, <2>3, <2>4
  <2> QED  BY <1>5, <2>5
<1>9. ASSUME NEW s \in names PROVE tierOf[s] \in 1..n /\ s \in tiers[tierOf[s]].services
  <2>1. \E k \in 1..n : s \in tiers[k].services
    BY <1>4 DEF Groups
  <2> QED  BY <1>7, <2>1
<1>10. tierOf \in [names -> 1..n]
  BY <1>7, <1>9
<1>11. \A k \in 1..n : tiers[k].services \subseteq names /\ tiers[k].services # {}
  BY <1>4 DEF Groups
<1>12. ASSUME NEW k \in 1..n PROVE tiers[k].services = {s \in names : tierOf[s] = k}
  <2>1. \A s \in names : s \in tiers[k].services => tierOf[s] = k
    BY <1>8, <1>9
  <2>2. \A s \in names : tierOf[s] = k => s \in tiers[k].services
    BY <1>9
  <2> QED  BY <1>11, <2>1, <2>2
<1>13. names # {} => n # 0
  <2>1. 1..0 = {}
    OBVIOUS
  <2> QED  BY <1>9, <2>1
<1>14. \A k \in 1..n : \E s \in names : tierOf[s] = k
  BY <1>11, <1>12
<1>15. TiersOf(names, tiers, tierOf)
  BY <1>5, <1>10, <1>12, <1>13, <1>14 DEF TiersOf
<1> QED  BY <1>1, <1>2, <1>15

\* Order and membership come from two parsers, one that reads the text and one that reads
\* what it means.  If they agree on the tier of every service, Resolve gives the tiers that
\* the text declares, whatever text, profile and services (topology.go, discovery.go).
THEOREM TiersFollowText ==
  ASSUME NEW S, NEW text \in Seq(S), NEW profiles, NEW services, NEW p,
         \A s \in DOMAIN services : \E k \in DOMAIN text : text[k].service = s,
         \A k \in DOMAIN text : text[k].service \in DOMAIN services =>
           ServiceTier(services, text[k].service) = Named(text[k]),
         Resolves(profiles, services, TierOrder(text), p)
  PROVE  AsDeclared(text, Names(profiles[p], services), Resolve(profiles, services, TierOrder(text), p).tiers)
<1>1. PICK names, order, tiers :
        /\ names = Names(profiles[p], services)
        /\ order = TierOrder(text)
        /\ tiers = Resolve(profiles, services, order, p).tiers
  OBVIOUS
<1>2. names \subseteq DOMAIN services /\ tiers = Group(names, services, order)
  BY <1>1, Zenon DEF Resolves, Resolve, Failure
<1>3. InTextOrder(text, order) /\ DOMAIN text = 1..Len(text) /\ Len(text) \in Nat
  BY <1>1, TierOrderInTextOrder, LenProperties
<1>4. PICK m \in Nat : m = Len(order) /\ DOMAIN order = 1..m
  BY <1>3 DEF InTextOrder
<1>5. PICK n \in Nat, at \in Seq(Nat) : Groups(names, services, order, tiers, n, at)
  BY <1>2, <1>4, GroupGroups
<1>6. DOMAIN tiers = 1..n /\ n \in Nat
  BY <1>5 DEF Groups
<1>7. ASSUME NEW k \in DOMAIN text, text[k].service \in names
      PROVE  TierAt(order, IndexOf(services, order, text[k].service)) = Named(text[k])
  <2>1. ServiceTier(services, text[k].service) = Named(text[k])
    BY <1>2, <1>7
  <2>2. Named(text[k]) = Default \/ \E q \in 1..Len(order) : order[q] = Named(text[k])
    BY <1>3 DEF InTextOrder
  <2>3. TierAt(order, TierIndex(order, Named(text[k]))) = Named(text[k])
    BY <1>4, <2>2, TierIndexNames
  <2> QED  BY <2>1, <2>3 DEF IndexOf
<1>8. ASSUME NEW i \in 1..n, NEW s \in tiers[i].services
      PROVE  /\ s \in names
             /\ \E k \in DOMAIN text : text[k].service = s
             /\ \A k \in DOMAIN text : text[k].service = s => Named(text[k]) = tiers[i].name
  <2>1. s \in names /\ IndexOf(services, order, s) = at[i] /\ tiers[i].name = TierAt(order, at[i])
    BY <1>5 DEF Groups
  <2> QED  BY <1>2, <1>7, <2>1
<1>9. ASSUME NEW i \in 1..n, NEW j \in 1..n, i < j
      PROVE  /\ tiers[i].name # Default
             /\ \/ tiers[j].name = Default
                \/ \E k \in DOMAIN text : /\ Named(text[k]) = tiers[i].name
                                          /\ \A l \in 1..k : Named(text[l]) # tiers[j].name
  <2>1. PICK x \in 1..m + 1, y \in 1..m + 1 : x = at[i] /\ y = at[j] /\ x < y
    <3>1. at[i] \in 1..m + 1
      BY <1>4, <1>5 DEF Groups
    <3>2. at[j] \in 1..m + 1
      BY <1>4, <1>5 DEF Groups
    <3>3. at[i] < at[j]
      BY <1>5, <1>9 DEF Groups
    <3> QED  BY <3>1, <3>2, <3>3
  <2>2. tiers[i].name = TierAt(order, x) /\ tiers[j].name = TierAt(order, y)
    BY <1>5, <2>1 DEF Groups
  <2>3. x \in 1..m
    BY <1>4, <2>1
  <2>4. tiers[i].name = order[x]
    BY <1>4, <2>2, <2>3 DEF TierAt
  <2>5. CASE y \in 1..m
    <3>1. tiers[j].name = order[y]
      BY <1>4, <2>2, <2>5 DEF TierAt
    <3>2. /\ order[x] # Default
          /\ order[y] = Default \/ \E k \in 1..Len(text) : /\ Named(text[k]) = order[x]
                                                             /\ \A l \in 1..k : Named(text[l]) # order[y]
      BY <1>3, <1>4, <2>1, <2>3, <2>5 DEF InTextOrder
    <3> QED  BY <1>3, <2>4, <3>1, <3>2
  <2>6. CASE y \notin 1..m
    <3>1. tiers[j].name = Default
      BY <1>4, <2>2, <2>6 DEF TierAt
    <3>2. PICK s \in tiers[j].services : IndexOf(services, order, s) = y
      BY <1>5, <2>1 DEF Groups
    <3>3. \A k \in 1..m : order[k] # Default
      BY <1>4, <2>6, <3>2, TierIndexBeyond DEF IndexOf
    <3> QED  BY <2>3, <2>4, <3>1, <3>3
  <2> QED  BY <2>5, <2>6
<1>10. \A s \in names : \E i \in 1..n : s \in tiers[i].services
  BY <1>5 DEF Groups
<1>11. \A i \in 1..n : tiers[i].services # {}
  BY <1>5 DEF Groups
<1>12. /\ \A s \in names : \E i \in DOMAIN tiers : s \in tiers[i].services
       /\ \A i \in DOMAIN tiers : tiers[i].services # {}
  BY <1>6, <1>10, <1>11
<1>13. \A i \in DOMAIN tiers : \A s \in tiers[i].services :
          /\ s \in names
          /\ \E k \in DOMAIN text : text[k].service = s
          /\ \A k \in DOMAIN text : text[k].service = s => Named(text[k]) = tiers[i].name
  BY <1>6, <1>8
<1>14. \A i, j \in DOMAIN tiers : i < j =>
          /\ tiers[i].name # Default
          /\ \/ tiers[j].name = Default
             \/ \E k \in DOMAIN text : /\ Named(text[k]) = tiers[i].name
                                       /\ \A l \in 1..k : Named(text[l]) # tiers[j].name
  BY <1>6, <1>9
<1>15. AsDeclared(text, names, tiers)
  BY <1>12, <1>13, <1>14, Zenon DEF AsDeclared
<1> QED  BY <1>1, <1>15
=============================================================================
