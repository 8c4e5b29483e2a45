------------------------------ MODULE Registry ------------------------------
(***************************************************************************)
(* The process registry (internal/app/registry/registry.go): two maps from *)
(* service ids to process entries, the registration order and the          *)
(* WaitGroup that shutdown waits for.  Every method runs under reg.mu, so  *)
(* every operation is one atomic action.                                   *)
(*                                                                         *)
(* The operators Add, Detach and Remove are what the orchestrator calls;   *)
(* Spec drives them from an unconstrained caller that registers each       *)
(* process handle at most once.                                            *)
(***************************************************************************)
EXTENDS ProcessHandles

VARIABLES
  processes,   \* reg.processes: service -> entry of its attached process
  detached,    \* reg.detached: service -> entry of a process being stopped
  wg,          \* the counter of reg.wg
  nextOrder,   \* reg.nextOrder
  life         \* history: what has become of each handle in the registry

regVars == <<processes, detached, wg, nextOrder, life>>

Entry == [proc : Procs, order : Nat]

\* "lost": dropped from the maps without wg.Done, by a later Add
Life == {"fresh", "tracked", "removed", "lost"}

TypeOK ==
  /\ processes \in [Services -> Entry \cup {None}]
  /\ detached \in [Services -> Entry \cup {None}]
  /\ wg \in Nat
  /\ nextOrder \in Nat
  /\ life \in [Procs -> Life]

Init ==
  /\ processes = [s \in Services |-> None]
  /\ detached = [s \in Services |-> None]
  /\ wg = 0
  /\ nextOrder = 0
  /\ life = [p \in Procs |-> "fresh"]

-----------------------------------------------------------------------------
(* Queries *)

Holds(map, s, p) == map[s] # None /\ map[s].proc = p

\* p is held for s by one of the two maps
HeldFor(s, p) == Holds(processes, s, p) \/ Holds(detached, s, p)

\* Get looks in the attached processes first, then in the detached ones
Get(s) == IF processes[s] # None THEN processes[s] ELSE detached[s]

Exists(s) == Get(s) # None

\* What SnapshotReverse returns, as a set: its sort is by the field order
Snapshot ==
  UNION {{[id |-> s, proc |-> e.proc, order |-> e.order] :
            e \in {processes[s], detached[s]} \ {None}} : s \in Services}

\* Remove's UnexpectedExit result: p leaves processes, not detached
Unexpected(s, p) == ~Holds(detached, s, p) /\ Holds(processes, s, p)

(* Faulty variants of the operations below, which the checks must reject *)

\* Remove forgets wg.Done for an attached entry
RemoveAttachedNoDone(s, p) ==
  /\ Unexpected(s, p)
  /\ processes' = [processes EXCEPT ![s] = None]
  /\ life' = [life EXCEPT ![p] = "removed"]
  /\ UNCHANGED <<detached, wg, nextOrder>>

-----------------------------------------------------------------------------
(* Operations *)

Add(s, p) ==
  /\ processes' = [processes EXCEPT ![s] = [proc |-> p, order |-> nextOrder]]
  /\ detached' = [detached EXCEPT ![s] = None]
  /\ nextOrder' = nextOrder + 1
  /\ wg' = wg + 1
  /\ life' = [q \in Procs |-> IF q = p THEN "tracked"
                              ELSE IF HeldFor(s, q) THEN "lost"
                              ELSE life[q]]

Detach(s) ==
  /\ IF processes[s] # None
       THEN /\ detached' = [detached EXCEPT ![s] = processes[s]]
            /\ processes' = [processes EXCEPT ![s] = None]
       ELSE UNCHANGED <<processes, detached>>
  /\ UNCHANGED <<wg, nextOrder, life>>

RemoveDetached(s, p) ==
  /\ Holds(detached, s, p)
  /\ detached' = [detached EXCEPT ![s] = None]
  /\ wg' = wg - 1
  /\ life' = [life EXCEPT ![p] = "removed"]
  /\ UNCHANGED <<processes, nextOrder>>

RemoveAttached(s, p) ==
  /\ Unexpected(s, p)
  /\ processes' = [processes EXCEPT ![s] = None]
  /\ wg' = wg - 1
  /\ life' = [life EXCEPT ![p] = "removed"]
  /\ UNCHANGED <<detached, nextOrder>>

RemoveNothing(s, p) == ~HeldFor(s, p) /\ UNCHANGED regVars

Remove(s, p) == RemoveDetached(s, p) \/ RemoveAttached(s, p) \/ RemoveNothing(s, p)

-----------------------------------------------------------------------------
(* The unconstrained caller *)

Next ==
  \/ \E s \in Services, p \in Procs : life[p] = "fresh" /\ Add(s, p)
  \/ \E s \in Services : Detach(s)
  \/ \E s \in Services, p \in Procs : Remove(s, p)

Spec == Init /\ [][Next]_regVars

-----------------------------------------------------------------------------
(* Properties *)

\* A service is never both attached and detached: Get and Remove look in the
\* two maps in opposite orders, so they agree only because of this.
OneMapPerService == \A s \in Services : processes[s] = None \/ detached[s] = None

\* The maps hold exactly the handles that are tracked, each for one service:
\* an entry is not left behind by Remove, and a handle is not in two places.
TrackedExactlyOnce ==
  \A p \in Procs :
    /\ life[p] = "tracked" <=> \E s \in Services : HeldFor(s, p)
    /\ \A s, t \in Services : HeldFor(s, p) /\ HeldFor(t, p) => s = t

\* The handles that have been Added and not Done
Outstanding == {p \in Procs : life[p] \in {"tracked", "lost"}}

\* wg counts every handle that was added and whose removal has not called
\* wg.Done: it never goes negative (which panics), and Wait cannot return early
\* while a process is still tracked.
WaitGroupExact == wg = Cardinality(Outstanding)

\* The registration orders of tracked entries differ, so the reverse order of
\* SnapshotReverse is a total one and shutdown has a definite sequence.
OrdersDistinct ==
  \A e, f \in Snapshot : e.order = f.order => e = f

=============================================================================
