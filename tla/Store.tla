------------------------------- MODULE Store -------------------------------
(***************************************************************************)
(* The runtime store (internal/app/registry/store.go): what the API and    *)
(* the UI know of the services.  Its goroutine handles bus messages one by *)
(* one under s.mu; a sampler goroutine reads the pids under the lock, asks *)
(* the operating system for statistics without it, and stores them under   *)
(* the lock again.                                                         *)
(*                                                                         *)
(* A lifecycle message is named after the status it stands for ("running"  *)
(* is ServiceReady).  The handlers reject a message that is not newer than *)
(* what the service shows, so the input here is weaker than what the bus   *)
(* promises: after the profile, messages come in any order, any number of  *)
(* times, or never.                                                        *)
(***************************************************************************)
EXTENDS Integers, FiniteSets

CONSTANTS Services,   \* service ids
          Pids,       \* process ids
          MaxSeq,     \* bound on the sequence numbers of messages
          Zero        \* Go's zero value: no pid, no start time, no statistics

ASSUME StoreAssumption ==
  /\ IsFiniteSet(Services)
  /\ MaxSeq \in Nat
  /\ Zero \notin Pids

VARIABLES
  resolved,   \* s.resolved is closed: ProfileResolved was handled
  known,      \* the domain of s.services
  services,   \* s.services
  counts,     \* s.counts by status
  total,      \* s.counts.Total
  sampling,   \* s.sampling
  sampler,    \* the control of the sampler goroutine
  pids,       \* its copy of the pids
  stats,      \* its statistics: of which pid they are
  delivered   \* history: the messages handled

stateVars == <<resolved, known, services, counts, total>>
samplerVars == <<sampling, sampler, pids, stats>>
vars == <<stateVars, samplerVars, delivered>>

Statuses == {"starting", "running", "stopping", "restarting", "stopped", "failed"}
Started == {"starting", "running"}   \* messages that carry a process
Watch == {"watched", "unwatched"}

Errors == {"", "error"}

StartedMessages ==
  [kind : Started, seq : 1..MaxSeq, id : Services, pid : Pids, err : {""}]

FailedMessages ==
  [kind : {"failed"}, seq : 1..MaxSeq, id : Services, pid : {Zero}, err : Errors]

OtherMessages ==
  [kind : {"stopping", "restarting", "stopped"} \cup Watch, seq : 1..MaxSeq,
   id : Services, pid : {Zero}, err : {""}]

Messages == StartedMessages \cup FailedMessages \cup OtherMessages

ServiceState ==
  [status : Statuses, pid : Pids \cup {Zero}, startTime : Pids \cup {Zero}, err : Errors,
   usage : Pids \cup {Zero}, seq : 0..MaxSeq, watching : BOOLEAN, watchSeq : 0..MaxSeq]

\* A serviceState literal of initServices: the other fields are zero.  usage
\* stands for cpu and memory, by the pid they were measured of; a process's
\* start time is named by its pid.
NewState == [status |-> "starting", pid |-> Zero, startTime |-> Zero, err |-> "",
             usage |-> Zero, seq |-> 0, watching |-> FALSE, watchSeq |-> 0]

TypeOK ==
  /\ resolved \in BOOLEAN
  /\ known \subseteq Services
  /\ services \in [Services -> ServiceState]
  /\ counts \in [Statuses -> Nat] /\ total \in Nat
  /\ sampling \in BOOLEAN /\ sampler \in {"idle", "copy", "read", "store"}
  /\ pids \in [Services -> Pids \cup {Zero}]
  /\ stats \in [Services -> Pids \cup {Zero}]
  /\ delivered \subseteq Messages

Init ==
  /\ resolved = FALSE /\ known = {}
  /\ services = [s \in Services |-> NewState]
  /\ counts = [x \in Statuses |-> 0] /\ total = 0
  /\ sampling = FALSE /\ sampler = "idle"
  /\ pids = [s \in Services |-> Zero] /\ stats = [s \in Services |-> Zero]
  /\ delivered = {}

-----------------------------------------------------------------------------
(* Handlers *)

\* ProfileResolved, published once, with the services of the profile
ResolveProfile(P) ==
  /\ ~resolved
  /\ resolved' = TRUE
  /\ known' = P
  /\ services' = [s \in Services |-> NewState]
  /\ counts' = [x \in Statuses |-> IF x = "starting" THEN Cardinality(P) ELSE 0]
  /\ total' = Cardinality(P)
  /\ UNCHANGED <<samplerVars, delivered>>

\* Faulty: counts the new status and keeps the old one counted
MovedKeeping(old, new) == [counts EXCEPT ![new] = @ + 1]

\* transitionStatus: decrementCount and incrementCount
Moved(old, new) == [counts EXCEPT ![old] = @ - 1, ![new] = @ + 1]

\* Faulty: the sequence check is missing
FreshAlways(m) == m.id \in known

\* The service is known and the message newer than the last one accepted
Fresh(m) == m.id \in known /\ m.seq > services[m.id].seq

\* What the lifecycle handlers share; r is the service with the fields that
\* the handler of m sets beside status and sequence number
Transition(m, r) ==
  /\ Fresh(m)
  /\ services' = [services EXCEPT ![m.id] = [r EXCEPT !.status = m.kind, !.seq = m.seq]]
  /\ counts' = Moved(services[m.id].status, m.kind)

HandleServiceStarting(m) ==
  /\ m.kind = "starting"
  /\ Transition(m, [services[m.id] EXCEPT !.pid = m.pid, !.startTime = m.pid, !.err = "",
                                          !.usage = Zero])

\* Faulty: keeps the statistics of the process before
HandleServiceReadyKeepsUsage(m) ==
  /\ m.kind = "running"
  /\ Transition(m, [services[m.id] EXCEPT !.pid = m.pid, !.startTime = m.pid, !.err = ""])

\* The statistics survive if this is the process already shown
HandleServiceReady(m) ==
  /\ m.kind = "running"
  /\ LET r == services[m.id]
         newProcess == r.pid # m.pid \/ r.startTime # m.pid
     IN  Transition(m, [r EXCEPT !.pid = m.pid, !.startTime = m.pid, !.err = "",
                                 !.usage = IF newProcess THEN Zero ELSE @])

HandleServiceStopped(m) ==
  /\ m.kind = "stopped"
  /\ Transition(m, [services[m.id] EXCEPT !.pid = Zero, !.startTime = Zero, !.err = "",
                                          !.usage = Zero])

HandleServiceFailed(m) ==
  /\ m.kind = "failed"
  /\ Transition(m, [services[m.id] EXCEPT !.pid = Zero, !.startTime = Zero, !.err = m.err,
                                          !.usage = Zero])

\* The pid of the process being replaced stays
HandleServiceRestarting(m) ==
  /\ m.kind = "restarting"
  /\ Transition(m, [services[m.id] EXCEPT !.startTime = Zero, !.usage = Zero])

HandleServiceStopping(m) == m.kind = "stopping" /\ Transition(m, services[m.id])

SetWatching(m) ==
  /\ m.kind \in Watch /\ m.id \in known /\ m.seq > services[m.id].watchSeq
  /\ services' = [services EXCEPT
       ![m.id] = [services[m.id] EXCEPT !.watching = (m.kind = "watched"), !.watchSeq = m.seq]]
  /\ UNCHANGED counts

\* Unknown service, or not newer
Ignore(m) ==
  /\ \/ m.id \notin known
     \/ m.kind \in Statuses /\ m.seq <= services[m.id].seq
     \/ m.kind \in Watch /\ m.seq <= services[m.id].watchSeq
  /\ UNCHANGED <<services, counts>>

\* handleEvent.  A sequence number belongs to one message.
HandleEvent(m) ==
  /\ resolved
  /\ \A d \in delivered : d.seq = m.seq => d = m
  /\ \/ HandleServiceStarting(m) \/ HandleServiceReady(m) \/ HandleServiceStopped(m)
     \/ HandleServiceFailed(m) \/ HandleServiceRestarting(m) \/ HandleServiceStopping(m)
     \/ SetWatching(m) \/ Ignore(m)
  /\ delivered' = delivered \cup {m}
  /\ UNCHANGED <<resolved, known, total, samplerVars>>

-----------------------------------------------------------------------------
(* Sampling *)

\* The ticker: one sampler at a time
Tick ==
  /\ ~sampling
  /\ sampling' = TRUE /\ sampler' = "copy"
  /\ UNCHANGED <<stateVars, pids, stats, delivered>>

\* Faulty: returns without resetting the flag
CopyPidsKeepsFlag ==
  /\ sampler = "copy"
  /\ pids' = [s \in Services |-> IF s \in known THEN services[s].pid ELSE Zero]
  /\ sampler' = IF \A s \in Services : pids'[s] = Zero THEN "idle" ELSE "read"
  /\ UNCHANGED <<stateVars, sampling, stats, delivered>>

\* Under RLock; without a pid the sampler is done
CopyPids ==
  /\ sampler = "copy"
  /\ pids' = [s \in Services |-> IF s \in known THEN services[s].pid ELSE Zero]
  /\ IF \A s \in Services : pids'[s] = Zero
       THEN sampler' = "idle" /\ sampling' = FALSE
       ELSE sampler' = "read" /\ UNCHANGED sampling
  /\ UNCHANGED <<stateVars, stats, delivered>>

\* GetStats for each pid: an error or a timeout leaves the service out
ReadStats(ok) ==
  /\ sampler = "read"
  /\ stats' = [s \in Services |-> IF s \in ok THEN pids[s] ELSE Zero]
  /\ sampler' = "store"
  /\ UNCHANGED <<stateVars, sampling, pids, delivered>>

\* Faulty: no second look at the pid
StoreStatsUnchecked ==
  /\ sampler = "store"
  /\ services' = [s \in Services |->
       IF s \in known /\ stats[s] # Zero THEN [services[s] EXCEPT !.usage = stats[s]]
                                         ELSE services[s]]
  /\ sampler' = "idle" /\ sampling' = FALSE
  /\ UNCHANGED <<resolved, known, counts, total, pids, stats, delivered>>

\* Under Lock, for the services that still have the pid
StoreStats ==
  /\ sampler = "store"
  /\ services' = [s \in Services |->
       IF s \in known /\ stats[s] # Zero /\ services[s].pid = pids[s]
         THEN [services[s] EXCEPT !.usage = stats[s]]
         ELSE services[s]]
  /\ sampler' = "idle" /\ sampling' = FALSE
  /\ UNCHANGED <<resolved, known, counts, total, pids, stats, delivered>>

-----------------------------------------------------------------------------

SamplerStep == CopyPids \/ StoreStats \/ \E ok \in SUBSET Services : ReadStats(ok)

Next ==
  \/ \E P \in SUBSET Services : ResolveProfile(P)
  \/ \E m \in Messages : HandleEvent(m)
  \/ Tick \/ SamplerStep

Spec == Init /\ [][Next]_vars

\* The sampler's calls have timeouts
FairSpec == Spec /\ WF_vars(SamplerStep)

-----------------------------------------------------------------------------
(* Properties *)

Showing(x) == {s \in known : services[s].status = x}

\* The counts that the API reports are those of the statuses it lists, whatever
\* order the events came in (store.go:258-296).
CountsExact ==
  /\ \A x \in Statuses : counts[x] = Cardinality(Showing(x))
  /\ total = Cardinality(known)

\* The status is that of the newest lifecycle message delivered, and watching
\* that of the newest watch message: a late or repeated one changes neither,
\* and neither kind shadows the other (store.go:381-386, 517-523).
Of(s, K) == {m \in delivered : m.id = s /\ m.kind \in K}
Newest(M) == {m \in M : \A d \in M : d.seq <= m.seq}

LatestWins ==
  \A s \in known :
    /\ \A m \in Newest(Of(s, Statuses)) : services[s].status = m.kind /\ services[s].seq = m.seq
    /\ \A m \in Newest(Of(s, Watch)) : services[s].watching = (m.kind = "watched")

\* Statistics are shown with the pid they were measured of, although the sampler
\* asked for them without the lock (ARCHITECTURE.md:695, "PID recheck").
UsageOfShownPid ==
  \A s \in known : services[s].usage # Zero => services[s].usage = services[s].pid

\* A stopped or failed service shows nothing of its last process, and a sampler
\* still under way brings nothing back (store.go:424-508, 614-622).
NothingLeftOver ==
  \A s \in known : services[s].status \in {"stopped", "failed"} =>
    services[s].pid = Zero /\ services[s].startTime = Zero /\ services[s].usage = Zero

\* Sampling does not stop for good: no path leaves the flag set (store.go:581-623).
SamplingResumes == sampling ~> ~sampling

=============================================================================
