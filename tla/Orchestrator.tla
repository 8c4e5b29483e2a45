---------------------------- MODULE Orchestrator ----------------------------
(***************************************************************************)
(* Starting, stopping and restarting services: the runner's goroutine and  *)
(* command loop (runner.go), the service operations it and its worker      *)
(* goroutines run (service.go), the guard (guard.go), the worker pool      *)
(* (worker.go), the child processes and their exit watchers, over the      *)
(* registry of module Registry.                                            *)
(*                                                                         *)
(* One pc per goroutine: Main is runner.Run; a service stands for the      *)
(* goroutine startTier gives it; a task is a goroutine spawned for a       *)
(* command or a file change.  Shared state is touched in one step per      *)
(* critical section, channel operation or published event.  status is the  *)
(* last lifecycle event published for a service, which is what the store   *)
(* and the UI show; commands travel to Main through a lossless FIFO queue, *)
(* as critical bus messages do.                                            *)
(***************************************************************************)
EXTENDS ProcessHandles, Sequences

CONSTANTS
  Main,                    \* the goroutine of runner.Run
  Tasks,                   \* goroutines for commands: the bound on commands
  NumTiers, TierOf,        \* tiers 1..NumTiers and the tier of each service
  Workers,                 \* concurrency.workers
  Attempts,                \* retry.attempts
  Probed,                  \* services with a readiness check
  Watched,                 \* services with a watch section
  UI                       \* a terminal UI is attached: it is not gated by phase

ASSUME TierAssumption ==
  /\ NumTiers \in Nat \ {0}
  /\ TierOf \in [Services -> 1..NumTiers]
  /\ \A k \in 1..NumTiers : \E s \in Services : TierOf[s] = k

ASSUME LimitAssumption ==
  /\ Workers \in Nat \ {0}      \* config.Validate rejects less
  /\ Attempts \in Nat \ {0}
  /\ UI \in BOOLEAN

ASSUME ThreadAssumption ==
  /\ IsFiniteSet(Services) /\ IsFiniteSet(Tasks)
  /\ Main \notin Services \cup Tasks
  /\ Services \cap Tasks = {}
  /\ None \notin Services \cup Procs

VARIABLES
  processes, detached, wg, nextOrder, life,   \* the registry
  phase,      \* bus.PhaseChanged last published
  cancelled,  \* the runner's context is cancelled
  signal,     \* a signal is waiting in sigChan
  queue,      \* commands published and not yet received by Main
  sent,       \* how many were published
  pc, op, svc, cur, attempt,   \* per goroutine: control, operation, service, process
  tier, tierOpen,              \* startAllTiers: next tier, and whether it is starting
  failed, announced,           \* services that failed to start, tiers published ready
  sem, guard,                  \* worker slots in use, services locked by the guard
  proc, owner, watcher,        \* per handle: the process, its service, its exit watcher
  status, watching,            \* last lifecycle event, services whose files are watched
  snapshot, undetached, plan   \* shutdown: SnapshotReverse, still to Detach, still to Stop

regVars == <<processes, detached, wg, nextOrder, life>>
mainVars == <<phase, cancelled, signal, queue, sent>>
threadVars == <<pc, op, svc, cur, attempt>>
tierVars == <<tier, tierOpen, failed, announced>>
lockVars == <<sem, guard>>
procVars == <<proc, owner, watcher>>
pubVars == <<status, watching>>
stopVars == <<snapshot, undetached, plan>>
vars == <<regVars, mainVars, threadVars, tierVars, lockVars, procVars, pubVars, stopVars>>

Reg == INSTANCE Registry

Threads == {Main} \cup Services \cup Tasks

Statuses == {"starting", "running", "failed", "stopping", "stopped", "restarting"}

MainPCs == {"select", "lookup", "announce", "detach", "reap", "report",
            "drain", "snapshot", "shutdown", "end"}

WorkPCs == {"idle", "acquire", "lock", "lookup", "detach", "reap", "launch", "await",
            "abort", "add", "backoff", "unlock", "release", "done"}

Commands == [cmd : {"start", "stop", "restart", "watch"}, id : Services]
            \cup [cmd : {"stopall"}]

Entries == [id : Services, proc : Procs, order : Nat]

TypeOK ==
  /\ Reg!TypeOK
  /\ phase \in {"startup", "running", "stopping", "stopped"}
  /\ cancelled \in BOOLEAN /\ signal \in BOOLEAN
  /\ queue \in Seq(Commands) /\ sent \in Nat
  /\ pc \in [Threads -> MainPCs \cup WorkPCs]
  /\ op \in [Threads -> {"start", "resume", "restart", "stop", "shutdown", "none"}]
  /\ svc \in [Threads -> Services \cup {None}]
  /\ cur \in [Threads -> Procs \cup {None}]
  /\ attempt \in [Threads -> Nat]
  /\ tier \in Nat /\ tierOpen \in BOOLEAN
  /\ failed \subseteq Services /\ announced \subseteq 1..NumTiers
  /\ sem \in Nat /\ guard \subseteq Services
  /\ proc \in [Procs -> {"unborn", "alive", "signalled", "exited", "killed"}]
  /\ owner \in [Procs -> Services \cup {None}]
  /\ watcher \in [Procs -> {"none", "waiting", "reporting", "done"}]
  /\ status \in [Services -> Statuses] /\ watching \subseteq Services
  /\ snapshot \subseteq Entries /\ undetached \subseteq Entries /\ plan \subseteq Entries

\* The store and the UI show every service as starting once the profile is
\* resolved; Main has subscribed and spawned startAllTiers.
Init ==
  /\ Reg!Init
  /\ phase = "startup" /\ cancelled = FALSE /\ signal = FALSE
  /\ queue = <<>> /\ sent = 0
  /\ pc = [t \in Threads |-> IF t = Main THEN "select" ELSE "idle"]
  /\ op = [t \in Threads |-> IF t \in Services THEN "start" ELSE "none"]
  /\ svc = [t \in Threads |-> IF t \in Services THEN t ELSE None]
  /\ cur = [t \in Threads |-> None]
  /\ attempt = [t \in Threads |-> 0]
  /\ tier = 1 /\ tierOpen = FALSE /\ failed = {} /\ announced = {}
  /\ sem = 0 /\ guard = {}
  /\ proc = [p \in Procs |-> "unborn"]
  /\ owner = [p \in Procs |-> None]
  /\ watcher = [p \in Procs |-> "none"]
  /\ status = [s \in Services |-> "starting"] /\ watching = {}
  /\ snapshot = {} /\ undetached = {} /\ plan = {}

-----------------------------------------------------------------------------
(* Helpers *)

At(t, l) == pc[t] = l
Goto(t, l) == pc' = [pc EXCEPT ![t] = l]

Gone(p) == proc[p] \in {"exited", "killed"}   \* proc.Done() is closed

\* Terminate: SIGTERM now, SIGKILL after the timeout; harmless once gone
Terminate(p) ==
  proc' = IF proc[p] = "alive" THEN [proc EXCEPT ![p] = "signalled"] ELSE proc

\* A critical lifecycle event.  The watcher starts watching on ServiceReady
\* and stops on ServiceStopped; ServiceFailed leaves it watching.
Publish(s, st) ==
  /\ status' = [status EXCEPT ![s] = st]
  /\ watching' = IF st = "running" THEN watching \cup ({s} \cap Watched)
                 ELSE IF st = "stopped" THEN watching \ {s}
                 ELSE watching

InTier(k) == {s \in Services : TierOf[s] = k}
StartupDone == tier > NumTiers

\* Where a goroutine goes when its operation returns
Unwind(t) == IF t \in Services THEN "release" ELSE "unlock"

\* startTier collects the services whose Start returned an error
NoteFailure(t) ==
  /\ failed' = IF t \in Services THEN failed \cup {t} ELSE failed
  /\ UNCHANGED <<tier, tierOpen, announced>>

-----------------------------------------------------------------------------
(* The worker pool and the guard *)

\* Acquire: a free slot of the semaphore.  A starter goes straight to Start.
Acquire(t) ==
  /\ At(t, "acquire") /\ sem < Workers
  /\ sem' = sem + 1
  /\ Goto(t, IF t \in Services THEN "launch" ELSE "lock")
  /\ attempt' = [attempt EXCEPT ![t] = 1]
  /\ UNCHANGED <<regVars, mainVars, op, svc, cur, tierVars, guard, procVars, pubVars, stopVars>>

\* The other case of the select: with the context cancelled and a slot free,
\* Go picks either.  Only a starter reports the failure.
AcquireCancelled(t) ==
  /\ At(t, "acquire") /\ cancelled
  /\ Goto(t, "done")
  /\ IF t \in Services THEN Publish(t, "failed") ELSE UNCHANGED pubVars
  /\ NoteFailure(t)
  /\ UNCHANGED <<regVars, mainVars, op, svc, cur, attempt, lockVars, procVars, stopVars>>

\* Faulty: takes the lock without looking at the guard
LockUnchecked(t) ==
  /\ At(t, "lock")
  /\ guard' = guard \cup {svc[t]}
  /\ Goto(t, "lookup")
  /\ IF op[t] = "restart" THEN Publish(svc[t], "restarting") ELSE UNCHANGED pubVars
  /\ UNCHANGED <<regVars, mainVars, op, svc, cur, attempt, tierVars, sem, procVars, stopVars>>

Lock(t) ==
  /\ At(t, "lock") /\ svc[t] \notin guard
  /\ guard' = guard \cup {svc[t]}
  /\ Goto(t, "lookup")
  /\ IF op[t] = "restart" THEN Publish(svc[t], "restarting") ELSE UNCHANGED pubVars
  /\ UNCHANGED <<regVars, mainVars, op, svc, cur, attempt, tierVars, sem, procVars, stopVars>>

\* Faulty: the skipping path forgets to release its worker
LockBusyKeepsSlot(t) ==
  /\ At(t, "lock") /\ svc[t] \in guard
  /\ Goto(t, "done")
  /\ UNCHANGED <<regVars, mainVars, op, svc, cur, attempt, tierVars, lockVars, procVars,
                 pubVars, stopVars>>

\* A restart or a start is already in progress: skip
LockBusy(t) ==
  /\ At(t, "lock") /\ svc[t] \in guard
  /\ Goto(t, "release")
  /\ UNCHANGED <<regVars, mainVars, op, svc, cur, attempt, tierVars, lockVars, procVars,
                 pubVars, stopVars>>

Unlock(t) ==
  /\ At(t, "unlock")
  /\ guard' = guard \ {svc[t]}
  /\ Goto(t, "release")
  /\ UNCHANGED <<regVars, mainVars, op, svc, cur, attempt, tierVars, sem, procVars, pubVars,
                 stopVars>>

\* The goroutine ends, and its variables with it
Release(t) ==
  /\ At(t, "release")
  /\ sem' = sem - 1
  /\ Goto(t, "done")
  /\ cur' = [cur EXCEPT ![t] = None] /\ attempt' = [attempt EXCEPT ![t] = 0]
  /\ UNCHANGED <<regVars, mainVars, op, svc, tierVars, guard, procVars, pubVars, stopVars>>

-----------------------------------------------------------------------------
(* doStop, for Main (Stop) and for a task (Restart) *)

RestartLookup(t) ==
  /\ At(t, "lookup") /\ op[t] = "restart"
  /\ IF Reg!Exists(svc[t])
       THEN Goto(t, "detach") /\ cur' = [cur EXCEPT ![t] = Reg!Get(svc[t]).proc]
       ELSE Goto(t, "launch") /\ UNCHANGED cur
  /\ UNCHANGED <<regVars, mainVars, op, svc, attempt, tierVars, lockVars, procVars, pubVars,
                 stopVars>>

\* Faulty: starts without looking whether the service is registered
ResumeLookupUnchecked(t) ==
  /\ At(t, "lookup") /\ op[t] = "resume"
  /\ Goto(t, "launch")
  /\ UNCHANGED <<regVars, mainVars, op, svc, cur, attempt, tierVars, lockVars, procVars,
                 pubVars, stopVars>>

\* Resume skips a service that is still registered
ResumeLookup(t) ==
  /\ At(t, "lookup") /\ op[t] = "resume"
  /\ Goto(t, IF Reg!Exists(svc[t]) THEN "unlock" ELSE "launch")
  /\ UNCHANGED <<regVars, mainVars, op, svc, cur, attempt, tierVars, lockVars, procVars,
                 pubVars, stopVars>>

\* Faulty: terminates without detaching
TerminateAttached(t) ==
  /\ At(t, "detach")
  /\ Terminate(cur[t])
  /\ Goto(t, "reap")
  /\ UNCHANGED <<regVars, mainVars, op, svc, cur, attempt, tierVars, lockVars, owner, watcher,
                 pubVars, stopVars>>

\* Faulty: detaches without terminating
DetachOnly(t) ==
  /\ At(t, "detach")
  /\ Reg!Detach(svc[t])
  /\ Goto(t, "reap")
  /\ UNCHANGED <<mainVars, op, svc, cur, attempt, tierVars, lockVars, procVars, pubVars, stopVars>>

DetachAndTerminate(t) ==
  /\ At(t, "detach")
  /\ Reg!Detach(svc[t])
  /\ Terminate(cur[t])
  /\ Goto(t, "reap")
  /\ UNCHANGED <<mainVars, op, svc, cur, attempt, tierVars, lockVars, owner, watcher, pubVars,
                 stopVars>>

\* Faulty: does not wait for Done
ReapUnwaited(t) ==
  /\ At(t, "reap")
  /\ Reg!Remove(svc[t], cur[t])
  /\ Goto(t, IF t = Main THEN "report" ELSE "launch")
  /\ UNCHANGED <<mainVars, op, svc, cur, attempt, tierVars, lockVars, procVars, pubVars, stopVars>>

\* <-proc.Done(), then Remove, whose result doStop ignores
Reap(t) ==
  /\ At(t, "reap") /\ Gone(cur[t])
  /\ Reg!Remove(svc[t], cur[t])
  /\ Goto(t, IF t = Main THEN "report" ELSE "launch")
  /\ UNCHANGED <<mainVars, op, svc, cur, attempt, tierVars, lockVars, procVars, pubVars, stopVars>>

-----------------------------------------------------------------------------
(* Start and doStart *)

\* Handles are interchangeable: a new process takes any unused one
Fresh == CHOOSE p \in Procs : proc[p] = "unborn"

\* Faulty: goes on with the handle of the process it replaced
LaunchStaleHandle(t) ==
  /\ At(t, "launch") /\ \E p \in Procs : proc[p] = "unborn"
  /\ proc' = [proc EXCEPT ![Fresh] = "alive"]
  /\ owner' = [owner EXCEPT ![Fresh] = svc[t]]
  /\ cur' = [cur EXCEPT ![t] = IF @ = None THEN Fresh ELSE @]
  /\ Publish(svc[t], "starting")
  /\ Goto(t, "await")
  /\ UNCHANGED <<regVars, mainVars, op, svc, attempt, tierVars, lockVars, watcher, stopVars>>

\* The command runs: cmd.Start succeeded and ServiceStarting is published
Launch(t) ==
  /\ At(t, "launch") /\ \E p \in Procs : proc[p] = "unborn"
  /\ proc' = [proc EXCEPT ![Fresh] = "alive"]
  /\ owner' = [owner EXCEPT ![Fresh] = svc[t]]
  /\ cur' = [cur EXCEPT ![t] = Fresh]
  /\ Publish(svc[t], "starting")
  /\ Goto(t, "await")
  /\ UNCHANGED <<regVars, mainVars, op, svc, attempt, tierVars, lockVars, watcher, stopVars>>

\* Faulty: a failed restart is not reported
AttemptFailedSilently(t) ==
  IF op[t] # "restart" /\ attempt[t] < Attempts
    THEN /\ Goto(t, "backoff")
         /\ attempt' = [attempt EXCEPT ![t] = @ + 1]
         /\ UNCHANGED <<tierVars, pubVars>>
    ELSE /\ Goto(t, Unwind(t))
         /\ NoteFailure(t)
         /\ UNCHANGED <<attempt, pubVars>>

\* An attempt failed: Restart has only the one; Start backs off for the next
\* one, or has used them all.
AttemptFailed(t) ==
  IF op[t] # "restart" /\ attempt[t] < Attempts
    THEN /\ Goto(t, "backoff")
         /\ attempt' = [attempt EXCEPT ![t] = @ + 1]
         /\ UNCHANGED <<tierVars, pubVars>>
    ELSE /\ Goto(t, Unwind(t))
         /\ Publish(svc[t], "failed")
         /\ NoteFailure(t)
         /\ UNCHANGED attempt

\* resolvePaths, preFlightCheck, the pipes or cmd.Start: an error before any
\* process exists
LaunchFails(t) ==
  /\ At(t, "launch")
  /\ AttemptFailed(t)
  /\ UNCHANGED <<regVars, mainVars, op, svc, cur, lockVars, procVars, stopVars>>

\* waitForReady returns nil, at once when there is no readiness check, and
\* ServiceReady is published: the registry does not know the process yet
Ready(t) ==
  /\ At(t, "await")
  /\ Publish(svc[t], "running")
  /\ Goto(t, "add")
  /\ UNCHANGED <<regVars, mainVars, op, svc, cur, attempt, tierVars, lockVars, procVars, stopVars>>

\* The check failed or timed out, the process exited, or ctx is cancelled
NotReady(t) ==
  /\ At(t, "await") /\ svc[t] \in Probed
  /\ Terminate(cur[t])
  /\ Goto(t, "abort")
  /\ UNCHANGED <<regVars, mainVars, op, svc, cur, attempt, tierVars, lockVars, owner, watcher,
                 pubVars, stopVars>>

\* Terminate has returned: the process that never got ready is gone
Abort(t) ==
  /\ At(t, "abort") /\ Gone(cur[t])
  /\ AttemptFailed(t)
  /\ UNCHANGED <<regVars, mainVars, op, svc, cur, lockVars, procVars, stopVars>>

Backoff(t) ==
  /\ At(t, "backoff")
  /\ Goto(t, "launch")
  /\ UNCHANGED <<regVars, mainVars, op, svc, cur, attempt, tierVars, lockVars, procVars,
                 pubVars, stopVars>>

\* ctx.Done() during the backoff: Start returns without an event
BackoffCancelled(t) ==
  /\ At(t, "backoff") /\ cancelled
  /\ Goto(t, Unwind(t))
  /\ NoteFailure(t)
  /\ UNCHANGED <<regVars, mainVars, op, svc, cur, attempt, lockVars, procVars, pubVars, stopVars>>

\* registry.Add and watchForExit
AddProcess(t) ==
  /\ At(t, "add")
  /\ Reg!Add(svc[t], cur[t])
  /\ watcher' = [watcher EXCEPT ![cur[t]] = "waiting"]
  /\ Goto(t, Unwind(t))
  /\ UNCHANGED <<mainVars, op, svc, cur, attempt, tierVars, lockVars, proc, owner, pubVars, stopVars>>

-----------------------------------------------------------------------------
(* Processes and their exit watchers *)

\* A service exits by itself, or because it was terminated
Die(p) ==
  /\ proc[p] \in {"alive", "signalled"}
  /\ proc' = [proc EXCEPT ![p] = IF @ = "alive" THEN "exited" ELSE "killed"]
  /\ UNCHANGED <<regVars, mainVars, threadVars, tierVars, lockVars, owner, watcher, pubVars, stopVars>>

\* watchForExit: only an exit of a process that was still attached is reported
SeeExit(p) ==
  /\ watcher[p] = "waiting" /\ Gone(p)
  /\ Reg!Remove(owner[p], p)
  /\ watcher' = [watcher EXCEPT ![p] = IF Reg!Unexpected(owner[p], p) THEN "reporting" ELSE "done"]
  /\ UNCHANGED <<mainVars, threadVars, tierVars, lockVars, proc, owner, pubVars, stopVars>>

\* Faulty: leaves the crash of a watched service to the watcher
ReportExitUnwatchedOnly(p) ==
  /\ watcher[p] = "reporting"
  /\ watcher' = [watcher EXCEPT ![p] = "done"]
  /\ IF owner[p] \in Watched THEN UNCHANGED pubVars ELSE Publish(owner[p], "stopped")
  /\ UNCHANGED <<regVars, mainVars, threadVars, tierVars, lockVars, proc, owner, stopVars>>

ReportExit(p) ==
  /\ watcher[p] = "reporting"
  /\ watcher' = [watcher EXCEPT ![p] = "done"]
  /\ Publish(owner[p], IF owner[p] \in Watched THEN "failed" ELSE "stopped")
  /\ UNCHANGED <<regVars, mainVars, threadVars, tierVars, lockVars, proc, owner, stopVars>>

-----------------------------------------------------------------------------
(* startAllTiers *)

\* TierStarting, and one goroutine per service of the tier
StartTier ==
  /\ ~tierOpen /\ ~StartupDone
  /\ tierOpen' = TRUE
  /\ pc' = [t \in Threads |-> IF t \in InTier(tier) THEN "acquire" ELSE pc[t]]
  /\ UNCHANGED <<regVars, mainVars, op, svc, cur, attempt, tier, failed, announced, lockVars,
                 procVars, pubVars, stopVars>>

\* Faulty: does not wait for the starters of the tier
EndTierEarly ==
  /\ tierOpen
  /\ tierOpen' = FALSE
  /\ tier' = tier + 1
  /\ announced' = IF InTier(tier) \cap failed = {} THEN announced \cup {tier} ELSE announced
  /\ UNCHANGED <<regVars, mainVars, threadVars, failed, lockVars, procVars, pubVars, stopVars>>

\* Faulty: TierReady is published whatever failed
EndTierAlwaysReady ==
  /\ tierOpen /\ \A s \in InTier(tier) : At(s, "done")
  /\ tierOpen' = FALSE
  /\ tier' = tier + 1
  /\ announced' = announced \cup {tier}
  /\ UNCHANGED <<regVars, mainVars, threadVars, failed, lockVars, procVars, pubVars, stopVars>>

\* wg.Wait returned: TierReady is published unless a service failed; a
\* cancelled context does not stop the next tier
EndTier ==
  /\ tierOpen /\ \A s \in InTier(tier) : At(s, "done")
  /\ tierOpen' = FALSE
  /\ tier' = tier + 1
  /\ announced' = IF InTier(tier) \cap failed = {} THEN announced \cup {tier} ELSE announced
  /\ UNCHANGED <<regVars, mainVars, threadVars, failed, lockVars, procVars, pubVars, stopVars>>

-----------------------------------------------------------------------------
(* Main: the select loops of runStartupPhase and runServicePhase *)

Selecting == At(Main, "select") /\ phase \in {"startup", "running"}

\* case <-startupDone
StartupComplete ==
  /\ Selecting /\ phase = "startup" /\ StartupDone
  /\ phase' = "running"
  /\ UNCHANGED <<regVars, cancelled, signal, queue, sent, threadVars, tierVars, lockVars, procVars,
                 pubVars, stopVars>>

\* cancel() ends the subscription, so what is queued is not received, sigChan is
\* read no more, and nothing is sent that would count against the bound; startup
\* waits for startAllTiers, the running phase announces PhaseStopping
BeginShutdown ==
  /\ cancelled' = TRUE
  /\ queue' = <<>> /\ signal' = FALSE /\ sent' = 0
  /\ IF phase = "startup" THEN Goto(Main, "drain") /\ UNCHANGED phase
                          ELSE Goto(Main, "snapshot") /\ phase' = "stopping"
  /\ UNCHANGED <<regVars, op, svc, cur, attempt, tierVars, lockVars, procVars, pubVars, stopVars>>

TakeSignal == Selecting /\ signal /\ BeginShutdown

SeeCancelled == Selecting /\ cancelled /\ BeginShutdown

Receives(c) == Selecting /\ queue # <<>> /\ Head(queue).cmd = c

TakeStopAll == Receives("stopall") /\ BeginShutdown

\* StopService: service.Stop runs in Main's own goroutine
TakeStop ==
  /\ Receives("stop")
  /\ queue' = Tail(queue)
  /\ Goto(Main, "lookup")
  /\ op' = [op EXCEPT ![Main] = "stop"]
  /\ svc' = [svc EXCEPT ![Main] = Head(queue).id]
  /\ UNCHANGED <<regVars, phase, cancelled, signal, sent, cur, attempt, tierVars, lockVars, procVars,
                 pubVars, stopVars>>

\* StartService, RestartService and WatchTriggered spawn a goroutine that
\* first acquires a worker
Spawn(o) ==
  LET t == CHOOSE u \in Tasks : At(u, "idle")
  IN  /\ \E u \in Tasks : At(u, "idle")
      /\ queue' = Tail(queue)
      /\ Goto(t, "acquire")
      /\ op' = [op EXCEPT ![t] = o]
      /\ svc' = [svc EXCEPT ![t] = Head(queue).id]
      /\ UNCHANGED <<regVars, phase, cancelled, signal, sent, cur, attempt, tierVars, lockVars,
                     procVars, pubVars, stopVars>>

TakeStart == Receives("start") /\ Spawn("resume")

TakeRestart == Receives("restart") /\ Spawn("restart")

TakeWatch == Receives("watch") /\ phase = "running" /\ Spawn("restart")

\* runStartupPhase hands everything to handleCommand, which does not know
\* WatchTriggered
IgnoreWatch ==
  /\ Receives("watch") /\ phase = "startup"
  /\ queue' = Tail(queue)
  /\ UNCHANGED <<regVars, phase, cancelled, signal, sent, threadVars, tierVars, lockVars, procVars,
                 pubVars, stopVars>>

-----------------------------------------------------------------------------
(* Main: service.Stop and shutdown *)

StopReturns == Goto(Main, IF op[Main] = "stop" THEN "select" ELSE "shutdown")

\* Get: a service that is not registered is not stopped, and nothing is said
StopLookup ==
  /\ At(Main, "lookup")
  /\ IF Reg!Exists(svc[Main])
       THEN Goto(Main, "announce") /\ cur' = [cur EXCEPT ![Main] = Reg!Get(svc[Main]).proc]
       ELSE StopReturns /\ UNCHANGED cur
  /\ UNCHANGED <<regVars, mainVars, op, svc, attempt, tierVars, lockVars, procVars, pubVars, stopVars>>

AnnounceStopping ==
  /\ At(Main, "announce")
  /\ Publish(svc[Main], "stopping")
  /\ Goto(Main, "detach")
  /\ UNCHANGED <<regVars, mainVars, op, svc, cur, attempt, tierVars, lockVars, procVars, stopVars>>

ReportStopped ==
  /\ At(Main, "report")
  /\ Publish(svc[Main], "stopped")
  /\ StopReturns
  /\ UNCHANGED <<regVars, mainVars, op, svc, cur, attempt, tierVars, lockVars, procVars, stopVars>>

\* <-startupDone
Drain ==
  /\ At(Main, "drain") /\ StartupDone
  /\ Goto(Main, "snapshot")
  /\ UNCHANGED <<regVars, mainVars, op, svc, cur, attempt, tierVars, lockVars, procVars, pubVars,
                 stopVars>>

TakeSnapshot ==
  /\ At(Main, "snapshot")
  /\ snapshot' = Reg!Snapshot /\ undetached' = Reg!Snapshot /\ plan' = Reg!Snapshot
  /\ op' = [op EXCEPT ![Main] = "shutdown"]
  /\ Goto(Main, "shutdown")
  /\ UNCHANGED <<regVars, mainVars, svc, cur, attempt, tierVars, lockVars, procVars, pubVars>>

\* Faulty: the sort is ascending
Earliest(e, E) == \A f \in E : f.order >= e.order

\* e comes before the rest of E in reverse startup order
Latest(e, E) == \A f \in E : f.order <= e.order

DetachNext(e) ==
  /\ At(Main, "shutdown") /\ Latest(e, undetached)
  /\ Reg!Detach(e.id)
  /\ undetached' = undetached \ {e}
  /\ UNCHANGED <<mainVars, threadVars, tierVars, lockVars, procVars, pubVars, snapshot, plan>>

StopNext(e) ==
  /\ At(Main, "shutdown") /\ undetached = {} /\ Latest(e, plan)
  /\ plan' = plan \ {e}
  /\ svc' = [svc EXCEPT ![Main] = e.id]
  /\ Goto(Main, "lookup")
  /\ UNCHANGED <<regVars, mainVars, op, cur, attempt, tierVars, lockVars, procVars, pubVars,
                 snapshot, undetached>>

\* registry.Wait returns when the WaitGroup is down, or after ShutdownTimeout
\* whatever it counts; PhaseStopped is published
ShutdownDone ==
  /\ At(Main, "shutdown") /\ undetached = {} /\ plan = {}
  /\ phase' = "stopped"
  /\ Goto(Main, "end")
  /\ UNCHANGED <<regVars, cancelled, signal, queue, sent, op, svc, cur, attempt, tierVars, lockVars,
                 procVars, pubVars, stopVars>>

-----------------------------------------------------------------------------
(* Clients: the UI and the API check the status they see, the API also the *)
(* phase.  What is sent when Main has left its loops reaches nobody.       *)

Listening == At(Main, "select") \/ (op[Main] = "stop" /\ ~cancelled)

Allowed(c, s) ==
  CASE c = "start"   -> status[s] \in {"stopped", "failed"}
    [] c = "stop"    -> status[s] = "running"
    [] c = "restart" -> status[s] \in {"running", "failed", "stopped"}

Request(c, s) ==
  /\ UI \/ phase = "running"
  /\ Listening /\ sent < Cardinality(Tasks)
  /\ Allowed(c, s)
  /\ queue' = Append(queue, [cmd |-> c, id |-> s])
  /\ sent' = sent + 1
  /\ UNCHANGED <<regVars, phase, cancelled, signal, threadVars, tierVars, lockVars, procVars, pubVars,
                 stopVars>>

\* The watcher publishes WatchTriggered for a watched service
FileChange(s) ==
  /\ s \in watching
  /\ Listening /\ sent < Cardinality(Tasks)
  /\ queue' = Append(queue, [cmd |-> "watch", id |-> s])
  /\ sent' = sent + 1
  /\ UNCHANGED <<regVars, phase, cancelled, signal, threadVars, tierVars, lockVars, procVars, pubVars,
                 stopVars>>

\* q in the UI; nothing is sent after it
QuitKey ==
  /\ UI /\ Listening /\ sent <= Cardinality(Tasks)
  /\ queue' = Append(queue, [cmd |-> "stopall"])
  /\ sent' = Cardinality(Tasks) + 1
  /\ UNCHANGED <<regVars, phase, cancelled, signal, threadVars, tierVars, lockVars, procVars, pubVars,
                 stopVars>>

SendSignal ==
  /\ Selecting /\ ~signal /\ ~cancelled
  /\ signal' = TRUE
  /\ UNCHANGED <<regVars, phase, cancelled, queue, sent, threadVars, tierVars, lockVars, procVars,
                 pubVars, stopVars>>

\* The parent context is cancelled: the UI program ended, or fx, which handles
\* signals too, stops the application
ParentCancel ==
  /\ ~cancelled
  /\ cancelled' = TRUE
  /\ UNCHANGED <<regVars, phase, signal, queue, sent, threadVars, tierVars, lockVars, procVars,
                 pubVars, stopVars>>

-----------------------------------------------------------------------------

ServiceStep(t) ==
  \/ Acquire(t) \/ AcquireCancelled(t) \/ Release(t)
  \/ Launch(t) \/ LaunchFails(t) \/ Ready(t) \/ NotReady(t) \/ Abort(t)
  \/ Backoff(t) \/ BackoffCancelled(t) \/ AddProcess(t)

TaskStep(t) ==
  \/ Lock(t) \/ LockBusy(t) \/ Unlock(t)
  \/ RestartLookup(t) \/ ResumeLookup(t)

StopStep(t) == DetachAndTerminate(t) \/ Reap(t)

MainStep ==
  \/ StartupComplete \/ TakeSignal \/ SeeCancelled \/ TakeStopAll \/ TakeStop
  \/ TakeStart \/ TakeRestart \/ TakeWatch \/ IgnoreWatch
  \/ StopLookup \/ AnnounceStopping \/ ReportStopped
  \/ Drain \/ TakeSnapshot \/ ShutdownDone
  \/ \E e \in undetached : DetachNext(e)
  \/ \E e \in plan : StopNext(e)
  \/ StopStep(Main)

Environment ==
  \/ \E c \in {"start", "stop", "restart"}, s \in Services : Request(c, s)
  \/ \E s \in Services : FileChange(s)
  \/ QuitKey \/ SendSignal \/ ParentCancel
  \/ \E p \in Procs : Die(p)

\* Run has returned
Finished == At(Main, "end") /\ UNCHANGED vars

Next ==
  \/ MainStep
  \/ \E t \in Services \cup Tasks : ServiceStep(t)
  \/ \E t \in Tasks : TaskStep(t) \/ StopStep(t)
  \/ StartTier \/ EndTier
  \/ \E p \in Procs : SeeExit(p) \/ ReportExit(p)
  \/ Environment
  \/ Finished

Spec == Init /\ [][Next]_vars

\* Goroutines that can run do run; a terminated process dies, by SIGKILL at
\* the latest; a readiness check has a timeout.  Clients, signals, file
\* changes and crashes owe nothing.
Fairness ==
  /\ WF_vars(MainStep)
  /\ WF_vars(StartTier \/ EndTier)
  /\ \A t \in Services \cup Tasks : WF_vars(ServiceStep(t))
  /\ \A t \in Tasks : WF_vars(TaskStep(t) \/ StopStep(t))
  /\ \A p \in Procs : WF_vars(SeeExit(p) \/ ReportExit(p))
  /\ \A p \in Procs : WF_vars(proc[p] = "signalled" /\ Die(p))

FairSpec == Spec /\ Fairness

-----------------------------------------------------------------------------
(* Properties *)

\* The goroutines between guard.Lock and guard.Unlock for s
InGuard(s) ==
  {t \in Tasks : svc[t] = s /\ pc[t] \in {"lookup", "detach", "reap", "launch", "await", "abort",
                                         "add", "backoff", "unlock"}}

\* At most one start or restart of a service is in progress, and the guard
\* says so: a second one skips, whatever path the first returns by
\* (service.go:163, 221, with the deferred Unlock).
GuardExclusive ==
  \A s \in Services : /\ \A t, u \in InGuard(s) : t = u
                      /\ s \in guard <=> InGuard(s) # {}

\* The goroutines that hold a worker slot
SlotHolders == {t \in Services \cup Tasks : pc[t] \notin {"idle", "acquire", "done"}}

\* Every path out of startTier's and runWithWorker's goroutines gives its slot
\* back, and no more than Workers run at once (worker.go:29-40).
SlotsExact == sem = Cardinality(SlotHolders) /\ sem <= Workers

\* The registry forgets a process only when it is gone: doStop and
\* watchForExit both wait for Done first (service.go:327, 442).
RemovedMeansGone == \A p \in Procs : life[p] = "removed" => Gone(p)

\* A process that was terminated on purpose is never reported as having exited
\* unexpectedly, although its exit watcher wakes up too (service.go:444-447).
IntendedStopSilent == \A p \in Procs : watcher[p] = "reporting" => proc[p] = "exited"

\* No Add drops another process of the service from the registry: such a
\* process would run on with nobody to stop it (registry.go:84-87).
NoneLost == \A p \in Procs : life[p] # "lost"

\* Nothing is running on behalf of s: no goroutine, no pending report
Quiet(s) ==
  /\ \A t \in Threads : svc[t] = s => pc[t] \in {"idle", "done", "select"}
  /\ \A p \in Procs : owner[p] = s => watcher[p] # "reporting"

\* When a running instance is quiet, a service shown as running has a process
\* in the registry: no path forgets to publish the end of a service.
RunningIsRegistered ==
  \A s \in Services :
    phase = "running" /\ Quiet(s) /\ status[s] = "running" => Reg!Exists(s)

\* Shutdown stops services one at a time, those registered last first: whatever
\* commands are still in flight, and with a panel too, the process of an entry
\* is gone before the Stop of one registered earlier begins.  An entry is exempt
\* when a start from the panel has overwritten it: nobody can stop its process
\* any more (runner.go:419-421).
ShutdownInOrder ==
  (At(Main, "shutdown") /\ undetached = {}) \/ phase = "stopped" =>
    \A e \in snapshot \ plan :
      /\ Gone(e.proc) \/ life[e.proc] = "lost"
      /\ \A f \in plan : f.order < e.order

\* No service of a tier is launched before every service of the tiers below
\* has started or failed for good (runner.go:335-349).
TiersInOrder ==
  \A s, t \in Services :
    TierOf[s] < TierOf[t] /\ ~At(t, "idle") => At(s, "done")

\* TierReady is published only for a tier each of whose services got a process
\* that was registered (runner.go:351-364).
TierReadyMeansStarted ==
  \A s \in Services : TierOf[s] \in announced =>
    \E p \in Procs : owner[p] = s /\ life[p] # "fresh"

\* The registry's own specification: callers register a handle at most once
\* and use no other way to change it.
RegistrySpec == Reg!Spec

\* Whatever the goroutines interleave, a service has one entry, the maps hold
\* the tracked handles, each once, the WaitGroup counts the handles added and
\* not Done, and the orders shutdown sorts by differ (registry.go:54-169).
RegistryConsistent ==
  Reg!OneMapPerService /\ Reg!TrackedExactlyOnce /\ Reg!WaitGroupExact /\ Reg!OrdersDistinct

\* A restart always comes to an end: the service does not stay "restarting".
RestartResolves ==
  \A s \in Services : status[s] = "restarting" ~> status[s] # "restarting" \/ phase = "stopped"

-----------------------------------------------------------------------------
(* What the documentation and the comments say, and the code does not do *)

\* ARCHITECTURE.md: at PhaseStopped all services are terminated.
StoppedMeansTerminated == phase = "stopped" => \A p \in Procs : proc[p] # "alive"

\* lifecycle.astro:56, "Services stop in reverse tier order": when shutdown goes
\* on to the Stop of a service, those of higher tiers are gone.  The order is
\* that of registration, and a restart moves a service to its end
\* (runner.go:411-421).
StoppedByTier ==
  At(Main, "shutdown") /\ undetached = {} =>
    \A e \in snapshot \ plan, f \in plan : TierOf[f.id] <= TierOf[e.id]

=============================================================================
