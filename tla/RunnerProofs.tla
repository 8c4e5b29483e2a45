---------------------------- MODULE RunnerProofs ----------------------------
(***************************************************************************)
(* What the runner publishes agrees with what the registry holds, no       *)
(* process is forgotten, and shutdown goes in order: proofs for any        *)
(* services, tiers, workers, attempts and commands.  Commands come from    *)
(* the API or from a UI; that no entry of the registry is overwritten      *)
(* needs that they come from the API only, which holds them back until the *)
(* startup is over.  At the end, the cleanup that precedes it, and so the  *)
(* whole run of a profile.                                                 *)
(***************************************************************************)
EXTENDS OrchestratorProofs, ProfileRun, FiniteSetTheorems

\* A process of s has been registered.
Started(s) == \E p \in Procs : owner[p] = s /\ life[p] # "fresh"

\* A starter that returned has registered a process or noted the failure.
StartersReport ==
  \A s \in Services : pc[s] \in {"release", "done"} /\ s \notin failed => Started(s)

\* The phase tells how far Main is, and only a restart stops a process in a task.
MainPhases ==
  /\ phase = "running" => op[Main] # "shutdown" /\ pc[Main] \notin {"drain", "snapshot"}
  /\ pc[Main] = "select" => op[Main] # "shutdown"
  /\ \A t \in Tasks : pc[t] \in {"detach", "reap"} => op[t] = "restart"

Registering(s) == \E t \in Services \cup Tasks : svc[t] = s /\ pc[t] = "add"

Stopping(s) == svc[Main] = s /\ pc[Main] \in {"reap", "report"}

Replacing(s) == \E t \in Tasks : svc[t] = s /\ op[t] = "restart" /\ pc[t] \in {"reap", "launch"}

Reporting(s) == \E p \in Procs : owner[p] = s /\ watcher[p] = "reporting"

IsAttached(s) == processes[s] # None

\* Who will publish the end of s, when it is shown as running and is not attached.
Accounted(s) ==
  IsAttached(s) \/ Registering(s) \/ Stopping(s) \/ Replacing(s) \/ Reporting(s)

RunningIsAccounted ==
  op[Main] # "shutdown" => \A s \in Services : status[s] = "running" => Accounted(s)

EventInv ==
  /\ IInv
  /\ StartersReport /\ TierReadyMeansStarted
  /\ MainPhases /\ RunningIsAccounted

USE DEF regVars, mainVars, threadVars, tierVars, lockVars, procVars, pubVars, stopVars

-----------------------------------------------------------------------------
(* Started services *)

\* A handle that was registered is never fresh again.
LEMMA LifeKept ==
  ASSUME TypeOK, [Reg!Next]_(Reg!regVars), NEW p \in Procs, life[p] # "fresh"
  PROVE  life'[p] # "fresh"
<1>p. life \in [Procs -> Reg!Life]
  BY HandleTypes
<1>1. ASSUME NEW s \in Services, NEW q \in Procs, Reg!Add(s, q) PROVE life'[p] # "fresh"
  BY <1>1, <1>p DEF Reg!Add
<1>2. ASSUME NEW s \in Services, Reg!Detach(s) PROVE life'[p] # "fresh"
  BY <1>2 DEF Reg!Detach
<1>3. ASSUME NEW s \in Services, NEW q \in Procs, Reg!Remove(s, q) PROVE life'[p] # "fresh"
  BY <1>3, <1>p DEF Reg!Remove, Reg!RemoveAttached, Reg!RemoveDetached, Reg!RemoveNothing, Reg!regVars
<1>4. CASE UNCHANGED Reg!regVars
  BY <1>4 DEF Reg!regVars
<1> QED  BY <1>1, <1>2, <1>3, <1>4 DEF Reg!Next

\* The service of a process that exists never changes.
LEMMA OwnerKept ==
  ASSUME TypeOK, Next, NEW p \in Procs, proc[p] # "unborn"
  PROVE  owner'[p] = owner[p]
<1>1. ASSUME NEW t \in Services \cup Tasks, Launch(t) PROVE owner'[p] = owner[p]
  <2>1. Fresh \in Procs /\ proc[Fresh] = "unborn"
    BY <1>1 DEF Launch, Fresh
  <2>2. owner' = [owner EXCEPT ![Fresh] = svc[t]]
    BY <1>1 DEF Launch
  <2> QED  BY <2>1, <2>2, HandleTypes
<1>2. ASSUME NEW t \in Services \cup Tasks, ServiceStep(t), ~Launch(t) PROVE owner' = owner
  BY <1>2 DEF ServiceStep, Acquire, AcquireCancelled, Release, LaunchFails, Ready,
     NotReady, Abort, Backoff, BackoffCancelled, AddProcess
<1>3. ASSUME NEW t \in Tasks, TaskStep(t) \/ StopStep(t) PROVE owner' = owner
  BY <1>3 DEF TaskStep, Lock, LockBusy, Unlock, RestartLookup, ResumeLookup, StopStep,
     DetachAndTerminate, Reap
<1>4. CASE MainStep
  <2>1. CASE TakeStart \/ TakeRestart \/ TakeWatch
    BY <2>1 DEF TakeStart, TakeRestart, TakeWatch, Spawn
  <2>2. CASE ~(TakeStart \/ TakeRestart \/ TakeWatch)
    BY <1>4, <2>2 DEF MainStep, StartupComplete, TakeSignal, SeeCancelled, TakeStopAll,
       IgnoreWatch, TakeStop, StopLookup, AnnounceStopping, ReportStopped, Drain, TakeSnapshot,
       ShutdownDone, DetachNext, StopNext, StopStep, DetachAndTerminate, Reap, BeginShutdown
  <2> QED  BY <2>1, <2>2
<1>5. CASE StartTier \/ EndTier
  BY <1>5 DEF StartTier, EndTier
<1>6. ASSUME NEW q \in Procs, SeeExit(q) \/ ReportExit(q) PROVE owner' = owner
  BY <1>6 DEF SeeExit, ReportExit
<1>7. CASE Environment
  BY <1>7, EnvironmentFrame
<1>8. CASE Finished
  BY <1>8 DEF Finished, vars
<1> QED  BY <1>1, <1>2, <1>3, <1>4, <1>5, <1>6, <1>7, <1>8 DEF Next

\* What has started stays started.
LEMMA StartedKept ==
  ASSUME IInv, Next, NEW s \in Services, Started(s)
  PROVE  Started(s)'
<1>1. PICK p \in Procs : owner[p] = s /\ life[p] # "fresh"
  BY DEF Started
<1>2. [Reg!Next]_(Reg!regVars)
  BY RegistryStep DEF IInv, Handles
<1>3. life'[p] # "fresh"
  BY <1>1, <1>2, LifeKept DEF IInv
<1>4. proc[p] # "unborn"
  BY <1>1 DEF IInv, Handles, Watchers
<1>5. owner'[p] = owner[p]
  BY <1>4, OwnerKept DEF IInv
<1> QED  BY <1>1, <1>3, <1>5 DEF Started

\* Only a registration lets a starter return without a failure.
LEMMA StarterFrame ==
  ASSUME TypeOK, Control, Next, NEW s \in Services, pc'[s] \in {"release", "done"}, s \notin failed'
  PROVE  (pc[s] \in {"release", "done"} /\ s \notin failed) \/ AddProcess(s)
<1> USE ThreadAssumption DEF Control, Threads, At, Goto, Unwind, ServicePCs
<1>p. pc \in [Threads -> MainPCs \cup WorkPCs]
  BY DEF TypeOK
<1> DEFINE G == (pc[s] \in {"release", "done"} /\ s \notin failed) \/ AddProcess(s)
<1>1. ASSUME NEW t \in Services \cup Tasks, ServiceStep(t) PROVE G
  <2>1. CASE Acquire(t) \/ AcquireCancelled(t) \/ Release(t) \/ Launch(t)
    BY <2>1, <1>p DEF Acquire, AcquireCancelled, Release, Launch, NoteFailure
  <2>2. CASE LaunchFails(t) \/ Abort(t)
    BY <2>2, <1>p DEF LaunchFails, Abort, AttemptFailed, NoteFailure
  <2>3. CASE Ready(t) \/ NotReady(t) \/ Backoff(t) \/ BackoffCancelled(t)
    BY <2>3, <1>p DEF Ready, NotReady, Backoff, BackoffCancelled, NoteFailure
  <2>4. CASE AddProcess(t)
    BY <2>4, <1>p DEF AddProcess
  <2> QED  BY <1>1, <2>1, <2>2, <2>3, <2>4 DEF ServiceStep
<1>2. ASSUME NEW t \in Tasks, TaskStep(t) \/ StopStep(t) PROVE G
  BY <1>2, <1>p DEF TaskStep, Lock, LockBusy, Unlock, RestartLookup, ResumeLookup, StopStep,
     DetachAndTerminate, Reap
<1>3. CASE MainStep
  <2>1. CASE TakeStart \/ TakeRestart \/ TakeWatch
    <3>1. PICK o \in {"resume", "restart"} :
            Spawn(o) /\ queue # <<>> /\ Head(queue).cmd # "stopall"
      BY <2>1 DEF TakeStart, TakeRestart, TakeWatch, Receives
    <3>2. failed' = failed
      BY <3>1 DEF Spawn
    <3> QED  BY <3>1, <3>2, <1>p, SpawnStep
  <2>2. CASE ~(TakeStart \/ TakeRestart \/ TakeWatch)
    BY <1>3, <2>2, <1>p DEF MainStep, StartupComplete, TakeSignal, SeeCancelled, TakeStopAll,
       IgnoreWatch, TakeStop, StopLookup, AnnounceStopping, ReportStopped, Drain, TakeSnapshot,
       ShutdownDone, DetachNext, StopNext, StopStep, DetachAndTerminate, Reap, BeginShutdown,
       StopReturns
  <2> QED  BY <2>1, <2>2
<1>4. CASE StartTier \/ EndTier
  BY <1>4, <1>p DEF StartTier, EndTier, InTier
<1>5. ASSUME NEW q \in Procs, SeeExit(q) \/ ReportExit(q) PROVE G
  BY <1>5 DEF SeeExit, ReportExit
<1>6. CASE Environment
  BY <1>6, EnvironmentFrame
<1>7. CASE Finished
  BY <1>7 DEF Finished, vars
<1> QED  BY <1>1, <1>2, <1>3, <1>4, <1>5, <1>6, <1>7 DEF Next

\* A starter that returns without a failure has registered what it launched.
LEMMA StartersReportPreserved ==
  ASSUME IInv, StartersReport, Next
  PROVE  StartersReport'
<1> SUFFICES ASSUME NEW s \in Services, pc'[s] \in {"release", "done"}, s \notin failed'
             PROVE  Started(s)'
  BY DEF StartersReport
<1>1. CASE pc[s] \in {"release", "done"} /\ s \notin failed
  BY <1>1, StartedKept DEF StartersReport
<1>2. CASE AddProcess(s)
  <2>1. cur[s] \in Procs /\ owner[cur[s]] = s
    BY <1>2 DEF AddProcess, At, IInv, Control, Handles, NewHandles, HoldsNew
  <2>2. owner' = owner /\ life'[cur[s]] = "tracked"
    BY <1>2, <2>1, HandleTypes DEF AddProcess, Reg!Add, IInv
  <2> QED  BY <2>1, <2>2 DEF Started
<1> QED  BY <1>1, <1>2, StarterFrame DEF IInv

\* Tiers are announced by EndTier only.
LEMMA AnnouncedFrame == ASSUME Next, ~EndTier PROVE announced' = announced
<1>1. ASSUME NEW t \in Services \cup Tasks, ServiceStep(t) PROVE announced' = announced
  BY <1>1 DEF ServiceStep, Acquire, AcquireCancelled, Release, Launch, LaunchFails, Ready,
     NotReady, Abort, Backoff, BackoffCancelled, AddProcess, AttemptFailed, NoteFailure
<1>2. ASSUME NEW t \in Tasks, TaskStep(t) \/ StopStep(t) PROVE announced' = announced
  BY <1>2 DEF TaskStep, Lock, LockBusy, Unlock, RestartLookup, ResumeLookup, StopStep,
     DetachAndTerminate, Reap
<1>3. CASE MainStep
  <2>1. CASE TakeStart \/ TakeRestart \/ TakeWatch
    BY <2>1 DEF TakeStart, TakeRestart, TakeWatch, Spawn
  <2>2. CASE ~(TakeStart \/ TakeRestart \/ TakeWatch)
    BY <1>3, <2>2 DEF MainStep, StartupComplete, TakeSignal, SeeCancelled, TakeStopAll,
       IgnoreWatch, TakeStop, StopLookup, AnnounceStopping, ReportStopped, Drain, TakeSnapshot,
       ShutdownDone, DetachNext, StopNext, StopStep, DetachAndTerminate, Reap, BeginShutdown
  <2> QED  BY <2>1, <2>2
<1>4. CASE StartTier
  BY <1>4 DEF StartTier
<1>5. ASSUME NEW q \in Procs, SeeExit(q) \/ ReportExit(q) PROVE announced' = announced
  BY <1>5 DEF SeeExit, ReportExit
<1>6. CASE Environment
  BY <1>6, EnvironmentFrame
<1>7. CASE Finished
  BY <1>7 DEF Finished, vars
<1> QED  BY <1>1, <1>2, <1>3, <1>4, <1>5, <1>6, <1>7 DEF Next

\* A tier is announced when its starters have returned and none has failed.
LEMMA TierReadyPreserved ==
  ASSUME IInv, StartersReport, TierReadyMeansStarted, Next
  PROVE  TierReadyMeansStarted'
<1> SUFFICES ASSUME NEW s \in Services, TierOf[s] \in announced' PROVE Started(s)'
  BY DEF TierReadyMeansStarted, Started
<1>1. CASE TierOf[s] \in announced
  BY <1>1, StartedKept DEF TierReadyMeansStarted, Started
<1>2. CASE TierOf[s] \notin announced
  <2>1. EndTier
    BY <1>2, AnnouncedFrame
  <2>2. TierOf[s] = tier /\ pc[s] = "done" /\ s \notin failed
    BY <1>2, <2>1 DEF EndTier, InTier, At
  <2> QED  BY <2>2, StartedKept DEF StartersReport
<1> QED  BY <1>1, <1>2

-----------------------------------------------------------------------------
(* Services shown as running *)

\* Main enters its shutdown from the startup or after PhaseStopping.
LEMMA MainPhasesPreserved ==
  ASSUME TypeOK, Control, MainPhases, Next
  PROVE  MainPhases'
<1> USE ThreadAssumption DEF Control, Threads, At, Goto, Unwind, ServicePCs, MainPCs, WorkPCs,
                             StopPCs, MainPhases
<1>p. pc \in [Threads -> MainPCs \cup WorkPCs]
      /\ op \in [Threads -> {"start", "resume", "restart", "stop", "shutdown", "none"}]
  BY DEF TypeOK
<1>1. ASSUME NEW t \in Services \cup Tasks, ServiceStep(t) PROVE MainPhases'
  <2>1. CASE LaunchFails(t) \/ Abort(t)
    BY <2>1, <1>p DEF LaunchFails, Abort, AttemptFailed
  <2>2. CASE ~(LaunchFails(t) \/ Abort(t))
    BY <1>1, <2>2, <1>p DEF ServiceStep, Acquire, AcquireCancelled, Release, Launch, Ready,
       NotReady, Backoff, BackoffCancelled, AddProcess
  <2> QED  BY <2>1, <2>2
<1>2. ASSUME NEW t \in Tasks, TaskStep(t) \/ StopStep(t) PROVE MainPhases'
  BY <1>2, <1>p DEF TaskStep, Lock, LockBusy, Unlock, RestartLookup, ResumeLookup,
     StopStep, DetachAndTerminate, Reap
<1>3. CASE MainStep
  <2>1. CASE StartupComplete \/ TakeSignal \/ SeeCancelled \/ TakeStopAll \/ IgnoreWatch \/ TakeStop
    BY <2>1, <1>p DEF StartupComplete, TakeSignal, SeeCancelled, TakeStopAll, IgnoreWatch,
       TakeStop, Receives, Selecting, BeginShutdown
  <2>2. CASE TakeStart \/ TakeRestart \/ TakeWatch
    <3>1. PICK o \in {"resume", "restart"} :
            Spawn(o) /\ queue # <<>> /\ Head(queue).cmd # "stopall"
      BY <2>2 DEF TakeStart, TakeRestart, TakeWatch, Receives
    <3>2. phase' = phase
      BY <3>1 DEF Spawn
    <3> QED  BY <3>1, <3>2, <1>p, SpawnStep
  <2>3. CASE StopLookup \/ AnnounceStopping \/ ReportStopped \/ Drain \/ TakeSnapshot \/ ShutdownDone
    BY <2>3, <1>p DEF StopLookup, AnnounceStopping, ReportStopped, StopReturns, Drain,
       TakeSnapshot, ShutdownDone
  <2>4. CASE StopStep(Main)
    BY <2>4, <1>p DEF StopStep, DetachAndTerminate, Reap
  <2>5. ASSUME NEW e, DetachNext(e) \/ StopNext(e) PROVE MainPhases'
    BY <2>5, <1>p DEF DetachNext, StopNext
  <2> QED  BY <1>3, <2>1, <2>2, <2>3, <2>4, <2>5 DEF MainStep
<1>4. CASE StartTier \/ EndTier
  BY <1>4, <1>p DEF StartTier, EndTier, InTier
<1>5. ASSUME NEW q \in Procs, SeeExit(q) \/ ReportExit(q) PROVE MainPhases'
  BY <1>5 DEF SeeExit, ReportExit
<1>6. CASE Environment
  <2>1. phase' = phase
    BY <1>6 DEF Environment, Request, FileChange, QuitKey, SendSignal, ParentCancel, Die
  <2> QED  BY <1>6, <2>1, EnvironmentFrame
<1>7. CASE Finished
  BY <1>7 DEF Finished, vars
<1> QED  BY <1>1, <1>2, <1>3, <1>4, <1>5, <1>6, <1>7 DEF Next

\* The steps that end one of the reasons in Accounted, or change what is shown.
TouchesEnds ==
  \/ \E t \in Services \cup Tasks : Launch(t) \/ LaunchFails(t) \/ Abort(t) \/ AcquireCancelled(t)
  \/ \E t \in Services \cup Tasks : Ready(t) \/ AddProcess(t)
  \/ \E t \in Tasks : Lock(t)
  \/ \E t \in Tasks \cup {Main} : StopStep(t)
  \/ AnnounceStopping \/ ReportStopped
  \/ \E e \in undetached : DetachNext(e)
  \/ \E p \in Procs : SeeExit(p) \/ ReportExit(p)

\* Who accounts for services goes on accounting for them.
EndsKept ==
  /\ UNCHANGED <<processes, owner, watcher>>
  /\ \A t \in Services \cup Tasks : pc[t] = "add" => pc'[t] = "add" /\ svc'[t] = svc[t]
  /\ pc[Main] \in {"reap", "report"} => pc'[Main] = pc[Main] /\ svc'[Main] = svc[Main]
  /\ \A t \in Tasks : pc[t] \in {"reap", "launch"} =>
       pc'[t] = pc[t] /\ svc'[t] = svc[t] /\ op'[t] = op[t]

\* Every other step leaves both alone.
LEMMA EndsFrame ==
  ASSUME TypeOK, Control, Tiers, Next, ~TouchesEnds
  PROVE  EndsKept /\ status' = status
<1> USE ThreadAssumption DEF Control, Threads, At, Goto, Unwind, ServicePCs, EndsKept
<1>p. pc \in [Threads -> MainPCs \cup WorkPCs] /\ svc \in [Threads -> Services \cup {None}]
      /\ op \in [Threads -> {"start", "resume", "restart", "stop", "shutdown", "none"}]
  BY DEF TypeOK
<1> DEFINE G == EndsKept /\ status' = status
<1>1. ASSUME NEW t \in Services \cup Tasks, ServiceStep(t) PROVE G
  <2>1. Acquire(t) \/ Release(t) \/ NotReady(t) \/ Backoff(t) \/ BackoffCancelled(t)
    BY <1>1 DEF ServiceStep, TouchesEnds
  <2> QED  BY <2>1, <1>p DEF Acquire, Release, NotReady, Backoff, BackoffCancelled
<1>2. ASSUME NEW t \in Tasks, TaskStep(t) \/ StopStep(t) PROVE G
  <2>1. LockBusy(t) \/ Unlock(t) \/ RestartLookup(t) \/ ResumeLookup(t)
    BY <1>2 DEF TaskStep, TouchesEnds
  <2> QED  BY <2>1, <1>p DEF LockBusy, Unlock, RestartLookup, ResumeLookup
<1>3. CASE MainStep
  <2>1. CASE TakeStart \/ TakeRestart \/ TakeWatch
    <3>1. PICK o \in {"resume", "restart"} :
            Spawn(o) /\ queue # <<>> /\ Head(queue).cmd # "stopall"
      BY <2>1 DEF TakeStart, TakeRestart, TakeWatch, Receives
    <3>2. UNCHANGED <<regVars, procVars, pubVars>>
      BY <3>1 DEF Spawn
    <3> QED  BY <3>1, <3>2, <1>p, SpawnStep
  <2>2. CASE StartupComplete \/ TakeSignal \/ SeeCancelled \/ TakeStopAll \/ IgnoreWatch \/ TakeStop
    BY <2>2, <1>p DEF StartupComplete, TakeSignal, SeeCancelled, TakeStopAll, IgnoreWatch,
       TakeStop, Receives, Selecting, BeginShutdown
  <2>3. CASE StopLookup \/ Drain \/ TakeSnapshot \/ ShutdownDone
    BY <2>3, <1>p DEF StopLookup, StopReturns, Drain, TakeSnapshot, ShutdownDone
  <2>4. ASSUME NEW e, StopNext(e) PROVE G
    BY <2>4, <1>p DEF StopNext
  <2> QED  BY <1>3, <2>1, <2>2, <2>3, <2>4 DEF MainStep, TouchesEnds
<1>4. CASE StartTier \/ EndTier
  BY <1>4, <1>p, TierAssumption DEF StartTier, EndTier, InTier, Tiers
<1>5. CASE Environment
  <2>1. status' = status
    BY <1>5 DEF Environment, Request, FileChange, QuitKey, SendSignal, ParentCancel, Die
  <2> QED  BY <1>5, <2>1, EnvironmentFrame
<1>6. CASE Finished
  BY <1>6 DEF Finished, vars
<1> QED  BY <1>1, <1>2, <1>3, <1>4, <1>5, <1>6 DEF Next, TouchesEnds

\* A process that leaves the registry while attached is reported by its exit
\* watcher, or was taken out by a stop or a restart of its service.
LEMMA AttachedEnds ==
  ASSUME IInv, MainPhases, op[Main] # "shutdown", NEW s \in Services, IsAttached(s),
         \/ \E t \in Tasks \cup {Main} : StopStep(t)
         \/ \E e \in undetached : DetachNext(e)
         \/ \E p \in Procs : SeeExit(p)
  PROVE  Accounted(s)'
<1> USE ThreadAssumption DEF At, Goto, Threads
<1>i. TypeOK /\ Control /\ Reg!TypeOK /\ Handles
  BY DEF IInv, TypeOK
<1>p. /\ pc \in [Threads -> MainPCs \cup WorkPCs] /\ svc \in [Threads -> Services \cup {None}]
      /\ watcher \in [Procs -> {"none", "waiting", "reporting", "done"}]
  BY <1>i, HandleTypes
<1>q. processes \in [Services -> Reg!Entry \cup {None}]
  BY <1>i DEF Reg!TypeOK
<1>1. ASSUME NEW t \in Tasks \cup {Main}, DetachAndTerminate(t) PROVE Accounted(s)'
  <2>1. svc[t] \in Services /\ svc' = svc /\ op' = op /\ pc' = [pc EXCEPT ![t] = "reap"]
    BY <1>1, <1>i DEF DetachAndTerminate, Control, StopPCs
  <2>2. CASE svc[t] = s
    BY <1>1, <2>1, <2>2, <1>p DEF Accounted, Stopping, Replacing, MainPhases, DetachAndTerminate
  <2>3. CASE svc[t] # s
    BY <1>1, <2>1, <2>3, <1>q DEF Accounted, IsAttached, DetachAndTerminate, Reg!Detach
  <2> QED  BY <2>2, <2>3
<1>2. ASSUME NEW t \in Tasks \cup {Main}, Reap(t) PROVE Accounted(s)'
  <2>1. svc[t] \in Services /\ svc' = svc /\ op' = op
        /\ pc' = [pc EXCEPT ![t] = IF t = Main THEN "report" ELSE "launch"]
    BY <1>2, <1>i DEF Reap, Control, StopPCs
  <2>2. CASE svc[t] = s
    BY <1>2, <2>1, <2>2, <1>p DEF Accounted, Stopping, Replacing, MainPhases, Reap
  <2>3. CASE svc[t] # s
    BY <1>2, <2>1, <2>3, <1>q DEF Accounted, IsAttached, Reap, Reg!Remove, Reg!RemoveAttached,
       Reg!RemoveDetached, Reg!RemoveNothing, Reg!regVars
  <2> QED  BY <2>2, <2>3
<1>3. ASSUME NEW e \in undetached, DetachNext(e) PROVE Accounted(s)'
  BY <1>3, <1>i DEF DetachNext, Control
<1>4. ASSUME NEW p \in Procs, SeeExit(p) PROVE Accounted(s)'
  <2>1. owner' = owner
        /\ watcher' = [watcher EXCEPT ![p] = IF Reg!Unexpected(owner[p], p) THEN "reporting" ELSE "done"]
    BY <1>4 DEF SeeExit
  <2>2. CASE processes' = processes
    BY <2>2 DEF Accounted, IsAttached
  <2>3. CASE Reg!RemoveAttached(owner[p], p)
    <3>1. CASE owner[p] = s
      BY <2>1, <2>3, <3>1, <1>p DEF Accounted, Reporting, Reg!RemoveAttached
    <3>2. CASE owner[p] # s
      BY <2>3, <3>2, <1>q DEF Accounted, IsAttached, Reg!RemoveAttached
    <3> QED  BY <3>1, <3>2
  <2> QED  BY <1>4, <2>2, <2>3 DEF SeeExit, Reg!Remove, Reg!RemoveDetached, Reg!RemoveNothing, Reg!regVars
<1> QED  BY <1>1, <1>2, <1>3, <1>4 DEF StopStep

\* Whoever is to publish the end of s still is, whatever else happens.
LEMMA OthersEnd ==
  ASSUME IInv, MainPhases, op[Main] # "shutdown", NEW s \in Services, Accounted(s), ~IsAttached(s),
         \/ \E t \in Tasks \cup {Main} : StopStep(t)
         \/ \E e \in undetached : DetachNext(e)
         \/ \E p \in Procs : SeeExit(p)
  PROVE  Accounted(s)'
<1> USE ThreadAssumption DEF At, Goto, Threads
<1>i. TypeOK /\ Control /\ Handles
  BY DEF IInv
<1>p. /\ pc \in [Threads -> MainPCs \cup WorkPCs] /\ svc \in [Threads -> Services \cup {None}]
      /\ watcher \in [Procs -> {"none", "waiting", "reporting", "done"}]
  BY <1>i, HandleTypes
<1>a. Registering(s) \/ Stopping(s) \/ Replacing(s) \/ Reporting(s)
  BY DEF Accounted
<1>1. ASSUME NEW t \in Tasks \cup {Main}, StopStep(t) PROVE Accounted(s)'
  <2>1. svc' = svc /\ op' = op /\ owner' = owner /\ watcher' = watcher
    BY <1>1 DEF StopStep, DetachAndTerminate, Reap
  <2>2. pc' = [pc EXCEPT ![t] = "reap"] \/ pc' = [pc EXCEPT ![t] = IF t = Main THEN "report" ELSE "launch"]
    BY <1>1 DEF StopStep, DetachAndTerminate, Reap
  <2>3. pc[t] \in {"detach", "reap"}
    BY <1>1 DEF StopStep, DetachAndTerminate, Reap
  <2>4. CASE Registering(s)
    BY <2>1, <2>2, <2>3, <2>4, <1>p DEF Accounted, Registering
  <2>5. CASE Stopping(s)
    BY <2>1, <2>2, <2>3, <2>5, <1>p DEF Accounted, Stopping
  <2>6. CASE Replacing(s)
    BY <2>1, <2>2, <2>3, <2>6, <1>p DEF Accounted, Replacing
  <2>7. CASE Reporting(s)
    BY <2>1, <2>7 DEF Accounted, Reporting
  <2> QED  BY <1>a, <2>4, <2>5, <2>6, <2>7
<1>2. ASSUME NEW e \in undetached, DetachNext(e) PROVE Accounted(s)'
  BY <1>2, <1>i DEF DetachNext, Control
<1>3. ASSUME NEW p \in Procs, SeeExit(p) PROVE Accounted(s)'
  BY <1>3, <1>a, <1>p DEF SeeExit, Accounted, Registering, Stopping, Replacing, Reporting
<1> QED  BY <1>1, <1>2, <1>3

\* A step of a goroutine that is launching or registering a process.
LEMMA ServiceStepEnds ==
  ASSUME IInv, NEW t \in Services \cup Tasks, NEW s \in Services, Accounted(s), status'[s] = "running",
         Launch(t) \/ LaunchFails(t) \/ Abort(t) \/ AcquireCancelled(t) \/ Ready(t) \/ AddProcess(t)
  PROVE  Accounted(s)'
<1> USE ThreadAssumption DEF At, Goto, Threads
<1>i. TypeOK /\ Control /\ Handles /\ Reg!TypeOK
  BY DEF IInv, TypeOK
<1>p. /\ pc \in [Threads -> MainPCs \cup WorkPCs] /\ svc \in [Threads -> Services \cup {None}]
      /\ watcher \in [Procs -> {"none", "waiting", "reporting", "done"}]
      /\ owner \in [Procs -> Services \cup {None}]
      /\ status \in [Services -> Statuses]
  BY <1>i, HandleTypes DEF TypeOK
<1>t. svc[t] \in Services \/ AcquireCancelled(t)
  BY <1>i DEF Control, Launch, LaunchFails, Abort, Ready, AddProcess
<1>1. CASE AddProcess(t)
  <2>1. processes' = [processes EXCEPT ![svc[t]] = [proc |-> cur[t], order |-> nextOrder]]
        /\ cur[t] \in Procs /\ life[cur[t]] = "fresh" /\ nextOrder \in Nat
    BY <1>1, <1>i DEF AddProcess, Reg!Add, Handles, NewHandles, HoldsNew, Reg!TypeOK
  <2>2. processes \in [Services -> Reg!Entry \cup {None}] /\ [proc |-> cur[t], order |-> nextOrder] # None
    BY <1>i, <2>1, NoneAssumption DEF Reg!TypeOK
  <2>3. svc' = svc /\ op' = op /\ owner' = owner /\ pc' = [pc EXCEPT ![t] = Unwind(t)]
        /\ watcher' = [watcher EXCEPT ![cur[t]] = "waiting"] /\ watcher[cur[t]] = "none" /\ pc[t] = "add"
    BY <1>1, <1>i, <2>1 DEF AddProcess, Handles, Watchers
  <2>4. CASE IsAttached(s) \/ svc[t] = s
    BY <2>1, <2>2, <2>4, <1>t, <1>1 DEF Accounted, IsAttached
  <2>5. CASE svc[t] # s /\ Registering(s)
    BY <2>3, <2>5, <1>p DEF Accounted, Registering
  <2>6. CASE Stopping(s) \/ Replacing(s)
    BY <2>3, <2>6, <1>p DEF Accounted, Stopping, Replacing
  <2>7. CASE Reporting(s)
    BY <2>3, <2>7, <1>p DEF Accounted, Reporting
  <2> QED  BY <2>4, <2>5, <2>6, <2>7 DEF Accounted
<1>2. CASE Ready(t)
  <2>1. svc' = svc /\ op' = op /\ owner' = owner /\ watcher' = watcher /\ processes' = processes
        /\ pc' = [pc EXCEPT ![t] = "add"] /\ pc[t] = "await"
    BY <1>2 DEF Ready
  <2> QED  BY <2>1, <1>p DEF Accounted, IsAttached, Registering, Stopping, Replacing, Reporting
<1>3. CASE Launch(t)
  <2>1. Fresh \in Procs /\ proc[Fresh] = "unborn"
    BY <1>3 DEF Launch, Fresh
  <2>2. watcher[Fresh] # "reporting"
    BY <2>1, <1>i DEF Handles, Watchers
  <2>3. svc' = svc /\ op' = op /\ watcher' = watcher /\ processes' = processes
        /\ owner' = [owner EXCEPT ![Fresh] = svc[t]]
        /\ pc' = [pc EXCEPT ![t] = "await"] /\ pc[t] = "launch" /\ svc[t] \in Services
        /\ status' = [status EXCEPT ![svc[t]] = "starting"]
    BY <1>3, <1>t DEF Launch, Publish, AcquireCancelled
  <2>4. svc[t] # s
    BY <2>3, <1>p
  <2> QED  BY <2>2, <2>3, <2>4, <1>p DEF Accounted, IsAttached, Registering, Stopping, Replacing, Reporting
<1>4. CASE LaunchFails(t) \/ Abort(t)
  <2>1. svc' = svc /\ op' = op /\ owner' = owner /\ watcher' = watcher /\ processes' = processes
        /\ pc[t] \in {"launch", "abort"} /\ (\E l : pc' = [pc EXCEPT ![t] = l])
    BY <1>4 DEF LaunchFails, Abort, AttemptFailed
  <2>2. op[t] = "restart" => svc[t] # s
    BY <1>4, <1>t, <1>p DEF LaunchFails, Abort, AttemptFailed, Publish, AcquireCancelled
  <2> QED  BY <2>1, <2>2, <1>p DEF Accounted, IsAttached, Registering, Stopping, Replacing, Reporting
<1>5. CASE AcquireCancelled(t)
  <2>1. svc' = svc /\ op' = op /\ owner' = owner /\ watcher' = watcher /\ processes' = processes
        /\ pc[t] = "acquire" /\ pc' = [pc EXCEPT ![t] = "done"]
    BY <1>5 DEF AcquireCancelled
  <2> QED  BY <2>1, <1>p DEF Accounted, IsAttached, Registering, Stopping, Replacing, Reporting
<1> QED  BY <1>1, <1>2, <1>3, <1>4, <1>5

\* The steps that publish something but running leave the others accounted for.
LEMMA PublicationEnds ==
  ASSUME IInv, NEW s \in Services, Accounted(s), status'[s] = "running",
         (\E t \in Tasks : Lock(t)) \/ AnnounceStopping \/ ReportStopped \/ (\E p \in Procs : ReportExit(p))
  PROVE  Accounted(s)'
<1> USE ThreadAssumption DEF At, Goto, Threads
<1>i. TypeOK /\ Control /\ Handles
  BY DEF IInv
<1>p. /\ pc \in [Threads -> MainPCs \cup WorkPCs] /\ svc \in [Threads -> Services \cup {None}]
      /\ watcher \in [Procs -> {"none", "waiting", "reporting", "done"}]
      /\ status \in [Services -> Statuses]
  BY <1>i, HandleTypes DEF TypeOK
<1>1. ASSUME NEW t \in Tasks, Lock(t) PROVE Accounted(s)'
  <2>1. svc' = svc /\ op' = op /\ owner' = owner /\ watcher' = watcher /\ processes' = processes
        /\ pc[t] = "lock" /\ pc' = [pc EXCEPT ![t] = "lookup"]
    BY <1>1 DEF Lock
  <2> QED  BY <2>1, <1>p DEF Accounted, IsAttached, Registering, Stopping, Replacing, Reporting
<1>2. CASE AnnounceStopping
  <2>1. svc' = svc /\ op' = op /\ owner' = owner /\ watcher' = watcher /\ processes' = processes
        /\ pc[Main] = "announce" /\ pc' = [pc EXCEPT ![Main] = "detach"]
    BY <1>2 DEF AnnounceStopping
  <2> QED  BY <2>1, <1>p DEF Accounted, IsAttached, Registering, Stopping, Replacing, Reporting
<1>3. CASE ReportStopped
  <2>1. svc' = svc /\ op' = op /\ owner' = owner /\ watcher' = watcher /\ processes' = processes
        /\ pc[Main] = "report" /\ \E l : pc' = [pc EXCEPT ![Main] = l]
    BY <1>3 DEF ReportStopped, StopReturns
  <2>2. svc[Main] # s
    BY <1>3, <1>i, <1>p DEF ReportStopped, Publish, Control, StopPCs
  <2> QED  BY <2>1, <2>2, <1>p DEF Accounted, IsAttached, Registering, Stopping, Replacing, Reporting
<1>4. ASSUME NEW p \in Procs, ReportExit(p) PROVE Accounted(s)'
  <2>1. svc' = svc /\ op' = op /\ owner' = owner /\ pc' = pc /\ processes' = processes
        /\ watcher' = [watcher EXCEPT ![p] = "done"] /\ watcher[p] = "reporting"
    BY <1>4 DEF ReportExit
  <2>2. owner[p] # s
    BY <1>4, <1>p DEF ReportExit, Publish
  <2> QED  BY <2>1, <2>2, <1>p DEF Accounted, IsAttached, Registering, Stopping, Replacing, Reporting
<1> QED  BY <1>1, <1>2, <1>3, <1>4

\* ServiceReady is published by Ready only.
LEMMA RunningFrame ==
  ASSUME TypeOK, Control, Tiers, Next, NEW s \in Services, status'[s] = "running", status[s] # "running"
  PROVE  \E t \in Services \cup Tasks : Ready(t) /\ svc[t] = s
<1>p. status \in [Services -> Statuses]
  BY DEF TypeOK
<1>1. TouchesEnds
  BY EndsFrame
<1>2. ASSUME NEW t \in Services \cup Tasks, Launch(t) \/ LaunchFails(t) \/ Abort(t) \/ AcquireCancelled(t)
      PROVE  FALSE
  BY <1>2, <1>p DEF Launch, LaunchFails, Abort, AttemptFailed, AcquireCancelled, Publish
<1>3. ASSUME NEW t \in Services \cup Tasks, Ready(t) PROVE svc[t] = s
  BY <1>3, <1>p DEF Ready, Publish
<1>4. ASSUME NEW t \in Services \cup Tasks, AddProcess(t) PROVE FALSE
  BY <1>4 DEF AddProcess
<1>5. ASSUME NEW t \in Tasks, Lock(t) PROVE FALSE
  BY <1>5, <1>p DEF Lock, Publish
<1>6. ASSUME NEW t, StopStep(t) PROVE FALSE
  BY <1>6 DEF StopStep, DetachAndTerminate, Reap
<1>7. ASSUME AnnounceStopping \/ ReportStopped PROVE FALSE
  BY <1>7, <1>p DEF AnnounceStopping, ReportStopped, Publish
<1>8. ASSUME NEW e, DetachNext(e) PROVE FALSE
  BY <1>8 DEF DetachNext
<1>9. ASSUME NEW p, SeeExit(p) \/ ReportExit(p) PROVE FALSE
  BY <1>9, <1>p DEF SeeExit, ReportExit, Publish
<1> QED  BY <1>1, <1>2, <1>3, <1>4, <1>5, <1>6, <1>7, <1>8, <1>9 DEF TouchesEnds

\* Main does not come back from its shutdown.
LEMMA ShutdownStays ==
  ASSUME TypeOK, Control, MainPhases, Next, op[Main] = "shutdown"
  PROVE  op'[Main] = "shutdown"
<1> USE ThreadAssumption DEF Control, Threads, MainPhases
<1>p. op \in [Threads -> {"start", "resume", "restart", "stop", "shutdown", "none"}]
  BY DEF TypeOK
<1>1. ASSUME NEW t \in Services \cup Tasks, ServiceStep(t) PROVE op' = op
  BY <1>1 DEF ServiceStep, Acquire, AcquireCancelled, Release, Launch, LaunchFails, Ready,
     NotReady, Abort, Backoff, BackoffCancelled, AddProcess
<1>2. ASSUME NEW t \in Tasks, TaskStep(t) \/ StopStep(t) PROVE op' = op
  BY <1>2 DEF TaskStep, Lock, LockBusy, Unlock, RestartLookup, ResumeLookup, StopStep,
     DetachAndTerminate, Reap
<1>3. ASSUME MainStep PROVE op'[Main] = "shutdown"
  <2>1. CASE pc[Main] = "select"
    BY <2>1
  <2>2. CASE pc[Main] # "select"
    BY <1>3, <2>2, <1>p DEF MainStep, Selecting, Receives, At, StartupComplete, TakeSignal, SeeCancelled,
       TakeStopAll, TakeStop, TakeStart, TakeRestart, TakeWatch, IgnoreWatch, StopLookup,
       AnnounceStopping, ReportStopped, Drain, TakeSnapshot, ShutdownDone, DetachNext, StopNext,
       StopStep, DetachAndTerminate, Reap
  <2> QED  BY <2>1, <2>2
<1>4. CASE StartTier \/ EndTier
  BY <1>4 DEF StartTier, EndTier
<1>5. ASSUME NEW q \in Procs, SeeExit(q) \/ ReportExit(q) PROVE op' = op
  BY <1>5 DEF SeeExit, ReportExit
<1>6. CASE Environment
  BY <1>6, EnvironmentFrame
<1>7. CASE Finished
  BY <1>7 DEF Finished, vars
<1> QED  BY <1>1, <1>2, <1>3, <1>4, <1>5, <1>6, <1>7 DEF Next

\* The end of a service that is shown as running is always still to be published.
LEMMA RunningIsAccountedPreserved ==
  ASSUME IInv, MainPhases, RunningIsAccounted, Next
  PROVE  RunningIsAccounted'
<1> SUFFICES ASSUME op'[Main] # "shutdown", NEW s \in Services, status'[s] = "running"
             PROVE  Accounted(s)'
  BY DEF RunningIsAccounted
<1>i. TypeOK /\ Control /\ Tiers
  BY DEF IInv
<1>o. op[Main] # "shutdown"
  BY <1>i, ShutdownStays
<1>1. CASE status[s] # "running"
  <2>1. PICK t \in Services \cup Tasks : Ready(t) /\ svc[t] = s
    BY <1>1, <1>i, RunningFrame
  <2>2. pc' = [pc EXCEPT ![t] = "add"] /\ svc' = svc
    BY <2>1 DEF Ready, Goto
  <2>3. pc'[t] = "add"
    BY <2>2, <1>i, HandleTypes DEF Threads
  <2> QED  BY <2>1, <2>2, <2>3 DEF Accounted, Registering
<1>2. CASE status[s] = "running"
  <2>a. Accounted(s)
    BY <1>o, <1>2 DEF RunningIsAccounted
  <2>1. CASE ~TouchesEnds
    <3>1. EndsKept
      BY <2>1, <1>i, EndsFrame
    <3> QED  BY <3>1, <2>a DEF EndsKept, Accounted, IsAttached, Registering, Stopping, Replacing, Reporting
  <2>2. ASSUME (\E t \in Tasks \cup {Main} : StopStep(t)) \/ (\E e \in undetached : DetachNext(e))
               \/ (\E p \in Procs : SeeExit(p))
        PROVE  Accounted(s)'
    BY <2>2, <2>a, <1>o, AttachedEnds, OthersEnd
  <2>3. ASSUME NEW t \in Services \cup Tasks,
               Launch(t) \/ LaunchFails(t) \/ Abort(t) \/ AcquireCancelled(t) \/ Ready(t) \/ AddProcess(t)
        PROVE  Accounted(s)'
    BY <2>3, <2>a, ServiceStepEnds
  <2>4. ASSUME (\E t \in Tasks : Lock(t)) \/ AnnounceStopping \/ ReportStopped
               \/ (\E p \in Procs : ReportExit(p))
        PROVE  Accounted(s)'
    BY <2>4, <2>a, PublicationEnds
  <2> QED  BY <2>1, <2>2, <2>3, <2>4 DEF TouchesEnds
<1> QED  BY <1>1, <1>2

-----------------------------------------------------------------------------
(* Theorems *)

\* Nothing is shown as running, announced or registered at first.
LEMMA EventInit == Init => EventInv
<1> SUFFICES ASSUME Init PROVE EventInv
  OBVIOUS
<1> USE ThreadAssumption
<1>1. StartersReport /\ TierReadyMeansStarted
  BY DEF Init, StartersReport, TierReadyMeansStarted, Threads
<1>2. MainPhases /\ RunningIsAccounted
  BY DEF Init, MainPhases, RunningIsAccounted, Threads
<1> QED  BY <1>1, <1>2, InitEstablishes DEF EventInv

\* Every step preserves the invariant.
LEMMA EventStep == EventInv /\ [Next]_vars => EventInv'
<1> SUFFICES ASSUME EventInv, [Next]_vars PROVE EventInv'
  OBVIOUS
<1>i. IInv /\ StartersReport /\ TierReadyMeansStarted /\ MainPhases /\ RunningIsAccounted
  BY DEF EventInv
<1>1. IInv'
  BY <1>i, NextPreserves
<1>2. CASE Next
  <2>1. StartersReport' /\ TierReadyMeansStarted'
    BY <1>i, <1>2, StartersReportPreserved, TierReadyPreserved
  <2>2. MainPhases' /\ RunningIsAccounted'
    BY <1>i, <1>2, MainPhasesPreserved, RunningIsAccountedPreserved DEF IInv
  <2> QED  BY <1>1, <2>1, <2>2 DEF EventInv
<1>3. CASE UNCHANGED vars
  <2>1. StartersReport' /\ TierReadyMeansStarted'
    BY <1>i, <1>3 DEF vars, StartersReport, Started, TierReadyMeansStarted
  <2>2. MainPhases' /\ RunningIsAccounted'
    BY <1>i, <1>3 DEF vars, MainPhases, RunningIsAccounted, Accounted, IsAttached, Registering,
       Stopping, Replacing, Reporting
  <2> QED  BY <1>1, <2>1, <2>2 DEF EventInv
<1> QED  BY <1>2, <1>3

\* The invariant holds in every reachable state.
THEOREM RunnerEventInvariant == Spec => []EventInv
<1> QED  BY EventInit, EventStep, PTL DEF Spec

\* A tier is announced as ready only if each of its services got a process that
\* was registered, however often they were retried or cancelled (runner.go:351-364).
THEOREM RunnerTierReady == Spec => []TierReadyMeansStarted
<1>1. EventInv => TierReadyMeansStarted
  BY DEF EventInv
<1> QED  BY <1>1, RunnerEventInvariant, PTL

\* A service about which nothing is under way and that is shown as running has a
\* process in the registry, whoever sends the commands and whatever exits
\* (service.go:308-449).
THEOREM RunnerRunningIsRegistered == Spec => []RunningIsRegistered
<1>1. EventInv => RunningIsRegistered
  <2> SUFFICES ASSUME EventInv, NEW s \in Services, phase = "running", Quiet(s), status[s] = "running"
               PROVE  Reg!Exists(s)
    BY DEF RunningIsRegistered
  <2>1. Accounted(s)
    BY DEF EventInv, MainPhases, RunningIsAccounted
  <2>2. ~Registering(s) /\ ~Stopping(s) /\ ~Replacing(s) /\ ~Reporting(s)
    BY DEF Quiet, Registering, Stopping, Replacing, Reporting, Threads
  <2> QED  BY <2>1, <2>2 DEF Accounted, IsAttached, Reg!Exists, Reg!Get
<1> QED  BY <1>1, RunnerEventInvariant, PTL

-----------------------------------------------------------------------------
(* Nothing is forgotten *)

\* Nothing is registered for s.
NoneHeld(s) == \A p \in Procs : ~Reg!HeldFor(s, p)

\* Without a UI, no goroutine for a command exists before the startup is over.
ApiOnly ==
  /\ phase = "running" => StartupDone
  /\ phase = "startup" => \A i \in 1..Len(queue) : queue[i].cmd = "watch"
  /\ \A t \in Tasks : pc[t] # "idle" => StartupDone

\* A starter registers the first process of its service.
StartersFirst == \A s \in Services : pc[s] \notin {"release", "done"} => NoneHeld(s)

\* A task launches a process only when none is registered any more.
TasksReplace ==
  \A t \in Tasks :
    /\ pc[t] \in {"launch", "await", "abort", "add", "backoff"} => NoneHeld(svc[t])
    /\ pc[t] \in {"detach", "reap"} => \A p \in Procs : Reg!HeldFor(svc[t], p) => p = cur[t]

ApiInv == IInv /\ ApiOnly /\ StartersFirst /\ TasksReplace /\ NoneLost

\* Main is at work on the process of entry e.
StoppingEntry(e) ==
  /\ e.id = svc[Main]
  /\ pc[Main] \in {"lookup", "announce", "detach", "reap"}
  /\ pc[Main] # "lookup" => cur[Main] = e.proc

Settled(e) == Gone(e.proc) \/ life[e.proc] = "lost"

\* The entries of the snapshot were registered, those not in the plan any more
\* are settled but for the one Main is at work on, and the plan has the earliest.
Progress ==
  op[Main] = "shutdown" =>
    /\ \A e \in snapshot : life[e.proc] # "fresh" /\ owner[e.proc] = e.id
    /\ \A e, f \in snapshot : e.order = f.order => e = f
    /\ plan \subseteq snapshot
    /\ \A e \in snapshot \ plan : Settled(e) \/ StoppingEntry(e)
    /\ \A e \in snapshot \ plan, f \in plan : f.order < e.order

\* PhaseStopped is published when the plan is worked off, and Main ends there.
EndReached == phase = "stopped" => op[Main] = "shutdown" /\ pc[Main] = "end" /\ plan = {}

ShutInv == EventInv /\ Progress /\ EndReached

-----------------------------------------------------------------------------
(* What the registry holds *)

\* Only AddProcess makes the registry hold something.
LEMMA HeldShrinks ==
  ASSUME IInv, Next, NEW s \in Services, NEW p \in Procs, Reg!HeldFor(s, p)', ~Reg!HeldFor(s, p)
  PROVE  \E t \in Services \cup Tasks : AddProcess(t) /\ svc[t] = s
<1> DEFINE G == \E t \in Services \cup Tasks : AddProcess(t) /\ svc[t] = s
<1>i. TypeOK /\ Control /\ Handles /\ Reg!TypeOK
  BY DEF IInv, TypeOK
<1>q. /\ processes \in [Services -> Reg!Entry \cup {None}]
      /\ detached \in [Services -> Reg!Entry \cup {None}]
  BY <1>i DEF Reg!TypeOK
<1> USE DEF Reg!HeldFor, Reg!Holds
<1>a. ASSUME NEW r \in Services, Reg!Detach(r) PROVE FALSE
  BY <1>a, <1>q DEF Reg!Detach
<1>b. ASSUME NEW r \in Services, NEW q, Reg!Remove(r, q) PROVE FALSE
  BY <1>b, <1>q DEF Reg!Remove, Reg!RemoveAttached, Reg!RemoveDetached, Reg!RemoveNothing, Reg!regVars
<1>1. ASSUME NEW t \in Services \cup Tasks, ServiceStep(t) PROVE G
  <2>1. CASE AddProcess(t)
    <3>1. svc[t] \in Services
      BY <2>1, <1>i DEF AddProcess, At, Control
    <3>2. svc[t] # s => processes'[s] = processes[s] /\ detached'[s] = detached[s]
      BY <2>1, <3>1, <1>q DEF AddProcess, Reg!Add
    <3> QED  BY <2>1, <3>2
  <2>2. CASE ~AddProcess(t)
    BY <1>1, <2>2 DEF ServiceStep, Acquire, AcquireCancelled, Release, Launch, LaunchFails, Ready,
       NotReady, Abort, Backoff, BackoffCancelled
  <2> QED  BY <2>1, <2>2
<1>2. ASSUME NEW t \in Tasks, TaskStep(t) PROVE FALSE
  BY <1>2 DEF TaskStep, Lock, LockBusy, Unlock, RestartLookup, ResumeLookup
<1>3. ASSUME NEW t \in Tasks \cup {Main}, StopStep(t) PROVE FALSE
  <2>1. svc[t] \in Services
    BY <1>3, <1>i DEF StopStep, DetachAndTerminate, Reap, At, Control, StopPCs
  <2> QED  BY <1>3, <2>1, <1>a, <1>b DEF StopStep, DetachAndTerminate, Reap
<1>4. ASSUME NEW e \in undetached, DetachNext(e) PROVE FALSE
  <2>1. e.id \in Services
    BY <1>i DEF TypeOK, Entries
  <2> QED  BY <1>4, <2>1, <1>a DEF DetachNext
<1>5. ASSUME MainStep, ~StopStep(Main), \A e \in undetached : ~DetachNext(e)
      PROVE  FALSE
  <2>1. CASE TakeStart \/ TakeRestart \/ TakeWatch
    BY <2>1 DEF TakeStart, TakeRestart, TakeWatch, Spawn
  <2>2. CASE ~(TakeStart \/ TakeRestart \/ TakeWatch)
    BY <1>5, <2>2 DEF MainStep, StartupComplete, TakeSignal, SeeCancelled, TakeStopAll,
       IgnoreWatch, TakeStop, StopLookup, AnnounceStopping, ReportStopped, Drain, TakeSnapshot,
       ShutdownDone, StopNext, BeginShutdown
  <2> QED  BY <2>1, <2>2
<1>6. CASE StartTier \/ EndTier
  BY <1>6 DEF StartTier, EndTier
<1>7. ASSUME NEW q \in Procs, SeeExit(q) PROVE FALSE
  <2>1. owner[q] \in Services
    BY <1>7, <1>i DEF SeeExit, Handles, Watchers
  <2> QED  BY <1>7, <2>1, <1>b DEF SeeExit
<1>8. ASSUME NEW q \in Procs, ReportExit(q) PROVE FALSE
  BY <1>8 DEF ReportExit
<1>9. CASE Environment
  BY <1>9, EnvironmentFrame
<1>10. CASE Finished
  BY <1>10 DEF Finished, vars
<1> QED  BY <1>1, <1>2, <1>3, <1>4, <1>5, <1>6, <1>7, <1>8, <1>9, <1>10 DEF Next

\* What holds nothing and gets nothing still holds nothing.
LEMMA NoneHeldKept ==
  ASSUME IInv, Next, NEW s \in Services, NoneHeld(s),
         \A t \in Services \cup Tasks : ~(AddProcess(t) /\ svc[t] = s)
  PROVE  NoneHeld(s)'
BY HeldShrinks DEF NoneHeld

\* A handle becomes lost only when another is registered in its place.
LEMMA LostFrame ==
  ASSUME IInv, Next, NEW p \in Procs, life'[p] = "lost", life[p] # "lost"
  PROVE  \E t \in Services \cup Tasks : AddProcess(t) /\ Reg!HeldFor(svc[t], p)
<1> DEFINE G == \E t \in Services \cup Tasks : AddProcess(t) /\ Reg!HeldFor(svc[t], p)
<1>i. TypeOK /\ Control /\ Handles
  BY DEF IInv
<1>p. life \in [Procs -> Reg!Life]
  BY <1>i, HandleTypes
<1>1. ASSUME NEW t \in Services \cup Tasks, AddProcess(t) PROVE G
  BY <1>1, <1>p DEF AddProcess, Reg!Add
<1>2. ASSUME NEW s, Reg!Detach(s) PROVE FALSE
  BY <1>2 DEF Reg!Detach
<1>3. ASSUME NEW s, NEW q, Reg!Remove(s, q) PROVE FALSE
  BY <1>3, <1>p DEF Reg!Remove, Reg!RemoveAttached, Reg!RemoveDetached, Reg!RemoveNothing, Reg!regVars
<1>4. ASSUME NEW t \in Services \cup Tasks, ServiceStep(t) PROVE G
  <2>1. CASE AddProcess(t)
    BY <2>1, <1>1
  <2>2. CASE ~AddProcess(t)
    BY <1>4, <2>2 DEF ServiceStep, Acquire, AcquireCancelled, Release, Launch, LaunchFails, Ready,
       NotReady, Abort, Backoff, BackoffCancelled
  <2> QED  BY <2>1, <2>2
<1>5. ASSUME NEW t, TaskStep(t) \/ StopStep(t) PROVE FALSE
  BY <1>5, <1>2, <1>3 DEF TaskStep, Lock, LockBusy, Unlock, RestartLookup, ResumeLookup, StopStep,
     DetachAndTerminate, Reap
<1>6. ASSUME MainStep PROVE FALSE
  <2>1. CASE TakeStart \/ TakeRestart \/ TakeWatch
    BY <2>1 DEF TakeStart, TakeRestart, TakeWatch, Spawn
  <2>2. CASE StopStep(Main)
    BY <2>2, <1>5
  <2>3. ASSUME NEW e, DetachNext(e) PROVE FALSE
    BY <2>3, <1>2 DEF DetachNext
  <2>4. CASE ~(TakeStart \/ TakeRestart \/ TakeWatch) /\ ~StopStep(Main) /\ \A e \in undetached : ~DetachNext(e)
    BY <1>6, <2>4 DEF MainStep, StartupComplete, TakeSignal, SeeCancelled, TakeStopAll,
       IgnoreWatch, TakeStop, StopLookup, AnnounceStopping, ReportStopped, Drain, TakeSnapshot,
       ShutdownDone, StopNext, BeginShutdown
  <2> QED  BY <2>1, <2>2, <2>3, <2>4
<1>7. CASE StartTier \/ EndTier
  BY <1>7 DEF StartTier, EndTier
<1>8. ASSUME NEW q, SeeExit(q) \/ ReportExit(q) PROVE FALSE
  BY <1>8, <1>3 DEF SeeExit, ReportExit
<1>9. CASE Environment
  BY <1>9, EnvironmentFrame
<1>10. CASE Finished
  BY <1>10 DEF Finished, vars
<1> QED  BY <1>4, <1>5, <1>6, <1>7, <1>8, <1>9, <1>10 DEF Next

-----------------------------------------------------------------------------
(* Commands from the API *)

\* Only Main, clients and signals change the phase and the queue.
LEMMA MainVarsFrame == ASSUME Next, ~MainStep, ~Environment PROVE UNCHANGED mainVars
<1>1. ASSUME NEW t \in Services \cup Tasks, ServiceStep(t) PROVE UNCHANGED mainVars
  BY <1>1 DEF ServiceStep, Acquire, AcquireCancelled, Release, Launch, LaunchFails, Ready,
     NotReady, Abort, Backoff, BackoffCancelled, AddProcess
<1>2. ASSUME NEW t \in Tasks, TaskStep(t) \/ StopStep(t) PROVE UNCHANGED mainVars
  BY <1>2 DEF TaskStep, Lock, LockBusy, Unlock, RestartLookup, ResumeLookup, StopStep,
     DetachAndTerminate, Reap
<1>3. CASE StartTier \/ EndTier
  BY <1>3 DEF StartTier, EndTier
<1>4. ASSUME NEW p \in Procs, SeeExit(p) \/ ReportExit(p) PROVE UNCHANGED mainVars
  BY <1>4 DEF SeeExit, ReportExit
<1>5. CASE Finished
  BY <1>5 DEF Finished, vars
<1> QED  BY <1>1, <1>2, <1>3, <1>4, <1>5 DEF Next

\* A task begins only when Main spawns it.
LEMMA TaskFrame ==
  ASSUME TypeOK, Control, Next, NEW t \in Tasks, pc[t] = "idle", pc'[t] # "idle"
  PROVE  TakeStart \/ TakeRestart \/ TakeWatch
<1> USE ThreadAssumption DEF Control, Threads, At, Goto, Unwind, ServicePCs
<1>p. pc \in [Threads -> MainPCs \cup WorkPCs]
  BY DEF TypeOK
<1>1. ASSUME NEW u \in Services \cup Tasks, ServiceStep(u) PROVE FALSE
  BY <1>1, <1>p DEF ServiceStep, Acquire, AcquireCancelled, Release, Launch, LaunchFails, Ready,
     NotReady, Abort, Backoff, BackoffCancelled, AddProcess, AttemptFailed
<1>2. ASSUME NEW u \in Tasks, TaskStep(u) \/ StopStep(u) PROVE FALSE
  BY <1>2, <1>p DEF TaskStep, Lock, LockBusy, Unlock, RestartLookup, ResumeLookup, StopStep,
     DetachAndTerminate, Reap
<1>3. CASE MainStep
  BY <1>3, <1>p DEF MainStep, StartupComplete, TakeSignal, SeeCancelled, TakeStopAll, TakeStop,
     IgnoreWatch, StopLookup, AnnounceStopping, ReportStopped, Drain, TakeSnapshot, ShutdownDone,
     DetachNext, StopNext, BeginShutdown, StopReturns, StopStep, DetachAndTerminate, Reap
<1>4. CASE StartTier \/ EndTier
  BY <1>4, <1>p DEF StartTier, EndTier, InTier
<1>5. ASSUME NEW p \in Procs, SeeExit(p) \/ ReportExit(p) PROVE FALSE
  BY <1>5 DEF SeeExit, ReportExit
<1>6. CASE Environment
  BY <1>6, EnvironmentFrame
<1>7. CASE Finished
  BY <1>7 DEF Finished, vars
<1> QED  BY <1>1, <1>2, <1>3, <1>4, <1>5, <1>6, <1>7 DEF Next

\* The startup is over for good.
LEMMA StartupStaysDone == ASSUME TypeOK, Control, Tiers, Next, StartupDone PROVE StartupDone'
<1>1. CASE StartTier \/ EndTier
  BY <1>1, TierAssumption DEF StartTier, EndTier, StartupDone, Tiers
<1>2. CASE ~(StartTier \/ EndTier)
  BY <1>2, TiersFrame DEF TiersKept, StartupDone
<1> QED  BY <1>1, <1>2

\* Until the startup is over only file changes are queued.
LEMMA StartupQueue ==
  ASSUME ~UI, TypeOK, ApiOnly, Next, phase' = "startup"
  PROVE  \A i \in 1..Len(queue') : queue'[i].cmd = "watch"
<1> DEFINE W(q) == \A i \in 1..Len(q) : q[i].cmd = "watch"
<1>p. queue \in Seq(Commands)
  BY DEF TypeOK
<1>1. CASE ~MainStep /\ ~Environment
  BY <1>1, MainVarsFrame DEF ApiOnly
<1>2. CASE Environment
  <2>1. phase = "startup" /\ W(queue)
    BY <1>2 DEF ApiOnly, Environment, Request, FileChange, QuitKey, SendSignal, ParentCancel, Die
  <2>2. ASSUME NEW s \in Services, FileChange(s) PROVE W(queue')
    <3>1. [cmd |-> "watch", id |-> s] \in Commands
      BY DEF Commands
    <3>2. queue' = Append(queue, [cmd |-> "watch", id |-> s])
      BY <2>2 DEF FileChange
    <3> QED  BY <3>1, <3>2, <2>1, <1>p
  <2>3. ASSUME NEW c, NEW s, Request(c, s) PROVE FALSE
    BY <2>3, <2>1 DEF Request
  <2>4. ~QuitKey
    BY DEF QuitKey
  <2>5. CASE SendSignal \/ ParentCancel \/ \E p \in Procs : Die(p)
    BY <2>5, <2>1 DEF SendSignal, ParentCancel, Die
  <2> QED  BY <1>2, <2>2, <2>3, <2>4, <2>5 DEF Environment
<1>3. CASE MainStep
  <2>1. phase = "startup" /\ W(queue)
    BY <1>3 DEF ApiOnly, MainStep, StartupComplete, TakeSignal, SeeCancelled, TakeStopAll, TakeStop,
       TakeStart, TakeRestart, TakeWatch, Spawn, IgnoreWatch, StopLookup, AnnounceStopping,
       ReportStopped, Drain, TakeSnapshot, ShutdownDone, DetachNext, StopNext, BeginShutdown,
       StopStep, DetachAndTerminate, Reap
  <2>2. CASE queue' = queue
    BY <2>1, <2>2
  <2>3. CASE queue' = <<>>
    BY <2>3
  <2>4. CASE queue # <<>> /\ queue' = Tail(queue)
    BY <2>1, <2>4, <1>p
  <2>5. queue' = queue \/ queue' = <<>> \/ (queue # <<>> /\ queue' = Tail(queue))
    BY <1>3 DEF MainStep, StartupComplete, TakeSignal, SeeCancelled, TakeStopAll, TakeStop,
       TakeStart, TakeRestart, TakeWatch, Spawn, IgnoreWatch, StopLookup, AnnounceStopping,
       ReportStopped, Drain, TakeSnapshot, ShutdownDone, DetachNext, StopNext, BeginShutdown,
       StopStep, DetachAndTerminate, Reap, Receives
  <2> QED  BY <2>2, <2>3, <2>4, <2>5
<1> QED  BY <1>1, <1>2, <1>3

\* Commands from the API arrive after the startup only.
LEMMA ApiOnlyPreserved == ASSUME ~UI, IInv, ApiOnly, Next PROVE ApiOnly'
<1>i. TypeOK /\ Control /\ Tiers
  BY DEF IInv
<1>1. phase' = "running" => StartupDone'
  <2>1. phase' = "running" => phase = "running" \/ StartupComplete
    <3>1. CASE ~MainStep /\ ~Environment
      BY <3>1, MainVarsFrame
    <3>2. CASE Environment
      BY <3>2 DEF Environment, Request, FileChange, QuitKey, SendSignal, ParentCancel, Die
    <3>3. CASE MainStep
      BY <3>3 DEF MainStep, TakeSignal, SeeCancelled, TakeStopAll, TakeStop,
         TakeStart, TakeRestart, TakeWatch, Spawn, IgnoreWatch, StopLookup, AnnounceStopping,
         ReportStopped, Drain, TakeSnapshot, ShutdownDone, DetachNext, StopNext, BeginShutdown,
         StopStep, DetachAndTerminate, Reap
    <3> QED  BY <3>1, <3>2, <3>3
  <2> QED  BY <2>1, <1>i, StartupStaysDone DEF ApiOnly, StartupComplete
<1>2. ASSUME NEW t \in Tasks, pc'[t] # "idle" PROVE StartupDone'
  <2>1. CASE pc[t] # "idle"
    BY <2>1, <1>i, StartupStaysDone DEF ApiOnly
  <2>2. CASE pc[t] = "idle"
    <3>1. queue \in Seq(Commands) /\ phase \in {"startup", "running", "stopping", "stopped"}
      BY <1>i DEF TypeOK
    <3>2. TakeStart \/ TakeRestart \/ TakeWatch
      BY <1>2, <2>2, <1>i, TaskFrame
    <3>3. phase \in {"startup", "running"} /\ queue # <<>>
          /\ (phase = "startup" => Head(queue).cmd # "watch")
      BY <3>2 DEF TakeStart, TakeRestart, TakeWatch, Receives, Selecting
    <3>4. Head(queue) = queue[1] /\ 1 \in 1..Len(queue)
      BY <3>1, <3>3
    <3>5. phase = "running"
      BY <3>3, <3>4 DEF ApiOnly
    <3> QED  BY <3>5, <1>i, StartupStaysDone DEF ApiOnly
  <2> QED  BY <2>1, <2>2
<1> QED  BY <1>1, <1>2, <1>i, StartupQueue DEF ApiOnly

-----------------------------------------------------------------------------
(* No entry is overwritten *)

\* A starter that has returned stays so.
LEMMA StarterReturned ==
  ASSUME TypeOK, Control, Tiers, Next, NEW s \in Services, pc[s] \in {"release", "done"}
  PROVE  pc'[s] \in {"release", "done"}
<1> USE ThreadAssumption DEF Control, Threads, At, Goto, Unwind, ServicePCs
<1>p. pc \in [Threads -> MainPCs \cup WorkPCs]
  BY DEF TypeOK
<1>1. ASSUME NEW u \in Services \cup Tasks, ServiceStep(u) PROVE pc'[s] \in {"release", "done"}
  BY <1>1, <1>p DEF ServiceStep, Acquire, AcquireCancelled, Release, Launch, LaunchFails, Ready,
     NotReady, Abort, Backoff, BackoffCancelled, AddProcess, AttemptFailed
<1>2. ASSUME NEW u \in Tasks, TaskStep(u) \/ StopStep(u) PROVE pc'[s] = pc[s]
  BY <1>2, <1>p DEF TaskStep, Lock, LockBusy, Unlock, RestartLookup, ResumeLookup, StopStep,
     DetachAndTerminate, Reap
<1>3. CASE MainStep
  <2>1. CASE TakeStart \/ TakeRestart \/ TakeWatch
    BY <2>1, <1>p, SpawnStep DEF TakeStart, TakeRestart, TakeWatch, Receives
  <2>2. CASE ~(TakeStart \/ TakeRestart \/ TakeWatch)
    BY <1>3, <2>2, <1>p DEF MainStep, StartupComplete, TakeSignal, SeeCancelled, TakeStopAll, TakeStop,
       IgnoreWatch, StopLookup, AnnounceStopping, ReportStopped, Drain, TakeSnapshot, ShutdownDone,
       DetachNext, StopNext, BeginShutdown, StopReturns, StopStep, DetachAndTerminate, Reap
  <2> QED  BY <2>1, <2>2
<1>4. CASE StartTier \/ EndTier
  BY <1>4, <1>p, TierAssumption DEF StartTier, EndTier, InTier, Tiers
<1>5. ASSUME NEW p \in Procs, SeeExit(p) \/ ReportExit(p) PROVE pc'[s] = pc[s]
  BY <1>5 DEF SeeExit, ReportExit
<1>6. CASE Environment
  BY <1>6, EnvironmentFrame
<1>7. CASE Finished
  BY <1>7 DEF Finished, vars
<1> QED  BY <1>1, <1>2, <1>3, <1>4, <1>5, <1>6, <1>7 DEF Next

\* Once a goroutine for a command exists, no starter is at work.
LEMMA TasksAfterStartup ==
  ASSUME Tiers, ApiOnly, NEW t \in Tasks, pc[t] # "idle", NEW s \in Services
  PROVE  pc[s] = "done"
<1>1. tier > NumTiers
  BY DEF ApiOnly, StartupDone
<1> QED  BY <1>1, TierAssumption DEF Tiers

\* Nobody registers a process of a service before its starter does.
LEMMA StartersFirstPreserved ==
  ASSUME IInv, ApiOnly, StartersFirst, Next
  PROVE  StartersFirst'
<1> SUFFICES ASSUME NEW s \in Services, pc'[s] \notin {"release", "done"} PROVE NoneHeld(s)'
  BY DEF StartersFirst
<1>i. TypeOK /\ Control /\ Tiers
  BY DEF IInv
<1>1. pc[s] \notin {"release", "done"}
  BY <1>i, StarterReturned
<1>2. ASSUME NEW t \in Services \cup Tasks, AddProcess(t), svc[t] = s PROVE FALSE
  <2>1. CASE t \in Services
    BY <1>i, <1>2, <2>1, ThreadAssumption DEF Control, AddProcess, Goto, Unwind, TypeOK, Threads
  <2>2. CASE t \in Tasks
    BY <1>i, <1>1, <1>2, <2>2, TasksAfterStartup DEF AddProcess, At
  <2> QED  BY <2>1, <2>2
<1> QED  BY <1>1, <1>2, NoneHeldKept DEF StartersFirst

\* A goroutine about to replace a process is where it was, or its own step
\* brought it there.
LEMMA ReplacingFrame ==
  ASSUME TypeOK, Control, Next, NEW t \in Tasks,
         pc'[t] \in {"detach", "reap", "launch", "await", "abort", "add", "backoff"}
  PROVE  /\ svc'[t] = svc[t]
         /\ \/ RestartLookup(t) \/ ResumeLookup(t) \/ Reap(t)
            \/ /\ pc[t] \in {"launch", "await", "abort", "add", "backoff"}
               /\ pc'[t] \in {"launch", "await", "abort", "add", "backoff"}
            \/ /\ pc[t] \in {"detach", "reap"} /\ pc'[t] \in {"detach", "reap"}
               /\ cur'[t] = cur[t]
<1> USE ThreadAssumption DEF Control, Threads, At, Goto, Unwind, ServicePCs
<1> DEFINE L == {"launch", "await", "abort", "add", "backoff"}
           G == /\ svc'[t] = svc[t]
                /\ \/ RestartLookup(t) \/ ResumeLookup(t) \/ Reap(t)
                   \/ pc[t] \in L /\ pc'[t] \in L
                   \/ pc[t] \in {"detach", "reap"} /\ pc'[t] \in {"detach", "reap"} /\ cur'[t] = cur[t]
<1>p. pc \in [Threads -> MainPCs \cup WorkPCs] /\ cur \in [Threads -> Procs \cup {None}]
      /\ svc \in [Threads -> Services \cup {None}]
  BY DEF TypeOK
<1>1. ASSUME NEW u \in Services \cup Tasks, ServiceStep(u) PROVE G
  BY <1>1, <1>p DEF ServiceStep, Acquire, AcquireCancelled, Release, Launch, LaunchFails, Ready,
     NotReady, Abort, Backoff, BackoffCancelled, AddProcess, AttemptFailed
<1>2. ASSUME NEW u \in Tasks, TaskStep(u) \/ StopStep(u) PROVE G
  BY <1>2, <1>p DEF TaskStep, Lock, LockBusy, Unlock, RestartLookup, ResumeLookup, StopStep,
     DetachAndTerminate, Reap
<1>3. CASE MainStep
  <2>1. CASE TakeStart \/ TakeRestart \/ TakeWatch
    <3>1. PICK u \in Tasks : /\ pc[u] = "idle" /\ pc' = [pc EXCEPT ![u] = "acquire"]
                             /\ \E s \in Services : svc' = [svc EXCEPT ![u] = s]
      BY <2>1, SpawnStep DEF TakeStart, TakeRestart, TakeWatch, Receives
    <3>2. cur' = cur
      BY <2>1 DEF TakeStart, TakeRestart, TakeWatch, Spawn
    <3> QED  BY <3>1, <3>2, <1>p
  <2>2. CASE ~(TakeStart \/ TakeRestart \/ TakeWatch)
    BY <1>3, <2>2, <1>p DEF MainStep, StartupComplete, TakeSignal, SeeCancelled, TakeStopAll, TakeStop,
       IgnoreWatch, StopLookup, AnnounceStopping, ReportStopped, Drain, TakeSnapshot, ShutdownDone,
       DetachNext, StopNext, BeginShutdown, StopReturns, StopStep, DetachAndTerminate, Reap
  <2> QED  BY <2>1, <2>2
<1>4. CASE StartTier \/ EndTier
  BY <1>4, <1>p DEF StartTier, EndTier, InTier
<1>5. ASSUME NEW p \in Procs, SeeExit(p) \/ ReportExit(p) PROVE G
  BY <1>5 DEF SeeExit, ReportExit
<1>6. CASE Environment
  BY <1>6, EnvironmentFrame
<1>7. CASE Finished
  BY <1>7 DEF Finished, vars
<1> QED  BY <1>1, <1>2, <1>3, <1>4, <1>5, <1>6, <1>7 DEF Next

\* While a goroutine is in the guard of a service after the startup, it is the
\* only one that may register a process of it.
LEMMA OnlyMeAdds ==
  ASSUME Control, Tiers, GuardExclusive, ApiOnly, NEW t \in Tasks,
         pc[t] \in {"detach", "reap", "launch", "await", "abort", "add", "backoff"},
         NEW u \in Services \cup Tasks, AddProcess(u), svc[u] = svc[t]
  PROVE  u = t
<1>1. pc[u] = "add"
  BY DEF AddProcess, At
<1>2. svc[t] \in Services
  BY DEF Control
<1>3. u \in Tasks
  BY <1>1, TasksAfterStartup
<1>4. t \in InGuard(svc[t]) /\ u \in InGuard(svc[t])
  BY <1>1, <1>3 DEF InGuard
<1> QED  BY <1>2, <1>4 DEF GuardExclusive

\* Remove forgets the handle it is given.
LEMMA RemovedNotHeld ==
  ASSUME RegistryInv, NEW s \in Services, NEW p \in Procs, Reg!Remove(s, p)
  PROVE  ~Reg!HeldFor(s, p)'
<1> USE DEF Reg!HeldFor, Reg!Holds, Reg!regVars
<1>1. Reg!TypeOK /\ (processes[s] = None \/ detached[s] = None)
  BY RegistryFacts
<1>2. CASE Reg!RemoveDetached(s, p)
  BY <1>1, <1>2 DEF Reg!RemoveDetached, Reg!TypeOK
<1>3. CASE Reg!RemoveAttached(s, p)
  BY <1>1, <1>3 DEF Reg!RemoveAttached, Reg!Unexpected, Reg!TypeOK
<1>4. CASE Reg!RemoveNothing(s, p)
  BY <1>4 DEF Reg!RemoveNothing
<1> QED  BY <1>2, <1>3, <1>4 DEF Reg!Remove

\* A goroutine in the guard keeps others from registering, and looks or reaps
\* before it launches.
LEMMA TasksReplacePreserved ==
  ASSUME IInv, ApiOnly, TasksReplace, Next
  PROVE  TasksReplace'
<1> DEFINE L == {"launch", "await", "abort", "add", "backoff"}
           Only(t, q) == \A p \in Procs : Reg!HeldFor(svc[t], p) => p = q
<1> SUFFICES ASSUME NEW t \in Tasks, pc'[t] \in L \cup {"detach", "reap"}
             PROVE  /\ pc'[t] \in L => NoneHeld(svc[t])'
                    /\ pc'[t] \in {"detach", "reap"} =>
                         \A p \in Procs : Reg!HeldFor(svc[t], p)' => p = cur'[t]
  BY DEF TasksReplace
<1>i. TypeOK /\ Control /\ Tiers /\ GuardExclusive /\ Handles /\ RegistryInv
  BY DEF IInv
<1>p. /\ pc \in [Threads -> MainPCs \cup WorkPCs] /\ cur \in [Threads -> Procs \cup {None}]
      /\ t \in Threads
  BY <1>i DEF TypeOK, Threads
<1>s. svc'[t] = svc[t]
  BY <1>i, ReplacingFrame
<1>v. svc[t] \in Services
  <2>1. pc[t] # "idle"
    BY <1>i, ReplacingFrame DEF RestartLookup, ResumeLookup, Reap, At
  <2> QED  BY <2>1, <1>i DEF Control
<1>1. CASE RestartLookup(t)
  <2>1. UNCHANGED regVars /\ pc[t] = "lookup"
    BY <1>1 DEF RestartLookup, At
  <2>2. processes[svc[t]] = None \/ detached[svc[t]] = None
    BY <1>i, <1>v, RegistryFacts
  <2>3. CASE Reg!Exists(svc[t])
    <3>1. pc'[t] = "detach" /\ cur'[t] = Reg!Get(svc[t]).proc
      BY <1>1, <1>p, <2>3 DEF RestartLookup, Goto
    <3>2. \A p \in Procs : Reg!HeldFor(svc[t], p) => p = Reg!Get(svc[t]).proc
      BY <2>2 DEF Reg!HeldFor, Reg!Holds, Reg!Get
    <3>3. \A p \in Procs : Reg!HeldFor(svc[t], p)' <=> Reg!HeldFor(svc[t], p)
      BY <2>1, <1>s DEF Reg!HeldFor, Reg!Holds
    <3> QED  BY <3>1, <3>2, <3>3
  <2>4. CASE ~Reg!Exists(svc[t])
    <3>1. pc'[t] = "launch"
      BY <1>1, <1>p, <2>4 DEF RestartLookup, Goto
    <3>2. NoneHeld(svc[t])'
      BY <2>1, <2>4, <1>s DEF NoneHeld, Reg!HeldFor, Reg!Holds, Reg!Exists, Reg!Get
    <3> QED  BY <3>1, <3>2
  <2> QED  BY <2>3, <2>4
<1>2. CASE ResumeLookup(t)
  <2>1. pc'[t] = "launch" /\ ~Reg!Exists(svc[t]) /\ UNCHANGED regVars
    BY <1>2, <1>p DEF ResumeLookup, Goto
  <2>2. NoneHeld(svc[t])'
    BY <2>1, <1>s DEF NoneHeld, Reg!HeldFor, Reg!Holds, Reg!Exists, Reg!Get
  <2> QED  BY <2>1, <2>2
<1>3. CASE Reap(t)
  <2>1. pc'[t] = "launch" /\ pc[t] = "reap" /\ Reg!Remove(svc[t], cur[t])
    BY <1>3, <1>p, ThreadAssumption DEF Reap, Goto, At
  <2>2. cur[t] \in Procs
    BY <2>1, <1>i DEF Handles, OldHandles, HoldsOld
  <2>3. \A p \in Procs : Reg!HeldFor(svc[t], p) => p = cur[t]
    BY <2>1 DEF TasksReplace
  <2>4. \A p \in Procs : Reg!HeldFor(svc[t], p)' => Reg!HeldFor(svc[t], p)
    <3>1. \A u \in Services, q \in Procs : Reg!HeldFor(u, q)' => Reg!HeldFor(u, q)
      BY <2>1, <2>2, <1>i, <1>v, RegistryFacts, RemoveFacts
    <3> QED  BY <3>1, <1>v, <1>s DEF Reg!HeldFor, Reg!Holds
  <2>5. ~Reg!HeldFor(svc[t], cur[t])'
    <3>1. \A u \in Services, q \in Procs : Reg!Remove(u, q) => ~Reg!HeldFor(u, q)'
      BY <1>i, RemovedNotHeld
    <3>2. cur'[t] = cur[t]
      BY <1>3 DEF Reap
    <3> QED  BY <2>1, <2>2, <3>1, <3>2, <1>v, <1>s DEF Reg!HeldFor, Reg!Holds
  <2>6. cur'[t] = cur[t]
    BY <1>3 DEF Reap
  <2>7. \A p \in Procs : ~Reg!HeldFor(svc[t], p)'
    BY <2>3, <2>4, <2>5, <2>6 DEF Reg!HeldFor, Reg!Holds
  <2> QED  BY <2>1, <2>7 DEF NoneHeld
<1>4. CASE ~(RestartLookup(t) \/ ResumeLookup(t) \/ Reap(t))
  <2>1. \/ pc[t] \in L /\ pc'[t] \in L
        \/ pc[t] \in {"detach", "reap"} /\ pc'[t] \in {"detach", "reap"} /\ cur'[t] = cur[t]
    BY <1>4, <1>i, ReplacingFrame
  <2>2. \A u \in Services \cup Tasks : ~(AddProcess(u) /\ svc[u] = svc[t])
    <3>1. ASSUME NEW u \in Services \cup Tasks, AddProcess(u), svc[u] = svc[t] PROVE FALSE
      <4>1. u = t
        BY <3>1, <2>1, <1>i, OnlyMeAdds
      <4>2. pc'[t] = "unlock"
        BY <4>1, <3>1, <1>p, ThreadAssumption DEF AddProcess, Goto, Unwind
      <4> QED  BY <4>2
    <3> QED  BY <3>1
  <2>3. \A p \in Procs : Reg!HeldFor(svc[t], p)' => Reg!HeldFor(svc[t], p)
    <3> DEFINE s == svc[t]
    <3>1. \A p \in Procs : processes'[s] = processes'[svc'[t]] /\ detached'[s] = detached'[svc'[t]]
      BY <1>s
    <3>2. ASSUME NEW p \in Procs, Reg!Holds(processes, svc[t], p)' \/ Reg!Holds(detached, svc[t], p)'
          PROVE  Reg!HeldFor(svc[t], p)
      <4>1. s \in Services /\ \A u \in Services \cup Tasks : ~(AddProcess(u) /\ svc[u] = s)
        BY <1>v, <2>2
      <4>2. (processes'[s] # None /\ processes'[s].proc = p) \/ (detached'[s] # None /\ detached'[s].proc = p)
        BY <3>2, <1>s DEF Reg!Holds
      <4> HIDE DEF s
      <4>3. Reg!HeldFor(s, p)
        BY <4>1, <4>2, HeldShrinks DEF Reg!HeldFor, Reg!Holds
      <4> QED  BY <4>3 DEF s
    <3> QED  BY <3>2 DEF Reg!HeldFor
  <2> QED  BY <2>1, <2>3 DEF TasksReplace, NoneHeld
<1> QED  BY <1>1, <1>2, <1>3, <1>4

\* Whoever registers a process finds none registered.
LEMMA NoneLostPreserved ==
  ASSUME IInv, StartersFirst, TasksReplace, NoneLost, Next
  PROVE  NoneLost'
<1> SUFFICES ASSUME NEW p \in Procs, life'[p] = "lost" PROVE FALSE
  BY DEF NoneLost
<1>1. PICK t \in Services \cup Tasks : AddProcess(t) /\ Reg!HeldFor(svc[t], p)
  BY LostFrame DEF NoneLost
<1>2. pc[t] = "add" /\ (t \in Services => svc[t] = t)
  BY <1>1 DEF AddProcess, At, IInv, Control
<1>3. NoneHeld(svc[t])
  BY <1>2 DEF StartersFirst, TasksReplace
<1> QED  BY <1>1, <1>3 DEF NoneHeld

-----------------------------------------------------------------------------

\* No command at first, and nothing registered.
LEMMA ApiInit == ~UI /\ Init => ApiInv
<1> SUFFICES ASSUME ~UI, Init PROVE ApiInv
  OBVIOUS
<1> USE ThreadAssumption
<1>1. ApiOnly
  BY DEF Init, ApiOnly, Threads
<1>2. StartersFirst /\ TasksReplace
  BY DEF Init, Reg!Init, StartersFirst, TasksReplace, NoneHeld, Reg!HeldFor, Reg!Holds, Threads
<1>3. NoneLost
  BY DEF Init, Reg!Init, NoneLost
<1> QED  BY <1>1, <1>2, <1>3, InitEstablishes DEF ApiInv

\* Every step preserves the invariant.
LEMMA ApiStep == ~UI /\ ApiInv /\ [Next]_vars => ApiInv'
<1> SUFFICES ASSUME ~UI, ApiInv, [Next]_vars PROVE ApiInv'
  OBVIOUS
<1>i. IInv /\ ApiOnly /\ StartersFirst /\ TasksReplace /\ NoneLost
  BY DEF ApiInv
<1>1. IInv'
  BY <1>i, NextPreserves
<1>2. CASE Next
  BY <1>1, <1>2, <1>i, ApiOnlyPreserved, StartersFirstPreserved, TasksReplacePreserved,
     NoneLostPreserved DEF ApiInv
<1>3. CASE UNCHANGED vars
  BY <1>1, <1>3, <1>i DEF vars, ApiInv, ApiOnly, StartupDone, StartersFirst, TasksReplace, NoneHeld,
     NoneLost, Reg!HeldFor, Reg!Holds
<1> QED  BY <1>2, <1>3

\* With commands from the API only, no Add drops another process of the service
\* from the registry, however starts, restarts, crashes and shutdown interleave:
\* no process runs on with nobody to stop it (registry.go:79-97).
THEOREM RunnerNoneLost == ~UI /\ Spec => []NoneLost
<1> SUFFICES ASSUME ~UI PROVE Spec => []NoneLost
  OBVIOUS
<1>1. Init => ApiInv
  BY ApiInit
<1>2. ApiInv /\ [Next]_vars => ApiInv'
  BY ApiStep
<1>3. ApiInv => NoneLost
  BY DEF ApiInv
<1> QED  BY <1>1, <1>2, <1>3, PTL DEF Spec

-----------------------------------------------------------------------------
(* Shutdown *)

\* A process that is gone, or whose entry was overwritten, stays so.
LEMMA SettledStays ==
  ASSUME IInv, Next, NEW p \in Procs
  PROVE  /\ Gone(p) => Gone(p)'
         /\ life[p] = "lost" => life'[p] = "lost"
<1>i. TypeOK /\ Control /\ Handles /\ RegistryInv
  BY DEF IInv
<1>p. /\ proc \in [Procs -> {"unborn", "alive", "signalled", "exited", "killed"}]
      /\ life \in [Procs -> Reg!Life]
  BY <1>i, HandleTypes
<1>g. ASSUME Gone(p) PROVE Gone(p)'
  <2> USE DEF Gone
  <2>1. ASSUME NEW t \in Services \cup Tasks, Launch(t) PROVE Gone(p)'
    <3>1. Fresh \in Procs /\ proc[Fresh] = "unborn"
      BY <2>1 DEF Launch, Fresh
    <3> QED  BY <2>1, <3>1, <1>g, <1>p DEF Launch
  <2>2. ASSUME NEW t \in Services \cup Tasks, NotReady(t) PROVE Gone(p)'
    BY <2>2, <1>g, <1>p DEF NotReady, Terminate
  <2>3. ASSUME NEW t \in Tasks \cup {Main}, StopStep(t) PROVE Gone(p)'
    BY <2>3, <1>g, <1>p DEF StopStep, DetachAndTerminate, Reap, Terminate
  <2>4. ASSUME NEW q \in Procs, Die(q) PROVE Gone(p)'
    BY <2>4, <1>g, <1>p DEF Die
  <2>5. ASSUME NEW q \in Procs, SeeExit(q) \/ ReportExit(q) PROVE Gone(p)'
    BY <2>5, <1>g DEF SeeExit, ReportExit
  <2>6. ASSUME NEW t \in Services \cup Tasks, AddProcess(t) PROVE Gone(p)'
    BY <2>6, <1>g DEF AddProcess
  <2>7. ASSUME StopLookup \/ \E t \in Tasks : RestartLookup(t) PROVE Gone(p)'
    BY <2>7, <1>g DEF StopLookup, RestartLookup
  <2>8. ASSUME NEW e \in undetached, DetachNext(e) PROVE Gone(p)'
    BY <2>8, <1>g DEF DetachNext
  <2>9. CASE ~TouchesHandles
    BY <2>9, <1>i, <1>g, HandlesFrame DEF HandlesKept
  <2> QED  BY <2>1, <2>2, <2>3, <2>4, <2>5, <2>6, <2>7, <2>8, <2>9 DEF TouchesHandles
<1>l. ASSUME life[p] = "lost" PROVE life'[p] = "lost"
  <2>1. [Reg!Next]_(Reg!regVars)
    BY <1>i, RegistryStep DEF Handles
  <2>2. \A s \in Services : ~Reg!HeldFor(s, p)
    BY <1>i, <1>l, RegistryFacts
  <2>3. ASSUME NEW s \in Services, NEW q \in Procs, life[q] = "fresh", Reg!Add(s, q) PROVE life'[p] = "lost"
    BY <2>3, <2>2, <1>l DEF Reg!Add
  <2>4. ASSUME NEW s \in Services, Reg!Detach(s) PROVE life'[p] = "lost"
    BY <2>4, <1>l DEF Reg!Detach
  <2>5. ASSUME NEW s \in Services, NEW q \in Procs, Reg!Remove(s, q) PROVE life'[p] = "lost"
    BY <2>5, <2>2, <1>p, <1>i, <1>l, RegistryFacts, RemoveFacts
  <2>6. CASE UNCHANGED Reg!regVars
    BY <2>6, <1>l DEF Reg!regVars
  <2> QED  BY <2>1, <2>3, <2>4, <2>5, <2>6 DEF Reg!Next
<1> QED  BY <1>g, <1>l

\* What Progress says of one entry stays true of it.
LEMMA EntryKept ==
  ASSUME IInv, Next, NEW e \in Entries, life[e.proc] # "fresh", owner[e.proc] = e.id
  PROVE  /\ life'[e.proc] # "fresh" /\ owner'[e.proc] = e.id
         /\ Settled(e) => Settled(e)'
<1> DEFINE p == e.proc
<1>i. TypeOK /\ Control /\ Handles /\ p \in Procs
  BY DEF IInv, Entries
<1>1. proc[p] # "unborn"
  BY <1>i DEF Handles, Watchers
<1>2. [Reg!Next]_(Reg!regVars)
  BY <1>i, RegistryStep DEF IInv, Handles
<1>3. life'[p] # "fresh"
  BY <1>i, <1>2, LifeKept
<1>4. owner'[p] = owner[p]
  BY <1>i, <1>1, OwnerKept
<1>5. (Gone(p) => Gone(p)') /\ (life[p] = "lost" => life'[p] = "lost")
  BY <1>i, SettledStays
<1> QED  BY <1>3, <1>4, <1>5 DEF Settled

\* Main's own steps aside, nobody moves Main or changes its snapshot and plan.
LEMMA OthersFrame ==
  ASSUME TypeOK, Control, Tiers, Next, ~MainStep
  PROVE  /\ UNCHANGED stopVars
         /\ pc'[Main] = pc[Main] /\ op'[Main] = op[Main]
         /\ svc'[Main] = svc[Main] /\ cur'[Main] = cur[Main]
<1> USE ThreadAssumption DEF Threads, At, Goto, Unwind
<1> DEFINE G == /\ UNCHANGED stopVars
                /\ pc'[Main] = pc[Main] /\ op'[Main] = op[Main]
                /\ svc'[Main] = svc[Main] /\ cur'[Main] = cur[Main]
<1>p. /\ pc \in [Threads -> MainPCs \cup WorkPCs] /\ svc \in [Threads -> Services \cup {None}]
      /\ cur \in [Threads -> Procs \cup {None}]
      /\ op \in [Threads -> {"start", "resume", "restart", "stop", "shutdown", "none"}]
  BY DEF TypeOK
<1>1. ASSUME NEW t \in Services \cup Tasks, ServiceStep(t) PROVE G
  BY <1>1, <1>p DEF ServiceStep, Acquire, AcquireCancelled, Release, Launch, LaunchFails, Ready,
     NotReady, Abort, Backoff, BackoffCancelled, AddProcess, AttemptFailed
<1>2. ASSUME NEW t \in Tasks, TaskStep(t) \/ StopStep(t) PROVE G
  BY <1>2, <1>p DEF TaskStep, Lock, LockBusy, Unlock, RestartLookup, ResumeLookup, StopStep,
     DetachAndTerminate, Reap
<1>3. CASE StartTier \/ EndTier
  BY <1>3, <1>p DEF StartTier, EndTier, InTier
<1>4. ASSUME NEW p \in Procs, SeeExit(p) \/ ReportExit(p) PROVE G
  BY <1>4 DEF SeeExit, ReportExit
<1>5. CASE Environment
  <2>1. UNCHANGED stopVars
    BY <1>5 DEF Environment, Request, FileChange, QuitKey, SendSignal, ParentCancel, Die
  <2> QED  BY <1>5, <2>1, EnvironmentFrame
<1>6. CASE Finished
  BY <1>6 DEF Finished, vars
<1> QED  BY <1>1, <1>2, <1>3, <1>4, <1>5, <1>6 DEF Next

\* A step that leaves the plan alone, and the entry Main is at work on with it
\* or settled.
LEMMA ProgressKept ==
  ASSUME IInv, Progress, Next, op[Main] = "shutdown", snapshot' = snapshot, plan' = plan,
         \A e \in snapshot : StoppingEntry(e) => StoppingEntry(e)' \/ Settled(e)'
  PROVE  Progress'
<1>1. snapshot \subseteq Entries
  BY DEF IInv, TypeOK
<1>2. \A e \in snapshot : /\ life'[e.proc] # "fresh" /\ owner'[e.proc] = e.id
                          /\ Settled(e) => Settled(e)'
  BY <1>1, EntryKept DEF Progress
<1>3. \A e \in snapshot \ plan : Settled(e)' \/ StoppingEntry(e)'
  BY <1>2 DEF Progress
<1> QED  BY <1>2, <1>3 DEF Progress

\* Snapshot: every entry is of a registered process of its service, and the
\* orders differ.
LEMMA SnapshotFacts ==
  ASSUME IInv
  PROVE  /\ \A e \in Reg!Snapshot : life[e.proc] # "fresh" /\ owner[e.proc] = e.id
         /\ \A e, f \in Reg!Snapshot : e.order = f.order => e = f
<1>1. Reg!OrdersDistinct
  BY OrdersFollow DEF IInv
<1>2. ASSUME NEW e \in Reg!Snapshot PROVE life[e.proc] # "fresh" /\ owner[e.proc] = e.id
  <2>1. PICK s \in Services : \E x \in {processes[s], detached[s]} \ {None} :
          e = [id |-> s, proc |-> x.proc, order |-> x.order]
    BY DEF Reg!Snapshot
  <2>2. Reg!TypeOK
    BY RegistryFacts DEF IInv
  <2>3. e.id = s /\ e.proc \in Procs /\ Reg!HeldFor(s, e.proc)
    BY <2>1, <2>2 DEF Reg!TypeOK, Reg!Entry, Reg!HeldFor, Reg!Holds
  <2> QED  BY <2>3, RegistryFacts DEF IInv, Handles, Attached
<1> QED  BY <1>1, <1>2 DEF Reg!OrdersDistinct

\* An entry that is not settled is what Get finds.
LEMMA UnsettledFound ==
  ASSUME IInv, NEW e \in Entries, life[e.proc] # "fresh", owner[e.proc] = e.id, ~Settled(e)
  PROVE  Reg!Exists(e.id) /\ Reg!Get(e.id).proc = e.proc
<1>1. e.proc \in Procs /\ e.id \in Services
  BY DEF Entries
<1>2. life[e.proc] = "tracked"
  <2>1. life[e.proc] \in Reg!Life
    BY <1>1, HandleTypes DEF IInv
  <2>2. life[e.proc] # "removed"
    BY <1>1 DEF Settled, IInv, Handles, RemovedMeansGone
  <2> QED  BY <2>1, <2>2 DEF Settled, Reg!Life
<1>3. PICK s \in Services : Reg!HeldFor(s, e.proc)
  BY <1>1, <1>2 DEF IInv, RegistryInv, Reg!TrackedExactlyOnce, Reg!HeldFor, Reg!Holds
<1>4. s = e.id
  BY <1>1, <1>3 DEF IInv, Handles, Attached
<1>5. processes[s] = None \/ detached[s] = None
  BY RegistryFacts DEF IInv
<1> QED  BY <1>3, <1>4, <1>5 DEF Reg!HeldFor, Reg!Holds, Reg!Get, Reg!Exists

\* The snapshot is taken: all is in the plan.
LEMMA TakeSnapshotProgress == ASSUME IInv, Next, TakeSnapshot PROVE Progress'
<1>1. /\ snapshot' = Reg!Snapshot /\ plan' = Reg!Snapshot
      /\ UNCHANGED <<life, owner>>
  BY DEF TakeSnapshot
<1> QED  BY <1>1, SnapshotFacts DEF Progress

\* The next Stop is of the latest of the plan: all others out of it are settled.
LEMMA StopNextProgress ==
  ASSUME IInv, Progress, op[Main] = "shutdown", NEW e \in plan, Next, StopNext(e)
  PROVE  Progress'
<1>i. TypeOK
  BY DEF IInv
<1>1. /\ pc[Main] = "shutdown" /\ Latest(e, plan) /\ plan' = plan \ {e}
      /\ pc'[Main] = "lookup" /\ svc'[Main] = e.id
      /\ UNCHANGED <<life, owner, proc, op, snapshot>>
  BY <1>i DEF StopNext, At, Goto, TypeOK, Threads
<1>2. e \in snapshot /\ snapshot \subseteq Entries /\ plan \subseteq snapshot
  BY <1>i DEF Progress, TypeOK
<1>3. \A f \in snapshot \ plan : Settled(f)
  BY <1>1 DEF Progress, StoppingEntry
<1>4. \A f \in snapshot \ plan : Settled(f)'
  BY <1>1, <1>3 DEF Settled, Gone
<1>5. StoppingEntry(e)'
  BY <1>1 DEF StoppingEntry
<1>6. \A f \in snapshot' \ plan' : Settled(f)' \/ StoppingEntry(f)'
  BY <1>1, <1>2, <1>4, <1>5
<1>7. ASSUME NEW f \in snapshot' \ plan', NEW g \in plan' PROVE g.order < f.order
  <2>1. g \in plan /\ g # e /\ g \in snapshot
    BY <1>1, <1>2, <1>7
  <2>2. CASE f \in snapshot \ plan
    BY <2>1, <2>2 DEF Progress
  <2>3. CASE f = e
    <3>1. g.order <= e.order
      BY <1>1, <2>1 DEF Latest
    <3>2. g.order # e.order
      BY <1>2, <2>1 DEF Progress
    <3>3. g.order \in Nat /\ e.order \in Nat
      BY <1>2, <2>1 DEF Entries
    <3> QED  BY <2>3, <3>1, <3>2, <3>3
  <2> QED  BY <1>1, <2>2, <2>3
<1>8. \A f \in snapshot' : life'[f.proc] # "fresh" /\ owner'[f.proc] = f.id
  BY <1>1 DEF Progress
<1>9. (\A f, g \in snapshot' : f.order = g.order => f = g) /\ plan' \subseteq snapshot'
  BY <1>1, <1>2 DEF Progress
<1> QED  BY <1>6, <1>7, <1>8, <1>9 DEF Progress

\* Every other step of Main leaves the plan alone.
LEMMA MainProgress ==
  ASSUME IInv, MainPhases, Progress, Next, MainStep, ~TakeSnapshot, \A e \in plan : ~StopNext(e),
         op'[Main] = "shutdown"
  PROVE  Progress'
<1> USE ThreadAssumption DEF At, Goto, Threads
<1>i. TypeOK /\ Control /\ Handles
  BY DEF IInv
<1>p. /\ pc \in [Threads -> MainPCs \cup WorkPCs] /\ svc \in [Threads -> Services \cup {None}]
      /\ cur \in [Threads -> Procs \cup {None}]
      /\ op \in [Threads -> {"start", "resume", "restart", "stop", "shutdown", "none"}]
  BY <1>i DEF TypeOK
<1>o. op[Main] = "shutdown" /\ UNCHANGED <<snapshot, plan>>
  <2>1. CASE TakeStart \/ TakeRestart \/ TakeWatch
    BY <2>1, <1>i, <1>p, SpawnStep DEF TakeStart, TakeRestart, TakeWatch, Receives, Spawn
  <2>2. CASE ~(TakeStart \/ TakeRestart \/ TakeWatch)
    BY <2>2, <1>p DEF MainStep, StartupComplete, TakeSignal, SeeCancelled, TakeStopAll, TakeStop,
       IgnoreWatch, StopLookup, AnnounceStopping, ReportStopped, Drain, ShutdownDone,
       DetachNext, BeginShutdown, StopReturns, StopStep, DetachAndTerminate, Reap
  <2> QED  BY <2>1, <2>2
<1>e. snapshot \subseteq Entries
  BY <1>i DEF TypeOK
<1>n. pc[Main] # "select"
  BY <1>o DEF MainPhases
<1>1. CASE StopLookup
  <2>1. ASSUME NEW e \in snapshot, StoppingEntry(e), ~Settled(e) PROVE StoppingEntry(e)'
    <3>1. Reg!Exists(e.id) /\ Reg!Get(e.id).proc = e.proc
      BY <2>1, <1>e, <1>o, UnsettledFound DEF Progress
    <3>2. svc[Main] = e.id
      BY <2>1 DEF StoppingEntry
    <3>3. svc' = svc /\ pc'[Main] = "announce" /\ cur'[Main] = e.proc
      BY <1>1, <1>p, <3>1, <3>2 DEF StopLookup
    <3> QED  BY <3>2, <3>3 DEF StoppingEntry
  <2>2. \A e \in snapshot : Settled(e) => Settled(e)'
    BY <1>1 DEF StopLookup, Settled, Gone
  <2> QED  BY <1>o, <2>1, <2>2, ProgressKept
<1>2. CASE AnnounceStopping \/ DetachAndTerminate(Main)
  <2>1. /\ pc[Main] \in {"announce", "detach"} /\ pc'[Main] \in {"detach", "reap"}
        /\ cur' = cur /\ svc' = svc
    BY <1>2, <1>p DEF AnnounceStopping, DetachAndTerminate
  <2>2. \A e \in snapshot : StoppingEntry(e) => StoppingEntry(e)'
    BY <2>1 DEF StoppingEntry
  <2> QED  BY <1>o, <2>2, ProgressKept
<1>3. CASE Reap(Main)
  <2>1. pc[Main] = "reap" /\ Gone(cur[Main]) /\ proc' = proc
    BY <1>3 DEF Reap
  <2>2. \A e \in snapshot : StoppingEntry(e) => Settled(e)'
    BY <2>1 DEF StoppingEntry, Settled, Gone
  <2> QED  BY <1>o, <2>2, ProgressKept
<1>4. CASE ~(StopLookup \/ AnnounceStopping \/ StopStep(Main))
  <2>1. pc[Main] \notin {"lookup", "announce", "detach", "reap"}
    BY <1>4, <1>n, <1>p DEF MainStep, StartupComplete, TakeSignal, SeeCancelled, TakeStopAll, TakeStop,
       TakeStart, TakeRestart, TakeWatch, Receives, Selecting,
       IgnoreWatch, ReportStopped, Drain, ShutdownDone, DetachNext
  <2>2. \A e \in snapshot : ~StoppingEntry(e)
    BY <2>1 DEF StoppingEntry
  <2> QED  BY <1>o, <2>2, ProgressKept
<1> QED  BY <1>1, <1>2, <1>3, <1>4 DEF StopStep

\* Every step preserves what is known of the plan.
LEMMA ProgressPreserved == ASSUME IInv, MainPhases, Progress, Next PROVE Progress'
<1>i. TypeOK /\ Control /\ Tiers
  BY DEF IInv
<1>1. CASE ~MainStep
  <2>1. /\ UNCHANGED stopVars
        /\ pc'[Main] = pc[Main] /\ op'[Main] = op[Main]
        /\ svc'[Main] = svc[Main] /\ cur'[Main] = cur[Main]
    BY <1>1, <1>i, OthersFrame
  <2>2. \A e \in snapshot : StoppingEntry(e) => StoppingEntry(e)'
    BY <2>1 DEF StoppingEntry
  <2>3. CASE op[Main] = "shutdown"
    BY <2>1, <2>2, <2>3, ProgressKept
  <2>4. CASE op[Main] # "shutdown"
    BY <2>1, <2>4 DEF Progress
  <2> QED  BY <2>3, <2>4
<1>2. CASE TakeSnapshot
  BY <1>2, TakeSnapshotProgress
<1>3. ASSUME NEW e \in plan, StopNext(e) PROVE Progress'
  <2>1. op[Main] = "shutdown"
    BY <1>3, <1>i DEF StopNext, At, Control
  <2> QED  BY <1>3, <2>1, StopNextProgress
<1>4. CASE MainStep /\ ~TakeSnapshot /\ (\A e \in plan : ~StopNext(e)) /\ op'[Main] = "shutdown"
  BY <1>4, MainProgress
<1>5. CASE op'[Main] # "shutdown"
  BY <1>5 DEF Progress
<1> QED  BY <1>1, <1>2, <1>3, <1>4, <1>5

\* Only the end of shutdown publishes PhaseStopped, and nothing moves Main on.
LEMMA EndReachedPreserved == ASSUME IInv, EndReached, Next PROVE EndReached'
<1> USE ThreadAssumption DEF At, Goto, Threads, EndReached
<1>i. TypeOK /\ Control /\ Tiers
  BY DEF IInv
<1>p. pc \in [Threads -> MainPCs \cup WorkPCs]
  BY <1>i DEF TypeOK
<1>1. CASE ~MainStep
  <2>1. phase' = phase
    <3>1. CASE Environment
      BY <3>1 DEF Environment, Request, FileChange, QuitKey, SendSignal, ParentCancel, Die
    <3> QED  BY <1>1, <3>1, MainVarsFrame
  <2> QED  BY <1>1, <1>i, <2>1, OthersFrame
<1>2. CASE ShutdownDone
  BY <1>2, <1>i, <1>p DEF ShutdownDone, Control
<1>3. CASE MainStep /\ ~ShutdownDone
  <2>1. phase # "stopped"
    BY <1>3 DEF MainStep, StartupComplete, TakeSignal, SeeCancelled, TakeStopAll, TakeStop,
       TakeStart, TakeRestart, TakeWatch, Receives, Selecting, IgnoreWatch, StopLookup,
       AnnounceStopping, ReportStopped, Drain, TakeSnapshot, DetachNext, StopNext, StopStep,
       DetachAndTerminate, Reap
  <2>2. phase' # "stopped"
    BY <1>3, <2>1 DEF MainStep, StartupComplete, TakeSignal, SeeCancelled, TakeStopAll, TakeStop,
       TakeStart, TakeRestart, TakeWatch, Spawn, BeginShutdown, IgnoreWatch, StopLookup,
       AnnounceStopping, ReportStopped, Drain, TakeSnapshot, DetachNext, StopNext, StopStep,
       DetachAndTerminate, Reap
  <2> QED  BY <2>2
<1> QED  BY <1>1, <1>2, <1>3

\* At first nothing is shut down.
LEMMA ShutInit == Init => ShutInv
<1> SUFFICES ASSUME Init PROVE ShutInv
  OBVIOUS
<1>1. op[Main] = "none" /\ phase = "startup"
  BY ThreadAssumption DEF Init, Threads
<1> QED  BY <1>1, EventInit DEF ShutInv, Progress, EndReached

\* Every step preserves the invariant of the shutdown.
LEMMA ShutStep == ShutInv /\ [Next]_vars => ShutInv'
<1> SUFFICES ASSUME ShutInv, [Next]_vars PROVE ShutInv'
  OBVIOUS
<1>i. EventInv /\ IInv /\ MainPhases /\ Progress /\ EndReached
  BY DEF ShutInv, EventInv
<1>1. EventInv'
  BY <1>i, EventStep
<1>2. CASE Next
  BY <1>1, <1>2, <1>i, ProgressPreserved, EndReachedPreserved DEF ShutInv
<1>3. CASE UNCHANGED vars
  BY <1>1, <1>3, <1>i DEF vars, ShutInv, Progress, EndReached, Settled, Gone, StoppingEntry
<1> QED  BY <1>2, <1>3

\* The invariant gives the order in which shutdown works its plan off.
LEMMA InOrderFollows == ShutInv => ShutdownInOrder
<1> SUFFICES ASSUME ShutInv, (pc[Main] = "shutdown" /\ undetached = {}) \/ phase = "stopped"
             PROVE  \A e \in snapshot \ plan : Settled(e) /\ \A f \in plan : f.order < e.order
  BY DEF ShutdownInOrder, Settled, At
<1>1. op[Main] = "shutdown" /\ pc[Main] \notin {"lookup", "announce", "detach", "reap"}
  BY DEF ShutInv, EndReached, EventInv, IInv, Control
<1> QED  BY <1>1 DEF ShutInv, Progress, StoppingEntry

\* Shutdown stops services one at a time, those registered last first, whatever
\* commands are in flight, from a UI too: before the Stop of one registered
\* earlier begins, the process of an entry is gone or an Add has overwritten its
\* entry (runner.go:396-421, registry.go:79-119).
THEOREM RunnerShutdownInOrder == Spec => []ShutdownInOrder
<1> QED  BY InOrderFollows, ShutInit, ShutStep, PTL DEF Spec

\* The same without the exemption: the process itself is gone.
StrictlyInOrder ==
  (At(Main, "shutdown") /\ undetached = {}) \/ phase = "stopped" =>
    \A e \in snapshot \ plan : Gone(e.proc) /\ \A f \in plan : f.order < e.order

\* With commands from the API only no entry is overwritten, so the process of an
\* entry is gone before the Stop of one registered earlier begins
\* (runner.go:396-421).
THEOREM RunnerStrictlyInOrder == ~UI /\ Spec => []StrictlyInOrder
<1> SUFFICES ASSUME ~UI PROVE Spec => []StrictlyInOrder
  OBVIOUS
<1>1. Init => ApiInv /\ ShutInv
  BY ApiInit, ShutInit
<1>2. (ApiInv /\ ShutInv) /\ [Next]_vars => (ApiInv /\ ShutInv)'
  BY ApiStep, ShutStep
<1>3. ApiInv /\ ShutInv => StrictlyInOrder
  <2> SUFFICES ASSUME ApiInv, ShutInv PROVE StrictlyInOrder
    OBVIOUS
  <2>1. ShutdownInOrder
    BY InOrderFollows
  <2>2. \A e \in snapshot : life[e.proc] # "lost"
    BY DEF ApiInv, NoneLost, IInv, TypeOK, Entries
  <2> QED  BY <2>1, <2>2 DEF ShutdownInOrder, StrictlyInOrder
<1> QED  BY <1>1, <1>2, <1>3, PTL DEF Spec

\* With commands from the API only, every process that was registered when
\* shutdown took its snapshot is gone when PhaseStopped is published
\* (runner.go:404-430).
THEOREM RunnerSnapshotGone ==
  ~UI /\ Spec => [](phase = "stopped" => \A e \in snapshot : Gone(e.proc))
<1> DEFINE P == phase = "stopped" => \A e \in snapshot : Gone(e.proc)
<1> SUFFICES ASSUME ~UI PROVE Spec => []P
  OBVIOUS
<1>1. Init => ApiInv /\ ShutInv
  BY ApiInit, ShutInit
<1>2. (ApiInv /\ ShutInv) /\ [Next]_vars => (ApiInv /\ ShutInv)'
  BY ApiStep, ShutStep
<1>3. ApiInv /\ ShutInv => P
  <2> SUFFICES ASSUME ApiInv, ShutInv, phase = "stopped", NEW e \in snapshot PROVE Gone(e.proc)
    OBVIOUS
  <2>1. e.proc \in Procs
    BY DEF ApiInv, IInv, TypeOK, Entries
  <2>2. Gone(e.proc) \/ life[e.proc] = "lost"
    BY DEF ShutInv, EndReached, Progress, Settled, StoppingEntry
  <2> QED  BY <2>1, <2>2 DEF ApiInv, NoneLost
<1> QED  BY <1>1, <1>2, <1>3, PTL DEF Spec

-----------------------------------------------------------------------------
(* What is under way *)

\* A service is shown in transit only while somebody is at work on it who will
\* publish what becomes of it.  A start that is cancelled publishes nothing.
InHand(s) ==
  /\ status[s] = "restarting" =>
       \E t \in Tasks : svc[t] = s /\ op[t] = "restart" /\ pc[t] \in {"lookup", "detach", "reap", "launch"}
  /\ status[s] = "stopping" => svc[Main] = s /\ pc[Main] \in {"detach", "reap", "report"}
  /\ status[s] = "starting" =>
       \/ cancelled
       \/ pc[s] \in {"idle", "acquire"}
       \/ \E t \in Services \cup Tasks : svc[t] = s /\ pc[t] \in {"launch", "await", "abort", "backoff"}

InTransit == \A s \in Services : InHand(s)

\* A process that the registry tracks has an exit watcher that will remove it.
TrackedIsWatched == \A p \in Procs : life[p] = "tracked" => watcher[p] = "waiting"

TransitInv == IInv /\ InTransit /\ TrackedIsWatched

\* A goroutine that moves affects only the service it works on.
LEMMA MoveTransit ==
  ASSUME TypeOK, Control, InTransit, NEW t \in Threads, NEW l, pc' = [pc EXCEPT ![t] = l],
         svc' = svc, op' = op, cancelled => cancelled',
         \A u \in Services : u # svc[t] => status'[u] = status[u],
         svc[t] \in Services => InHand(svc[t])'
  PROVE  InTransit'
<1> SUFFICES ASSUME NEW s \in Services PROVE InHand(s)'
  BY DEF InTransit
<1>1. CASE s = svc[t]
  BY <1>1
<1>2. CASE s # svc[t]
  <2>1. /\ InHand(s) /\ status'[s] = status[s] /\ svc[s] = s /\ s # t
        /\ \A u \in Threads : u # t => pc'[u] = pc[u]
    BY <1>2, HandleTypes DEF InTransit, Control
  <2> QED  BY <1>2, <2>1, ThreadAssumption DEF InHand, Threads
<1> QED  BY <1>1, <1>2

\* A step that publishes nothing and moves no goroutine.
LEMMA StillTransit ==
  ASSUME InTransit, UNCHANGED <<pc, svc, op>>, cancelled => cancelled',
         \A s \in Services : status'[s] = status[s] \/ status'[s] \in {"running", "failed", "stopped"}
  PROVE  InTransit'
  BY DEF InTransit, InHand

\* What the operations of a goroutine for a service or a command publish.
LEMMA ServiceStepTransit ==
  ASSUME TypeOK, Control, InTransit, NEW t \in Services \cup Tasks, ServiceStep(t)
  PROVE  InTransit'
<1> USE DEF At, Goto
<1>p. /\ pc \in [Threads -> MainPCs \cup WorkPCs] /\ status \in [Services -> Statuses]
      /\ t \in Threads /\ t # Main
  BY ThreadAssumption DEF TypeOK, Threads
<1>s. /\ pc[t] # "idle" => svc[t] \in Services
      /\ t \in Services => svc[t] = t
  BY DEF Control, ServicePCs
<1>h. \A s \in Services : InHand(s)
  BY DEF InTransit
<1>1. CASE Acquire(t) \/ Release(t) \/ Backoff(t) \/ NotReady(t)
  <2>1. PICK l : /\ pc' = [pc EXCEPT ![t] = l] /\ UNCHANGED <<svc, op, status, cancelled>>
                 /\ pc[t] \in {"acquire", "release", "backoff", "await"}
                 /\ pc[t] # "release" => l \in {"launch", "lock", "abort"}
                 /\ l = "lock" => t \in Tasks /\ pc[t] = "acquire"
    BY <1>1, <1>p DEF Acquire, Release, Backoff, NotReady
  <2>a. \A u \in Threads : u # t => pc'[u] = pc[u]
    BY <2>1, <1>p
  <2>b. pc'[t] = l
    BY <2>1, <1>p
  <2>c. InHand(svc[t]) /\ svc[t] \in Services
    BY <2>1, <1>s, <1>h
  <2>2. InHand(svc[t])'
    <3>1. CASE pc[t] = "release"
      BY <3>1, <2>1, <2>a, <2>c, <1>p, <1>s DEF InHand, Threads
    <3>2. CASE l = "lock"
      BY <3>2, <2>1, <2>a, <2>c, <1>p, ThreadAssumption DEF InHand, Threads
    <3>3. CASE pc[t] # "release" /\ l # "lock"
      BY <3>3, <2>1, <2>a, <2>b, <2>c, <1>p DEF InHand, Threads
    <3> QED  BY <3>1, <3>2, <3>3
  <2> QED  BY <2>1, <2>2, <1>p, MoveTransit
<1>2. CASE AcquireCancelled(t) \/ BackoffCancelled(t)
  <2>1. PICK l : /\ pc' = [pc EXCEPT ![t] = l] /\ UNCHANGED <<svc, op, cancelled>> /\ cancelled
                 /\ pc[t] \in {"acquire", "backoff"}
                 /\ status' = status \/ status' = [status EXCEPT ![svc[t]] = "failed"]
    BY <1>2, <1>s DEF AcquireCancelled, BackoffCancelled, Publish
  <2>2. InHand(svc[t])'
    BY <2>1, <1>p, <1>s, <1>h DEF InHand, Threads
  <2>3. \A u \in Services : u # svc[t] => status'[u] = status[u]
    BY <2>1, <1>p
  <2> QED  BY <2>1, <2>2, <2>3, <1>p, MoveTransit
<1>3. CASE Launch(t)
  <2>1. /\ pc' = [pc EXCEPT ![t] = "await"] /\ UNCHANGED <<svc, op, cancelled>>
        /\ status' = [status EXCEPT ![svc[t]] = "starting"] /\ svc[t] \in Services
    BY <1>3, <1>s DEF Launch, Publish
  <2>2. InHand(svc[t])'
    BY <2>1, <1>p DEF InHand
  <2>3. \A u \in Services : u # svc[t] => status'[u] = status[u]
    BY <2>1, <1>p
  <2> QED  BY <2>1, <2>2, <2>3, <1>p, MoveTransit
<1>4. CASE Ready(t)
  <2>1. /\ pc' = [pc EXCEPT ![t] = "add"] /\ UNCHANGED <<svc, op, cancelled>>
        /\ status' = [status EXCEPT ![svc[t]] = "running"] /\ svc[t] \in Services
    BY <1>4, <1>s DEF Ready, Publish
  <2>2. InHand(svc[t])'
    BY <2>1, <1>p DEF InHand
  <2>3. \A u \in Services : u # svc[t] => status'[u] = status[u]
    BY <2>1, <1>p
  <2> QED  BY <2>1, <2>2, <2>3, <1>p, MoveTransit
<1>5. CASE LaunchFails(t) \/ Abort(t)
  <2>1. /\ UNCHANGED <<svc, op, cancelled>> /\ svc[t] \in Services /\ pc[t] \in {"launch", "abort"}
        /\ \/ pc' = [pc EXCEPT ![t] = "backoff"] /\ status' = status /\ op[t] # "restart"
           \/ pc' = [pc EXCEPT ![t] = Unwind(t)] /\ status' = [status EXCEPT ![svc[t]] = "failed"]
    BY <1>5, <1>s DEF LaunchFails, Abort, AttemptFailed, Publish
  <2>2. InHand(svc[t])'
    BY <2>1, <1>p, <1>s, <1>h DEF InHand, Threads
  <2>3. \A u \in Services : u # svc[t] => status'[u] = status[u]
    BY <2>1, <1>p
  <2> QED  BY <2>1, <2>2, <2>3, <1>p, MoveTransit
<1>6. CASE AddProcess(t)
  <2>1. PICK l : pc' = [pc EXCEPT ![t] = l] /\ UNCHANGED <<svc, op, status, cancelled>> /\ pc[t] = "add"
    BY <1>6 DEF AddProcess
  <2>2. InHand(svc[t])'
    BY <2>1, <1>p, <1>s, <1>h DEF InHand, Threads
  <2> QED  BY <2>1, <2>2, <1>p, MoveTransit
<1> QED  BY <1>1, <1>2, <1>3, <1>4, <1>5, <1>6 DEF ServiceStep

\* What a goroutine for a command does before it starts the service, and after.
LEMMA TaskStepTransit ==
  ASSUME TypeOK, Control, InTransit, NEW t \in Tasks, TaskStep(t) \/ StopStep(t)
  PROVE  InTransit'
<1> USE DEF At, Goto
<1>p. /\ pc \in [Threads -> MainPCs \cup WorkPCs] /\ status \in [Services -> Statuses]
      /\ t \in Threads /\ t # Main /\ t \notin Services
  BY ThreadAssumption DEF TypeOK, Threads
<1>s. pc[t] # "idle" => svc[t] \in Services
  BY DEF Control
<1>h. \A s \in Services : InHand(s)
  BY DEF InTransit
<1>1. CASE Lock(t)
  <2>1. /\ pc' = [pc EXCEPT ![t] = "lookup"] /\ UNCHANGED <<svc, op, cancelled>>
        /\ pc[t] = "lock" /\ svc[t] \in Services
        /\ \/ op[t] = "restart" /\ status' = [status EXCEPT ![svc[t]] = "restarting"]
           \/ status' = status
    BY <1>1, <1>s DEF Lock, Publish
  <2>2. InHand(svc[t])'
    BY <2>1, <1>p, <1>h DEF InHand, Threads
  <2>3. \A u \in Services : u # svc[t] => status'[u] = status[u]
    BY <2>1, <1>p
  <2> QED  BY <2>1, <2>2, <2>3, <1>p, MoveTransit
<1>2. CASE ~Lock(t)
  <2>1. PICK l : /\ pc' = [pc EXCEPT ![t] = l] /\ UNCHANGED <<svc, op, status, cancelled>>
                 /\ pc[t] \in {"lock", "unlock", "lookup", "detach", "reap"}
                 /\ op[t] = "restart" /\ pc[t] \in {"lookup", "detach", "reap"} =>
                      l \in {"detach", "reap", "launch"}
    BY <1>2, <1>p DEF TaskStep, StopStep, LockBusy, Unlock, RestartLookup, ResumeLookup,
       DetachAndTerminate, Reap
  <2>2. InHand(svc[t])'
    BY <2>1, <1>p, <1>s, <1>h DEF InHand, Threads
  <2> QED  BY <2>1, <2>2, <1>p, MoveTransit
<1> QED  BY <1>1, <1>2

\* What Main publishes while it stops a service.
LEMMA MainTransit ==
  ASSUME TypeOK, Control, InTransit, MainStep
  PROVE  InTransit'
<1> USE DEF At, Goto
<1>p. /\ pc \in [Threads -> MainPCs \cup WorkPCs] /\ status \in [Services -> Statuses]
      /\ svc \in [Threads -> Services \cup {None}]
      /\ op \in [Threads -> {"start", "resume", "restart", "stop", "shutdown", "none"}]
      /\ Main \in Threads /\ Main \notin Services \cup Tasks
  BY ThreadAssumption DEF TypeOK, Threads
<1>s. pc[Main] \in StopPCs => svc[Main] \in Services
  BY DEF Control
<1>h. \A s \in Services : InHand(s)
  BY DEF InTransit
<1>1. CASE StartupComplete \/ IgnoreWatch \/ (\E e \in undetached : DetachNext(e))
  BY <1>1, StillTransit DEF StartupComplete, IgnoreWatch, DetachNext
<1>2. CASE TakeSignal \/ SeeCancelled \/ TakeStopAll \/ Drain \/ TakeSnapshot \/ ShutdownDone
  <2>1. /\ (\E l : pc' = [pc EXCEPT ![Main] = l]) /\ UNCHANGED <<svc, status>> /\ (cancelled => cancelled')
        /\ pc[Main] \in {"select", "drain", "snapshot", "shutdown"}
        /\ \A t \in Services \cup Tasks : op'[t] = op[t]
    <3>1. CASE TakeSignal \/ SeeCancelled \/ TakeStopAll
      BY <3>1 DEF TakeSignal, SeeCancelled, TakeStopAll, BeginShutdown, Receives, Selecting
    <3>2. CASE Drain \/ ShutdownDone
      BY <3>2 DEF Drain, ShutdownDone
    <3>3. CASE TakeSnapshot
      BY <3>3, <1>p DEF TakeSnapshot, Threads
    <3> QED  BY <1>2, <3>1, <3>2, <3>3
  <2> QED  BY <2>1, <1>p, <1>h DEF InTransit, InHand, Threads
<1>3. CASE TakeStop \/ (\E e \in plan : StopNext(e))
  <2>1. /\ pc' = [pc EXCEPT ![Main] = "lookup"] /\ UNCHANGED <<status, cancelled>>
        /\ pc[Main] \in {"select", "shutdown"}
        /\ \A t \in Services \cup Tasks : op'[t] = op[t] /\ svc'[t] = svc[t]
    <3>1. CASE TakeStop
      BY <3>1, <1>p DEF TakeStop, Receives, Selecting
    <3>2. ASSUME NEW e \in plan, StopNext(e)
          PROVE  /\ pc' = [pc EXCEPT ![Main] = "lookup"] /\ UNCHANGED <<status, cancelled>>
                 /\ pc[Main] = "shutdown" /\ op' = op
                 /\ \A t \in Services \cup Tasks : svc'[t] = svc[t]
      BY <3>2, <1>p DEF StopNext
    <3> QED  BY <1>3, <3>1, <3>2
  <2> QED  BY <2>1, <1>p, <1>h DEF InTransit, InHand, Threads
<1>4. CASE TakeStart \/ TakeRestart \/ TakeWatch
  <2>1. PICK o \in {"resume", "restart"} :
          Spawn(o) /\ queue # <<>> /\ Head(queue).cmd # "stopall"
    BY <1>4 DEF TakeStart, TakeRestart, TakeWatch, Receives
  <2>2. PICK t \in Tasks : /\ pc[t] = "idle" /\ pc' = [pc EXCEPT ![t] = "acquire"]
                           /\ op' = [op EXCEPT ![t] = o]
                           /\ \E s \in Services : svc' = [svc EXCEPT ![t] = s]
    BY <2>1, SpawnStep
  <2>3. UNCHANGED <<status, cancelled>>
    BY <2>1 DEF Spawn
  <2> QED  BY <2>2, <2>3, <1>p, <1>h, ThreadAssumption DEF InTransit, InHand, Threads
<1>5. CASE AnnounceStopping
  <2>1. /\ pc' = [pc EXCEPT ![Main] = "detach"] /\ UNCHANGED <<svc, op, cancelled>>
        /\ status' = [status EXCEPT ![svc[Main]] = "stopping"]
    BY <1>5 DEF AnnounceStopping, Publish
  <2>2. svc[Main] \in Services => InHand(svc[Main])'
    BY <2>1, <1>p DEF InHand
  <2>3. \A u \in Services : u # svc[Main] => status'[u] = status[u]
    BY <2>1, <1>p
  <2> QED  BY <2>1, <2>2, <2>3, <1>p, MoveTransit
<1>6. CASE ReportStopped
  <2>1. /\ \E l : pc' = [pc EXCEPT ![Main] = l]
        /\ UNCHANGED <<svc, op, cancelled>>
        /\ status' = [status EXCEPT ![svc[Main]] = "stopped"]
    BY <1>6 DEF ReportStopped, StopReturns, Publish
  <2>2. svc[Main] \in Services => InHand(svc[Main])'
    BY <2>1, <1>p DEF InHand
  <2>3. \A u \in Services : u # svc[Main] => status'[u] = status[u]
    BY <2>1, <1>p
  <2> QED  BY <2>1, <2>2, <2>3, <1>p, MoveTransit
<1>7. CASE StopLookup \/ StopStep(Main)
  <2>1. PICK l : /\ pc' = [pc EXCEPT ![Main] = l] /\ UNCHANGED <<svc, op, status, cancelled>>
                 /\ pc[Main] \in {"lookup", "detach", "reap"}
                 /\ pc[Main] \in {"detach", "reap"} => l \in {"reap", "report"}
    BY <1>7 DEF StopLookup, StopReturns, StopStep, DetachAndTerminate, Reap
  <2>2. svc[Main] \in Services => InHand(svc[Main])'
    BY <2>1, <1>p, <1>h DEF InHand, Threads
  <2> QED  BY <2>1, <2>2, <1>p, MoveTransit
<1> QED  BY <1>1, <1>2, <1>3, <1>4, <1>5, <1>6, <1>7 DEF MainStep

\* Every step leaves what is shown in transit in somebody's hands.
LEMMA InTransitPreserved == ASSUME TypeOK, Control, Tiers, InTransit, Next PROVE InTransit'
<1> USE DEF At, Goto
<1>1. ASSUME NEW t \in Services \cup Tasks, ServiceStep(t) PROVE InTransit'
  BY <1>1, ServiceStepTransit
<1>2. ASSUME NEW t \in Tasks, TaskStep(t) \/ StopStep(t) PROVE InTransit'
  BY <1>2, TaskStepTransit
<1>3. CASE MainStep
  BY <1>3, MainTransit
<1>4. CASE StartTier
  <2>1. /\ \A t \in Threads : pc'[t] = pc[t] \/ (t \in Services /\ pc[t] = "idle" /\ pc'[t] = "acquire")
        /\ UNCHANGED <<svc, op, status, cancelled>>
    BY <1>4 DEF StartTier, InTier, Tiers
  <2> QED  BY <2>1, ThreadAssumption DEF InTransit, InHand, Threads
<1>5. CASE EndTier
  BY <1>5, StillTransit DEF EndTier
<1>6. ASSUME NEW p \in Procs, SeeExit(p) PROVE InTransit'
  BY <1>6, StillTransit DEF SeeExit
<1>7. ASSUME NEW p \in Procs, ReportExit(p) PROVE InTransit'
  <2>1. \A s \in Services : status'[s] = status[s] \/ status'[s] \in {"running", "failed", "stopped"}
    BY <1>7 DEF ReportExit, Publish, TypeOK
  <2> QED  BY <1>7, <2>1, StillTransit DEF ReportExit
<1>8. CASE Environment
  <2>1. status' = status /\ (cancelled => cancelled')
    <3>1. ASSUME NEW c, NEW s, Request(c, s) \/ FileChange(s) PROVE UNCHANGED <<status, cancelled>>
      BY <3>1 DEF Request, FileChange
    <3>2. CASE QuitKey \/ SendSignal \/ ParentCancel
      BY <3>2 DEF QuitKey, SendSignal, ParentCancel
    <3>3. ASSUME NEW p, Die(p) PROVE UNCHANGED <<status, cancelled>>
      BY <3>3 DEF Die
    <3> QED  BY <1>8, <3>1, <3>2, <3>3 DEF Environment
  <2> QED  BY <1>8, <2>1, EnvironmentFrame, StillTransit
<1>9. CASE Finished
  BY <1>9, StillTransit DEF Finished, vars
<1> QED  BY <1>1, <1>2, <1>3, <1>4, <1>5, <1>6, <1>7, <1>8, <1>9 DEF Next

\* A registration starts the exit watcher, and the watcher ends with a Remove
\* that finds the process.
LEMMA TrackedPreserved == ASSUME IInv, TrackedIsWatched, Next PROVE TrackedIsWatched'
<1>i. TypeOK /\ Control /\ Handles /\ RegistryInv /\ Reg!TypeOK
  BY DEF IInv, TypeOK
<1>p. /\ life \in [Procs -> Reg!Life] /\ watcher \in [Procs -> {"none", "waiting", "reporting", "done"}]
  BY <1>i, HandleTypes
<1>1. CASE UNCHANGED <<life, watcher>>
  BY <1>1 DEF TrackedIsWatched
<1>2. ASSUME NEW t \in Services \cup Tasks, AddProcess(t) PROVE TrackedIsWatched'
  <2>1. /\ watcher' = [watcher EXCEPT ![cur[t]] = "waiting"]
        /\ \A q \in Procs : life'[q] = "tracked" => q = cur[t] \/ life[q] = "tracked"
    BY <1>2, <1>p DEF AddProcess, Reg!Add
  <2> QED  BY <2>1, <1>p DEF TrackedIsWatched
<1>3. ASSUME NEW s \in Services, NEW q \in Procs, Reg!Remove(s, q), watcher' = watcher
      PROVE  TrackedIsWatched'
  BY <1>3, <1>i, <1>p, RemoveFacts DEF TrackedIsWatched
<1>4. ASSUME NEW t \in Tasks \cup {Main}, StopStep(t) PROVE TrackedIsWatched'
  <2>1. CASE DetachAndTerminate(t)
    BY <2>1, <1>1 DEF DetachAndTerminate, Reg!Detach
  <2>2. CASE Reap(t)
    <3>1. svc[t] \in Services /\ cur[t] \in Procs
      BY <2>2, <1>i DEF Reap, At, Control, StopPCs, Handles, OldHandles, HoldsOld
    <3> QED  BY <2>2, <3>1, <1>3 DEF Reap
  <2> QED  BY <1>4, <2>1, <2>2 DEF StopStep
<1>5. ASSUME NEW e \in undetached, DetachNext(e) PROVE TrackedIsWatched'
  BY <1>5, <1>1 DEF DetachNext, Reg!Detach
<1>6. ASSUME NEW p \in Procs, SeeExit(p) PROVE TrackedIsWatched'
  <2>1. /\ owner[p] \in Services /\ Reg!Remove(owner[p], p)
        /\ \A q \in Procs : q # p => watcher'[q] = watcher[q]
    BY <1>6, <1>i, <1>p DEF SeeExit, Handles, Watchers
  <2>2. life'[p] # "tracked"
    <3>1. CASE Reg!HeldFor(owner[p], p)
      BY <2>1, <3>1, <1>p DEF Reg!Remove, Reg!RemoveDetached, Reg!RemoveAttached, Reg!RemoveNothing
    <3>2. CASE ~Reg!HeldFor(owner[p], p)
      <4>1. \A s \in Services : ~Reg!HeldFor(s, p)
        BY <3>2, <1>i DEF Handles, Attached
      <4>2. life[p] # "tracked"
        BY <4>1, <1>i DEF RegistryInv, Reg!TrackedExactlyOnce
      <4> QED  BY <2>1, <3>2, <4>2, <1>i, RemoveFacts
    <3> QED  BY <3>1, <3>2
  <2>3. \A q \in Procs : q # p /\ life'[q] = "tracked" => life[q] = "tracked"
    BY <2>1, <1>i, <1>p, RemoveFacts
  <2> QED  BY <2>1, <2>2, <2>3 DEF TrackedIsWatched
<1>7. ASSUME NEW p \in Procs, ReportExit(p) PROVE TrackedIsWatched'
  BY <1>7, <1>p DEF ReportExit, TrackedIsWatched
<1>8. ASSUME NEW t \in Services \cup Tasks, Launch(t) \/ NotReady(t) PROVE TrackedIsWatched'
  BY <1>8, <1>1 DEF Launch, NotReady
<1>9. ASSUME (\E t \in Tasks : RestartLookup(t)) \/ StopLookup \/ (\E p \in Procs : Die(p))
      PROVE  TrackedIsWatched'
  BY <1>9, <1>1 DEF RestartLookup, StopLookup, Die
<1>10. CASE ~TouchesHandles
  BY <1>10, <1>i, <1>1, HandlesFrame DEF HandlesKept
<1> QED  BY <1>2, <1>4, <1>5, <1>6, <1>7, <1>8, <1>9, <1>10 DEF TouchesHandles

\* Nothing is under way at first but the startup.
LEMMA TransitInit == Init => TransitInv
<1> SUFFICES ASSUME Init PROVE TransitInv
  OBVIOUS
<1>1. InTransit
  BY ThreadAssumption DEF Init, InTransit, InHand, Threads
<1>2. TrackedIsWatched
  BY DEF Init, Reg!Init, TrackedIsWatched
<1> QED  BY <1>1, <1>2, InitEstablishes DEF TransitInv

\* Every step preserves the invariant.
LEMMA TransitStep == TransitInv /\ [Next]_vars => TransitInv'
<1> SUFFICES ASSUME TransitInv, [Next]_vars PROVE TransitInv'
  OBVIOUS
<1>i. IInv /\ InTransit /\ TrackedIsWatched
  BY DEF TransitInv
<1>1. IInv'
  BY <1>i, NextPreserves
<1>2. CASE Next
  BY <1>i, <1>1, <1>2, InTransitPreserved, TrackedPreserved DEF TransitInv, IInv
<1>3. CASE UNCHANGED vars
  <2>1. InTransit'
    BY <1>i, <1>3, StillTransit DEF vars
  <2>2. TrackedIsWatched'
    BY <1>i, <1>3 DEF vars, TrackedIsWatched
  <2> QED  BY <1>1, <2>1, <2>2 DEF TransitInv
<1> QED  BY <1>2, <1>3

\* The invariant holds in every reachable state.
THEOREM RunnerTransitInvariant == Spec => []TransitInv
<1> QED  BY TransitInit, TransitStep, PTL DEF Spec

\* A service that is shown as restarting or stopping has a goroutine that is
\* still to publish what comes of it, and so has one shown as starting until the
\* context is cancelled: no return path leaves the store and the UI waiting
\* (service.go:88-330, 440-470).
THEOREM RunnerInTransit == Spec => []InTransit
<1>1. TransitInv => InTransit
  BY DEF TransitInv
<1> QED  BY <1>1, RunnerTransitInvariant, PTL

\* Whatever the registry still counts for Wait has an exit watcher that waits for
\* the process: nothing keeps the WaitGroup up for ever (service.go:111, 440-449,
\* registry.go:154-169).
THEOREM RunnerTrackedIsWatched == Spec => []TrackedIsWatched
<1>1. TransitInv => TrackedIsWatched
  BY DEF TransitInv
<1> QED  BY <1>1, RunnerTransitInvariant, PTL

-----------------------------------------------------------------------------
(* The whole run of a profile: Cleanup, then the orchestrator *)

Stages == {"begin", "scan", "spawn", "wait", "over", "returned"}
Jobs == {"none", "announce", "term", "poll", "report", "release", "done", "ended"}

PreTypeOK ==
  /\ stage \in Stages
  /\ found \subseteq Strays \ {Self} /\ todo \subseteq found
  /\ job \in [Strays -> Jobs] /\ slots \in Nat
  /\ world \in [Strays -> {"alive", "termed", "killed", "gone"}]
  /\ results \subseteq Strays

\* The goroutines that hold a slot.
Holding == {p \in Strays : job[p] \in {"announce", "term", "poll", "report", "release"}}

SlotsHeld == IsFiniteSet(Holding) /\ slots = Cardinality(Holding)

\* How far Cleanup is, and which goroutines there are.
Cleaning ==
  /\ stage \in {"begin", "scan", "returned"} => found = {}
  /\ \A p \in Strays : job[p] # "none" <=> p \in found \ todo
  /\ stage \in {"wait", "over"} /\ todo # {} => cancelled
  /\ stage \in {"over", "returned"} => Pre!Working = {}
  /\ complete # None => stage = "over" /\ complete = Pre!Cardinality(results)

\* What a goroutine has done to its process, another user's excepted.
Killed ==
  /\ results = {p \in Strays : job[p] \in {"release", "done", "ended"}}
  /\ \A p \in Strays :
       /\ p \in Foreign => world[p] \in {"alive", "gone"}
       /\ job[p] \in {"report", "release", "done", "ended"} =>
            world[p] \in {"gone", "killed"} \/ (p \in Foreign /\ world[p] = "alive")

PreInv == PreTypeOK /\ SlotsHeld /\ Cleaning /\ Killed

-----------------------------------------------------------------------------
(* The slots *)

\* A step that moves no goroutine into or out of a slot.
LEMMA SameHolding ==
  ASSUME SlotsHeld, Holding' = Holding, slots' = slots PROVE SlotsHeld'
BY DEF SlotsHeld

LEMMA SpawnSlots ==
  ASSUME PreInv, NEW p \in Strays, Pre!Spawn(p) PROVE SlotsHeld'
<1>1. Holding' = Holding \cup {p} /\ p \notin Holding
  BY DEF Pre!Spawn, PreInv, PreTypeOK, Cleaning, Holding
<1>2. IsFiniteSet(Holding') /\ Cardinality(Holding') = Cardinality(Holding) + 1
  BY <1>1, FS_AddElement DEF PreInv, SlotsHeld
<1> QED  BY <1>2 DEF Pre!Spawn, PreInv, SlotsHeld

LEMMA ReleaseSlots ==
  ASSUME PreInv, NEW p \in Strays, Pre!Release(p) PROVE SlotsHeld' /\ slots' \in Nat
<1>1. Holding' = Holding \ {p} /\ p \in Holding
  BY DEF Pre!Release, Pre!Goto, PreInv, PreTypeOK, Holding
<1>2. IsFiniteSet(Holding') /\ Cardinality(Holding') = Cardinality(Holding) - 1
  BY <1>1, FS_RemoveElement DEF PreInv, SlotsHeld
<1>3. Cardinality(Holding') \in Nat
  BY <1>2, FS_CardinalityType
<1> QED  BY <1>2, <1>3 DEF Pre!Release, PreInv, SlotsHeld

-----------------------------------------------------------------------------
(* The steps of Cleanup *)

LEMMA CleanupPreserves ==
  ASSUME PreInv, Pre!CleanupStep, UNCHANGED cancelled PROVE PreInv'
<1> USE DEF PreInv, PreTypeOK, Stages, Jobs, Cleaning, Killed, Pre!Working
<1>1. CASE Pre!Begin
  <2>1. Holding' = Holding /\ slots' = slots
    BY <1>1 DEF Pre!Begin, Holding
  <2>2. PreTypeOK' /\ Cleaning' /\ Killed'
    BY <1>1 DEF Pre!Begin
  <2> QED  BY <2>1, <2>2, SameHolding
<1>2. CASE Pre!Scan
  <2>1. Holding' = Holding /\ slots' = slots
    BY <1>2 DEF Pre!Scan, Holding
  <2>2. PreTypeOK' /\ Cleaning' /\ Killed'
    BY <1>2 DEF Pre!Scan, Pre!Matches
  <2> QED  BY <2>1, <2>2, SameHolding
<1>3. CASE Pre!ScanFails
  <2>1. Holding' = Holding /\ slots' = slots
    BY <1>3 DEF Pre!ScanFails, Holding
  <2>2. PreTypeOK' /\ Cleaning' /\ Killed'
    BY <1>3 DEF Pre!ScanFails, Pre!Complete
  <2> QED  BY <2>1, <2>2, SameHolding
<1>4. CASE Pre!SpawnEnds
  <2>1. Holding' = Holding /\ slots' = slots
    BY <1>4 DEF Pre!SpawnEnds, Holding
  <2>2. PreTypeOK' /\ Cleaning' /\ Killed'
    BY <1>4 DEF Pre!SpawnEnds
  <2> QED  BY <2>1, <2>2, SameHolding
<1>5. CASE Pre!Wait
  <2>1. Holding' = Holding /\ slots' = slots
    BY <1>5 DEF Pre!Wait, Holding
  <2>2. PreTypeOK' /\ Cleaning' /\ Killed'
    BY <1>5 DEF Pre!Wait, Pre!Complete
  <2> QED  BY <2>1, <2>2, SameHolding
<1>6. CASE Pre!Return
  <2>1. Holding' = {} /\ Holding = {} /\ slots' = slots
    BY <1>6 DEF Pre!Return, Holding
  <2>2. PreTypeOK' /\ Cleaning' /\ Killed'
    BY <1>6 DEF Pre!Return
  <2> QED  BY <2>1, <2>2, SameHolding
<1>7. ASSUME NEW p \in Strays, Pre!Spawn(p) PROVE PreInv'
  <2>1. PreTypeOK' /\ Cleaning' /\ Killed'
    BY <1>7 DEF Pre!Spawn
  <2> QED  BY <1>7, <2>1, SpawnSlots
<1> QED  BY <1>1, <1>2, <1>3, <1>4, <1>5, <1>6, <1>7 DEF Pre!CleanupStep

-----------------------------------------------------------------------------
(* The steps of a goroutine that kills *)

\* A signal reaches neither another user's process nor one that is gone, and
\* brings none back that is killed.
LEMMA SignalledKeeps ==
  ASSUME PreTypeOK, NEW S \in SUBSET Strays, NEW sig \in {"termed", "killed"}
  PROVE  /\ Pre!Signalled(S, sig) \in [Strays -> {"alive", "termed", "killed", "gone"}]
         /\ \A q \in Strays :
              (q \in Foreign \/ world[q] \in {"killed", "gone"})
                => Pre!Signalled(S, sig)[q] = world[q]
BY DEF PreTypeOK, Pre!Signalled, Pre!Reached

\* The deadline leaves a process gone or killed, or it is another user's.
LEMMA KilledByExpire ==
  ASSUME PreTypeOK, NEW p \in Strays, NEW S \in SUBSET Strays, p \in S
  PROVE  p \in Foreign \/ Pre!Signalled(S, "killed")[p] \in {"gone", "killed"}
BY DEF PreTypeOK, Pre!Signalled, Pre!Reached

LEMMA KillPreserves ==
  ASSUME PreInv, NEW p \in Strays, Pre!KillStep(p), UNCHANGED cancelled PROVE PreInv'
<1> USE DEF PreInv, PreTypeOK, Stages, Jobs, Cleaning, Killed, Pre!Working, Pre!Goto
<1>w. stage \notin {"over", "returned"} /\ complete = None
  BY DEF Pre!KillStep, Pre!Announce, Pre!Term, Pre!TermRefused, Pre!SeeGone, Pre!Expire, Pre!Report,
         Pre!Release, Pre!Done
<1>1. CASE Pre!Announce(p)
  <2>1. Holding' = Holding /\ slots' = slots
    BY <1>1 DEF Pre!Announce, Holding
  <2>2. PreTypeOK' /\ Cleaning' /\ Killed'
    BY <1>1, <1>w DEF Pre!Announce
  <2> QED  BY <2>1, <2>2, SameHolding
<1>2. CASE Pre!Term(p)
  <2>1. Holding' = Holding /\ slots' = slots
    BY <1>2 DEF Pre!Term, Holding
  <2>2. world' \in [Strays -> {"alive", "termed", "killed", "gone"}]
       /\ \A q \in Strays :
            (q \in Foreign \/ world[q] \in {"killed", "gone"}) => world'[q] = world[q]
    <3>1. PICK S \in SUBSET Strays : world' = Pre!Signalled(S, "termed")
      BY <1>2 DEF Pre!Term, Pre!Members
    <3> QED  BY <3>1, SignalledKeeps
  <2>3. PreTypeOK'
    BY <1>2, <2>2 DEF Pre!Term
  <2>4. Cleaning'
    BY <1>2, <1>w DEF Pre!Term
  <2>5. Killed'
    BY <1>2, <2>2 DEF Pre!Term
  <2> QED  BY <2>1, <2>3, <2>4, <2>5, SameHolding
<1>3. CASE Pre!TermRefused(p)
  <2>1. Holding' = Holding /\ slots' = slots
    BY <1>3 DEF Pre!TermRefused, Holding
  <2>2. PreTypeOK' /\ Cleaning' /\ Killed'
    BY <1>3, <1>w DEF Pre!TermRefused
  <2> QED  BY <2>1, <2>2, SameHolding
<1>4. CASE Pre!SeeGone(p)
  <2>1. Holding' = Holding /\ slots' = slots
    BY <1>4 DEF Pre!SeeGone, Holding
  <2>2. PreTypeOK' /\ Cleaning' /\ Killed'
    BY <1>4, <1>w DEF Pre!SeeGone
  <2> QED  BY <2>1, <2>2, SameHolding
<1>5. CASE Pre!Expire(p)
  <2>1. Holding' = Holding /\ slots' = slots
    BY <1>5 DEF Pre!Expire, Holding
  <2> DEFINE S == Pre!Members(p) \cup {p}
  <2>s. S \in SUBSET Strays /\ p \in S
    BY DEF Pre!Members
  <2>w. world' = Pre!Signalled(S, "killed")
    BY <1>5 DEF Pre!Expire
  <2> HIDE DEF S
  <2>2. world' \in [Strays -> {"alive", "termed", "killed", "gone"}]
       /\ \A q \in Strays :
            (q \in Foreign \/ world[q] \in {"killed", "gone"}) => world'[q] = world[q]
    BY <2>s, <2>w, SignalledKeeps
  <2>3. p \in Foreign \/ world'[p] \in {"gone", "killed"}
    BY <2>s, <2>w, KilledByExpire
  <2>4. PreTypeOK'
    BY <1>5, <2>2 DEF Pre!Expire
  <2>5. Cleaning'
    BY <1>5, <1>w DEF Pre!Expire
  <2>6. Killed'
    BY <1>5, <2>2, <2>3 DEF Pre!Expire
  <2> QED  BY <2>1, <2>4, <2>5, <2>6, SameHolding
<1>6. CASE Pre!Report(p)
  <2>1. Holding' = Holding /\ slots' = slots
    BY <1>6 DEF Pre!Report, Holding
  <2>2. PreTypeOK' /\ Cleaning' /\ Killed'
    BY <1>6, <1>w DEF Pre!Report
  <2> QED  BY <2>1, <2>2, SameHolding
<1>7. CASE Pre!Release(p)
  <2>1. SlotsHeld' /\ slots' \in Nat
    BY <1>7, ReleaseSlots
  <2>2. PreTypeOK' /\ Cleaning' /\ Killed'
    BY <1>7, <1>w, <2>1 DEF Pre!Release
  <2> QED  BY <2>1, <2>2
<1>8. CASE Pre!Done(p)
  <2>1. Holding' = Holding /\ slots' = slots
    BY <1>8 DEF Pre!Done, Holding
  <2>2. PreTypeOK' /\ Cleaning' /\ Killed'
    BY <1>8, <1>w DEF Pre!Done
  <2> QED  BY <2>1, <2>2, SameHolding
<1> QED  BY <1>1, <1>2, <1>3, <1>4, <1>5, <1>6, <1>7, <1>8 DEF Pre!KillStep

\* A process that ends spoils nothing that was done to it.
LEMMA ExitPreserves ==
  ASSUME PreInv, NEW p \in Strays, Pre!Exit(p), UNCHANGED cancelled PROVE PreInv'
<1>1. Holding' = Holding /\ slots' = slots
  BY DEF Pre!Exit, Holding
<1>2. PreTypeOK' /\ Cleaning' /\ Killed'
  BY DEF Pre!Exit, PreInv, PreTypeOK, Stages, Jobs, Cleaning, Killed, Pre!Working
<1> QED  BY <1>1, <1>2, SameHolding DEF PreInv

-----------------------------------------------------------------------------
(* The run *)

LEMMA PreInit == RunInit => PreInv
<1> SUFFICES ASSUME RunInit PROVE PreInv
  OBVIOUS
<1> USE DEF RunInit, Pre!Init
<1>1. PreTypeOK /\ Cleaning /\ Killed
  BY DEF PreTypeOK, Stages, Jobs, Cleaning, Killed, Pre!Working
<1>2. Holding = {}
  BY DEF Holding
<1>3. SlotsHeld
  BY <1>2, FS_EmptySet DEF SlotsHeld
<1> QED  BY <1>1, <1>3 DEF PreInv

\* The context stays cancelled.
LEMMA CancelledStays == Next /\ cancelled => cancelled'
<1> SUFFICES ASSUME Next, cancelled PROVE cancelled'
  OBVIOUS
<1> USE DEF mainVars, Goto
<1>1. ASSUME BeginShutdown PROVE cancelled'
  BY <1>1 DEF BeginShutdown
<1>2. CASE MainStep
  <2>1. CASE TakeSignal \/ SeeCancelled \/ TakeStopAll
    BY <2>1, <1>1 DEF TakeSignal, SeeCancelled, TakeStopAll
  <2>2. ASSUME NEW o, Spawn(o) PROVE cancelled'
    BY <2>2 DEF Spawn
  <2>3. CASE TakeStart \/ TakeRestart \/ TakeWatch
    BY <2>2, <2>3 DEF TakeStart, TakeRestart, TakeWatch
  <2>4. CASE StartupComplete \/ TakeStop \/ IgnoreWatch \/ ShutdownDone
    BY <2>4 DEF StartupComplete, TakeStop, IgnoreWatch, ShutdownDone
  <2>5. CASE StopLookup \/ AnnounceStopping \/ ReportStopped \/ Drain \/ TakeSnapshot \/ StopStep(Main)
    BY <2>5 DEF StopLookup, AnnounceStopping, ReportStopped, Drain, TakeSnapshot, StopStep,
                DetachAndTerminate, Reap
  <2>6. ASSUME NEW e, DetachNext(e) \/ StopNext(e) PROVE cancelled'
    BY <2>6 DEF DetachNext, StopNext
  <2> QED  BY <1>2, <2>1, <2>3, <2>4, <2>5, <2>6 DEF MainStep
<1>3. ASSUME NEW t, ServiceStep(t) PROVE cancelled'
  BY <1>3 DEF ServiceStep, Acquire, AcquireCancelled, Release, Launch, LaunchFails, Ready, NotReady,
              Abort, Backoff, BackoffCancelled, AddProcess
<1>4. ASSUME NEW t, TaskStep(t) \/ StopStep(t) PROVE cancelled'
  BY <1>4 DEF TaskStep, Lock, LockBusy, Unlock, RestartLookup, ResumeLookup, StopStep,
              DetachAndTerminate, Reap
<1>5. CASE StartTier \/ EndTier
  BY <1>5 DEF StartTier, EndTier
<1>6. ASSUME NEW p, SeeExit(p) \/ ReportExit(p) PROVE cancelled'
  BY <1>6 DEF SeeExit, ReportExit
<1>7. CASE Environment
  BY <1>7 DEF Environment, Request, FileChange, QuitKey, SendSignal, ParentCancel, Die
<1>8. CASE Finished
  BY <1>8 DEF Finished, vars
<1> QED  BY <1>2, <1>3, <1>4, <1>5, <1>6, <1>7, <1>8 DEF Next

\* The orchestrator's steps leave the cleanup alone but may cancel the context.
LEMMA PreNext == PreInv /\ [RunNext]_runVars => PreInv'
<1> SUFFICES ASSUME PreInv, [RunNext]_runVars PROVE PreInv'
  OBVIOUS
<1>1. CASE CleanUp
  <2>1. UNCHANGED cancelled
    BY <1>1 DEF CleanUp, vars, mainVars
  <2>2. CASE Pre!CleanupStep
    BY <2>1, <2>2, CleanupPreserves
  <2>3. ASSUME NEW p \in Strays, Pre!KillStep(p) PROVE PreInv'
    BY <2>1, <2>3, KillPreserves
  <2>4. ASSUME NEW p \in Strays, Pre!Exit(p) PROVE PreInv'
    BY <2>1, <2>4, ExitPreserves
  <2> QED  BY <1>1, <2>2, <2>3, <2>4 DEF CleanUp, Pre!Next
<1>2. CASE UNCHANGED preVars
  <2>1. Holding' = Holding /\ slots' = slots
    BY <1>2 DEF preVars, Holding
  <2>2. cancelled => cancelled'
    BY <1>2, CancelledStays DEF RunNext, CleanUp, CancelledEarly, Orchestrate, KilledItself, runVars, vars,
                                mainVars, ParentCancel
  <2>3. PreTypeOK' /\ Cleaning' /\ Killed'
    BY <1>2, <2>2 DEF preVars, PreInv, PreTypeOK, Stages, Jobs, Cleaning, Killed, Pre!Working
  <2> QED  BY <2>1, <2>3, SameHolding DEF PreInv
<1> QED  BY <1>1, <1>2 DEF RunNext, CancelledEarly, Orchestrate, KilledItself, runVars

\* When the cleanup is over, it has left nothing behind and has killed, or could
\* not kill, what it found.
LEMMA PreSafe == PreInv => CleanedUp
<1> SUFFICES ASSUME PreInv PROVE CleanedUp
  OBVIOUS
<1> USE DEF PreInv, PreTypeOK, Jobs, Cleaning, Killed, Pre!Working
<1>1. ASSUME stage = "over"
      PROVE  /\ Pre!Working = {} /\ slots = 0
             /\ complete # None => complete = Pre!Cardinality(found \ todo)
             /\ todo # {} => cancelled
             /\ \A p \in found \ todo :
                  world[p] \in {"gone", "killed"} \/ (p \in Foreign /\ world[p] = "alive")
  <2>1. Holding = {}
    BY <1>1 DEF Holding
  <2>2. slots = 0
    BY <2>1, FS_EmptySet DEF SlotsHeld
  <2>3. \A p \in Strays : p \in found \ todo => job[p] = "ended"
    BY <1>1
  <2>4. results = found \ todo
    BY <1>1, <2>3
  <2> QED  BY <1>1, <2>2, <2>3, <2>4
<1> QED  BY <1>1 DEF CleanedUp, Pre!CleanedUp

-----------------------------------------------------------------------------
(* The theorems *)

\* When Cleanup is over, no goroutine of it is left, every slot of the pool is
\* free, and what it found is gone, killed, given up when the context was
\* cancelled, or another user's (preflight.go:68-188).
THEOREM ProfileRunCleanedUp == RunSpec => []CleanedUp
BY PreInit, PreNext, PreSafe, PTL DEF RunSpec

LEMMA RunInitRefines == RunInit => Init
BY DEF RunInit

LEMMA RunStepRefines == [RunNext]_runVars => [Next]_vars
BY DEF RunNext, CleanUp, CancelledEarly, Orchestrate, KilledItself, Next, Environment, runVars

\* The cleanup adds no behaviour to the orchestrator: whatever OrchestratorProofs
\* has of Spec holds of the whole run (runner.go:73-173).
THEOREM ProfileRunOrchestrated == RunSpec => RunIsOrchestrated
BY RunInitRefines, RunStepRefines, PTL DEF RunSpec, RunIsOrchestrated, Spec

=============================================================================
