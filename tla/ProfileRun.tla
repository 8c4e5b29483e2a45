----------------------------- MODULE ProfileRun -----------------------------
(***************************************************************************)
(* The whole of runner.Run for a resolved profile (runner.go): the cleanup *)
(* of module Preflight, after which Run subscribes to the bus and does     *)
(* what module Orchestrator has.  Until then nobody receives commands or   *)
(* signals; the context may be cancelled at any time, by a SIGTERM that    *)
(* Cleanup sent to fuku itself as by anything else.  A SIGKILL that it     *)
(* sent to fuku ends the run.                                              *)
(***************************************************************************)
EXTENDS Orchestrator

CONSTANTS Strays, Self, Foreign, Matching, Leader   \* as in Preflight

VARIABLES stage, found, todo, job, slots, world, results, complete

Pre == INSTANCE Preflight

preVars == <<stage, found, todo, job, slots, world, results, complete>>
runVars == <<vars, preVars>>

RunInit == Init /\ Pre!Init

CleanUp == Pre!Next /\ UNCHANGED vars

CancelledEarly == ~Pre!Returned /\ Pre!Running /\ ParentCancel /\ UNCHANGED preVars

Orchestrate == Pre!Returned /\ Next /\ UNCHANGED preVars

\* Nothing more happens in a program that has killed itself
KilledItself == ~Pre!Running /\ UNCHANGED runVars

RunNext == CleanUp \/ CancelledEarly \/ Orchestrate \/ KilledItself

RunSpec == RunInit /\ [][RunNext]_runVars

\* As in Orchestrator; goroutines of Cleanup that can run do, and a kill has its
\* deadline, whatever the process does.
RunFairness ==
  /\ WF_runVars(Pre!CleanupStep /\ UNCHANGED vars)
  /\ \A p \in Strays : WF_runVars(Pre!KillStep(p) /\ UNCHANGED vars)
  /\ WF_runVars(Pre!Returned /\ MainStep /\ UNCHANGED preVars)
  /\ WF_runVars(Pre!Returned /\ (StartTier \/ EndTier) /\ UNCHANGED preVars)
  /\ \A t \in Services \cup Tasks : WF_runVars(Pre!Returned /\ ServiceStep(t) /\ UNCHANGED preVars)
  /\ \A t \in Tasks : WF_runVars(Pre!Returned /\ (TaskStep(t) \/ StopStep(t)) /\ UNCHANGED preVars)
  /\ \A p \in Procs : WF_runVars(Pre!Returned /\ (SeeExit(p) \/ ReportExit(p)) /\ UNCHANGED preVars)
  /\ \A p \in Procs : WF_runVars(Pre!Returned /\ proc[p] = "signalled" /\ Die(p) /\ UNCHANGED preVars)

FairRunSpec == RunSpec /\ RunFairness

-----------------------------------------------------------------------------
(* Properties *)

\* Cleanup keeps its promise whenever it is cancelled and whatever the
\* processes do (preflight.go:68-188).
CleanedUp == Pre!CleanedUp

\* preflight_test.go:98, "Skips own PID": fuku signals others only.
OwnProcessSpared == Pre!OwnProcessSpared

\* Once the context is cancelled, Run publishes PhaseStopped and returns: no
\* goroutine, process or lock keeps shutdown waiting for ever.  A run that has
\* killed itself is the exception.
ShutdownCompletes == cancelled ~> phase = "stopped" \/ ~Pre!Running

\* What follows the cleanup is a behaviour of the orchestrator, so that all that
\* is checked and proved of it holds of the whole run (runner.go:122-173).
RunIsOrchestrated == Spec

=============================================================================
