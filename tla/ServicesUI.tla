------------------------------ MODULE ServicesUI ------------------------------
(***************************************************************************)
(* The program around the services panel: the Bubble Tea loop of           *)
(* internal/app/ui/services/update.go, the runner's phases                 *)
(* (internal/app/runner/runner.go, Run) and what runWithUI                 *)
(* (internal/app/cli/tui.go) makes of their ends.  The panel hears of the  *)
(* runner through the bus only, and the runner of the panel; the panel is  *)
(* subscribed before the runner starts, the runner after its preflight.    *)
(* Module ServicesState has what the panel shows of the services.          *)
(*                                                                         *)
(* A message is its kind; "closed" stands for channelClosedMsg.            *)
(***************************************************************************)
EXTENDS Selection, Integers

CONSTANTS ServiceOrder   \* the profile's services in order

ASSUME OrderAssumption == ServiceOrder \in Seq(Services)

VARIABLES
  stage,         \* how far runner.Run is
  told,          \* it has received what ends it
  cancelled,     \* the context of the runner and of the panel's subscription
  uiQ,           \* the messages on their way to the panel
  program,       \* the Bubble Tea program: "up" or "quit"
  waiting,       \* commands that wait for a message
  hands,         \* messages received and not handled yet
  tierReady,     \* state.tiers[i].Ready, of one tier
  shuttingDown,  \* state.shuttingDown
  loader         \* the loader's items that are no service

runnerVars == <<stage, told, cancelled, uiQ>>
programVars == <<program, waiting, hands>>
stateVars == <<tierReady, shuttingDown, loader>>
vars == <<runnerVars, programVars, stateVars, selectionVars>>

Init ==
  /\ SelectionInit
  /\ stage = "begin" /\ told = FALSE /\ cancelled = FALSE /\ uiQ = <<>>
  /\ program = "up" /\ waiting = 1 /\ hands = {}
  /\ tierReady = FALSE /\ shuttingDown = FALSE /\ loader = {}

-----------------------------------------------------------------------------
(* The runner *)

\* A critical message, for as long as the panel is subscribed; nobody receives
\* it when the program has ended
Publish(k) == uiQ' = IF cancelled \/ program = "quit" THEN uiQ ELSE Append(uiQ, k)

\* Run publishes k between two stages
Announce(from, k, to) ==
  /\ stage = from /\ stage' = to
  /\ Publish(k)
  /\ UNCHANGED <<told, cancelled, programVars, stateVars, selectionVars>>

\* Resolve failed: Run returns and publishes nothing
ResolveFails ==
  /\ stage = "resolve" /\ stage' = "failed"
  /\ UNCHANGED <<told, cancelled, uiQ, programVars, stateVars, selectionVars>>

\* The runner's channel: a command published before or after goes nowhere
Subscribed == stage \in {"startup", "tier", "tier ready", "running"}

RunnerStarts ==
  \/ Announce("begin", "phaseStartup", "resolve")
  \/ Announce("resolve", "profile", "resolved")
  \/ ResolveFails
  \/ Announce("resolved", "preflightStarted", "preflight")
  \/ Announce("preflight", "preflightKill", "preflight kills")
  \/ \E from \in {"preflight", "preflight kills"} : Announce(from, "preflightComplete", "startup")
  \/ Announce("startup", "tierStarting", "tier")
  \/ Announce("tier", "tierReady", "tier ready")
  \/ \E from \in {"tier", "tier ready"} : Announce(from, "phaseRunning", "running")

\* The startup or the service phase returns; shutdown; the last phase
RunnerStops ==
  /\ told
  /\ \/ Announce("running", "phaseStopping", "stopping")
     \/ \E from \in {"startup", "tier", "tier ready", "stopping"} : Announce(from, "phaseStopped", "stopped")

Signal ==
  /\ Subscribed /\ ~told
  /\ told' = TRUE
  /\ Publish("signal")
  /\ UNCHANGED <<stage, cancelled, programVars, stateVars, selectionVars>>

\* The root context ends, or runWithUI cancels after the program
Cancel ==
  /\ ~cancelled
  /\ cancelled' = TRUE /\ told' = TRUE
  /\ UNCHANGED <<stage, uiQ, programVars, stateVars, selectionVars>>

-----------------------------------------------------------------------------
(* The program: commands wait for messages, Update handles one at a time *)

\* waitForMsgCmd; the channel is closed once the subscription has ended
Receive ==
  /\ program = "up" /\ waiting > 0
  /\ waiting' = waiting - 1
  /\ \/ uiQ # <<>> /\ hands' = hands \cup {Head(uiQ)} /\ uiQ' = Tail(uiQ)
     \/ uiQ = <<>> /\ cancelled /\ hands' = hands \cup {"closed"} /\ UNCHANGED uiQ
  /\ UNCHANGED <<stage, told, cancelled, program, stateVars, selectionVars>>

\* loader.StopAll and tea.Quit; what the commands still wait for is lost
QuitProgram ==
  /\ program' = "quit" /\ loader' = {}
  /\ uiQ' = <<>> /\ hands' = {} /\ waiting' = 0
  /\ UNCHANGED <<stage, told, cancelled, tierReady, shuttingDown, selectionVars>>

\* handleProfileResolved: the key that quits may be pressed before
HandleProfileResolved ==
  /\ ResetSelection(ServiceOrder)
  /\ tierReady' = FALSE /\ loader' = {}
  /\ UNCHANGED shuttingDown

\* handleTierStarting and handleTierReady
TierReadyAfter(k) ==
  CASE k = "tierStarting" -> FALSE
    [] k = "tierReady" -> serviceIDs # <<>>
    [] OTHER -> tierReady

\* The handlers for preflight and signals
LoaderAfter(k) ==
  CASE k \in {"preflightStarted", "preflightKill"} -> loader \cup {"preflight"}
    [] k = "preflightComplete" -> loader \ {"preflight"}
    [] k = "signal" -> loader \cup {"shutdown"}
    [] OTHER -> loader

\* A phase but the last changes nothing here
HandleNotice(k) ==
  /\ tierReady' = TierReadyAfter(k)
  /\ loader' = LoaderAfter(k)
  /\ shuttingDown' = (shuttingDown \/ k = "signal")
  /\ UNCHANGED selectionVars

Last == {"phaseStopped", "closed"}   \* what ends the program

\* Faulty: handlePhaseChanged returns no command
WaitsUnlessPhase(k) == k \notin {"phaseStartup", "phaseRunning", "phaseStopping"} \cup Last

\* Every handler but the last ends in waitForMsgCmd
Waits(k) == k \notin Last

HandleMessage(k) ==
  /\ k \in hands /\ program = "up"
  /\ IF k \in Last THEN QuitProgram
     ELSE /\ IF k = "profile" THEN HandleProfileResolved ELSE HandleNotice(k)
          /\ hands' = hands \ {k}
          /\ waiting' = IF Waits(k) THEN waiting + 1 ELSE waiting
          /\ UNCHANGED <<runnerVars, program>>

-----------------------------------------------------------------------------
(* Keys *)

Listening == program = "up" /\ ~shuttingDown

\* controller.StopAll, and one more command that waits for messages
QuitKey ==
  /\ Listening /\ ~filterActive
  /\ shuttingDown' = TRUE /\ loader' = loader \cup {"shutdown"}
  /\ told' = (told \/ Subscribed)
  /\ waiting' = waiting + 1
  /\ UNCHANGED <<stage, cancelled, uiQ, program, hands, tierReady, selectionVars>>

ForceQuit ==
  /\ program = "up"
  /\ QuitProgram

Select ==
  /\ Listening
  /\ SelectionKey
  /\ UNCHANGED <<runnerVars, programVars, stateVars>>

-----------------------------------------------------------------------------

RunnerStep == RunnerStarts \/ RunnerStops

Update == \E k \in hands : HandleMessage(k)

Next ==
  \/ RunnerStep \/ Signal \/ Cancel
  \/ Receive \/ Update
  \/ QuitKey \/ ForceQuit \/ Select

Spec == Init /\ [][Next]_vars

\* Goroutines that can run do, and runWithUI cancels once the program has ended.
\* The runner goes through its phases: module Orchestrator shows that the startup
\* and a shutdown come to an end.  Nobody has to press a key.
FairSpec ==
  Spec /\ WF_vars(RunnerStep) /\ WF_vars(Receive) /\ WF_vars(Update)
       /\ WF_vars(program = "quit" /\ Cancel)

-----------------------------------------------------------------------------
(* Properties *)

\* Once the runner has been told to stop, by whatever way, both end: the program
\* because no handler breaks the chain of commands that wait for messages, the
\* runner because runWithUI cancels it when the program quits
\* (update.go:444, 504-518; tui.go:128-139).
BothEnd == (told \/ cancelled) ~> (program = "quit" /\ stage \in {"stopped", "failed"})

\* q quits and stops all services (README.md:95).
QuitEnds == shuttingDown ~> program = "quit"

=============================================================================
