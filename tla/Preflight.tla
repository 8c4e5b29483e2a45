------------------------------ MODULE Preflight ------------------------------
(***************************************************************************)
(* The cleanup before a profile starts (internal/app/preflight/            *)
(* preflight.go; fuku stop does the same): processes that run in the       *)
(* directory of one of the services are killed, concurrently, each by a    *)
(* goroutine with a slot of the worker pool.  slots are those slots: the   *)
(* pool is unused by others until Cleanup returns.                         *)
(*                                                                         *)
(* A stray may exit at any time, ignore SIGTERM, or belong to another user *)
(* (Foreign).  Signals are sent to the process group first, and a group    *)
(* may hold processes that were not found, fuku among them: SIGTERM is for *)
(* fuku a cancelled context (the fx hook of internal/app/app.go:90-94),    *)
(* SIGKILL its end.                                                        *)
(***************************************************************************)
EXTENDS Naturals, FiniteSets

CONSTANTS Strays,     \* the processes of the machine
          Self,       \* the one that is fuku
          Foreign,    \* those that fuku may not signal
          Matching,   \* [Strays -> the services in whose directory it runs]
          Leader,     \* [Strays -> the process whose pid its group has, or None]
          Workers,    \* concurrency.workers
          None        \* nothing announced; a group led by none of them

VARIABLES
  cancelled,  \* the context of Run
  stage,      \* of Cleanup: "begin", "scan", "spawn", "wait", "over", "returned"
  found,      \* matches
  todo,       \* those whose goroutine is not spawned
  job,        \* per stray, the goroutine that kills it
  slots,      \* worker slots in use
  world,      \* per stray: "alive", "termed", "killed" or "gone"
  results,    \* the strays reported as killed
  complete    \* PreflightComplete.Killed, None until published

preVars == <<stage, found, todo, job, slots, world, results, complete>>

Init ==
  /\ stage = "begin" /\ found = {} /\ todo = {}
  /\ job = [p \in Strays |-> "none"] /\ slots = 0
  /\ world = [p \in Strays |-> "alive"]
  /\ results = {} /\ complete = None

-----------------------------------------------------------------------------
(* Cleanup and killMatches *)

\* PreflightStarted is published; without directories there is nothing to do
Begin ==
  /\ stage = "begin" /\ stage' \in {"scan", "over"}
  /\ UNCHANGED <<found, todo, job, slots, world, results, complete>>

Complete ==
  /\ stage' = "over" /\ complete' = Cardinality(results)

ScanFails ==
  /\ stage = "scan"
  /\ Complete
  /\ UNCHANGED <<found, todo, job, slots, world, results>>

\* matchProcesses
Matches == {p \in Strays \ {Self} : world[p] # "gone" /\ Matching[p] # {}}

Scan ==
  /\ stage = "scan" /\ stage' = "spawn"
  /\ found' = Matches /\ todo' = Matches
  /\ UNCHANGED <<job, slots, world, results, complete>>

Spawn(p) ==
  /\ stage = "spawn" /\ p \in todo
  /\ slots < Workers /\ slots' = slots + 1
  /\ todo' = todo \ {p}
  /\ job' = [job EXCEPT ![p] = "announce"]
  /\ UNCHANGED <<stage, found, world, results, complete>>

\* Faulty: the loop is left by return instead of break
SpawnEndsAtOnce ==
  /\ stage = "spawn" /\ (todo = {} \/ cancelled)
  /\ IF todo = {} THEN stage' = "wait" /\ UNCHANGED complete ELSE Complete
  /\ UNCHANGED <<found, todo, job, slots, world, results>>

-----------------------------------------------------------------------------

\* The loop is over, or Acquire saw the cancelled context
SpawnEnds ==
  /\ stage = "spawn" /\ (todo = {} \/ cancelled)
  /\ stage' = "wait"
  /\ UNCHANGED <<found, todo, job, slots, world, results, complete>>

Working == {p \in Strays : job[p] \notin {"none", "ended"}}

\* wg.Wait, and PreflightComplete
Wait ==
  /\ stage = "wait" /\ Working = {}
  /\ Complete
  /\ UNCHANGED <<found, todo, job, slots, world, results>>

-----------------------------------------------------------------------------
(* The goroutine for p, and kill *)

Goto(p, from, to) == job[p] = from /\ job' = [job EXCEPT ![p] = to]

\* PreflightKill is published
Announce(p) ==
  /\ Goto(p, "announce", "term")
  /\ UNCHANGED <<stage, found, todo, slots, world, results, complete>>

\* The process group of p's pid, whoever found its members
Members(p) == {q \in Strays : Leader[q] = p}

\* Those of S that a signal reaches
Reached(S) == {q \in S \ Foreign : world[q] # "gone"}

\* The processes after such a signal: one that is killed stays killed
Signalled(S, sig) ==
  [q \in Strays |-> IF q \in Reached(S) /\ world[q] # "killed" THEN sig ELSE world[q]]

\* sendTERM: if the group has nobody to signal, the process alone, and one that
\* is gone is as good as signalled
Term(p) ==
  /\ Goto(p, "term", "poll")
  /\ \/ /\ Reached(Members(p)) # {}
        /\ world' = Signalled(Members(p), "termed")
     \/ /\ Reached(Members(p)) = {}
        /\ p \notin Foreign \/ world[p] = "gone"
        /\ world' = Signalled({p}, "termed")
  /\ UNCHANGED <<stage, found, todo, slots, results, complete>>

TermRefused(p) ==
  /\ Reached(Members(p)) = {} /\ p \in Foreign /\ world[p] # "gone"
  /\ Goto(p, "term", "report")
  /\ UNCHANGED <<stage, found, todo, slots, world, results, complete>>

\* A tick may not signal the process any more, for it is gone or another user's
SeeGone(p) ==
  /\ world[p] = "gone" \/ p \in Foreign
  /\ Goto(p, "poll", "report")
  /\ UNCHANGED <<stage, found, todo, slots, world, results, complete>>

\* The deadline: SIGKILL to the group and to the process, whose effect is not
\* waited for
Expire(p) ==
  /\ Goto(p, "poll", "report")
  /\ world' = Signalled(Members(p) \cup {p}, "killed")
  /\ UNCHANGED <<stage, found, todo, slots, results, complete>>

Report(p) ==
  /\ Goto(p, "report", "release")
  /\ results' = results \cup {p}
  /\ UNCHANGED <<stage, found, todo, slots, world, complete>>

\* The deferred worker.Release and wg.Done
Release(p) ==
  /\ Goto(p, "release", "done")
  /\ slots' = slots - 1
  /\ UNCHANGED <<stage, found, todo, world, results, complete>>

Done(p) ==
  /\ Goto(p, "done", "ended")
  /\ UNCHANGED <<stage, found, todo, slots, world, results, complete>>

-----------------------------------------------------------------------------

\* A process ends, by itself or because of a signal
Exit(p) ==
  /\ p # Self
  /\ world[p] # "gone" /\ stage \notin {"over", "returned"}
  /\ world' = [world EXCEPT ![p] = "gone"]
  /\ UNCHANGED <<stage, found, todo, job, slots, results, complete>>

\* Cleanup's variables go out of scope, and what becomes of the strays from now
\* on does not matter
Return ==
  /\ stage = "over" /\ stage' = "returned"
  /\ found' = {} /\ todo' = {} /\ results' = {} /\ complete' = None
  /\ job' = [p \in Strays |-> "none"]
  /\ world' = [p \in Strays |-> "alive"]
  /\ UNCHANGED slots

\* fuku has not been sent SIGKILL
Running == world[Self] # "killed"

CleanupStep ==
  /\ Running
  /\ Begin \/ Scan \/ ScanFails \/ SpawnEnds \/ Wait \/ Return \/ \E p \in Strays : Spawn(p)

KillStep(p) ==
  /\ Running
  /\ \/ Announce(p) \/ Term(p) \/ TermRefused(p) \/ SeeGone(p) \/ Expire(p)
     \/ Report(p) \/ Release(p) \/ Done(p)

Next == CleanupStep \/ \E p \in Strays : KillStep(p) \/ Exit(p)

Returned == stage = "returned"

-----------------------------------------------------------------------------
(* Properties *)

\* When Cleanup is over, for whatever reason, no goroutine of it is left that
\* could still signal a process, and the slots it took are free for startTier.
\* Every process it found is gone, killed, or not fuku's to kill, except those
\* it gave up when it was cancelled, and is counted once, although it may run
\* in the directory of several services and in the group of another
\* (preflight.go:68-188).
CleanedUp ==
  stage = "over" =>
    /\ Working = {} /\ slots = 0
    /\ complete # None => complete = Cardinality(found \ todo)
    /\ todo # {} => cancelled
    /\ \A p \in found \ todo : world[p] \in {"gone", "killed"} \/ (p \in Foreign /\ world[p] = "alive")

\* What matchProcesses means by leaving fuku out ("Skips own PID",
\* preflight_test.go:98): fuku never signals itself.  It does, when it is in the
\* process group of a process it found (preflight.go:229, 243).
OwnProcessSpared == world[Self] = "alive"

=============================================================================
