---------------------------- MODULE ServicesState ----------------------------
(***************************************************************************)
(* What the services panel shows of the services                           *)
(* (internal/app/ui/services/update.go, model.go, timeline.go).  It keeps  *)
(* a record of its own for every service, fed twice: by the bus messages   *)
(* that its commands wait for, and once a second by the store's snapshots, *)
(* which the store's goroutine builds from the same messages at its own    *)
(* pace (internal/app/registry/store.go).  The quit key starts a second    *)
(* command that waits for messages, and the two may hand theirs over in    *)
(* either order.                                                           *)
(*                                                                         *)
(* A message is its index in log, which is its sequence number.  A process *)
(* is the number of its attempt; of the time of a message there are the    *)
(* seconds since its service's attempt began: age, 0 for not later.        *)
(***************************************************************************)
EXTENDS Integers, Sequences, FiniteSets

CONSTANTS Services,   \* service ids
          MaxLife,    \* bound on lifecycle messages
          MaxWatch,   \* bound on watch messages
          MaxLag,     \* bound on the messages on their way to a subscriber
          MaxSecs,    \* bound on an attempt's age
          MaxKeys     \* bound on the keys that send commands

ASSUME StateAssumption == MaxSecs \in Nat

VARIABLES
  log,           \* history: the messages published
  life,          \* per service: the runner's last attempt and its age
  uiQ, storeQ,   \* the messages on their way to each subscriber
  store,         \* the store's services
  waiting,       \* commands that wait for a message
  hands,         \* messages received and not handled yet
  quitting,      \* state.shuttingDown: the quit key was pressed
  known,         \* the domain of state.services
  ui,            \* state.services
  restarting,    \* state.restarting
  loader,        \* the services in the loader's queue
  keys,          \* keys pressed that send commands
  asked          \* history: services with such a key since their last message

busVars == <<log, life, uiQ, storeQ>>
programVars == <<waiting, hands, quitting>>
stateVars == <<known, ui, restarting, loader>>
vars == <<busVars, store, programVars, stateVars, keys, asked>>

Statuses == {"starting", "running", "stopping", "restarting", "stopped", "failed"}
Watch == {"watched", "unwatched"}

Of(id) == {n \in 1..Len(log) : log[n].id = id /\ log[n].kind \in Statuses}
Published(K) == Cardinality({n \in 1..Len(log) : log[n].kind \in K})

\* What the store has of a service without events; timed stands for a start time
\* that is not zero
NewSnapshot ==
  [status |-> "starting", seq |-> 0, attempt |-> 0, timed |-> FALSE, watching |-> FALSE,
   watchSeq |-> 0, age |-> 0]

\* ServiceState: sampled is StartupSampled, backfilled BackfilledSeq, active
\* StartupActive and begun a timeline with samples.  seen and filled are
\* history: the starting slots sampled, and backfilled, since the attempt is
\* known.
NewState ==
  [status |-> "starting", seq |-> 0, attempt |-> 0, timed |-> FALSE, watching |-> FALSE,
   watchSeq |-> 0, sampled |-> 0, backfilled |-> 0, active |-> FALSE, begun |-> FALSE,
   seen |-> 0, filled |-> 0]

Init ==
  /\ log = <<>> /\ life = [s \in Services |-> [attempt |-> 0, age |-> 0]]
  /\ uiQ = <<>> /\ storeQ = <<>>
  /\ store = [s \in Services |-> NewSnapshot]
  /\ waiting = 1 /\ hands = {} /\ quitting = FALSE
  /\ known = {} /\ ui = [s \in Services |-> NewState]
  /\ restarting = {} /\ loader = {}
  /\ keys = 0 /\ asked = {}

-----------------------------------------------------------------------------
(* The runner and the bus *)

\* Critical messages reach both queues; drop are the subscribers whose buffer
\* has no room for one that is not critical.
Publish(m, drop) ==
  /\ Len(uiQ) + Cardinality(hands) < MaxLag /\ Len(storeQ) < MaxLag
  /\ log' = Append(log, m)
  /\ uiQ' = IF "ui" \in drop THEN uiQ ELSE Append(uiQ, Len(log'))
  /\ storeQ' = IF "store" \in drop THEN storeQ ELSE Append(storeQ, Len(log'))

\* Once, before everything about a service
PublishProfile ==
  /\ log = <<>>
  /\ Publish([kind |-> "profile", id |-> "", attempt |-> 0, age |-> 0], {})
  /\ UNCHANGED <<life, store, programVars, stateVars, keys, asked>>

Last(S) == CHOOSE n \in S : \A k \in S : k <= n

Shown(s) == IF Of(s) = {} THEN "none" ELSE log[Last(Of(s))].kind

\* The lifecycle events of a service in the runner's order, as module
\* Orchestrator publishes them (a retry starts anew, an exit may overtake
\* ServiceReady, and a watched service that dies fails)
Follows(k) ==
  CASE k = "starting"   -> {"none", "starting", "restarting", "stopped", "failed"}
    [] k = "running"    -> {"starting", "failed", "stopped"}
    [] k = "stopping"   -> {"running"}
    [] k = "stopped"    -> {"starting", "running", "stopping"}
    [] k = "restarting" -> {"running", "stopped", "failed"}
    [] k = "failed"     -> {"none", "starting", "running", "restarting", "stopped"}

PublishLifecycle(s, k, age) ==
  /\ log # <<>> /\ Published(Statuses) < MaxLife
  /\ Shown(s) \in Follows(k)
  /\ k = "running" => life[s].attempt > 0
  /\ IF k \in {"running", "stopped", "failed"} /\ life[s].attempt > 0
       THEN age >= life[s].age
       ELSE age = IF k = "starting" THEN 0 ELSE life[s].age
  /\ life' = [life EXCEPT ![s] = [attempt |-> IF k = "starting" THEN @.attempt + 1 ELSE @.attempt,
                                  age |-> age]]
  /\ Publish([kind |-> k, id |-> s, attempt |-> life'[s].attempt, age |-> age], {})
  /\ asked' = asked \ {s}
  /\ UNCHANGED <<store, programVars, stateVars, keys>>

\* WatchStarted and WatchStopped of a service alternate
PublishWatch(s, k, drop) ==
  /\ log # <<>> /\ Published(Watch) < MaxWatch
  /\ k = "watched" <=> \A n \in 1..Len(log) :
       log[n].id = s /\ log[n].kind = "watched" =>
         \E j \in n..Len(log) : log[j].id = s /\ log[j].kind = "unwatched"
  /\ Publish([kind |-> k, id |-> s, attempt |-> 0, age |-> 0], drop)
  /\ UNCHANGED <<life, store, programVars, stateVars, keys, asked>>

-----------------------------------------------------------------------------
(* The store *)

\* The store's handlers: the messages come in order, so each is newer
Stored(p, n, m) ==
  LET q == [p EXCEPT !.seq = n, !.status = m.kind, !.age = m.age]
  IN  CASE m.kind \in {"starting", "running"} -> [q EXCEPT !.attempt = m.attempt, !.timed = TRUE]
        [] m.kind \in {"stopped", "failed", "restarting"} -> [q EXCEPT !.timed = FALSE]
        [] m.kind = "stopping" -> q
        [] m.kind \in Watch -> [p EXCEPT !.watchSeq = n, !.watching = (m.kind = "watched")]

StoreStep ==
  /\ storeQ # <<>>
  /\ storeQ' = Tail(storeQ)
  /\ LET n == Head(storeQ)
         m == log[n]
     IN  store' = IF m.kind = "profile" THEN [s \in Services |-> NewSnapshot]
                                        ELSE [store EXCEPT ![m.id] = Stored(@, n, m)]
  /\ UNCHANGED <<log, life, uiQ, programVars, stateVars, keys, asked>>

-----------------------------------------------------------------------------
(* The panel's records *)

AtMost(n, bound) == IF n < bound THEN n ELSE bound
AtLeast(n, bound) == IF n > bound THEN n ELSE bound

\* The attempt is the one of the process that runs from now on
Know(u, a) ==
  IF u.attempt = a THEN u ELSE [u EXCEPT !.attempt = a, !.seen = 0, !.filled = 0]

\* backfillStartupHistory, for the message n, age seconds after attempt a began
Backfill(u, n, a, age) ==
  IF u.backfilled >= n \/ a = 0 \/ age = 0 THEN u
  ELSE LET missing == AtLeast(age - u.sampled, 0)
       IN  [u EXCEPT !.backfilled = n, !.sampled = AtLeast(@, age), !.begun = @ \/ missing > 0,
                     !.filled = @ + missing]

AsStarting(u, n) ==
  LET a == log[n].attempt
      v == IF u.attempt = a THEN u ELSE [u EXCEPT !.sampled = 0, !.backfilled = 0]
  IN  [Know(v, a) EXCEPT !.active = TRUE, !.timed = TRUE]

\* Faulty: a process not seen starting is taken for the one before
AsRunningKeepsStartup(u, n) ==
  LET m == log[n]
      v == Know(u, m.attempt)
      w == IF v.active THEN Backfill(v, n, m.attempt, m.age) ELSE v
  IN  [w EXCEPT !.active = FALSE, !.timed = TRUE]

AsRunning(u, n) ==
  LET m == log[n]
      v == IF u.attempt = m.attempt THEN u
           ELSE [u EXCEPT !.active = TRUE, !.sampled = 0, !.backfilled = 0]
      w == IF v.active THEN Backfill(Know(v, m.attempt), n, m.attempt, m.age) ELSE v
  IN  [w EXCEPT !.active = FALSE, !.timed = TRUE]

\* The lifecycle handlers but for status and sequence number
Handled(u, n) ==
  CASE log[n].kind = "starting"   -> AsStarting(u, n)
    [] log[n].kind = "running"    -> AsRunning(u, n)
    [] log[n].kind = "restarting" -> [u EXCEPT !.timed = FALSE]
    [] OTHER                      -> u

\* The spinner and restarting after a service shows status k: effects of the
\* handlers, which start it for a transition and stop it at the end of one
Spinner(s, k) ==
  CASE k \in {"starting", "stopping", "restarting"} -> loader \cup {s}
    [] k \in {"running", "failed"} -> loader \ {s}
    [] k = "stopped" -> IF s \in restarting THEN loader ELSE loader \ {s}

Restarting(s, k) ==
  CASE k = "restarting" -> restarting \cup {s}
    [] k \in {"starting", "running", "failed"} -> restarting \ {s}
    [] OTHER -> restarting

\* Faulty: takes any message
NotOlderAlways(n) == log[n].id \in known

\* The service is known, and the message not older than what it shows: the same
\* one may have come through the store already
NotOlder(n) == log[n].id \in known /\ n >= ui[log[n].id].seq

HandleLifecycle(n) ==
  LET s == log[n].id
      k == log[n].kind
  IN  /\ k \in Statuses
      /\ IF NotOlder(n)
           THEN /\ ui' = [ui EXCEPT ![s] = [Handled(@, n) EXCEPT !.seq = n, !.status = k]]
                /\ loader' = Spinner(s, k)
                /\ restarting' = Restarting(s, k)
           ELSE UNCHANGED <<ui, loader, restarting>>
      /\ UNCHANGED known

HandleWatch(n) ==
  LET s == log[n].id
  IN  /\ log[n].kind \in Watch
      /\ ui' = IF s \in known /\ n > ui[s].watchSeq
                 THEN [ui EXCEPT ![s].watchSeq = n, ![s].watching = (log[n].kind = "watched")]
                 ELSE ui
      /\ UNCHANGED <<known, loader, restarting>>

HandleProfileResolved(n) ==
  /\ log[n].kind = "profile"
  /\ known' = Services /\ ui' = [s \in Services |-> NewState]
  /\ restarting' = {} /\ loader' = {}

-----------------------------------------------------------------------------
(* The program: commands wait for messages, Update handles one at a time *)

\* waitForMsgCmd
Receive ==
  /\ waiting > 0 /\ uiQ # <<>>
  /\ waiting' = waiting - 1
  /\ hands' = hands \cup {Head(uiQ)} /\ uiQ' = Tail(uiQ)
  /\ UNCHANGED <<log, life, storeQ, store, quitting, stateVars, keys, asked>>

\* handleMessage: the handler, and the command again
HandleMessage(n) ==
  /\ n \in hands
  /\ hands' = hands \ {n} /\ waiting' = waiting + 1
  /\ HandleLifecycle(n) \/ HandleWatch(n) \/ HandleProfileResolved(n)
  /\ UNCHANGED <<busVars, store, quitting, keys, asked>>

\* The snapshot is newer, or the same event with details to add
Applies(u, p) == p.seq > u.seq \/ (p.seq = u.seq /\ p.status = u.status)

\* reconcileLifecycle
Reconciled(u, p) ==
  LET v == IF u.attempt = p.attempt THEN u ELSE [u EXCEPT !.sampled = 0]
      w == IF p.status = "running" \/ p.attempt \notin {0, u.attempt}
             THEN Backfill(Know(v, p.attempt), p.seq, p.attempt, p.age)
           ELSE IF u.active THEN Backfill(v, p.seq, u.attempt, p.age)
           ELSE v
      x == CASE p.status = "starting" -> [v EXCEPT !.active = TRUE]
             [] p.status \in {"running", "failed", "stopped"} -> [w EXCEPT !.active = FALSE]
             [] OTHER -> v
  IN  [Know(x, p.attempt) EXCEPT !.seq = p.seq, !.status = p.status, !.timed = p.timed]

\* Faulty: only lifecycle is taken from the store
RefreshedLifecycle(u, p) == IF Applies(u, p) THEN Reconciled(u, p) ELSE u

\* refreshFromStore, for one service
Refreshed(u, p) ==
  LET v == IF Applies(u, p) THEN Reconciled(u, p) ELSE u
  IN  IF p.watchSeq >= u.watchSeq
        THEN [v EXCEPT !.watchSeq = p.watchSeq, !.watching = p.watching]
        ELSE v

\* reconcileLifecycleEffects are due: a newer event (the same status when equal)
Advanced(s) == s \in known /\ store[s].seq > ui[s].seq

\* sampleTimelines, for one service
Sampled(u) ==
  IF ~u.timed /\ ~u.begun /\ u.status \notin {"failed", "stopped", "restarting"} THEN u
  ELSE IF u.status \in {"starting", "restarting", "stopping"}
    THEN [u EXCEPT !.begun = TRUE, !.sampled = AtMost(@ + 1, MaxSecs),
                   !.seen = AtMost(@ + 1, MaxSecs)]
  ELSE [u EXCEPT !.begun = TRUE]

\* The once-a-second part of tickMsg
Tick ==
  /\ ui' = [s \in Services |-> IF s \in known THEN Sampled(Refreshed(ui[s], store[s])) ELSE ui[s]]
  /\ LET To(K) == {s \in Services : Advanced(s) /\ store[s].status \in K}
     IN  /\ restarting' = (restarting \ To({"running", "failed"})) \cup To({"restarting"})
         /\ loader' = loader \ (To({"running", "failed"}) \cup (To({"stopped"}) \ restarting))
  /\ UNCHANGED <<busVars, store, programVars, known, keys, asked>>

-----------------------------------------------------------------------------
(* Keys *)

\* Commands to the runner for the services S, with a spinner each
Command(S) ==
  /\ ~quitting /\ S # {} /\ keys < MaxKeys
  /\ keys' = keys + 1
  /\ asked' = asked \cup S /\ loader' = loader \cup S
  /\ UNCHANGED <<busVars, store, programVars, known, ui, restarting>>

\* The stop key starts or stops the highlighted service, by the status shown;
\* the restart key takes the same ones
ServiceKey(s) ==
  /\ s \in known /\ ui[s].status \in {"stopped", "failed", "running"}
  /\ Command({s})

RestartFailedKey == Command({s \in known : ui[s].status = "failed"})

\* One more command that waits for messages
QuitKey ==
  /\ ~quitting
  /\ quitting' = TRUE /\ waiting' = waiting + 1
  /\ UNCHANGED <<busVars, store, hands, stateVars, keys, asked>>

-----------------------------------------------------------------------------

Lifecycle ==
  \/ PublishProfile
  \/ \E s \in Services, k \in Statuses, age \in 0..MaxSecs : PublishLifecycle(s, k, age)
  \/ \E s \in Services, k \in Watch, drop \in SUBSET {"ui", "store"} : PublishWatch(s, k, drop)

Update == \E n \in 1..Len(log) : HandleMessage(n)

Next ==
  \/ Lifecycle \/ StoreStep \/ Receive \/ Update \/ Tick
  \/ RestartFailedKey \/ QuitKey \/ \E s \in Services : ServiceKey(s)

Spec == Init /\ [][Next]_vars

\* Goroutines that can run do, and the ticker ticks.  Nobody has to press a key,
\* and nothing has to be published.
FairSpec ==
  Spec /\ WF_vars(StoreStep) /\ WF_vars(Receive) /\ WF_vars(Update) /\ WF_vars(Tick)

-----------------------------------------------------------------------------
(* Properties *)

\* Whatever the two ways a message takes and the order two commands hand it
\* over in, the panel never goes back to an older event of a service, and shows
\* each event as the runner published it (update.go:556-709, model.go:361-367).
UINewest ==
  [][\A s \in known :
       /\ ui'[s].seq >= ui[s].seq
       /\ ui'[s].seq > 0 => log'[ui'[s].seq].id = s /\ ui'[s].status = log'[ui'[s].seq].kind]_vars

\* The message before n about the same service
Before(n) == {k \in Of(log[n].id) : k < n}

\* A start that went straight to ready takes as many slots of the timeline as
\* it lasted seconds, or as it was sampled: neither missed when the panel learned
\* of it late, nor drawn twice when it learned of it twice (timeline.go:80-96).
StartupOnTimeline ==
  \A s \in known :
    LET u == ui[s]
        n == u.seq
    IN  (u.status = "running" /\ log[n].age > 0 /\ Before(n) # {}
         /\ log[Last(Before(n))].kind = "starting")
        => u.filled + u.seen = AtLeast(u.seen, log[n].age)

\* Once nothing more is published, the panel shows the last event of every
\* service, watching at least as new as the store's although watch messages may
\* be dropped, and no spinner for a service that runs or failed, unless a key
\* asked for something that nothing answered (model.go:340-358, 430-443).
Settled ==
  /\ log # <<>> => known = Services
  /\ \A s \in known :
       /\ Of(s) # {} => ui[s].status = Shown(s)
       /\ ui[s].watchSeq >= store[s].watchSeq
       /\ s \in loader /\ ui[s].status \in {"running", "failed"} => s \in asked

Settles == <>[]Settled

\* Nothing is on its way to the panel or to the store.
Delivered == uiQ = <<>> /\ hands = {} /\ storeQ = <<>>

\* One tick is enough for that, however the messages came, and only a new message
\* undoes it: not another tick, nor a key (update.go:80-100, model.go:340-443).
TickSettles == [][Delivered /\ log' = log /\ (Tick \/ Settled) => Settled']_vars

=============================================================================
