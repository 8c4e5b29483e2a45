------------------------------ MODULE Watcher ------------------------------
(***************************************************************************)
(* The file watcher (internal/app/watcher/watcher.go and debouncer.go).    *)
(* A service that is ready is watched: its directory and its shared ones   *)
(* are walked and every directory found is given to fsnotify and to the    *)
(* registry of who watches what.  One goroutine takes fsnotify's events,   *)
(* triggers the debouncers of the services concerned and adds directories  *)
(* that appear.  A debouncer collects changes until its timer fires.       *)
(*                                                                         *)
(* Each critical section of m.mu and of d.mu is one step.  A changed file  *)
(* is its directory; files that no pattern matches are left out, and so    *)
(* are events of fsnotify that concern a directory itself and do not add   *)
(* one.  A service's debouncer is named by a generation, new each time it  *)
(* is watched.  registry[d] and w.list are sets: unregister removes every  *)
(* copy of an id and Trigger ignores repetitions.                          *)
(***************************************************************************)
EXTENDS Integers, Sequences, FiniteSets, SequencesExt

CONSTANTS Services,            \* services with a watch section
          Dirs, Parent, None,  \* directories; Parent[d] is None at the top
          Root, Shared,        \* per service: its directory and its shared ones
          Ignored,             \* per service: the directories its patterns skip
          Existing,            \* the directories there are at first
          MaxGen,              \* bound on how often watching starts
          MaxChanges           \* bound on changes of files and of directories

ASSUME WatcherAssumption ==
  /\ None \notin Dirs \cup Services \cup [dir : Dirs, targets : SUBSET Services]
  /\ Parent \in [Dirs -> Dirs \cup {None}]
  /\ Root \in [Services -> Dirs] /\ Shared \in [Services -> SUBSET Dirs]
  /\ Ignored \in [Services -> SUBSET Dirs] /\ Existing \subseteq Dirs
  /\ MaxGen \in Nat /\ MaxChanges \in Nat

Gens == 1..MaxGen

VARIABLES
  disk, fs, events,    \* directories, those fsnotify watches, fsnotify's events
  closed,              \* m.closed
  gen, next, owner,    \* per service: the debouncer of its watcher, or 0; the last
                       \* debouncer made; whose a debouncer is
  list, registry,      \* w.list by service, m.registry
  adding,              \* processEvents between findTargets and register, or None
  files,               \* per debouncer: d.files
  armed, stray,        \* its timer is pending; timers pending that d.timer lost
  waiting,             \* calls of fire waiting for d.mu
  cancelled, stopped,  \* debouncers whose context has ended, and those stopped
  emits,               \* callbacks between fire and Publish
  changes,             \* counter of the environment
  announced, unreported  \* history: directories that a walk for a service found or
                         \* whose creation fsnotify saw since it is watched, and
                         \* changes fsnotify saw that were not reported yet

diskVars == <<disk, changes>>
manVars == <<closed, gen, next, owner, list, registry>>
debVars == <<files, armed, stray, waiting, stopped, emits>>
vars == <<diskVars, fs, events, manVars, adding, debVars, cancelled, announced, unreported>>

TypeOK ==
  /\ disk \subseteq Dirs /\ fs \subseteq Dirs
  /\ events \in Seq([op : {"write", "create"}, dir : Dirs])
  /\ closed \in BOOLEAN
  /\ gen \in [Services -> 0..MaxGen] /\ next \in 0..MaxGen
  /\ owner \in [Gens -> Services \cup {None}]
  /\ list \in [Services -> SUBSET Dirs] /\ registry \in [Dirs -> SUBSET Services]
  /\ adding \in {None} \cup [dir : Dirs, targets : SUBSET Services]
  /\ files \in [Gens -> SUBSET Dirs]
  /\ armed \in [Gens -> BOOLEAN]
  /\ stray \in [Gens -> Nat] /\ waiting \in [Gens -> Nat]
  /\ cancelled \subseteq Gens /\ stopped \subseteq Gens
  /\ emits \subseteq [gen : Gens, svc : Services, files : SUBSET Dirs, open : BOOLEAN]
  /\ changes \in 0..MaxChanges
  /\ announced \subseteq Services \X Dirs /\ unreported \subseteq Services \X Dirs

Init ==
  /\ disk = Existing /\ fs = {} /\ events = <<>> /\ closed = FALSE
  /\ gen = [s \in Services |-> 0] /\ next = 0 /\ owner = [g \in Gens |-> None]
  /\ list = [s \in Services |-> {}] /\ registry = [d \in Dirs |-> {}]
  /\ adding = None
  /\ files = [g \in Gens |-> {}] /\ armed = [g \in Gens |-> FALSE]
  /\ stray = [g \in Gens |-> 0] /\ waiting = [g \in Gens |-> 0]
  /\ cancelled = {} /\ stopped = {} /\ emits = {}
  /\ changes = 0
  /\ announced = {} /\ unreported = {}

-----------------------------------------------------------------------------
(* Directories *)

Above[d \in Dirs] == {d} \cup IF Parent[d] = None THEN {} ELSE Above[Parent[d]]

\* Directories form trees, and one that exists has its parents
ASSUME TreeAssumption ==
  \A d \in Dirs :
    /\ Above[d] = {d} \cup IF Parent[d] = None THEN {} ELSE Above[Parent[d]]
    /\ Parent[d] # None => /\ d \notin Above[Parent[d]]
                           /\ d \in Existing => Parent[d] \in Existing

\* shouldSkipDir: a base is never skipped, a directory below it may be
Skipped(s, b, d) == \E e \in Above[d] \ Above[b] : e \in Ignored[s]

\* What filepath.Walk visits from b, and what it may have visited when it fails:
\* a parent comes before its children.
WalkOf(s, b) == {d \in disk : b \in Above[d] /\ ~Skipped(s, b, d)}
PartsOf(s, b) == {V \in SUBSET WalkOf(s, b) : \A d \in V : d = b \/ Parent[d] \in V}

-----------------------------------------------------------------------------
(* startWatching, stopWatching, Close *)

\* registerRecursive's effect for the directories of V
Enter(s, V) ==
  /\ fs' = fs \cup V
  /\ registry' = [d \in Dirs |-> IF d \in V THEN registry[d] \cup {s} ELSE registry[d]]
  /\ announced' = announced \cup ({s} \X V)

\* The walk of the service's own directory fails, for instance because a
\* directory vanishes: what it entered stays entered
StartFails(s) ==
  /\ gen[s] = 0 /\ ~closed
  /\ \E V \in PartsOf(s, Root[s]) : Enter(s, V)
  /\ UNCHANGED <<diskVars, events, closed, gen, next, owner, list, adding, debVars, cancelled, unreported>>

\* The walk of a shared directory may fail as well; what it entered is then not
\* in w.list
StartWatching(s) ==
  /\ gen[s] = 0 /\ ~closed /\ next < MaxGen /\ Root[s] \in disk
  /\ \E W \in [Shared[s] -> SUBSET disk] :
       /\ \A b \in Shared[s] : W[b] \in PartsOf(s, b)
       /\ Enter(s, WalkOf(s, Root[s]) \cup UNION {W[b] : b \in Shared[s]})
       /\ list' = [list EXCEPT ![s] = WalkOf(s, Root[s]) \cup
                     UNION {W[b] : b \in {b \in Shared[s] : W[b] = WalkOf(s, b)}}]
  /\ next' = next + 1 /\ gen' = [gen EXCEPT ![s] = next'] /\ owner' = [owner EXCEPT ![next'] = s]
  /\ UNCHANGED <<diskVars, events, closed, adding, debVars, cancelled, unreported>>

\* Faulty: a directory leaves fsnotify although another service watches it
UnregisterAll(s) ==
  /\ registry' = [d \in Dirs |-> IF d \in list[s] THEN registry[d] \ {s} ELSE registry[d]]
  /\ fs' = fs \ list[s]

\* unregisterAll: a directory that nobody watches any more leaves fsnotify
Unregister(s) ==
  /\ registry' = [d \in Dirs |-> IF d \in list[s] THEN registry[d] \ {s} ELSE registry[d]]
  /\ fs' = fs \ {d \in list[s] : registry[d] \subseteq {s}}

StopWatching(s) ==
  /\ gen[s] # 0
  /\ Unregister(s)
  /\ cancelled' = cancelled \cup {gen[s]}
  /\ gen' = [gen EXCEPT ![s] = 0] /\ list' = [list EXCEPT ![s] = {}]
  /\ unreported' = {u \in unreported : u[1] # s}
  /\ announced' = {u \in announced : u[1] # s}
  /\ UNCHANGED <<diskVars, events, closed, next, owner, adding, debVars>>

Close ==
  /\ ~closed /\ closed' = TRUE
  /\ cancelled' = cancelled \cup {gen[s] : s \in {s \in Services : gen[s] # 0}}
  /\ gen' = [s \in Services |-> 0] /\ list' = [s \in Services |-> {}]
  /\ fs' = {} /\ events' = <<>> /\ unreported' = {} /\ announced' = {}
  /\ UNCHANGED <<diskVars, next, owner, registry, adding, debVars>>

-----------------------------------------------------------------------------
(* The debouncers *)

\* Faulty: stops a timer that runs and makes no new one
TriggerStopsTimer(G, d) ==
  /\ files' = [g \in Gens |-> IF g \in G \ stopped THEN files[g] \cup {d} ELSE files[g]]
  /\ armed' = [g \in Gens |-> IF g \in G \ stopped THEN ~armed[g] ELSE armed[g]]

\* Trigger for the debouncers of G.  Stopping the old timer undoes it only while
\* it is pending: a call of fire that waits goes on.
Trigger(G, d) ==
  /\ files' = [g \in Gens |-> IF g \in G \ stopped THEN files[g] \cup {d} ELSE files[g]]
  /\ armed' = [g \in Gens |-> armed[g] \/ g \in G \ stopped]

Expire(g) ==
  /\ armed[g] /\ armed' = [armed EXCEPT ![g] = FALSE]
  /\ waiting' = [waiting EXCEPT ![g] = @ + 1]
  /\ UNCHANGED <<diskVars, fs, events, manVars, adding, files, stray, stopped, emits,
                 cancelled, announced, unreported>>

ExpireStray(g) ==
  /\ stray[g] > 0 /\ stray' = [stray EXCEPT ![g] = @ - 1]
  /\ waiting' = [waiting EXCEPT ![g] = @ + 1]
  /\ UNCHANGED <<diskVars, fs, events, manVars, adding, files, armed, stopped, emits,
                 cancelled, announced, unreported>>

\* Faulty: leaves the callback to a timer made meanwhile, but clears d.files
FireClearsFirst(g) ==
  /\ waiting[g] > 0 /\ waiting' = [waiting EXCEPT ![g] = @ - 1]
  /\ files' = [files EXCEPT ![g] = {}]
  /\ emits' = IF g \in stopped \/ files[g] = {} \/ armed[g] THEN emits
              ELSE emits \cup {[gen |-> g, svc |-> owner[g], files |-> files[g], open |-> FALSE]}
  /\ UNCHANGED <<diskVars, fs, events, manVars, adding, armed, stray, stopped, cancelled,
                 announced, unreported>>

\* The callback runs with what was collected, and d.timer forgets a timer that a
\* Trigger made meanwhile
Fire(g) ==
  /\ waiting[g] > 0 /\ waiting' = [waiting EXCEPT ![g] = @ - 1]
  /\ IF g \in stopped \/ files[g] = {}
       THEN UNCHANGED <<files, armed, stray, emits>>
       ELSE /\ emits' = emits \cup {[gen |-> g, svc |-> owner[g], files |-> files[g], open |-> FALSE]}
            /\ files' = [files EXCEPT ![g] = {}]
            /\ stray' = IF armed[g] THEN [stray EXCEPT ![g] = @ + 1] ELSE stray
            /\ armed' = [armed EXCEPT ![g] = FALSE]
  /\ UNCHANGED <<diskVars, fs, events, manVars, adding, stopped, cancelled, announced, unreported>>

\* The goroutine of startWatching that waits for the watcher's context
DebouncerStop(g) ==
  /\ g \in cancelled \ stopped /\ stopped' = stopped \cup {g}
  /\ files' = [files EXCEPT ![g] = {}] /\ armed' = [armed EXCEPT ![g] = FALSE]
  /\ UNCHANGED <<diskVars, fs, events, manVars, adding, stray, waiting, emits, cancelled,
                 announced, unreported>>

\* emitEvent looks at m.closed, and then publishes WatchTriggered
EmitCheck(e) ==
  /\ e \in emits /\ ~e.open
  /\ emits' = (emits \ {e}) \cup IF closed THEN {} ELSE {[e EXCEPT !.open = TRUE]}
  /\ UNCHANGED <<diskVars, fs, events, manVars, adding, files, armed, stray, waiting, stopped,
                 cancelled, announced, unreported>>

EmitPublish(e) ==
  /\ e \in emits /\ e.open
  /\ emits' = emits \ {e}
  /\ unreported' = unreported \ ({e.svc} \X e.files)
  /\ UNCHANGED <<diskVars, fs, events, manVars, adding, files, armed, stray, waiting, stopped,
                 cancelled, announced>>

TimerStep(g) == Expire(g) \/ ExpireStray(g) \/ Fire(g)
EmitStep == \E e \in emits : EmitCheck(e) \/ EmitPublish(e)

-----------------------------------------------------------------------------
(* processEvents *)

Watchers(d) == {s \in registry[d] : gen[s] # 0}

HandleWrite ==
  /\ adding = None /\ events # <<>> /\ Head(events).op = "write"
  /\ Trigger({gen[s] : s \in Watchers(Head(events).dir)}, Head(events).dir)
  /\ events' = Tail(events)
  /\ UNCHANGED <<diskVars, fs, manVars, adding, stray, waiting, stopped, emits, cancelled,
                 announced, unreported>>

\* findTargets: who watches the parent and does not ignore the new directory
HandleCreate ==
  /\ adding = None /\ events # <<>> /\ Head(events).op = "create"
  /\ LET d == Head(events).dir
         targets == {s \in Watchers(Parent[d]) : d \notin Ignored[s]}
     IN  adding' = IF d \in disk /\ targets # {} THEN [dir |-> d, targets |-> targets]
                                                 ELSE None
  /\ events' = Tail(events)
  /\ UNCHANGED <<diskVars, fs, manVars, debVars, cancelled, announced, unreported>>

\* register: fsnotify is asked first, then the services that still watch are
\* entered
Register ==
  /\ adding # None /\ adding' = None
  /\ IF closed \/ adding.dir \notin disk THEN UNCHANGED <<fs, list, registry>>
     ELSE LET d == adding.dir
              S == {s \in adding.targets : gen[s] # 0}
          IN  /\ fs' = fs \cup {d}
              /\ list' = [s \in Services |-> IF s \in S THEN list[s] \cup {d} ELSE list[s]]
              /\ registry' = [registry EXCEPT ![d] = @ \cup S]
  /\ UNCHANGED <<diskVars, events, closed, gen, next, owner, debVars, cancelled, announced, unreported>>

EventStep == HandleWrite \/ HandleCreate \/ Register

-----------------------------------------------------------------------------
(* The file system *)

Write(d) ==
  /\ d \in disk \cap fs /\ changes < MaxChanges
  /\ changes' = changes + 1
  /\ events' = Append(events, [op |-> "write", dir |-> d])
  /\ unreported' = unreported \cup (Watchers(d) \X {d})
  /\ UNCHANGED <<disk, fs, manVars, adding, debVars, cancelled, announced>>

MakeDir(d) ==
  /\ d \notin disk /\ Parent[d] \in disk /\ changes < MaxChanges
  /\ changes' = changes + 1 /\ disk' = disk \cup {d}
  /\ IF Parent[d] \in fs
       THEN /\ events' = Append(events, [op |-> "create", dir |-> d])
            /\ announced' = announced \cup (Services \X {d})
       ELSE announced' = announced \ (Services \X {d}) /\ UNCHANGED events
  /\ UNCHANGED <<fs, manVars, adding, debVars, cancelled, unreported>>

\* fsnotify forgets a directory that is removed
RemoveDir(d) ==
  /\ d \in disk /\ \A e \in disk : Parent[e] # d
  /\ changes < MaxChanges
  /\ changes' = changes + 1 /\ disk' = disk \ {d} /\ fs' = fs \ {d}
  /\ UNCHANGED <<events, manVars, adding, debVars, cancelled, announced, unreported>>

Next ==
  \/ \E s \in Services : StartWatching(s) \/ StartFails(s) \/ StopWatching(s)
  \/ Close
  \/ EventStep
  \/ EmitStep
  \/ \E g \in Gens : TimerStep(g) \/ DebouncerStop(g)
  \/ \E d \in Dirs : Write(d) \/ MakeDir(d) \/ RemoveDir(d)

Spec == Init /\ [][Next]_vars

\* Goroutines that can run do and timers expire; nothing makes the file system
\* change or a service start.
FairSpec ==
  /\ Spec
  /\ WF_vars(EventStep) /\ WF_vars(EmitStep)
  /\ WF_vars(\E g \in Gens : TimerStep(g))

-----------------------------------------------------------------------------
(* Properties *)

\* A directory's creation is known to fsnotify and on its way to register
Coming(d) == (\E i \in DOMAIN events : events[i] = [op |-> "create", dir |-> d])
             \/ (adding # None /\ adding.dir = d)

\* A watched service stays entered for every directory it was given, although
\* others share it and stop; and what is below such a directory, found by the walk
\* or seen to appear, also after it was removed, is watched for it unless it
\* ignores it (watcher.go:188-206, 290-343, 437-468).
WatchKept ==
  \A s \in {s \in Services : gen[s] # 0} : \A d \in Dirs :
    /\ d \in list[s] => s \in registry[d]
    /\ (<<s, d>> \in announced /\ d \in disk /\ Parent[d] \in list[s] /\ d \notin Ignored[s])
       => (d \in fs /\ s \in registry[d]) \/ Coming(d)

\* The debouncer of g will report d: a timer of it runs or has run
Collected(g, d) == d \in files[g] /\ g \notin stopped /\ (armed[g] \/ stray[g] > 0 \/ waiting[g] > 0)

\* A change that fsnotify saw in a directory of a watched service is waiting to be
\* handled, collected by a debouncer with a timer, or about to be published:
\* a Trigger that meets a timer just expired loses nothing (debouncer.go:34-86).
ChangeNotLost ==
  \A u \in unreported :
    \/ [op |-> "write", dir |-> u[2]] \in ToSet(events)
    \/ Collected(gen[u[1]], u[2])
    \/ \E e \in emits : e.gen = gen[u[1]] /\ u[2] \in e.files

\* When files stop changing, every change is reported for the services that are
\* still watched; changes that never stop keep the timer from firing.
ChangeReported == (unreported # {}) ~> (unreported = {})

=============================================================================
