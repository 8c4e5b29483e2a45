# fuku in TLA+

fuku runs a set of local services in tiers: it starts them, watches their files,
restarts them on demand, relays their logs and shuts them down in order.  It is a
Go program of goroutines that share a registry, a runtime store and an event bus,
with a terminal UI and an HTTP API as clients.  This directory holds TLA+ models of
it, TLC configurations that check them on small instances, and proofs for all
instances.  Paths are relative to `src/internal/app/` unless they say otherwise; a
definition and the code it stands for are tied together line by line by `"map"` in
`PROJECT.json`.

    tlc -config OrchTiers.cfg MCOrchestrator      # one run
    tlapm OrchestratorProofs.tla                  # one proof module

## 1. Inventory

### Runner and service operations (`runner/`, `worker/`)
*State.* The phase; a queue of commands (the runner's bus subscription); a pool of
worker slots; a set of services locked by the guard; one goroutine per command.
*Operations.* `Run` resolves the profile, cleans up, subscribes, starts, serves and
shuts down.  `startAllTiers` starts one tier after another, each service with a
goroutine and a worker slot, up to `retry.attempts` times, waiting for readiness.
The command loop stops a service itself and hands start, restart and file changes to
goroutines (`runWithWorker`), which take a slot, then the guard.  `shutdown` takes
one snapshot of the registry, detaches all of it, then stops entry after entry in
reverse registration order.
*Interacts with* the registry (Add, Get, Detach, Remove), the processes (their
`Done` channel), the bus (events out, commands in), the watcher (`WatchTriggered`).
*Hard.* Stop and restart run beside a start of the same service, beside the exit
watcher of the same process, and beside a cancelled context; shutdown runs beside
all of them.
*Correct when* nobody works on a service twice, no slot leaks, no process is
forgotten or left running, tiers start in order, shutdown stops in order and ends,
and what is published agrees with what runs.

### Preflight cleanup (`preflight/`)
*State.* The processes found, one goroutine per kill with a worker slot, the results.
*Operations.* Scan, SIGTERM to the process group or else to the process, poll, SIGKILL
to both at the deadline.
*Hard.* The context ends while kills are under way; processes that exit, ignore
SIGTERM or belong to somebody else; groups that hold processes which were not found,
fuku itself among them.
*Correct when* nothing of it goes on once it has returned, and what it found is dealt with.

### Process registry (`registry/registry.go`)
*State.* Attached and detached processes by service, a WaitGroup, a registration
counter.  *Operations.* Add, Get, Detach, Remove, SnapshotReverse, Wait.
*Hard.* Stop and the exit watcher both Remove the same handle; Add may find a
predecessor; the WaitGroup must neither go negative nor stay up.
*Correct when* a service is in one map, a handle is tracked once, and the WaitGroup
counts exactly what was added and not done.

### Event bus (`bus/bus.go`, `bus/subscriber.go`)
*State.* A sequence number, subscribers with a bounded channel, an overflow list and
a pump goroutine for critical messages, three kinds of lock.
*Operations.* Publish, Subscribe, unsubscribe, Close.
*Hard.* Two ways to a subscriber that must not overtake one another; a wakeup that
may be lost; channels closed while others send; Close waiting for a pump that waits
for a reader.
*Correct when* each subscriber sees a subsequence in order, without losing a critical
message, and Close returns.

### Runtime store (`registry/store.go`)
*State.* Status, pid, start time, error, watch flag and two sequence numbers per
service; counts per status; a sampler's statistics.
*Operations.* A handler per bus message, a sampler on a ticker that asks the
operating system without the lock.
*Hard.* Two kinds of sequence numbers; counts kept incrementally; statistics of a
process that has been replaced since it was asked about.
*Correct when* the newest message wins, the counts are those of the statuses, and
statistics belong to the process shown.

### Terminal UI: services panel (`ui/services/`, `cli/tui.go`)
*State.* The panel's own record of every service, a timeline with startup slots, a
queue of spinners, the highlighted row and its filter, whether it is shutting down.
*Operations.* A handler per bus message, a tick that reconciles with the store's
snapshot, keys that move, filter, send commands and quit.
*Hard.* The same event arrives by two ways, one delayed, one out of order; a message
is waited for only while some command waits; an index outlives the list it points
into; the runner listens only from some moment on.
*Correct when* it never shows an older event, settles on the truth, draws a startup
once, keeps the highlight where it was, and ends with the runner.

### File watcher (`watcher/`)
*State.* Per service a list of directories and a debouncer; per directory the services
that watch it; fsnotify's set.  *Operations.* start and stop watching, events of
fsnotify (a file changes, a directory appears), timers, callbacks.
*Hard.* Directories shared by services; registration in two critical sections;
timers that fire beside a new change; walks that fail halfway.
*Correct when* a watched directory stays watched, and a change seen is reported.

### Log relay (`relay/`)
*State.* The hub's clients and its ring buffer; a channel, a handler and a write pump
per connection.  *Operations.* Broadcast, connect, subscribe, replay, disconnect, Stop.
*Hard.* Replay meets live messages; slow clients; two parties that close a channel;
Stop that waits for everyone.
*Correct when* a client is written its history and then everything live, once and in
order, up to what its full channel dropped, and Stop returns.

### Configuration, discovery and tiers (`src/internal/config/`, `discovery/`)
*State.* A document, merged from a base file and an override; an order of tiers; the
decoded configuration.  *Operations.* Locate, read, merge, parse twice (once for the
order in the text, once for the values), apply defaults, validate, resolve a profile.
*Hard.* Anchors, aliases and merge keys across two documents; two parsers, each with its
own reading of merge keys, that must agree on what a tier is.
*Correct when* the merged document is the one the merge rules describe, and tiers hold
the services that declare them in the order of the text.

### Parts that are not modelled
Section 7.

## 2. Modules

| module | models | specifies |
|---|---|---|
| `ProcessHandles` | services, handles and `None`, with their assumptions | |
| `Registry` | the registry | also the abstract specification of what the runner may do to it |
| `Orchestrator` | runner, service operations, guard, pool, processes, exit watchers | `INSTANCE`s `Registry`; refines `Registry!Spec` |
| `Preflight` | the cleanup | |
| `ProfileRun` | composes `Preflight` and `Orchestrator`: a whole `Run` | refines `Orchestrator!Spec` |
| `Delivery` | nothing: what a subscriber may rely on | abstract specification of the bus |
| `Bus` | the bus | refines `Delivery!Spec` |
| `Store` | the store and its sampler | |
| `Selection` | the highlighted row and its filter | |
| `ServicesUI` | composes `Selection` with the program's loop, the runner's phases and `runWithUI` | |
| `ServicesState` | the panel's records beside the store's | |
| `Relay` | hub, server and connections | |
| `Watcher` | watcher and debouncers | |
| `Yaml` | nodes, the merge, aliases | a reference definition, `Overlay` |
| `Discovery` | profiles, grouping into tiers | |
| `Topology` | the order of tiers, from the text; on top of `Discovery` | a reference definition, `AsDeclared` |
| `Config` | the loader, on top of `Yaml` and `Topology` | |
| `MC*` | constants of the TLC instances | |
| `OrchestratorProofs` (with the registry's and the tiers'), `RunnerProofs` (with the whole run's), `StoreProofs`, `BusProofs`, `RelayProofs`, `WatcherProofs`, `ServicesStateProofs`, `ServicesUIProofs` | theorems | |

A name in a model that looks like an operation with a suffix, such as
`RemoveAttachedNoDone` or `LockBusyKeepsSlot`, under a comment that begins "Faulty:",
is a faulty variant: it is not part of any specification, and stands beside the
operation it spoils to show that a property would notice.

### Registry
`processes` and `detached` are the maps, `wg` the WaitGroup, `nextOrder` the counter.
Each call is one step, as it holds `r.mu` throughout.  `life` is a history variable:
what happened to each handle.  A handle replaced by an `Add` over a live entry is
"lost"; the code overwrites the map and never calls `Done` for it.

### Orchestrator
`pc` is the control of each goroutine: `Main` runs `runner.Run`, a service names the
goroutine `startTier` gives it, a task a goroutine for a command or file change.
Steps are the code's critical sections, channel operations and publications, so that
between `ServiceReady` (`runner/service.go:308`) and `registry.Add` (`:111`) others may
run, as between `Remove` in `watchForExit` and its event.  A process goes unborn,
alive, signalled, exited (by itself) or killed (on purpose).  SIGTERM followed by
SIGKILL is one step and an eventual death.  `status` is the last lifecycle event
published; the queue from the API, UI and watcher to `Main` is FIFO and loses nothing,
because commands are critical messages and `Bus` keeps those in order.  `UI` says
whether a terminal UI is attached: unlike the API it sends commands in any phase.
Readiness, the outcome of a launch and the moment of a crash are choices.  A
goroutine's variables end with it (`Release`).

### Preflight and ProfileRun
`stage` is where `Cleanup` is, `job` the goroutine that kills a process, `world` what
became of the process.  A process is an element of `Strays`: that the operating system
reuses pids is left out.  `Leader` says in whose process group each of them is.  `Term`
and `Expire` signal the whole group of the process found (`Members`), as `kill(-pid)`
does, whoever else found its members or did not; `Reached` are those of them that fuku
may signal and that are still there, and only if there are none is the process
signalled by itself.  The group may hold fuku (`Self`).  A SIGTERM is for fuku what a
SIGTERM from anywhere is, a cancelled context, which `ProfileRun` has at any moment of
the cleanup; a SIGKILL ends it (`Running`, `KilledItself`).  `PreflightKill` is published once per process in the model,
as in the code.  The worker slots are a variable of `Preflight`, not `Orchestrator`'s
`sem`, although it is the same pool: nobody else uses the pool before `Cleanup` has
returned, and `CleanedUp` says that none is taken by then.  `Return` forgets
`Cleanup`'s variables.  In `ProfileRun` a step is one of the cleanup, a cancellation
during it, or one of the orchestrator after it.

### Bus and Delivery
One publisher holds `publishMu` from the sequence number to the last subscriber, and
the read lock of `b.mu`.  Per subscriber it first tries the channel, then queues a
critical message under the subscriber's lock and notifies, or drops.  The pump waits
for the signal, looks, sends, pops.  `writer` and `toClose` are the write lock of
`b.mu` while unsubscribe or Close ends subscriptions.  `Delivery` knows only
published, pending and received numbers: a subscriber is offered each number once, in
order, from the moment it subscribes, and loses none that is critical.  `pending` is
the channel with what waits in the overflow.

### Store
A message carries a kind, service, sequence number and, if it starts or ends a
process, the pid.  `delivered` is a history variable.  The environment delivers any
message at any time: out of order, twice, or never.  That is weaker than what the bus
promises, so nothing in this module relies on it.  The sampler is four steps: tick
with CompareAndSwap, copy the pids under the lock, ask the operating system without
it, store.  That the operating system gives a pid to two processes is left out.

### Selection and ServicesUI
`selected` is the index, `filteredIDs` the list it points into while there is a query,
`last` a history variable.  `waiting` counts the commands that wait for a message, and
`hands` are the messages such a command has received and `Update` has not yet handled.
The runner is reduced to its phases (`stage`) and to whether it was told to stop.
The queue to the panel ends with the program.  Keys that only scroll, page, resize, show
tips or switch themes are left out.

### ServicesState
A message is its number in `log`.  It reaches the panel's queue and the store's, each
consumed at its own pace; a watch message is not critical and may be dropped for
either.  `Follows` says which lifecycle events may follow which, as `Orchestrator`
publishes them.  `seen` and `filled` are history variables for the slots of the
timeline.  Time is the age of an attempt in seconds, as the timeline has no finer grain.

### Relay
The hub is a loop over four channels; register and unregister are rendezvous, so the
sender's step and the hub's are one.  Log messages are numbered by their entry to
`h.broadcast`; `got` and `missed` are history variables.  The ring buffer is modelled
with its index arithmetic.  A peer may connect and never send its request: the
server reads that without a deadline.  The peer is assumed to send it or to hang
up eventually; without that, Stop does wait for ever.  The program cancels the context
before it calls Stop (`app.go`).  Stop may return before an activation under way has
opened its socket, whose file then stays; this interleaving is in the model, while the
file is not.  Who owns a socket file among several instances is not modelled.

### Watcher
Critical sections of `m.mu` and `d.mu` are steps.  A changed file is its directory;
directories form a tree of constants with what each service ignores.  A walk is atomic
and may fail after any prefix (`PartsOf`).  Lists that may hold an id twice are sets,
because `unregister` drops every copy and `Trigger` ignores repetitions.  A debouncer
is a generation, and its timers are `armed` (the one `d.timer` knows), `stray` (expired
or forgotten, yet to run) and `waiting` (calls of `fire` at `d.mu`).  `announced` is
history: which directories a service may count on, because its walk found them or
fsnotify saw them appear while it was watched.  What a service may not count on is a
directory made inside a new one before that was registered (section 5).  Left out: what
fsnotify drops when its own queue or the system's limit of watches is full, and a
service's base directory that is deleted and made again.  `WatchTriggered` may follow
`WatchStopped`; the model has that and no property forbids it, as it causes one
spurious restart at most.

### Yaml, Discovery, Topology and Config
A node is a record of kind, anchor, value and items; an alias holds the node it points
at, as `yaml.Node.Alias` does.  `MergeYAML` is the code's algorithm step by step:
anchors of the base injected into an override that cannot be parsed alone, merge keys
flattened on both sides (`Flatten`), nulls removing, sequences concatenated, aliases
replaced by copies of what their anchors are after the merge.  `Plain` is what a document
means to the decoder, which is external and has a reading of its own: a merge key takes
in mappings, aliases of mappings and lists of either (`Sources`, `Fields`), the first of
a list wins, and a document that repeats a key or merges anything else is refused
(`Decodes`), which is a load error.  `Flatten` passes over mappings written out in a list.
`Overlay` is the merge on meanings.  `Config` is the loader's sequence of
steps with its error exits.  viper is external: it lowercases keys (names in the model
are lower case), and drops null and empty services.  `Topology` reads a text as the
sequence of its services with the tier each one names, adds a tier at its first mention
and the default one last; `Discovery` groups the services of a profile by that order.
`Yaml` and `Config` use `RECURSIVE`, because documents nest, and are only model-checked;
the other two use recursive functions over a sequence, and are proved about.

## 3. Runs

| run | module | instance | question |
|---|---|---|---|
| `orch_commands` | `MCOrchestrator` | 1 service, 2 commands, 3 processes, 2 attempts, API only | do commands, crashes, retries and file changes exclude one another and lose nothing; is each step one of the registry? |
| `orch_tiers` | `MCOrchestrator` | 2 services in 2 tiers, 2 workers, 1 command, 3 processes, UI | do tiers start and services stop in order, with a panel that commands at any time? |
| `orch_live` | `MCProfileRun` | 4 processes in 2 groups, 2 of them found, one foreign, one fuku; 1 service, 1 command, 2 attempts | does the cleanup finish what it began, does shutdown end, does a restart resolve? |
| `bus` | `MCBus` | 2 publishers, 1 subscriber, channel of 1, 3 messages | critical messages, closing, refinement of `Delivery`, liveness |
| `store` | `MCStore` | 2 services, 2 pids, sequence numbers to 3 | counts, statuses and statistics under any delivery |
| `relay` | `MCRelay` | 1 client, 2 services, channel 1, history 2, 5 messages | replay, order, closing, Stop |
| `watcher` | `MCWatcher` | 2 services, 3 nested directories, 3 generations, 2 changes | is anything lost to a service that watches it? |
| `config` | `MCConfig` | 3 services, 2 anchors, lists of merges, repeated keys, defaults, 7 profiles, about 70 overrides | does the merge, and do the tiers, mean what the text says? |
| `ui_state` | `MCServicesState` | 1 service, 3 lifecycle and 1 watch message, queues of 2, 1 key | does the panel settle on the truth, by two ways and two waiting commands? |
| `ui` | `MCServicesUI` | 2 services, 4 queries, a runner in every phase | does the highlight stay, do both sides end? |
| `orch_orphan`, `ui_quit` | | 1 and 2 services | findings, section 5 |

*Why these bounds.*  Every conflict in the runner concerns one service, or a service
and the pool, or a tier and the next.  Two tasks give each pair of operations on one
service; a third would find the guard taken as the second does.  Three processes are a
start and two replacements, or a start with a retry and one replacement.  In
`orch_tiers` two workers let a panel's restart run beside a start at startup and
overwrite its entry, which one worker would rule out; goroutines wait for slots in
`orch_live`.  There `Cleanup` finds two processes and has one worker, so that it
waits for a slot and cancellation can meet a kill under way: `server`, which leads a group
with fuku in it, and another user's `root`, which leads a group with a process that was
not found, so that its group can be signalled while it cannot.
A channel of 1 overflows at the second message, and with three messages the third finds
the overflow non-empty while the pump holds the first.  In `relay` the ring of 2 wraps
twice, and a channel of `Buffer + History` = 3 with one message in hand is overfull at
the fifth.  In `watcher` `b`'s directory lies inside `a`'s and `b` shares `a`'s, so each
of these has two watchers and one service reaches one directory by two ways; a third,
inside both, can be made before the second is registered, and `b` ignores it; three generations are both
services and a restart, with the timers of the first still about.  In
`ui_state` three lifecycle messages are a start, its end and the start after it, which is
what a late sample or snapshot can be mistaken for; two messages per queue let the store
run ahead or behind, and let two commands hold one each.  The documents of `config` use
each way to write a service (plain, alias, merge key, nested merge key, list of aliases,
list with a mapping written out, a merge of a scalar, a repeated key) with each
override of each part, and each state a file can be in.

*Named bounds* are `Tasks` and `Procs` (commands, launches), `MaxSeq`, `MaxLogs`,
`MaxGen`, `MaxChanges`, `MaxLife` and `MaxWatch` (messages), `MaxLag` (messages in a queue
or in a command's hands), `MaxSecs` (age of an attempt) and `MaxKeys`.  They stand in
guards of environment actions or in constants.  `Bus`, `Relay`, `Watcher` and
`ServicesState` stop when these are used up, `Config` when the profile is resolved or an
error is met, `ServicesUI` when program and runner have ended; their runs do not check
deadlock.  The others do.

### What they show
* Runner: `GuardExclusive` and `SlotsExact` on each return path; `RemovedMeansGone`
  and `IntendedStopSilent` for the race of stop and exit watcher; `RunningIsRegistered`;
  `NoneLost` where commands come through the API, which holds them back until the service
  and phase allow them (a UI breaks it, section 5); `TiersInOrder`,
  `TierReadyMeansStarted`, `ShutdownInOrder`.  The last is order of *registration*: a
  service that was restarted has moved to the end and is stopped first, whatever its tier.
  It exempts a process whose entry an `Add` has overwritten, of which the registry and so
  shutdown no longer know (section 5): with a panel and more than one worker that happens,
  and the order without the exemption fails.
* Registry: `RegistryConsistent` under everything the runner does, with a panel too, and
  `RegistrySpec`, that it does nothing else.
* A whole run: `CleanedUp`, that the cleanup leaves no goroutine, slot or process behind,
  and the liveness properties `ShutdownCompletes` and `RestartResolves`.  The former
  exempts a run that has sent itself SIGKILL (section 5).  What `CleanedUp` does not say
  is that nobody else is hit.
* Bus: `CriticalKept`, `NoSendOnClosed`, the refinement `DeliversInOrder`,
  `CriticalDelivered` (to a receiver that keeps receiving: no wakeup is lost), and
  `CloseReturns` (even if it does not).
* Store: `CountsExact`, `LatestWins` (per kind of sequence number), `UsageOfShownPid`,
  `NothingLeftOver`, `SamplingResumes`.
* Relay: `HistoryIsLast`, `StreamExact` (written, in hand and queued are exactly what
  was due from the replay on, in order and once, less what found the channel full),
  `ReplayWhole`, `OpenWhileRegistered`, `StopReturns`.
* Watcher: `WatchKept`, `ChangeNotLost`, `ChangeReported`.
* Configuration: `MergeIsOverlay` against the reference definition, for overrides that
  stand for themselves and leave the base's anchors alone; `AliasesFollowAnchors` for
  those that do not leave them alone; `TiersAsDeclared`, for services written out as
  mappings, whose merge lists hold aliases only (section 5 has what happens to the
  others).  The first two hold of merged documents that the decoder accepts.
* Panel: `UINewest`, `StartupOnTimeline`, `Settles`; `SelectionStays`; `BothEnd`.

### Fairness
Weak fairness throughout, and only for what the scheduler or a timer runs.
* Orchestrator and ProfileRun: each goroutine runs; a signalled process dies, since
  SIGKILL follows SIGTERM after a timeout; a readiness check ends, since it has a
  timeout; a kill of the cleanup ends at its deadline.  No command, crash, signal or
  quit is assumed to happen.
* Bus: publishers that have begun, pumps and the closer run; a subscriber receives
  only under the premise of `CriticalDelivered`.
* Store: the sampler's goroutine runs; no message is assumed.
* Relay: hub, acceptor, handlers, pumps and Stop run; a connected peer sends its
  request or hangs up, and a write ends by success or by its deadline.
* Watcher: the event goroutine, timers and callbacks run.  Changes do not have to stop
  by fairness; the bound stops them.  That matters: the debouncer starts its wait anew at
  every change, so a file that changes for ever faster than the delay is never reported.
* ServicesUI: waiting commands and `Update` run; the runner goes through its phases, as
  `Orchestrator` shows in detail; `runWithUI` cancels once the program has ended.
* ServicesState: the store, waiting commands and `Update` run, and the ticker ticks.
  Nothing has to be published and nobody presses a key.


## 4. Proofs

tlapm 1.4.5 proves every obligation, for every set of services, processes, tasks,
publishers, subscriptions, clients, directories and queries, and every number of workers,
attempts and messages, from the assumptions that the modules name.  TLC evaluates these on each run: `ProcsFinite` and
`StoreAssumption` (what is counted is finite), `NoneAssumption`, `ThreadAssumption`,
`TierAssumption`, `LimitAssumption`, `BusAssumption`, `RelayAssumption`, `WatcherAssumption`,
`StateAssumption`, `SelectionAssumption` and `OrderAssumption` (`None` and `Main` are nobody
else, constants have their types), and `TreeAssumption` (directories form trees).

An induction over positions of a sequence is done by least counterexample: if a fact
fails somewhere it fails somewhere first (`LeastNumber`, from the well-foundedness of the
natural numbers), and there the equation of the recursive function refutes it.

**`StoreProofs`.**  `CountsExact` needs that a count is the cardinality of a set that
moves one service at a time.  `LatestWins` needs that every status shown came from a
delivered message, and that the numbers shown are the greatest delivered of their kind.
`UsageOfShownPid` needs that the sampler's copy remembers which pid it asked about.

**`BusProofs`.**  `IInv` adds to the types:
`Locks` (one publisher is busy, and none that reads while somebody writes; what is being
closed is open or closing), `Offers` (a busy publisher has the last message, and who it
still has to offer it to is open and subscribed before; a publisher that found the overflow
empty finds it empty still), `Subscriptions` (channel, overflow and pump follow the life
of the subscription) and `Contents`: a subscription has only what was published, has all
that is critical but for a message it is still owed, and does not have that one yet.
`NoSendOnClosed` follows from `Offers`, `CriticalKept` from `Contents`.  For
`DeliversInOrder` every step is mapped: `BeginPublish` is `Publish`; giving a message to
the channel or the overflow is `Accept`; the pump's send and pop are stutters, because
what it moves leaves the head of one sequence for the end of the one before
(`ConcatMove`); a pump that quits is `Lose`; `Receive`, `Subscribe` and `CloseSub` are
`Receive`, `Open` and `End`.  `BusReceivedInFull` is proved from the steps of `Delivery`,
not of the bus: `ComingInv` says of what a subscriber has received, followed by what is
pending for it, that it ascends and that no critical number since the subscription is
left out before a later one.  `Accept` demands both, `Receive` moves the first pending
number over, and `Lose` cuts the end off, so that what remains is still complete up to
its last number.  This is what `Orchestrator` and `ServicesState` assume of their queues,
whose messages are all critical but for watch messages.  `BusPumpWoken` is what `CriticalDelivered` has of safety: an
overflow is never left behind with a pump asleep, no token and nobody about to leave one.

**`OrchestratorProofs`, the registry by itself.**  `RegistryInv` is `TypeOK`, `OneMapPerService`,
`TrackedExactlyOnce`, `WaitGroupExact`, all orders below `nextOrder`, and orders distinct
not only within a map but across both.  `WaitGroupExact` keeps `wg` natural: a `Done`
happens only for a handle that is still counted.

**`OrchestratorProofs`, the tiers of a profile.**  `ResolvedTiers` is about what the
orchestrator takes for given: if a profile resolves, its services exist, each is in
exactly one tier and no tier is empty.  That is `TierAssumption` for the `Services`,
`NumTiers` and `TierOf` that the run gets, so that the assumption holds of every
configuration and not only of the instances.  `TiersFollowText` adds the order: the
tiers are those that the text declares (`AsDeclared`), whatever text, profile and services,
provided that the two parsers agree on the tier of each service; section 5 has documents
on which they do not.  Both go along the groups that `Group` makes tier by tier
(`Groups`) and along the order that `TierOrder` has after each service (`ByAppearance`).

**`OrchestratorProofs`, the orchestrator.**  `IInv` has a part for each property: `Control` (which operation
may be where), `Tiers`, `SlotsExact`, `GuardExclusive`, and `Handles`, which is about
processes: a new handle is in no map and belongs to one goroutine; a registered one has an
owner; a removed one has exited; a watcher that reports saw an unasked exit.  `RegistryInv`
is a conjunct.  It is not proved again: each step of the orchestrator is shown to be a
step of the registry or to leave it alone (`OrchestratorRegistry`, the refinement), and
`RegistryNext` does the rest.

**`RunnerProofs`** strengthens that `IInv` in four ways.  `EventInv` is about
what is published.  `TierReadyMeansStarted` needs `StartersReport`: a starter that has returned registered a process or noted the
failure.  `RunningIsRegistered` speaks of quiet states; inductive is `RunningIsAccounted`: for
a service shown as running without an attached process somebody is on the way to register
one or to publish its end.  Who that may be is `Accounted`: a goroutine before its `Add`,
`Main` in a stop, a restart between its stop and its launch, an exit watcher before its event.

`TransitInv` is about what is under way, and holds in all runs.  `InTransit` says that a
service is shown as restarting, stopping or (unless the context is cancelled, see section 5)
starting only while a goroutine is at a point from which every path publishes what comes of
it; a goroutine that moves affects only the service it works on (`MoveTransit`).  That it
gets there is `RestartResolves`, which TLC checks.  `TrackedIsWatched` says that whatever the
registry counts has an exit watcher waiting: its `Remove` finds the process, because an
entry belongs to the service its process runs.  So nothing keeps `Wait` waiting but a
process that lives.

About what is stopped it has two invariants.  `ApiInv`, for runs without a panel, has `ApiOnly`
(the gate of the API keeps command goroutines away until the startup is over),
`StartersFirst` (a starter registers the first process of its service), `TasksReplace` (a
task launches only when nothing is registered any more) and so `NoneLost`.  `ShutInv`,
for all runs, has `Progress`: what shutdown took into its snapshot and has worked off is gone, or an
`Add` has overwritten its entry, but for the one it is at work on, and the rest is older.  With a panel the
exemption is needed (section 5).  That is `RunnerShutdownInOrder`, for any number of workers,
with and without a panel.  Without one `NoneLost` removes the exemption, which gives
`RunnerStrictlyInOrder` and, at the end, `RunnerSnapshotGone`.  The latter is the largest part
of "all services terminated" that is true: `orch_orphan` is about processes outside the
snapshot.

*The whole run.*  `PreInv` says which goroutines of the cleanup hold a slot, how far
`Cleanup` is, and what each goroutine has done to its process.  As a signal goes to a
group, a goroutine's step changes processes of others: what is needed of them is that a
signal brings no process back and reaches none of another user's (`SignalledKeeps`), and that
after the deadline the process itself is dealt with (`KilledByExpire`).  `ProfileRunOrchestrated`
carries every theorem about the orchestrator over to a whole run with its cleanup.

**`RelayProofs`.**  `Ring` says where each message is: `Slot(k)` is the place of the k-th
oldest, by comparison and addition; `SlotIsIndex` shows that the code's remainders compute
it, so that `RingPushed` is linear arithmetic.  `Queued` says that numbers in
`h.broadcast` are consecutive.  `OpenWhileRegistered` needs that the hub knows a client only
while its handler waits for the pump or for `Unregister` (`ClientsInv`).  `StreamInv` adds
what a client has (`ClientOK`): what it was written, what its pump holds and what is in its
channel are in order, and are what it asked for of everything heard since `from` but for
what it missed; and it missed a message only when as many as the channel holds came before.
A registration gives it all that, because the ring is the last messages (`HistoryInv`), and
a broadcast adds the same message to both sides.  `ReplayWhole` then counts: a channel in
order holds as many messages as there are (`CountInOrder`).

`StopInv` is about Stop: which loops run in which phase of the server (`ServerInv`), and
where a handler and its pump may be together (`HandlerOK`).  It gives `RelayQuietAfterStop`:
a Stop that has waited leaves no handler, pump or client behind, nobody is accepted, and
nothing of that changes any more (`StaysQuiet`).  A hub and an acceptor that the server
had not come to start may still begin after it; they find the context cancelled and the
listener closed, and end without touching anything.  That is not the WaitGroup's counter by
itself, as connections are still dialled, accepted and registered while Stop begins.  `RelayStopUnblocked` is the part of `StopReturns` without fairness:
whoever Stop waits for has a step to take, or reads from its peer, and each such
step is one forward on a path that ends.

**`WatcherProofs`.**  `WatchKept` says that a directory is watched or on its way; which
way is inductive (`Kept`): it is entered, or its creation is queued behind every creation
of its parent, or `register` has it in hand for the service, or the parent is not the
service's and nothing in the queue can make it so.  The last is the finding about nested
directories: a parent that comes in hand only after the child was taken.  `Above` is a
recursive function; the proof uses its equation and that nothing is above itself, both in
`TreeAssumption`.  `ChangeNotLost` needs that debouncers are not shared (`Lives`) and that
a callback carries the service of its debouncer (`Collections`).

**`ServicesStateProofs`.**  `StateInv` says what the panel and the store may assume of one
another.  `Log`: attempts grow along the events of a service.  `Queues`: what is on its way
to the panel is in increasing order and newer than what its commands hold; but two commands
may hold two messages and hand them over in either order, so that `UINewest` rests on the
panel's own test and not on the order.  `StoreOK` and `PanelOK`: a record shows an event of
its service, with that event's status and an attempt no later than it; and `Timeline`: what
the end of a start fills in it has filled in once, for the event that is shown.  A snapshot
that lags behind then cannot undo an event, nor one that runs ahead fill in a start twice.

`HeardInv` adds where every event is: `Heard`, the profile has come to the panel or is on
its way; `StoreHears`, every event of a service has come to the store or is queued for it;
and `Spins`, a spinner that no key asked for belongs to an event the panel does not show
yet.  From these `PanelSettles` proves `TickSettles`: when nothing is on its way one tick
shows the last event of every service, whatever was delayed or came out of order before,
and neither a tick nor a key undoes that until something is published.  `Settles` is what
remains when the scheduler lets the queues run empty.  `TickSettles` is an action property
in no run; TLC finds no violation of it on the instance of `ui_state`.

**`ServicesUIProofs`.**  `SelectionInv` says that the index is within the list it points into
(`InRange`), which list that is (`Lists`), and that the remembered service is the highlighted
one (`Remembers`).  `Filtered` is a recursive function; `FilteredIsPicked` gives its equation and
`FilteredType` says that it selects services, among which `IndexFinds` finds the one that was
highlighted.  `ProfileOnce` is needed because the list is set by a message: the profile is
published once, and the panel knows no service before.  `Hears` is what `BothEnd` has of
safety: a program that is up always waits for a message or has one in hand, and the last
phase is on its way to it.

| theorem | property | run that checks it |
|---|---|---|
| `RegistryTypeOK`, `RegistryOneMap`, `RegistryTrackedOnce`, `RegistryWaitGroup`, `RegistryOrders` | (about callers that keep to the registry's rules) | none of its own; `RegistryConsistent` |
| `OrchestratorRegistry`, `OrchestratorRegistryConsistent` | `RegistrySpec`, `RegistryConsistent` | `orch_commands`, `orch_tiers` |
| `OrchestratorGuard`, `OrchestratorSlots`, `OrchestratorRemoved`, `OrchestratorSilent` | `GuardExclusive`, `SlotsExact`, `RemovedMeansGone`, `IntendedStopSilent` | `orch_commands` |
| `ResolvedTiers` | `TierAssumption`, of every configuration that resolves | none; `config` |
| `TiersFollowText` | `TiersAsDeclared`, but for the agreement of the two parsers | none of its own; `config` |
| `OrchestratorTiers`, `RunnerTierReady` | `TiersInOrder`, `TierReadyMeansStarted` | `orch_tiers` |
| `RunnerInTransit`, `RunnerTrackedIsWatched` | the safety parts of `RestartResolves` and `ShutdownCompletes` | none of their own; `orch_live` |
| `RunnerRunningIsRegistered`, `RunnerNoneLost` | `RunningIsRegistered`, `NoneLost` (the latter without a panel) | `orch_commands` |
| `RunnerShutdownInOrder` | `ShutdownInOrder` | `orch_tiers` |
| `RunnerStrictlyInOrder`, `RunnerSnapshotGone` | without a panel: the order without exemption; the snapshot at the end | none |
| `ProfileRunCleanedUp`, `ProfileRunOrchestrated` | `CleanedUp`; refinement of `Orchestrator!Spec` | `orch_live`; none |
| `BusNoSendOnClosed`, `BusCriticalKept`, `BusDelivers` | `NoSendOnClosed`, `CriticalKept`, `DeliversInOrder` | `bus` |
| `BusReceivedInFull` | what `Orchestrator` and `ServicesState` assume of their queues | none of its own; `bus` |
| `BusPumpWoken` | the safety part of `CriticalDelivered` | none of its own; `bus` |
| `StoreCounts`, `StoreLatestWins`, `StoreUsage`, `StoreNothingLeftOver` | `CountsExact`, `LatestWins`, `UsageOfShownPid`, `NothingLeftOver` | `store` |
| `RelayHistory`, `RelayOpen`, `RelayStream`, `RelayReplay` | `HistoryIsLast`, `OpenWhileRegistered`, `StreamExact`, `ReplayWhole` | `relay` |
| `RelayQuietAfterStop`, `RelayStopUnblocked` | the safety parts of `StopReturns` | none of their own; `relay` |
| `WatcherWatchKept`, `WatcherChangeNotLost` | `WatchKept`, `ChangeNotLost` | `watcher` |
| `PanelNewest`, `PanelTimeline` | `UINewest`, `StartupOnTimeline` | `ui_state` |
| `PanelSettles` | the safety part of `Settles` (`TickSettles`) | none of its own; `ui_state` |
| `PanelSelection` | `SelectionStays` | `ui` |
| `PanelHears` | the safety part of `BothEnd` | none of its own; `ui` |
| `OrchestratorTypeOK`, `StoreTypeOK`, `WatcherTypeOK` | types | none |

*Model-checked only.*  Liveness, which is out of the prover's reach under fairness:
`ShutdownCompletes`, `RestartResolves`, `CriticalDelivered`, `CloseReturns`,
`SamplingResumes`, `StopReturns`, `ChangeReported`, `Settles`, `BothEnd`; of those that
have a safety part worth stating it is proved (table above).  And what a document
means: `MergeIsOverlay`, `AliasesFollowAnchors`, and of `TiersAsDeclared` that the two
parsers agree, are about trees of any depth, for which `Yaml` and `Config` use recursive
operators; the prover has no induction over data for them.

## 5. Findings

Where the code does something else than a document or comment says:
* **`orch_orphan`.**  `shutdown` takes one snapshot (`runner/runner.go:411`).  A goroutine
  that is launching a process at that moment adds it later, and nobody stops it:
  `PhaseStopped` is published while it runs, although `ARCHITECTURE.md:146` says that all
  services are terminated then.
* **`ui_quit`.**  `Run` subscribes to the bus after the preflight (`runner/runner.go:127`),
  and never if the profile does not resolve (`:87`).  A `q` before that publishes a
  `StopAll` that reaches nobody, and sets `shuttingDown`, after which every key but ctrl+c
  is ignored (`ui/services/update.go:130`).  `README.md:95` says that q quits.

Three more are stated as invariants that no run lists; added to the configuration of a
run, TLC finds each of them violated:
* **`StoppedByTier`, with `OrchTiers.cfg`.**  `docs/src/pages/features/lifecycle.astro:28`
  and `:56` say that services stop in reverse tier order.  Shutdown works off
  `SnapshotReverse`, the reverse order of registration (`runner/runner.go:411`), and a
  restart registers its service anew at the end, whatever its tier.  `:59` says that
  services stop concurrently within a tier; the code stops one service at a time.
* **`OwnProcessSpared`, with `OrchLive.cfg`.**  `matchProcesses` passes over fuku's own
  pid, and a test calls that "Skips own PID" (`preflight/preflight_test.go:98`).  But
  SIGTERM, and SIGKILL at the deadline, go to the process group whose id is the pid found
  (`preflight/preflight.go:243`, `:229`).  When that process leads the group in which fuku
  runs, as `make run` in the directory of a service does, fuku cancels its own start, and
  kills itself if the leader has not ended by the deadline.  Other processes in such a
  group are hit in the same way, wherever they run.
* **`TiersInTextOrder`, with `Config.cfg`.**  Once an override is merged, `resolveAliases`
  writes out the mappings that a list of aliases below a merge key names
  (`src/internal/config/merge.go:335`).  The decoder merges them; `mergeKeyTargets` takes
  only aliases from a list (`:272`), so that `parseTierOrder` does not see a tier that
  comes from there.  The service runs at the place that its tier gets from another service,
  or, if no other names that tier, with the default tier at the end.  The same goes for
  mappings written out in a list by hand.  `docs/src/pages/docs/configuration.astro:103`
  says that first appearance in the file is the order.

Met on the way, without a property of its own.  Each is what the models do, except where
the text says that the models leave it out.
* *Two processes, one forgotten.*  `doStart` publishes `ServiceReady` before `Start`
  registers the process, and the start at startup does not hold the guard.  A restart
  from the UI between the two starts a second process, and the later `Add` overwrites
  the earlier entry (`registry/registry.go:44`).  `NoneLost` fails with `UI = TRUE`.
* *Shown failed while it runs.*  `watchForExit` removes the entry, then publishes
  (`runner/service.go:449`).  A restart in between publishes `ServiceReady` first, and the
  service is shown as failed while its new process runs, although `ARCHITECTURE.md:676`
  calls the store's snapshot consistent.
* *Shown stopped while it runs.*  `Stop` looks the process up, publishes `ServiceStopping`,
  and then detaches whatever is registered by then (`runner/service.go:325`).  If a restart
  has replaced the process meanwhile, the new one is detached, goes on, and is shown as
  stopped; a start is refused because it is still registered.  Shutdown does stop it.
  It is also shown so when `ServiceStopped` is published after the `ServiceReady` of a
  restart that has yet to register.
* *A cancelled start.*  A `Start` that is cancelled during its backoff publishes no
  `ServiceFailed`.
* *Nested new directories.*  `register` adds a new directory but does not walk it
  (`watcher/watcher.go:322`): what was made below it before is never watched, against
  `docs/src/pages/features/hot-reload.astro:29`.
* *A walk that fails.*  `startWatching` gives up when the walk of the service's directory
  fails (`watcher/watcher.go:143`), and goes on without a shared directory whose walk
  fails; what such a walk had entered in the registry and given to fsnotify stays, and no
  `stopWatching` removes it.
* *Tiers and aliases.*  A service that is an alias (or whose `tier` is one, or
  `defaults`), in a file without an override, is not seen by `parseTierOrder`, which reads
  nodes and not their meaning: the order lacks its tier
  (`docs/src/pages/docs/configuration.astro:103`).
  A blank tier counts as `defaults.tier` there and as "default" in discovery.
* *Merges that are lost or refused.*  An override of a mapping that merges a list with
  mappings written out loses what these would have brought, as `flattenMergeKeys` passes
  over them in the merge, too.  An override that makes a scalar of an anchor which a
  merge key of the base names leaves a document that the decoder refuses, so that
  loading ends in an error.
* *Overrides and anchors.*  An override that only reuses an anchor of the base is parsed
  with the base's definitions in front, so that sequences in them are concatenated with
  themselves.  A mapping that an override touches gets what `<<` anchors held before the
  merge.  An override that uses an anchor inside its own definition would recurse for
  ever; documents of that form are left out.
* *A spinner that stays.*  A key on a service whose command is then refused leaves its
  spinner until the next event (`ui/services/model.go:436`), which `Settled` exempts.
* *A failed resolve.*  With a UI the runner's error is shown only after ctrl+c.
* *Preflight.*  It kills every process whose working directory is a service's: a shell or
  an editor there, too.
* *A deadline.*  fx gives `OnStop` 15 s by default (`app.go:95`), the sequential shutdown
  may take longer with several stubborn services.  Time is not modelled.

## 6. Next

Socket files among several instances and their cleanup; a module that composes `Bus`
with `Orchestrator` or `ServicesState`, whose queues `BusReceivedInFull` justifies
message by message but not as a refinement of one module by the other.

## 7. Not modelled

| part | why |
|---|---|
| HTTP API (`api/`) but for its gate on commands | routing, authentication, JSON |
| Readiness probes (`readiness/`) but for their outcome | I/O |
| Process groups and signals of fuku's own services, output streams (`lifecycle/`, `runner/`) | the operating system's; `Orchestrator` has the `Done` channel and death after a signal, `Preflight` has the groups of the processes it finds |
| Socket file, wire format and the bridge's formatting (`relay/`) | I/O and formatting |
| Command line, dependency injection, `fuku init` | parsing and wiring |
| Sampling of the operating system (`monitor/`) | I/O; `Store` has what is done with it |
| Metrics, tracing, error reporting | no state of the system depends on them |
| Rendering, layout, themes, log formatting | wording and layout |
| Store: phase, profile name, uptime, display order | plain copies of a message |
| Panel: scrolling, tips, resizing, usage figures | layout |
| Configuration: fields that are only copied, log formats | no decision depends on them |
