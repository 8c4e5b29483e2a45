--------------------------- MODULE WatcherProofs ---------------------------
(***************************************************************************)
(* Proofs about the file watcher for any tree of directories, services,    *)
(* patterns, restarts and changes: no watched directory is forgotten, and  *)
(* no change that fsnotify saw is lost.                                    *)
(***************************************************************************)
EXTENDS Watcher, SequenceTheorems, TLAPS

\* A service's debouncer is its newest, and ends only after its watching.
Lives ==
  /\ \A s \in Services :
       /\ gen[s] # 0 => owner[gen[s]] = s /\ gen[s] \notin cancelled /\ gen[s] <= next
       /\ gen[s] = 0 => list[s] = {}
  /\ \A g \in cancelled : g <= next
  /\ \A g \in 1..next : owner[g] \in Services
  /\ stopped \subseteq cancelled
  /\ closed => \A s \in Services : gen[s] = 0

\* What was collected belongs to a debouncer that was made.
Collections ==
  /\ \A g \in Gens : files[g] # {} => g <= next
  /\ \A e \in emits : e.gen <= next /\ e.svc = owner[e.gen]

\* A change is unreported while its service watches.
Changes == \A u \in unreported : gen[u[1]] # 0 /\ u[1] \in registry[u[2]]

\* The directories there are, and those that fsnotify watches.
OnDisk ==
  /\ \A d \in disk : Parent[d] # None => Parent[d] \in disk
  /\ fs \subseteq disk
  /\ closed => fs = {} /\ announced = {}
  /\ \A i \in 1..Len(events) : events[i].op = "create" => Parent[events[i].dir] # None
  /\ adding # None => Parent[adding.dir] # None

\* A directory in a service's list is registered for it.
Listed == \A s \in Services : \A d \in list[s] : s \in registry[d]

CreateAt(i, d) == events[i].op = "create" /\ events[i].dir = d

NoCreate(d) == \A i \in 1..Len(events) : ~CreateAt(i, d)

Entered(s, d) == d \in fs /\ s \in registry[d]

\* The creation of d is behind every creation of its parent.
Announced(d) ==
  \E i \in 1..Len(events) :
    CreateAt(i, d) /\ \A j \in 1..Len(events) : j > i => ~CreateAt(j, Parent[d])

\* Register has d in hand, for s if s watches the parent.
InHand(s, d) ==
  /\ adding # None /\ adding.dir = d /\ NoCreate(Parent[d])
  /\ (s \in adding.targets /\ gen[s] # 0) \/ Parent[d] \notin list[s]

\* The parent is none of the directories of s and is not about to be one.
Foreign(s, d) ==
  /\ Parent[d] \notin list[s] /\ NoCreate(Parent[d])
  /\ adding # None => adding.dir # Parent[d]

Kept(s, d) == Entered(s, d) \/ Announced(d) \/ InHand(s, d) \/ Foreign(s, d)

Due(s, d) == <<s, d>> \in announced /\ d \in disk /\ Parent[d] # None /\ d \notin Ignored[s]

AllKept == \A s \in Services, d \in Dirs : Due(s, d) => Kept(s, d)

IInv ==
  /\ TypeOK /\ Lives /\ Collections /\ Changes /\ ChangeNotLost
  /\ OnDisk /\ Listed /\ AllKept

USE DEF diskVars, manVars, debVars

-----------------------------------------------------------------------------
(* Types *)

ManTypes ==
  /\ closed \in BOOLEAN
  /\ gen \in [Services -> 0..MaxGen] /\ next \in 0..MaxGen
  /\ owner \in [Gens -> Services \cup {None}]
  /\ list \in [Services -> SUBSET Dirs] /\ registry \in [Dirs -> SUBSET Services]

DiskTypes ==
  /\ disk \subseteq Dirs /\ fs \subseteq Dirs /\ changes \in 0..MaxChanges
  /\ announced \subseteq Services \X Dirs /\ unreported \subseteq Services \X Dirs

Event == [op : {"write", "create"}, dir : Dirs]

EventTypes ==
  /\ events \in Seq(Event)
  /\ adding \in {None} \cup [dir : Dirs, targets : SUBSET Services]

DebTypes ==
  /\ files \in [Gens -> SUBSET Dirs] /\ armed \in [Gens -> BOOLEAN]
  /\ stray \in [Gens -> Nat] /\ waiting \in [Gens -> Nat]
  /\ cancelled \subseteq Gens /\ stopped \subseteq Gens

Emit == [gen : Gens, svc : Services, files : SUBSET Dirs, open : BOOLEAN]

EmitTypes == emits \subseteq Emit

\* TypeOK is all of these.
LEMMA Types == TypeOK <=> ManTypes /\ DiskTypes /\ EventTypes /\ DebTypes /\ EmitTypes
  BY DEF TypeOK, ManTypes, DiskTypes, EventTypes, DebTypes, EmitTypes, Event, Emit

\* Who watches is a service.
LEMMA WatchersTyped ==
  ASSUME TypeOK, NEW d \in Dirs
  PROVE  Watchers(d) \subseteq Services
  BY Types DEF ManTypes, Watchers

\* A walk stays on the disk.
LEMMA WalksOnDisk ==
  ASSUME NEW s \in Services, NEW b \in Dirs
  PROVE  WalkOf(s, b) \subseteq disk /\ \A V \in PartsOf(s, b) : V \subseteq disk
  BY DEF WalkOf, PartsOf

\* What StartWatching enters is on the disk, and its list is part of it.
LEMMA StartsOnDisk ==
  ASSUME NEW s \in Services, NEW W \in [Shared[s] -> SUBSET disk]
  PROVE  LET V == WalkOf(s, Root[s]) \cup UNION {W[b] : b \in Shared[s]}
             L == WalkOf(s, Root[s]) \cup UNION {W[b] : b \in {b \in Shared[s] : W[b] = WalkOf(s, b)}}
         IN  V \subseteq disk /\ L \subseteq V
  BY WatcherAssumption DEF WalkOf

\* The manager's variables keep their types.
LEMMA ManTypesPreserved == ASSUME TypeOK, OnDisk, Next PROVE ManTypes'
<1> USE WatcherAssumption DEF ManTypes
<1>t. ManTypes /\ DiskTypes /\ EventTypes
  BY Types
<1>1. ASSUME NEW s \in Services, StartFails(s) PROVE ManTypes'
  <2>1. PICK V \in PartsOf(s, Root[s]) : Enter(s, V)
    BY <1>1 DEF StartFails
  <2>2. registry' \in [Dirs -> SUBSET Services]
    BY <1>t, <2>1 DEF Enter
  <2> QED  BY <1>t, <1>1, <2>2 DEF StartFails
<1>2. ASSUME NEW s \in Services, StartWatching(s) PROVE ManTypes'
  <2>1. PICK W \in [Shared[s] -> SUBSET disk] :
          /\ Enter(s, WalkOf(s, Root[s]) \cup UNION {W[b] : b \in Shared[s]})
          /\ list' = [list EXCEPT ![s] = WalkOf(s, Root[s]) \cup
                        UNION {W[b] : b \in {b \in Shared[s] : W[b] = WalkOf(s, b)}}]
    BY <1>2 DEF StartWatching
  <2>2. registry' \in [Dirs -> SUBSET Services]
    BY <1>t, <2>1 DEF Enter
  <2>3. list' \in [Services -> SUBSET Dirs]
    BY <1>t, <2>1, StartsOnDisk DEF DiskTypes
  <2>4. next' = next + 1 /\ next' \in 1..MaxGen
    BY <1>t, <1>2 DEF StartWatching
  <2>5. gen' = [gen EXCEPT ![s] = next'] /\ owner' = [owner EXCEPT ![next'] = s] /\ closed' = closed
    BY <1>2 DEF StartWatching
  <2> QED  BY <1>t, <2>2, <2>3, <2>4, <2>5 DEF Gens
<1>3. ASSUME NEW s \in Services, StopWatching(s) PROVE ManTypes'
  <2>1. registry' \in [Dirs -> SUBSET Services]
    BY <1>t, <1>3 DEF StopWatching, Unregister
  <2> QED  BY <1>t, <1>3, <2>1 DEF StopWatching
<1>4. CASE Close
  BY <1>t, <1>4 DEF Close
<1>5. CASE HandleWrite \/ HandleCreate
  BY <1>t, <1>5 DEF HandleWrite, HandleCreate
<1>6. CASE Register
  <2>1. adding.dir \in Dirs /\ adding.targets \subseteq Services
    BY <1>t, <1>6 DEF Register, EventTypes
  <2>2. UNCHANGED <<closed, gen, next, owner>>
    BY <1>6 DEF Register
  <2>3. CASE closed \/ adding.dir \notin disk
    BY <1>t, <1>6, <2>2, <2>3 DEF Register
  <2>4. CASE ~(closed \/ adding.dir \notin disk)
    BY <1>t, <1>6, <2>1, <2>2, <2>4 DEF Register
  <2> QED  BY <2>3, <2>4
<1>7. CASE EmitStep
  BY <1>t, <1>7 DEF EmitStep, EmitCheck, EmitPublish
<1>8. ASSUME NEW g \in Gens, TimerStep(g) \/ DebouncerStop(g) PROVE ManTypes'
  BY <1>t, <1>8 DEF TimerStep, Expire, ExpireStray, Fire, DebouncerStop
<1>9. ASSUME NEW d \in Dirs, Write(d) \/ MakeDir(d) \/ RemoveDir(d) PROVE ManTypes'
  BY <1>t, <1>9 DEF Write, MakeDir, RemoveDir
<1> QED  BY <1>1, <1>2, <1>3, <1>4, <1>5, <1>6, <1>7, <1>8, <1>9 DEF Next, EventStep

\* Those about the file system keep theirs.
LEMMA DiskTypesPreserved == ASSUME TypeOK, Next PROVE DiskTypes'
<1> USE WatcherAssumption DEF DiskTypes
<1>t. ManTypes /\ DiskTypes /\ EventTypes
  BY Types
<1>1. ASSUME NEW s \in Services, NEW V, V \subseteq disk, Enter(s, V), UNCHANGED <<disk, changes, unreported>>
      PROVE  DiskTypes'
  BY <1>t, <1>1 DEF Enter
<1>2. ASSUME NEW s \in Services, StartFails(s) \/ StartWatching(s) PROVE DiskTypes'
  <2>1. UNCHANGED <<disk, changes, unreported>>
    BY <1>2 DEF StartFails, StartWatching
  <2>2. CASE StartFails(s)
    BY <1>1, <2>1, <2>2, WalksOnDisk DEF StartFails
  <2>3. CASE StartWatching(s)
    BY <1>1, <2>1, <2>3, StartsOnDisk DEF StartWatching
  <2> QED  BY <1>2, <2>2, <2>3
<1>3. ASSUME NEW s \in Services, StopWatching(s) PROVE DiskTypes'
  BY <1>t, <1>3 DEF StopWatching, Unregister
<1>4. CASE Close
  BY <1>t, <1>4 DEF Close
<1>5. CASE HandleWrite \/ HandleCreate
  BY <1>t, <1>5 DEF HandleWrite, HandleCreate
<1>6. CASE Register
  <2>1. fs' = fs \/ fs' = fs \cup {adding.dir}
    BY <1>6 DEF Register
  <2>2. adding.dir \in Dirs
    BY <1>t, <1>6 DEF Register, EventTypes
  <2> QED  BY <1>t, <1>6, <2>1, <2>2 DEF Register
<1>7. ASSUME NEW e \in emits, EmitCheck(e) \/ EmitPublish(e) PROVE DiskTypes'
  BY <1>t, <1>7 DEF EmitCheck, EmitPublish
<1>8. ASSUME NEW g \in Gens, TimerStep(g) \/ DebouncerStop(g) PROVE DiskTypes'
  BY <1>t, <1>8 DEF TimerStep, Expire, ExpireStray, Fire, DebouncerStop
<1>9. ASSUME NEW d \in Dirs, Write(d) PROVE DiskTypes'
  <2>1. Watchers(d) \X {d} \subseteq Services \X Dirs
    BY WatchersTyped
  <2> QED  BY <1>t, <1>9, <2>1 DEF Write
<1>10. ASSUME NEW d \in Dirs, MakeDir(d) \/ RemoveDir(d) PROVE DiskTypes'
  BY <1>t, <1>10 DEF MakeDir, RemoveDir
<1> QED  BY <1>2, <1>3, <1>4, <1>5, <1>6, <1>7, <1>8, <1>9, <1>10 DEF Next, EventStep, EmitStep

\* Events and what is being registered keep theirs.
LEMMA EventTypesPreserved == ASSUME TypeOK, OnDisk, Next PROVE EventTypes'
<1> USE WatcherAssumption DEF EventTypes
<1>t. ManTypes /\ DiskTypes /\ EventTypes
  BY Types
<1>1. ASSUME NEW s \in Services, StartFails(s) \/ StartWatching(s) \/ StopWatching(s) PROVE EventTypes'
  BY <1>t, <1>1 DEF StartFails, StartWatching, StopWatching
<1>2. CASE Close
  <2>1. <<>> \in Seq(Event)
    OBVIOUS
  <2> QED  BY <1>t, <1>2, <2>1 DEF Close
<1>3. CASE HandleWrite \/ HandleCreate
  <2>1. events # <<>> /\ events' = Tail(events)
    BY <1>3 DEF HandleWrite, HandleCreate
  <2>2. Tail(events) \in Seq(Event) /\ Head(events) = events[1] /\ 1 \in 1..Len(events) /\ Head(events) \in Event
    BY <1>t, <2>1, HeadTailProperties, EmptySeq, LenProperties
  <2>3. adding' \in {None} \cup [dir : Dirs, targets : SUBSET Services]
    <3>1. CASE HandleWrite
      BY <1>t, <3>1 DEF HandleWrite
    <3>2. CASE HandleCreate
      <4> DEFINE d == Head(events).dir
      <4>1. d \in Dirs /\ Parent[d] \in Dirs
        BY <2>2, <3>2 DEF HandleCreate, OnDisk, Event
      <4>2. {s \in Watchers(Parent[d]) : d \notin Ignored[s]} \subseteq Services
        BY <4>1, WatchersTyped
      <4> QED  BY <3>2, <4>1, <4>2 DEF HandleCreate
    <3> QED  BY <1>3, <3>1, <3>2
  <2> QED  BY <2>1, <2>2, <2>3
<1>4. CASE Register
  BY <1>t, <1>4 DEF Register
<1>5. ASSUME NEW e \in emits, EmitCheck(e) \/ EmitPublish(e) PROVE EventTypes'
  BY <1>t, <1>5 DEF EmitCheck, EmitPublish
<1>6. ASSUME NEW g \in Gens, TimerStep(g) \/ DebouncerStop(g) PROVE EventTypes'
  BY <1>t, <1>6 DEF TimerStep, Expire, ExpireStray, Fire, DebouncerStop
<1>7. ASSUME NEW d \in Dirs, Write(d) \/ MakeDir(d) \/ RemoveDir(d) PROVE EventTypes'
  <2>1. [op |-> "write", dir |-> d] \in Event /\ [op |-> "create", dir |-> d] \in Event
    BY DEF Event
  <2>2. UNCHANGED adding /\ \/ events' = events \/ events' = Append(events, [op |-> "write", dir |-> d])
                            \/ events' = Append(events, [op |-> "create", dir |-> d])
    BY <1>7 DEF Write, MakeDir, RemoveDir
  <2>3. \A x \in Event : Append(events, x) \in Seq(Event)
    BY <1>t, AppendProperties
  <2>4. Append(events, [op |-> "write", dir |-> d]) \in Seq(Event) /\ Append(events, [op |-> "create", dir |-> d]) \in Seq(Event)
    BY <2>1, <2>3
  <2>5. events' \in Seq(Event)
    BY <1>t, <2>2, <2>4
  <2> QED  BY <1>t, <2>2, <2>5
<1> QED  BY <1>1, <1>2, <1>3, <1>4, <1>5, <1>6, <1>7 DEF Next, EventStep, EmitStep

\* The debouncers keep theirs.
LEMMA DebTypesPreserved == ASSUME TypeOK, Next PROVE DebTypes'
<1> USE DEF DebTypes
<1>t. ManTypes /\ DebTypes /\ EventTypes
  BY Types
<1>1. ASSUME NEW s \in Services, StartFails(s) \/ StartWatching(s) PROVE DebTypes'
  BY <1>t, <1>1 DEF StartFails, StartWatching
<1>2. ASSUME NEW s \in Services, StopWatching(s) PROVE DebTypes'
  <2>1. gen[s] \in Gens
    BY <1>t, <1>2, WatcherAssumption DEF StopWatching, ManTypes, Gens
  <2> QED  BY <1>t, <1>2, <2>1 DEF StopWatching
<1>3. CASE Close
  <2>1. {gen[s] : s \in {s \in Services : gen[s] # 0}} \subseteq Gens
    BY <1>t, WatcherAssumption DEF ManTypes, Gens
  <2> QED  BY <1>t, <1>3, <2>1 DEF Close
<1>4. CASE HandleWrite
  <2>1. events # <<>> /\ Head(events) \in Event
    BY <1>t, <1>4, HeadTailProperties DEF HandleWrite, EventTypes
  <2>2. Head(events).dir \in Dirs
    BY <2>1 DEF Event
  <2>3. files' \in [Gens -> SUBSET Dirs]
    BY <1>t, <1>4, <2>2 DEF HandleWrite, Trigger
  <2>4. armed' \in [Gens -> BOOLEAN]
    BY <1>t, <1>4 DEF HandleWrite, Trigger
  <2> QED  BY <1>t, <1>4, <2>3, <2>4 DEF HandleWrite
<1>5. CASE HandleCreate \/ Register
  BY <1>t, <1>5 DEF HandleCreate, Register
<1>6. ASSUME NEW e \in emits, EmitCheck(e) \/ EmitPublish(e) PROVE DebTypes'
  BY <1>t, <1>6 DEF EmitCheck, EmitPublish
<1>7. ASSUME NEW g \in Gens, Expire(g) PROVE DebTypes'
  BY <1>t, <1>7 DEF Expire
<1>8. ASSUME NEW g \in Gens, ExpireStray(g) PROVE DebTypes'
  BY <1>t, <1>8 DEF ExpireStray
<1>9. ASSUME NEW g \in Gens, Fire(g) PROVE DebTypes'
  <2>1. waiting' \in [Gens -> Nat] /\ UNCHANGED <<cancelled, stopped>>
    BY <1>t, <1>9 DEF Fire
  <2>2. files' \in [Gens -> SUBSET Dirs]
    BY <1>t, <1>9 DEF Fire
  <2>3. armed' \in [Gens -> BOOLEAN]
    BY <1>t, <1>9 DEF Fire
  <2>4. stray' \in [Gens -> Nat]
    BY <1>t, <1>9 DEF Fire
  <2> QED  BY <1>t, <2>1, <2>2, <2>3, <2>4
<1>10. ASSUME NEW g \in Gens, DebouncerStop(g) PROVE DebTypes'
  BY <1>t, <1>10 DEF DebouncerStop
<1>11. ASSUME NEW d \in Dirs, Write(d) \/ MakeDir(d) \/ RemoveDir(d) PROVE DebTypes'
  BY <1>t, <1>11 DEF Write, MakeDir, RemoveDir
<1> QED  BY <1>1, <1>2, <1>3, <1>4, <1>5, <1>6, <1>7, <1>8, <1>9, <1>10, <1>11 DEF Next, EventStep, EmitStep, TimerStep


\* A callback that has seen m.closed is otherwise the same.
LEMMA Opened ==
  ASSUME NEW e \in Emit
  PROVE  LET x == [e EXCEPT !.open = TRUE]
         IN  x \in Emit /\ x.gen = e.gen /\ x.svc = e.svc /\ x.files = e.files
  BY Zenon DEF Emit

\* Callbacks keep theirs: a debouncer that collected was made for a service.
LEMMA EmitTypesPreserved == ASSUME TypeOK, Lives, Collections, Next PROVE EmitTypes'
<1> USE DEF EmitTypes
<1>t. ManTypes /\ DebTypes /\ EmitTypes
  BY Types
<1>1. ASSUME UNCHANGED emits PROVE EmitTypes'
  BY <1>t, <1>1
<1>2. ASSUME NEW s \in Services, StartFails(s) \/ StartWatching(s) \/ StopWatching(s) PROVE EmitTypes'
  BY <1>1, <1>2 DEF StartFails, StartWatching, StopWatching
<1>3. CASE Close \/ EventStep
  BY <1>1, <1>3 DEF Close, EventStep, HandleWrite, HandleCreate, Register
<1>4. ASSUME NEW e \in emits, EmitCheck(e) PROVE EmitTypes'
  <2>1. [e EXCEPT !.open = TRUE] \in Emit
    BY <1>t, <1>4, Opened
  <2>2. emits' \subseteq emits \cup {[e EXCEPT !.open = TRUE]}
    BY <1>4 DEF EmitCheck
  <2> QED  BY <1>t, <2>1, <2>2
<1>5. ASSUME NEW e \in emits, EmitPublish(e) PROVE EmitTypes'
  BY <1>t, <1>5 DEF EmitPublish
<1>6. ASSUME NEW g \in Gens, Expire(g) \/ ExpireStray(g) \/ DebouncerStop(g) PROVE EmitTypes'
  BY <1>1, <1>6 DEF Expire, ExpireStray, DebouncerStop
<1>7. ASSUME NEW g \in Gens, Fire(g) PROVE EmitTypes'
  <2>1. CASE g \in stopped \/ files[g] = {}
    BY <1>1, <1>7, <2>1 DEF Fire
  <2>2. CASE ~(g \in stopped \/ files[g] = {})
    <3> DEFINE e == [gen |-> g, svc |-> owner[g], files |-> files[g], open |-> FALSE]
    <3>1. emits' = emits \cup {e}
      BY <1>7, <2>2 DEF Fire
    <3>2. g \in 1..next
      <4>1. g <= next /\ next \in Nat /\ g \in Nat /\ g >= 1
        BY <1>t, <2>2, WatcherAssumption DEF Collections, Gens, ManTypes
      <4> QED  BY <4>1
    <3>3. owner[g] \in Services /\ files[g] \in SUBSET Dirs /\ FALSE \in BOOLEAN
      BY <1>t, <3>2 DEF Lives, DebTypes
    <3>4. e \in Emit
      BY <3>3, Zenon DEF Emit
    <3> QED  BY <1>t, <3>1, <3>4
  <2> QED  BY <2>1, <2>2
<1>8. ASSUME NEW d \in Dirs, Write(d) \/ MakeDir(d) \/ RemoveDir(d) PROVE EmitTypes'
  BY <1>1, <1>8 DEF Write, MakeDir, RemoveDir
<1> QED  BY <1>2, <1>3, <1>4, <1>5, <1>6, <1>7, <1>8 DEF Next, EmitStep, TimerStep

\* All types together.
LEMMA TypesPreserved == ASSUME TypeOK, Lives, Collections, OnDisk, Next PROVE TypeOK'
<1>1. ManTypes' /\ DiskTypes' /\ EventTypes' /\ DebTypes' /\ EmitTypes'
  BY ManTypesPreserved, DiskTypesPreserved, EventTypesPreserved, DebTypesPreserved, EmitTypesPreserved
<1> QED  BY <1>1 DEF TypeOK, ManTypes, DiskTypes, EventTypes, DebTypes, EmitTypes, Event, Emit

-----------------------------------------------------------------------------
(* Watchers, debouncers and directories *)

\* A debouncer is made for one service and lives until its watching ends.
LEMMA LivesPreserved == ASSUME TypeOK, Lives, Next PROVE Lives'
<1> USE WatcherAssumption DEF Lives
<1>t. ManTypes /\ DebTypes /\ EventTypes
  BY Types
<1>1. ASSUME UNCHANGED <<manVars, cancelled, stopped>> PROVE Lives'
  BY <1>1
<1>2. ASSUME NEW s \in Services, StartFails(s) PROVE Lives'
  BY <1>2 DEF StartFails
<1>3. ASSUME NEW s \in Services, StartWatching(s) PROVE Lives'
  <2>1. next' = next + 1 /\ next' \in Gens /\ UNCHANGED <<cancelled, stopped, closed>>
    BY <1>t, <1>3 DEF StartWatching, ManTypes, Gens
  <2>2. gen' = [gen EXCEPT ![s] = next'] /\ owner' = [owner EXCEPT ![next'] = s] /\ ~closed
    BY <1>3 DEF StartWatching
  <2>3. \A r \in Services \ {s} : list'[r] = list[r]
    BY <1>t, <1>3 DEF StartWatching, ManTypes
  <2>4. next \in Nat /\ cancelled \subseteq Gens /\ gen \in [Services -> 0..MaxGen] /\ owner \in [Gens -> Services \cup {None}]
    BY <1>t DEF ManTypes, DebTypes
  <2>5. next' \notin cancelled
    BY <2>1, <2>4 DEF Gens
  <2>6. \A g \in 1..next : owner'[g] = owner[g]
    BY <2>1, <2>2, <2>4 DEF Gens
  <2>7. ASSUME NEW r \in Services
        PROVE /\ gen'[r] # 0 => owner'[gen'[r]] = r /\ gen'[r] \notin cancelled' /\ gen'[r] <= next'
              /\ gen'[r] = 0 => list'[r] = {}
    <3>1. CASE r = s
      <4>1. gen'[r] = next' /\ owner'[next'] = s
        BY <2>1, <2>2, <2>4, <3>1
      <4>2. next' # 0 /\ next' <= next'
        BY <2>1, <2>4
      <4> QED  BY <2>1, <2>5, <3>1, <4>1, <4>2
    <3>2. CASE r # s
      <4>1. gen'[r] = gen[r] /\ list'[r] = list[r] /\ gen[r] \in Nat
        BY <2>2, <2>3, <2>4, <3>2
      <4>2. gen[r] # 0 => gen[r] \in 1..next /\ gen[r] <= next'
        BY <2>1, <2>4, <4>1
      <4> QED  BY <2>1, <2>6, <4>1, <4>2
    <3> QED  BY <3>1, <3>2
  <2>8. \A g \in cancelled' : g <= next'
    BY <2>1, <2>4 DEF Gens
  <2>9. \A g \in 1..next' : owner'[g] \in Services
    BY <2>1, <2>2, <2>4, <2>6
  <2> QED  BY <2>1, <2>2, <2>7, <2>8, <2>9
<1>4. ASSUME NEW s \in Services, StopWatching(s) PROVE Lives'
  <2>1. \A r \in Services \ {s} : gen'[r] = gen[r] /\ list'[r] = list[r]
    BY <1>t, <1>4 DEF StopWatching, ManTypes
  <2>2. gen'[s] = 0 /\ list'[s] = {} /\ cancelled' = cancelled \cup {gen[s]}
    BY <1>t, <1>4 DEF StopWatching, ManTypes
  <2>3. \A r \in Services \ {s} : gen[r] # 0 => gen[r] # gen[s]
    BY <1>4 DEF StopWatching
  <2>4. UNCHANGED <<next, owner, stopped, closed>>
    BY <1>4 DEF StopWatching
  <2> QED  BY <1>4, <2>1, <2>2, <2>3, <2>4 DEF StopWatching
<1>5. CASE Close
  BY <1>t, <1>5 DEF Close, ManTypes
<1>6. CASE HandleWrite \/ HandleCreate
  BY <1>1, <1>6 DEF HandleWrite, HandleCreate
<1>7. CASE Register
  <2>1. UNCHANGED <<gen, owner, next, closed, cancelled, stopped>>
    BY <1>7 DEF Register
  <2>2. \A s \in Services : gen[s] = 0 => list'[s] = list[s]
    BY <1>t, <1>7 DEF Register, ManTypes
  <2> QED  BY <2>1, <2>2
<1>8. ASSUME NEW e \in emits, EmitCheck(e) \/ EmitPublish(e) PROVE Lives'
  BY <1>1, <1>8 DEF EmitCheck, EmitPublish
<1>9. ASSUME NEW g \in Gens, TimerStep(g) PROVE Lives'
  BY <1>1, <1>9 DEF TimerStep, Expire, ExpireStray, Fire
<1>10. ASSUME NEW g \in Gens, DebouncerStop(g) PROVE Lives'
  BY <1>10 DEF DebouncerStop
<1>11. ASSUME NEW d \in Dirs, Write(d) \/ MakeDir(d) \/ RemoveDir(d) PROVE Lives'
  BY <1>1, <1>11 DEF Write, MakeDir, RemoveDir
<1> QED  BY <1>2, <1>3, <1>4, <1>5, <1>6, <1>7, <1>8, <1>9, <1>10, <1>11 DEF Next, EventStep, EmitStep


\* What a debouncer collects, and what is on its way to Publish, is its own.
LEMMA CollectionsPreserved == ASSUME TypeOK, Lives, Collections, Next PROVE Collections'
<1> USE WatcherAssumption DEF Collections
<1>t. ManTypes /\ DebTypes /\ EventTypes /\ EmitTypes
  BY Types
<1>1. ASSUME UNCHANGED <<next, owner, files, emits>> PROVE Collections'
  BY <1>1
<1>2. ASSUME NEW s \in Services, StartFails(s) \/ StopWatching(s) PROVE Collections'
  BY <1>1, <1>2 DEF StartFails, StopWatching
<1>3. ASSUME NEW s \in Services, StartWatching(s) PROVE Collections'
  <2>1. next' = next + 1 /\ next' \in Gens /\ UNCHANGED <<files, emits>>
    BY <1>t, <1>3 DEF StartWatching, ManTypes, Gens
  <2>2. \A g \in Gens : g <= next => owner'[g] = owner[g]
    BY <1>t, <1>3, <2>1 DEF StartWatching, ManTypes, Gens
  <2>3. \A e \in emits : e.gen \in Gens
    BY <1>t, Zenon DEF EmitTypes, Emit
  <2>4. \A g \in Gens : g <= next => g <= next'
    BY <1>t, <2>1 DEF ManTypes, Gens
  <2> QED  BY <2>1, <2>2, <2>3, <2>4
<1>4. CASE Close \/ HandleCreate \/ Register
  BY <1>1, <1>4 DEF Close, HandleCreate, Register
<1>5. CASE HandleWrite
  <2>1. UNCHANGED <<next, owner, emits, gen>>
    BY <1>5 DEF HandleWrite
  <2>2. \A s \in Services : gen[s] # 0 => gen[s] <= next
    BY DEF Lives
  <2>h. events # <<>> /\ Head(events) \in Event
    BY <1>t, <1>5, HeadTailProperties DEF HandleWrite, EventTypes
  <2>3. Head(events).dir \in Dirs
    BY <2>h DEF Event
  <2>4. \A s \in Watchers(Head(events).dir) : gen[s] <= next
    BY <2>2, <2>3, WatchersTyped DEF Watchers
  <2>5. \A g \in Gens : files'[g] # {} => files[g] # {} \/ g \in {gen[s] : s \in Watchers(Head(events).dir)}
    BY <1>t, <1>5 DEF HandleWrite, Trigger
  <2> QED  BY <2>1, <2>4, <2>5
<1>6. ASSUME NEW e \in emits, EmitCheck(e) PROVE Collections'
  <2>1. e \in Emit /\ UNCHANGED <<next, owner, files>>
    BY <1>t, <1>6 DEF EmitTypes, EmitCheck
  <2>2. emits' \subseteq emits \cup {[e EXCEPT !.open = TRUE]}
    BY <1>6 DEF EmitCheck
  <2>3. [e EXCEPT !.open = TRUE].gen = e.gen /\ [e EXCEPT !.open = TRUE].svc = e.svc
    BY <2>1, Opened
  <2> DEFINE x == [e EXCEPT !.open = TRUE]
  <2>4. x.gen = e.gen /\ x.svc = e.svc /\ emits' \subseteq emits \cup {x}
    BY <2>2, <2>3
  <2> HIDE DEF x
  <2> QED  BY <2>1, <2>4
<1>7. ASSUME NEW e \in emits, EmitPublish(e) PROVE Collections'
  BY <1>7 DEF EmitPublish
<1>8. ASSUME NEW g \in Gens, Expire(g) \/ ExpireStray(g) PROVE Collections'
  BY <1>1, <1>8 DEF Expire, ExpireStray
<1>9. ASSUME NEW g \in Gens, Fire(g) PROVE Collections'
  <2>1. CASE g \in stopped \/ files[g] = {}
    BY <1>1, <1>9, <2>1 DEF Fire
  <2>2. CASE ~(g \in stopped \/ files[g] = {})
    <3> DEFINE e == [gen |-> g, svc |-> owner[g], files |-> files[g], open |-> FALSE]
    <3>1. emits' = emits \cup {e} /\ UNCHANGED <<next, owner>>
      BY <1>9, <2>2 DEF Fire
    <3>2. \A h \in Gens : files'[h] # {} => files[h] # {}
      BY <1>t, <1>9, <2>2 DEF Fire, DebTypes
    <3>3. e.gen = g /\ e.svc = owner[g] /\ g <= next
      BY <2>2
    <3> HIDE DEF e
    <3> QED  BY <3>1, <3>2, <3>3
  <2> QED  BY <2>1, <2>2
<1>10. ASSUME NEW g \in Gens, DebouncerStop(g) PROVE Collections'
  BY <1>t, <1>10 DEF DebouncerStop, DebTypes
<1>11. ASSUME NEW d \in Dirs, Write(d) \/ MakeDir(d) \/ RemoveDir(d) PROVE Collections'
  BY <1>1, <1>11 DEF Write, MakeDir, RemoveDir
<1> QED  BY <1>2, <1>3, <1>4, <1>5, <1>6, <1>7, <1>8, <1>9, <1>10, <1>11 DEF Next, EventStep, EmitStep, TimerStep

\* A change is forgotten when its service is no longer watched.
LEMMA ChangesPreserved == ASSUME TypeOK, Lives, Changes, Next PROVE Changes'
<1> USE DEF Changes
<1>t. ManTypes /\ DiskTypes /\ EventTypes
  BY Types
<1>u. \A u \in unreported : u[1] \in Services /\ u[2] \in Dirs
  BY <1>t DEF DiskTypes
<1>1. ASSUME unreported' \subseteq unreported, UNCHANGED <<gen, registry>> PROVE Changes'
  BY <1>1
<1>2. ASSUME NEW s \in Services, NEW V, Enter(s, V), UNCHANGED unreported,
             gen[s] = 0, \A r \in Services \ {s} : gen'[r] = gen[r]
      PROVE  Changes'
  <2>1. \A d \in Dirs : registry[d] \subseteq registry'[d]
    BY <1>t, <1>2 DEF Enter
  <2>2. \A u \in unreported : u[1] # s
    BY <1>2
  <2> QED  BY <1>u, <1>2, <2>1, <2>2
<1>3. ASSUME NEW s \in Services, StartFails(s) PROVE Changes'
  BY <1>2, <1>3 DEF StartFails
<1>4. ASSUME NEW s \in Services, StartWatching(s) PROVE Changes'
  <2>1. \A r \in Services \ {s} : gen'[r] = gen[r]
    BY <1>t, <1>4 DEF StartWatching, ManTypes
  <2> QED  BY <1>2, <1>4, <2>1 DEF StartWatching
<1>5. ASSUME NEW s \in Services, StopWatching(s) PROVE Changes'
  <2>1. \A r \in Services \ {s} : gen'[r] = gen[r]
    BY <1>t, <1>5 DEF StopWatching, ManTypes
  <2>2. \A d \in Dirs, r \in Services \ {s} : r \in registry[d] => r \in registry'[d]
    BY <1>t, <1>5 DEF StopWatching, Unregister
  <2>3. \A u \in unreported' : u \in unreported /\ u[1] # s
    BY <1>5 DEF StopWatching
  <2> QED  BY <1>u, <2>1, <2>2, <2>3
<1>6. CASE Close
  BY <1>6 DEF Close
<1>7. CASE HandleWrite \/ HandleCreate
  BY <1>1, <1>7 DEF HandleWrite, HandleCreate
<1>8. CASE Register
  <2>1. UNCHANGED <<gen, unreported>>
    BY <1>8 DEF Register
  <2>2. \A d \in Dirs : registry[d] \subseteq registry'[d]
    BY <1>t, <1>8 DEF Register, ManTypes
  <2> QED  BY <1>u, <2>1, <2>2
<1>9. ASSUME NEW e \in emits, EmitCheck(e) \/ EmitPublish(e) PROVE Changes'
  BY <1>1, <1>9 DEF EmitCheck, EmitPublish
<1>10. ASSUME NEW g \in Gens, TimerStep(g) \/ DebouncerStop(g) PROVE Changes'
  BY <1>1, <1>10 DEF TimerStep, Expire, ExpireStray, Fire, DebouncerStop
<1>11. ASSUME NEW d \in Dirs, Write(d) PROVE Changes'
  BY <1>11 DEF Write, Watchers
<1>12. ASSUME NEW d \in Dirs, MakeDir(d) \/ RemoveDir(d) PROVE Changes'
  BY <1>1, <1>12 DEF MakeDir, RemoveDir
<1> QED  BY <1>3, <1>4, <1>5, <1>6, <1>7, <1>8, <1>9, <1>10, <1>11, <1>12 DEF Next, EventStep, EmitStep

\* processEvents takes the first event and leaves the others in their order.
LEMMA TakenEvent ==
  ASSUME TypeOK, events # <<>>
  PROVE  /\ Len(events) \in Nat /\ Len(events) > 0 /\ Head(events) = events[1] /\ Head(events) \in Event
         /\ Len(Tail(events)) = Len(events) - 1
         /\ \A i \in 1..Len(Tail(events)) : Tail(events)[i] = events[i + 1]
<1>1. events \in Seq(Event)
  BY Types DEF EventTypes
<1>2. Len(events) \in Nat /\ Len(events) # 0
  BY <1>1, EmptySeq, LenProperties
<1>3. Head(events) \in Event /\ Head(events) = events[1]
  BY <1>1, <1>2, HeadTailProperties, LenProperties
<1>4. Len(Tail(events)) = Len(events) - 1 /\ \A i \in 1..Len(Tail(events)) : Tail(events)[i] = events[i + 1]
  BY <1>1, HeadTailProperties
<1> QED  BY <1>2, <1>3, <1>4

\* fsnotify adds one event at the end.
LEMMA AddedEvent ==
  ASSUME TypeOK, NEW x \in Event
  PROVE  /\ Len(events) \in Nat /\ Len(Append(events, x)) = Len(events) + 1
         /\ \A i \in 1..Len(events) : Append(events, x)[i] = events[i]
         /\ Append(events, x)[Len(events) + 1] = x
<1>1. events \in Seq(Event)
  BY Types DEF EventTypes
<1> QED  BY <1>1, AppendProperties, LenProperties

\* The tree on the disk keeps its parents, and fsnotify watches what is there.
LEMMA OnDiskPreserved == ASSUME TypeOK, OnDisk, Next PROVE OnDisk'
<1> USE WatcherAssumption DEF OnDisk
<1>t. ManTypes /\ DiskTypes /\ EventTypes
  BY Types
<1>1. ASSUME UNCHANGED <<disk, fs, closed, announced, events, adding>> PROVE OnDisk'
  BY <1>1
<1>2. ASSUME NEW s \in Services, NEW V, V \subseteq disk, Enter(s, V), ~closed,
             UNCHANGED <<disk, closed, events, adding>>
      PROVE  OnDisk'
  BY <1>2 DEF Enter
<1>3. ASSUME NEW s \in Services, StartFails(s) PROVE OnDisk'
  BY <1>2, <1>3, WalksOnDisk DEF StartFails
<1>4. ASSUME NEW s \in Services, StartWatching(s) PROVE OnDisk'
  BY <1>2, <1>4, StartsOnDisk DEF StartWatching
<1>5. ASSUME NEW s \in Services, StopWatching(s) PROVE OnDisk'
  <2>1. UNCHANGED <<disk, closed, events, adding>> /\ fs' \subseteq fs /\ announced' \subseteq announced
    BY <1>5 DEF StopWatching, Unregister
  <2> QED  BY <2>1
<1>6. CASE Close
  <2>1. UNCHANGED <<disk, adding>> /\ fs' = {} /\ announced' = {} /\ events' = <<>>
    BY <1>6 DEF Close
  <2>2. Len(events') = 0
    BY <2>1
  <2> QED  BY <2>1, <2>2
<1>7. CASE HandleWrite \/ HandleCreate
  <2>1. UNCHANGED <<disk, fs, closed, announced>> /\ events # <<>> /\ events' = Tail(events)
    BY <1>7 DEF HandleWrite, HandleCreate
  <2>2. \A i \in 1..Len(events') : events'[i].op = "create" => Parent[events'[i].dir] # None
    BY <2>1, TakenEvent
  <2>3. adding' # None => Parent[adding'.dir] # None
    <3>1. CASE HandleWrite
      BY <3>1 DEF HandleWrite
    <3>2. CASE HandleCreate
      <4>1. Head(events).op = "create" /\ Head(events) = events[1] /\ 1 \in 1..Len(events)
        BY <2>1, <3>2, TakenEvent DEF HandleCreate
      <4>2. Parent[Head(events).dir] # None
        BY <4>1
      <4>3. adding' # None => adding'.dir = Head(events).dir
        BY <3>2 DEF HandleCreate
      <4> QED  BY <4>2, <4>3
    <3> QED  BY <1>7, <3>1, <3>2
  <2> QED  BY <2>1, <2>2, <2>3
<1>8. CASE Register
  <2>1. UNCHANGED <<disk, closed, announced, events>> /\ adding' = None
    BY <1>8 DEF Register
  <2>2. fs' = fs \/ (fs' = fs \cup {adding.dir} /\ ~closed /\ adding.dir \in disk)
    BY <1>8 DEF Register
  <2> QED  BY <2>1, <2>2
<1>9. ASSUME NEW e \in emits, EmitCheck(e) \/ EmitPublish(e) PROVE OnDisk'
  BY <1>1, <1>9 DEF EmitCheck, EmitPublish
<1>10. ASSUME NEW g \in Gens, TimerStep(g) \/ DebouncerStop(g) PROVE OnDisk'
  BY <1>1, <1>10 DEF TimerStep, Expire, ExpireStray, Fire, DebouncerStop
<1>11. ASSUME NEW d \in Dirs, Write(d) PROVE OnDisk'
  <2>1. UNCHANGED <<disk, fs, closed, announced, adding>> /\ events' = Append(events, [op |-> "write", dir |-> d])
    BY <1>11 DEF Write
  <2> DEFINE x == [op |-> "write", dir |-> d]
  <2>2. x \in Event /\ x.op # "create"
    BY DEF Event
  <2> HIDE DEF x
  <2>3. \A i \in 1..Len(Append(events, x)) : i \in 1..Len(events) \/ i = Len(events) + 1
    BY <2>2, AddedEvent
  <2>4. \A i \in 1..Len(events') : events'[i].op = "create" => Parent[events'[i].dir] # None
    BY <2>1, <2>2, <2>3, AddedEvent DEF x
  <2> QED  BY <2>1, <2>4
<1>12. ASSUME NEW d \in Dirs, MakeDir(d) PROVE OnDisk'
  <2>1. UNCHANGED <<fs, closed, adding>> /\ disk' = disk \cup {d} /\ Parent[d] \in disk /\ d \notin disk
    BY <1>12 DEF MakeDir
  <2>2. \A e \in disk' : Parent[e] # None => Parent[e] \in disk'
    BY <2>1
  <2>3. CASE Parent[d] \in fs
    <3> DEFINE x == [op |-> "create", dir |-> d]
    <3>1. x \in Event /\ x.dir = d
      BY DEF Event
    <3>2. events' = Append(events, x) /\ ~closed /\ Parent[d] # None
      BY <1>t, <1>12, <2>3 DEF MakeDir, DiskTypes
    <3> HIDE DEF x
    <3>3. \A i \in 1..Len(Append(events, x)) : i \in 1..Len(events) \/ i = Len(events) + 1
      BY <3>1, AddedEvent
    <3>4. \A i \in 1..Len(events') : events'[i].op = "create" => Parent[events'[i].dir] # None
      BY <3>1, <3>2, <3>3, AddedEvent
    <3> QED  BY <2>1, <2>2, <3>2, <3>4
  <2>4. CASE Parent[d] \notin fs
    <3>1. UNCHANGED events /\ announced' \subseteq announced
      BY <1>12, <2>4 DEF MakeDir
    <3> QED  BY <2>1, <2>2, <3>1
  <2> QED  BY <2>3, <2>4
<1>13. ASSUME NEW d \in Dirs, RemoveDir(d) PROVE OnDisk'
  <2>1. UNCHANGED <<closed, announced, adding, events>> /\ disk' = disk \ {d} /\ fs' = fs \ {d}
    BY <1>13 DEF RemoveDir
  <2>2. \A e \in disk : Parent[e] # d
    BY <1>13 DEF RemoveDir
  <2> QED  BY <2>1, <2>2
<1> QED  BY <1>3, <1>4, <1>5, <1>6, <1>7, <1>8, <1>9, <1>10, <1>11, <1>12, <1>13 DEF Next, EventStep, EmitStep

\* What is in a list is registered: unregister takes back only what is its own.
LEMMA ListedPreserved == ASSUME TypeOK, Lives, Listed, Next PROVE Listed'
<1> USE WatcherAssumption DEF Listed
<1>t. ManTypes /\ DiskTypes /\ EventTypes
  BY Types
<1>1. ASSUME UNCHANGED <<list, registry>> PROVE Listed'
  BY <1>1
<1>2. ASSUME NEW s \in Services, StartFails(s) PROVE Listed'
  <2>1. UNCHANGED list /\ \A d \in Dirs : registry[d] \subseteq registry'[d]
    BY <1>t, <1>2 DEF StartFails, Enter
  <2>2. \A r \in Services : list[r] \subseteq Dirs
    BY <1>t DEF ManTypes
  <2> QED  BY <2>1, <2>2
<1>3. ASSUME NEW s \in Services, StartWatching(s) PROVE Listed'
  <2>1. PICK W \in [Shared[s] -> SUBSET disk] :
          /\ Enter(s, WalkOf(s, Root[s]) \cup UNION {W[b] : b \in Shared[s]})
          /\ list' = [list EXCEPT ![s] = WalkOf(s, Root[s]) \cup
                        UNION {W[b] : b \in {b \in Shared[s] : W[b] = WalkOf(s, b)}}]
    BY <1>3 DEF StartWatching
  <2> DEFINE V == WalkOf(s, Root[s]) \cup UNION {W[b] : b \in Shared[s]}
             L == WalkOf(s, Root[s]) \cup UNION {W[b] : b \in {b \in Shared[s] : W[b] = WalkOf(s, b)}}
  <2>v. V \subseteq disk /\ L \subseteq V
    BY StartsOnDisk
  <2>2. V \subseteq Dirs /\ L \subseteq V /\ Enter(s, V) /\ list' = [list EXCEPT ![s] = L]
    BY <1>t, <2>1, <2>v DEF DiskTypes
  <2> HIDE DEF V, L
  <2>3. /\ \A d \in Dirs : registry[d] \subseteq registry'[d]
        /\ \A d \in V : s \in registry'[d]
    BY <1>t, <2>2 DEF Enter
  <2>4. \A r \in Services : list[r] \subseteq Dirs /\ (r # s => list'[r] = list[r]) /\ (r = s => list'[r] \subseteq V)
    BY <1>t, <2>2 DEF ManTypes
  <2> QED  BY <2>3, <2>4
<1>4. ASSUME NEW s \in Services, StopWatching(s) PROVE Listed'
  <2>1. \A r \in Services \ {s} : list'[r] = list[r] /\ list[r] \subseteq Dirs
    BY <1>t, <1>4 DEF StopWatching, ManTypes
  <2>2. list'[s] = {}
    BY <1>t, <1>4 DEF StopWatching, ManTypes
  <2>3. \A d \in Dirs, r \in Services \ {s} : r \in registry[d] => r \in registry'[d]
    BY <1>t, <1>4 DEF StopWatching, Unregister
  <2> QED  BY <2>1, <2>2, <2>3
<1>5. CASE Close
  BY <1>5 DEF Close
<1>6. CASE HandleWrite \/ HandleCreate
  BY <1>1, <1>6 DEF HandleWrite, HandleCreate
<1>7. CASE Register
  <2>1. adding.dir \in Dirs
    BY <1>t, <1>7 DEF Register, EventTypes
  <2>2. CASE closed \/ adding.dir \notin disk
    BY <1>1, <1>7, <2>2 DEF Register
  <2>3. CASE ~(closed \/ adding.dir \notin disk)
    <3>1. PICK S : /\ list' = [s \in Services |-> IF s \in S THEN list[s] \cup {adding.dir} ELSE list[s]]
                   /\ registry' = [registry EXCEPT ![adding.dir] = @ \cup S]
      BY <1>7, <2>3 DEF Register
    <3>2. \A d \in Dirs : registry'[d] = IF d = adding.dir THEN registry[d] \cup S ELSE registry[d]
      BY <1>t, <3>1 DEF ManTypes
    <3>3. \A r \in Services : list[r] \subseteq Dirs
      BY <1>t DEF ManTypes
    <3>4. \A r \in Services : list'[r] = IF r \in S THEN list[r] \cup {adding.dir} ELSE list[r]
      BY <3>1
    <3>5. ASSUME NEW r \in Services, NEW d \in list'[r] PROVE r \in registry'[d]
      <4>1. d \in list[r] \/ (r \in S /\ d = adding.dir)
        BY <3>4, <3>5
      <4>2. CASE d \in list[r]
        <5>1. d \in Dirs /\ r \in registry[d]
          BY <3>3, <4>2
        <5> QED  BY <3>2, <5>1
      <4>3. CASE r \in S /\ d = adding.dir
        <5>1. registry'[d] = registry[d] \cup S
          BY <2>1, <3>2, <4>3
        <5> QED  BY <4>3, <5>1
      <4> QED  BY <4>1, <4>2, <4>3
    <3> QED  BY <3>5
  <2> QED  BY <2>2, <2>3
<1>8. ASSUME NEW e \in emits, EmitCheck(e) \/ EmitPublish(e) PROVE Listed'
  BY <1>1, <1>8 DEF EmitCheck, EmitPublish
<1>9. ASSUME NEW g \in Gens, TimerStep(g) \/ DebouncerStop(g) PROVE Listed'
  BY <1>1, <1>9 DEF TimerStep, Expire, ExpireStray, Fire, DebouncerStop
<1>10. ASSUME NEW d \in Dirs, Write(d) \/ MakeDir(d) \/ RemoveDir(d) PROVE Listed'
  BY <1>1, <1>10 DEF Write, MakeDir, RemoveDir
<1> QED  BY <1>2, <1>3, <1>4, <1>5, <1>6, <1>7, <1>8, <1>9, <1>10 DEF Next, EventStep, EmitStep

-----------------------------------------------------------------------------
(* No change is lost *)

InEvents(d) == \E i \in 1..Len(events) : events[i] = [op |-> "write", dir |-> d]

InFlight(g, d) == \E e \in emits : e.gen = g /\ d \in e.files

Pending(u) == InEvents(u[2]) \/ Collected(gen[u[1]], u[2]) \/ InFlight(gen[u[1]], u[2])

\* ChangeNotLost in these words.
LEMMA PendingChanges == TypeOK => (ChangeNotLost <=> \A u \in unreported : Pending(u))
<1> SUFFICES ASSUME TypeOK PROVE ChangeNotLost <=> \A u \in unreported : Pending(u)
  OBVIOUS
<1>1. DOMAIN events = 1..Len(events)
  BY Types, LenProperties DEF EventTypes
<1> QED  BY <1>1 DEF ChangeNotLost, Pending, InEvents, InFlight, ToSet

\* What is pending stays so while the debouncer lives and nothing is taken away.
LEMMA PendingKept ==
  ASSUME NEW u, NEW g, g = gen[u[1]], gen'[u[1]] = gen[u[1]], Pending(u),
         InEvents(u[2]) => InEvents(u[2])',
         Collected(g, u[2]) => Collected(g, u[2])',
         InFlight(g, u[2]) => InFlight(g, u[2])'
  PROVE  Pending(u)'
  BY DEF Pending

\* Every change that fsnotify saw is reported or pending.
LEMMA ChangeNotLostPreserved ==
  ASSUME TypeOK, Lives, Collections, Changes, ChangeNotLost, TypeOK', Next
  PROVE  ChangeNotLost'
<1> USE WatcherAssumption
<1>t. ManTypes /\ DiskTypes /\ DebTypes /\ EventTypes /\ EmitTypes
  BY Types
<1>p. \A u \in unreported : Pending(u)
  BY PendingChanges
<1>u. \A u \in unreported : /\ u[1] \in Services /\ u[2] \in Dirs /\ u = <<u[1], u[2]>>
                           /\ gen[u[1]] # 0 /\ gen[u[1]] \in Gens /\ u[1] \in registry[u[2]]
                           /\ gen[u[1]] \notin stopped \cup cancelled /\ owner[gen[u[1]]] = u[1]
  BY <1>t DEF DiskTypes, ManTypes, Changes, Lives, Gens
<1> SUFFICES \A u \in unreported' : Pending(u)'
  <2>1. ManTypes' /\ DiskTypes' /\ EventTypes'
    BY DEF TypeOK, ManTypes, DiskTypes, EventTypes, Event
  <2>2. events' \in Seq(Event)
    BY <2>1 DEF EventTypes
  <2>3. DOMAIN events' = 1..Len(events')
    BY <2>2, LenProperties
  <2> QED  BY <2>3 DEF ChangeNotLost, Pending, InEvents, InFlight, ToSet
<1>1. ASSUME unreported' \subseteq unreported, UNCHANGED <<events, files, armed, stray, waiting, stopped, emits>>,
             \A u \in unreported' : gen'[u[1]] = gen[u[1]]
      PROVE  \A u \in unreported' : Pending(u)'
  <2> SUFFICES ASSUME NEW u \in unreported' PROVE Pending(u)'
    OBVIOUS
  <2>1. gen'[u[1]] = gen[u[1]] /\ Pending(u)
    BY <1>p, <1>1
  <2>2. InEvents(u[2]) => InEvents(u[2])'
    BY <1>1 DEF InEvents
  <2>3. Collected(gen[u[1]], u[2]) => (Collected(gen[u[1]], u[2]))'
    BY <1>1, <2>1 DEF Collected
  <2>4. InFlight(gen[u[1]], u[2]) => (InFlight(gen[u[1]], u[2]))'
    BY <1>1, <2>1 DEF InFlight
  <2> QED  BY <2>1, <2>2, <2>3, <2>4 DEF Pending
<1>2. ASSUME NEW s \in Services, StartFails(s) PROVE \A u \in unreported' : Pending(u)'
  BY <1>1, <1>2 DEF StartFails
<1>3. ASSUME NEW s \in Services, StartWatching(s) PROVE \A u \in unreported' : Pending(u)'
  <2>1. \A u \in unreported : u[1] # s
    BY <1>u, <1>3 DEF StartWatching
  <2>2. \A r \in Services \ {s} : gen'[r] = gen[r]
    BY <1>t, <1>3 DEF StartWatching, ManTypes
  <2>3. unreported' = unreported
    BY <1>3 DEF StartWatching
  <2>4. \A u \in unreported' : gen'[u[1]] = gen[u[1]]
    BY <1>u, <2>1, <2>2, <2>3
  <2> QED  BY <1>1, <1>3, <2>3, <2>4 DEF StartWatching
<1>4. ASSUME NEW s \in Services, StopWatching(s) PROVE \A u \in unreported' : Pending(u)'
  <2>1. \A r \in Services \ {s} : gen'[r] = gen[r]
    BY <1>t, <1>4 DEF StopWatching, ManTypes
  <2>2. \A u \in unreported' : u \in unreported /\ u[1] # s
    BY <1>4 DEF StopWatching
  <2>3. \A u \in unreported' : gen'[u[1]] = gen[u[1]]
    BY <1>u, <2>1, <2>2
  <2> QED  BY <1>1, <1>4, <2>2, <2>3 DEF StopWatching
<1>5. CASE Close
  BY <1>5 DEF Close
<1>6. CASE Register
  BY <1>1, <1>6 DEF Register
<1>7. CASE HandleCreate
  <2> SUFFICES ASSUME NEW u \in unreported' PROVE Pending(u)'
    OBVIOUS
  <2>1. UNCHANGED <<unreported, gen, files, armed, stray, waiting, stopped, emits>>
    BY <1>7 DEF HandleCreate
  <2>2. events # <<>> /\ Head(events).op = "create" /\ events' = Tail(events)
    BY <1>7 DEF HandleCreate
  <2>3. ASSUME InEvents(u[2]) PROVE InEvents(u[2])'
    <3>1. PICK i \in 1..Len(events) : events[i] = [op |-> "write", dir |-> u[2]]
      BY <2>3 DEF InEvents
    <3>2. i # 1
      BY <2>2, <3>1, TakenEvent
    <3>3. i - 1 \in 1..Len(events') /\ events'[i - 1] = [op |-> "write", dir |-> u[2]]
      BY <2>2, <3>1, <3>2, TakenEvent
    <3> QED  BY <3>3 DEF InEvents
  <2>4. Collected(gen[u[1]], u[2]) => (Collected(gen[u[1]], u[2]))'
    BY <2>1 DEF Collected
  <2>5. InFlight(gen[u[1]], u[2]) => (InFlight(gen[u[1]], u[2]))'
    BY <2>1 DEF InFlight
  <2> QED  BY <1>p, <2>1, <2>3, <2>4, <2>5 DEF Pending
<1>8. CASE HandleWrite
  <2> SUFFICES ASSUME NEW u \in unreported' PROVE Pending(u)'
    OBVIOUS
  <2> DEFINE g == gen[u[1]]
             G == {gen[s] : s \in Watchers(Head(events).dir)}
  <2>1. UNCHANGED <<unreported, gen, registry, stray, waiting, stopped, emits>>
    BY <1>8 DEF HandleWrite
  <2>2. events # <<>> /\ Head(events).op = "write" /\ events' = Tail(events) /\ Trigger(G, Head(events).dir)
    BY <1>8 DEF HandleWrite
  <2>3. g \in Gens /\ g \notin stopped /\ Pending(u)
    BY <1>p, <1>u, <2>1
  <2>4. Collected(g, u[2]) => Collected(g, u[2])'
    BY <2>1, <2>2, <2>3 DEF Trigger, Collected
  <2>5. InFlight(g, u[2]) => InFlight(g, u[2])'
    BY <2>1 DEF InFlight
  <2>6. ASSUME InEvents(u[2]) PROVE InEvents(u[2])' \/ Collected(g, u[2])'
    <3>1. PICK i \in 1..Len(events) : events[i] = [op |-> "write", dir |-> u[2]]
      BY <2>6 DEF InEvents
    <3>2. CASE i = 1
      <4>1. Head(events).dir = u[2]
        BY <2>2, <3>1, <3>2, TakenEvent
      <4>2. u[1] \in Watchers(Head(events).dir)
        BY <1>u, <2>1, <4>1 DEF Watchers
      <4>3. g \in G \ stopped
        BY <2>3, <4>2
      <4>4. u[2] \in files'[g] /\ armed'[g]
        BY <2>2, <2>3, <4>1, <4>3 DEF Trigger
      <4> QED  BY <2>1, <2>3, <4>4 DEF Collected
    <3>3. CASE i # 1
      <4>1. i - 1 \in 1..Len(events') /\ events'[i - 1] = [op |-> "write", dir |-> u[2]]
        BY <2>2, <3>1, <3>3, TakenEvent
      <4> QED  BY <4>1 DEF InEvents
    <3> QED  BY <3>2, <3>3
  <2> QED  BY <2>1, <2>3, <2>4, <2>5, <2>6 DEF Pending
<1>9. ASSUME NEW e \in emits, EmitCheck(e) PROVE \A u \in unreported' : Pending(u)'
  <2> SUFFICES ASSUME NEW u \in unreported' PROVE Pending(u)'
    OBVIOUS
  <2>1. UNCHANGED <<unreported, events, gen, files, armed, stray, waiting, stopped>> /\ e \in Emit
    BY <1>t, <1>9 DEF EmitCheck, EmitTypes
  <2>2. InEvents(u[2]) => InEvents(u[2])'
    BY <2>1 DEF InEvents
  <2>3. Collected(gen[u[1]], u[2]) => (Collected(gen[u[1]], u[2]))'
    BY <2>1 DEF Collected
  <2> DEFINE x == [e EXCEPT !.open = TRUE]
  <2>4. x.gen = e.gen /\ x.files = e.files
    BY <2>1, Opened
  <2>5. ~closed
    BY <1>u, <2>1 DEF Lives
  <2>6. emits' = (emits \ {e}) \cup {x}
    BY <1>9, <2>5 DEF EmitCheck
  <2> HIDE DEF x
  <2>7. InFlight(gen[u[1]], u[2]) => (InFlight(gen[u[1]], u[2]))'
    BY <2>1, <2>4, <2>6 DEF InFlight
  <2> QED  BY <1>p, <2>1, <2>2, <2>3, <2>7 DEF Pending
<1>10. ASSUME NEW e \in emits, EmitPublish(e) PROVE \A u \in unreported' : Pending(u)'
  <2> SUFFICES ASSUME NEW u \in unreported' PROVE Pending(u)'
    OBVIOUS
  <2>1. UNCHANGED <<events, gen, files, armed, stray, waiting, stopped>>
    BY <1>10 DEF EmitPublish
  <2>2. emits' = emits \ {e} /\ u \in unreported /\ u \notin {e.svc} \X e.files
    BY <1>10 DEF EmitPublish
  <2>3. InEvents(u[2]) => InEvents(u[2])'
    BY <2>1 DEF InEvents
  <2>4. Collected(gen[u[1]], u[2]) => (Collected(gen[u[1]], u[2]))'
    BY <2>1 DEF Collected
  <2>5. e.gen = gen[u[1]] => u[2] \notin e.files
    <3>1. SUFFICES ASSUME e.gen = gen[u[1]], u[2] \in e.files PROVE FALSE
      OBVIOUS
    <3>2. e.svc = u[1]
      BY <1>u, <1>10, <2>2, <3>1 DEF Collections
    <3>3. <<u[1], u[2]>> \in {e.svc} \X e.files
      BY <3>1, <3>2
    <3>4. u = <<u[1], u[2]>>
      BY <1>u, <2>2
    <3> QED  BY <2>2, <3>3, <3>4
  <2>6. InFlight(gen[u[1]], u[2]) => (InFlight(gen[u[1]], u[2]))'
    BY <2>1, <2>2, <2>5 DEF InFlight
  <2> QED  BY <1>p, <2>1, <2>2, <2>3, <2>4, <2>6 DEF Pending
<1>11. ASSUME NEW h \in Gens, Expire(h) \/ ExpireStray(h) \/ DebouncerStop(h)
       PROVE  \A u \in unreported' : Pending(u)'
  <2> SUFFICES ASSUME NEW u \in unreported' PROVE Pending(u)'
    OBVIOUS
  <2>1. UNCHANGED <<unreported, events, gen, emits>>
    BY <1>11 DEF Expire, ExpireStray, DebouncerStop
  <2>2. InEvents(u[2]) => InEvents(u[2])'
    BY <2>1 DEF InEvents
  <2>3. InFlight(gen[u[1]], u[2]) => (InFlight(gen[u[1]], u[2]))'
    BY <2>1 DEF InFlight
  <2>4. gen[u[1]] \in Gens /\ gen[u[1]] \notin cancelled /\ Pending(u)
    BY <1>p, <1>u, <2>1
  <2>5. Collected(gen[u[1]], u[2]) => (Collected(gen[u[1]], u[2]))'
    <3>1. CASE Expire(h)
      BY <1>t, <2>1, <2>4, <3>1 DEF Collected, Expire, DebTypes
    <3>2. CASE ExpireStray(h)
      BY <1>t, <2>1, <2>4, <3>2 DEF Collected, ExpireStray, DebTypes
    <3>3. CASE DebouncerStop(h)
      BY <1>t, <2>1, <2>4, <3>3 DEF Collected, DebouncerStop, DebTypes
    <3> QED  BY <1>11, <3>1, <3>2, <3>3
  <2> QED  BY <2>1, <2>2, <2>3, <2>4, <2>5 DEF Pending
<1>12. ASSUME NEW h \in Gens, Fire(h) PROVE \A u \in unreported' : Pending(u)'
  <2> SUFFICES ASSUME NEW u \in unreported' PROVE Pending(u)'
    OBVIOUS
  <2> DEFINE g == gen[u[1]]
  <2>1. UNCHANGED <<unreported, events, gen, stopped>> /\ waiting' = [waiting EXCEPT ![h] = @ - 1]
    BY <1>12 DEF Fire
  <2>2. InEvents(u[2]) => InEvents(u[2])'
    BY <2>1 DEF InEvents
  <2>3. g \in Gens /\ Pending(u)
    BY <1>p, <1>u, <2>1
  <2>4. CASE h \in stopped \/ files[h] = {}
    <3>1. UNCHANGED <<files, armed, stray, emits>>
      BY <1>12, <2>4 DEF Fire
    <3>2. InFlight(g, u[2]) => InFlight(g, u[2])'
      BY <2>1, <3>1 DEF InFlight
    <3>3. Collected(g, u[2]) => h # g
      BY <2>4 DEF Collected
    <3>4. h # g => waiting'[g] = waiting[g]
      BY <1>t, <2>1, <2>3 DEF DebTypes
    <3>5. Collected(g, u[2]) => Collected(g, u[2])'
      BY <2>1, <3>1, <3>3, <3>4 DEF Collected
    <3> QED  BY <2>1, <2>2, <2>3, <3>2, <3>5 DEF Pending
  <2>5. CASE ~(h \in stopped \/ files[h] = {})
    <3> DEFINE e == [gen |-> h, svc |-> owner[h], files |-> files[h], open |-> FALSE]
    <3>1. emits' = emits \cup {e} /\ e.gen = h /\ e.files = files[h]
      BY <1>12, <2>5 DEF Fire
    <3> HIDE DEF e
    <3>2. InFlight(g, u[2]) => InFlight(g, u[2])'
      BY <2>1, <3>1 DEF InFlight
    <3>3. h # g => /\ files'[g] = files[g] /\ armed'[g] = armed[g] /\ stray'[g] = stray[g]
                   /\ waiting'[g] = waiting[g]
      BY <1>t, <1>12, <2>3, <2>5 DEF Fire, DebTypes
    <3>4. h # g /\ Collected(g, u[2]) => Collected(g, u[2])'
      BY <2>1, <3>3 DEF Collected
    <3>5. h = g /\ Collected(g, u[2]) => InFlight(g, u[2])'
      BY <2>1, <3>1 DEF Collected, InFlight
    <3> QED  BY <2>1, <2>2, <2>3, <3>2, <3>4, <3>5 DEF Pending
  <2> QED  BY <2>4, <2>5
<1>13. ASSUME NEW x \in Event, \/ UNCHANGED <<events, unreported>>
                               \/ events' = Append(events, x) /\ UNCHANGED unreported
                               \/ /\ events' = Append(events, x) /\ x.op = "write"
                                  /\ \A u \in unreported' : u \in unreported \/ u[2] = x.dir,
              UNCHANGED <<gen, files, armed, stray, waiting, stopped, emits>>
       PROVE  \A u \in unreported' : Pending(u)'
  <2> SUFFICES ASSUME NEW u \in unreported' PROVE Pending(u)'
    OBVIOUS
  <2>1. CASE u \in unreported
    <3>1. ASSUME InEvents(u[2]) PROVE InEvents(u[2])'
      <4>1. PICK i \in 1..Len(events) : events[i] = [op |-> "write", dir |-> u[2]]
        BY <3>1 DEF InEvents
      <4>2. i \in 1..Len(events') /\ events'[i] = events[i]
        BY <1>13, AddedEvent
      <4> QED  BY <4>1, <4>2 DEF InEvents
    <3>2. Collected(gen[u[1]], u[2]) => (Collected(gen[u[1]], u[2]))'
      BY <1>13 DEF Collected
    <3>3. InFlight(gen[u[1]], u[2]) => (InFlight(gen[u[1]], u[2]))'
      BY <1>13 DEF InFlight
    <3> QED  BY <1>p, <2>1, <3>1, <3>2, <3>3 DEF Pending
  <2>2. CASE u \notin unreported
    <3>1. events' = Append(events, x) /\ x.op = "write" /\ u[2] = x.dir
      BY <1>13, <2>2
    <3>2. Len(events) + 1 \in 1..Len(events') /\ events'[Len(events) + 1] = x
      BY <3>1, AddedEvent
    <3>3. x = [op |-> "write", dir |-> u[2]]
      BY <3>1 DEF Event
    <3> QED  BY <3>2, <3>3 DEF Pending, InEvents
  <2> QED  BY <2>1, <2>2
<1>14. ASSUME NEW d \in Dirs, Write(d) \/ MakeDir(d) \/ RemoveDir(d)
       PROVE  \A u \in unreported' : Pending(u)'
  <2>1. UNCHANGED <<gen, files, armed, stray, waiting, stopped, emits>>
    BY <1>14 DEF Write, MakeDir, RemoveDir
  <2>2. CASE Write(d)
    <3> DEFINE x == [op |-> "write", dir |-> d]
    <3>1. x \in Event /\ x.op = "write" /\ x.dir = d
      BY DEF Event
    <3>2. events' = Append(events, x) /\ \A u \in unreported' : u \in unreported \/ u[2] = d
      BY <2>2 DEF Write
    <3> HIDE DEF x
    <3> QED  BY <1>13, <2>1, <3>1, <3>2
  <2>3. CASE MakeDir(d) \/ RemoveDir(d)
    <3> DEFINE x == [op |-> "create", dir |-> d]
    <3>1. x \in Event
      BY DEF Event
    <3>2. UNCHANGED unreported /\ (UNCHANGED events \/ events' = Append(events, x))
      BY <2>3 DEF MakeDir, RemoveDir
    <3> HIDE DEF x
    <3> QED  BY <1>13, <2>1, <3>1, <3>2
  <2> QED  BY <1>14, <2>2, <2>3
<1> QED  BY <1>2, <1>3, <1>4, <1>5, <1>6, <1>7, <1>8, <1>9, <1>10, <1>11, <1>12, <1>14
         DEF Next, EventStep, EmitStep, TimerStep

-----------------------------------------------------------------------------
(* No directory is forgotten *)

\* A directory that a walk finds below one of its directories is found by it.
LEMMA WalkGoesDown ==
  ASSUME NEW s \in Services, NEW b \in Dirs, NEW d \in disk, disk \subseteq Dirs, Parent[d] \in WalkOf(s, b),
         d \notin Ignored[s]
  PROVE  d \in WalkOf(s, b)
<1>1. Parent[d] \in Dirs /\ Parent[d] # None
  BY WatcherAssumption DEF WalkOf
<1>2. Above[d] = {d} \cup Above[Parent[d]]
  BY <1>1, TreeAssumption
<1>3. b \in Above[Parent[d]] /\ ~Skipped(s, b, Parent[d])
  BY DEF WalkOf
<1>4. b \in Above[d] /\ ~Skipped(s, b, d)
  BY <1>2, <1>3 DEF Skipped
<1> QED  BY <1>4 DEF WalkOf

\* Nothing that Kept speaks of changes.
LEMMA KeptStill ==
  ASSUME AllKept, UNCHANGED <<disk, fs, events, gen, list, registry, adding, announced>>
  PROVE  AllKept'
  BY DEF AllKept, Due, Kept, Entered, Announced, CreateAt, InHand, NoCreate, Foreign

\* Entering directories for s forgets none.
LEMMA KeptByEntering ==
  ASSUME TypeOK, Lives, AllKept, NEW s \in Services, NEW V, V \subseteq Dirs, Enter(s, V),
         UNCHANGED <<disk, events, adding>>,
         gen[s] = 0, \A r \in Services \ {s} : gen'[r] = gen[r] /\ list'[r] = list[r],
         \A d \in disk : Parent[d] \in list'[s] /\ d \notin Ignored[s] => d \in V
  PROVE  AllKept'
<1>t. ManTypes /\ DiskTypes
  BY Types
<1> SUFFICES ASSUME NEW r \in Services, NEW d \in Dirs, Due(r, d)' PROVE Kept(r, d)'
  BY DEF AllKept
<1>1. Entered(r, d) => Entered(r, d)'
  BY <1>t DEF Enter, Entered
<1>2. CASE r = s /\ d \in V
  BY <1>t, <1>2 DEF Enter, Kept, Entered
<1>3. CASE ~(r = s /\ d \in V)
  <2>1. Due(r, d) /\ Kept(r, d)
    BY <1>3 DEF Due, AllKept, Enter
  <2>2. Announced(d) => Announced(d)'
    BY DEF Announced, CreateAt
  <2>3. CASE r # s
    <3>1. gen'[r] = gen[r] /\ list'[r] = list[r]
      BY <2>3
    <3>2. InHand(r, d) \/ Foreign(r, d) => InHand(r, d)' \/ Foreign(r, d)'
      BY <3>1 DEF InHand, Foreign, NoCreate, CreateAt
    <3> QED  BY <1>1, <2>1, <2>2, <3>2 DEF Kept
  <2>4. CASE r = s
    <3>1. Parent[d] \notin list'[s]
      BY <1>3, <2>1, <2>4 DEF Due
    <3>2. InHand(r, d) \/ Foreign(r, d) => InHand(r, d)' \/ Foreign(r, d)'
      BY <2>4, <3>1 DEF InHand, Foreign, NoCreate, CreateAt
    <3> QED  BY <1>1, <2>1, <2>2, <3>2 DEF Kept
  <2> QED  BY <2>3, <2>4
<1> QED  BY <1>2, <1>3

\* The first event is taken: a creation further back only moves up.
LEMMA KeptByTaking ==
  ASSUME TypeOK, events # <<>>, events' = Tail(events), NEW d \in Dirs
  PROVE  /\ NoCreate(d) => NoCreate(d)'
         /\ Announced(d) => Announced(d)' \/ (CreateAt(1, d) /\ NoCreate(Parent[d])')
<1>1. ASSUME NEW x, NoCreate(x) PROVE NoCreate(x)'
  BY <1>1, TakenEvent DEF NoCreate, CreateAt
<1>2. ASSUME Announced(d) PROVE Announced(d)' \/ (CreateAt(1, d) /\ NoCreate(Parent[d])')
  <2>1. PICK i \in 1..Len(events) :
          CreateAt(i, d) /\ \A j \in 1..Len(events) : j > i => ~CreateAt(j, Parent[d])
    BY <1>2 DEF Announced
  <2>2. CASE i = 1
    <3>1. \A j \in 1..Len(events') : j + 1 \in 1..Len(events) /\ j + 1 > 1 /\ events'[j] = events[j + 1]
      BY TakenEvent
    <3>2. NoCreate(Parent[d])'
      BY <2>1, <2>2, <3>1 DEF NoCreate, CreateAt
    <3> QED  BY <2>1, <2>2, <3>2
  <2>3. CASE i # 1
    <3>1. i - 1 \in 1..Len(events') /\ events'[i - 1] = events[i]
      BY <2>1, <2>3, TakenEvent
    <3>2. \A j \in 1..Len(events') : j > i - 1 => j + 1 \in 1..Len(events) /\ j + 1 > i /\ events'[j] = events[j + 1]
      BY <2>1, TakenEvent
    <3>3. CreateAt(i - 1, d)' /\ \A j \in 1..Len(events') : j > i - 1 => ~CreateAt(j, Parent[d])'
      BY <2>1, <3>1, <3>2 DEF CreateAt
    <3> QED  BY <3>1, <3>3 DEF Announced
  <2> QED  BY <2>2, <2>3
<1> QED  BY <1>1, <1>2

\* An event that creates no parent of d is added at the end.
LEMMA KeptByAdding ==
  ASSUME TypeOK, NEW x \in Event, events' = Append(events, x), NEW d \in Dirs,
         x.op = "create" => x.dir # Parent[d]
  PROVE  /\ NoCreate(Parent[d]) => NoCreate(Parent[d])'
         /\ Announced(d) => Announced(d)'
<1>1. \A i \in 1..Len(events) : i \in 1..Len(events') /\ events'[i] = events[i]
  BY AddedEvent
<1>2. \A i \in 1..Len(events') : i \in 1..Len(events) \/ events'[i] = x
  BY AddedEvent
<1>3. NoCreate(Parent[d]) => NoCreate(Parent[d])'
  BY <1>1, <1>2 DEF NoCreate, CreateAt
<1>4. ASSUME Announced(d) PROVE Announced(d)'
  <2>1. PICK i \in 1..Len(events) :
          CreateAt(i, d) /\ \A j \in 1..Len(events) : j > i => ~CreateAt(j, Parent[d])
    BY <1>4 DEF Announced
  <2>2. CreateAt(i, d)' /\ \A j \in 1..Len(events') : j > i => ~CreateAt(j, Parent[d])'
    BY <1>1, <1>2, <2>1 DEF CreateAt
  <2> QED  BY <1>1, <2>1, <2>2 DEF Announced
<1> QED  BY <1>3, <1>4

\* startWatching enters whole subtrees.
LEMMA KeptByStarting ==
  ASSUME TypeOK, Lives, AllKept, NEW s \in Services, StartFails(s) \/ StartWatching(s)
  PROVE  AllKept'
<1> USE WatcherAssumption
<1>t. ManTypes /\ DiskTypes
  BY Types
<1>1. CASE StartFails(s)
  <2>1. PICK V \in PartsOf(s, Root[s]) : Enter(s, V)
    BY <1>1 DEF StartFails
  <2>2. V \subseteq Dirs
    BY <1>t, WalksOnDisk DEF DiskTypes
  <2>3. UNCHANGED <<disk, events, adding, gen, list>> /\ gen[s] = 0 /\ list[s] = {}
    BY <1>1 DEF StartFails, Lives
  <2> QED  BY <2>1, <2>2, <2>3, KeptByEntering
<1>2. CASE StartWatching(s)
  <2>1. PICK W \in [Shared[s] -> SUBSET disk] :
          /\ Enter(s, WalkOf(s, Root[s]) \cup UNION {W[b] : b \in Shared[s]})
          /\ list' = [list EXCEPT ![s] = WalkOf(s, Root[s]) \cup
                        UNION {W[b] : b \in {b \in Shared[s] : W[b] = WalkOf(s, b)}}]
    BY <1>2 DEF StartWatching
  <2> DEFINE V == WalkOf(s, Root[s]) \cup UNION {W[b] : b \in Shared[s]}
             L == WalkOf(s, Root[s]) \cup UNION {W[b] : b \in {b \in Shared[s] : W[b] = WalkOf(s, b)}}
  <2>2. V \subseteq Dirs
    BY <1>t, StartsOnDisk DEF DiskTypes
  <2>3. ASSUME NEW d \in disk, Parent[d] \in L, d \notin Ignored[s] PROVE d \in V
    <3>1. disk \subseteq Dirs /\ Shared[s] \subseteq Dirs /\ Root[s] \in Dirs
      BY <1>t DEF DiskTypes
    <3>2. PICK b \in {Root[s]} \cup Shared[s] :
            Parent[d] \in WalkOf(s, b) /\ (b = Root[s] \/ (b \in Shared[s] /\ W[b] = WalkOf(s, b)))
      BY <2>3
    <3>3. d \in WalkOf(s, b)
      BY <2>3, <3>1, <3>2, WalkGoesDown
    <3> QED  BY <3>2, <3>3
  <2>4. Enter(s, V) /\ list' = [list EXCEPT ![s] = L] /\ gen' = [gen EXCEPT ![s] = next']
    BY <1>2, <2>1 DEF StartWatching
  <2>5. UNCHANGED <<disk, events, adding>> /\ gen[s] = 0
    BY <1>2 DEF StartWatching
  <2> HIDE DEF V, L
  <2>6. list'[s] = L /\ \A r \in Services \ {s} : gen'[r] = gen[r] /\ list'[r] = list[r]
    BY <1>t, <2>4 DEF ManTypes
  <2>7. \A d \in disk : Parent[d] \in list'[s] /\ d \notin Ignored[s] => d \in V
    BY <2>3, <2>6
  <2> QED  BY <2>2, <2>4, <2>5, <2>6, <2>7, KeptByEntering
<1> QED  BY <1>1, <1>2

\* Stopping one service takes no directory from another.
LEMMA KeptByStopping ==
  ASSUME TypeOK, AllKept, NEW s \in Services, StopWatching(s)
  PROVE  AllKept'
<1>t. ManTypes /\ DiskTypes
  BY Types
<1> SUFFICES ASSUME NEW r \in Services, NEW d \in Dirs, Due(r, d)' PROVE Kept(r, d)'
  BY DEF AllKept
<1>1. UNCHANGED <<disk, events, adding>> /\ announced' = {u \in announced : u[1] # s}
  BY DEF StopWatching
<1>2. r # s /\ Due(r, d)
  BY <1>1 DEF Due
<1>3. gen'[r] = gen[r] /\ list'[r] = list[r]
  BY <1>t, <1>2 DEF StopWatching, ManTypes
<1>4. Entered(r, d) => Entered(r, d)'
  BY <1>t, <1>2 DEF StopWatching, Unregister, Entered
<1>5. Announced(d) \/ InHand(r, d) \/ Foreign(r, d) => Announced(d)' \/ InHand(r, d)' \/ Foreign(r, d)'
  BY <1>1, <1>3 DEF Announced, InHand, Foreign, NoCreate, CreateAt
<1> QED  BY <1>2, <1>4, <1>5 DEF AllKept, Kept

\* A creation is taken in hand for those who watch the parent.
LEMMA KeptByHandling ==
  ASSUME TypeOK, Lives, OnDisk, Listed, AllKept, HandleWrite \/ HandleCreate
  PROVE  AllKept'
<1> USE WatcherAssumption
<1>t. ManTypes /\ DiskTypes /\ EventTypes
  BY Types
<1> SUFFICES ASSUME NEW r \in Services, NEW d \in Dirs, Due(r, d)' PROVE Kept(r, d)'
  BY DEF AllKept
<1>1. /\ UNCHANGED <<disk, fs, gen, list, registry, announced>>
      /\ adding = None /\ events # <<>> /\ events' = Tail(events)
  BY DEF HandleWrite, HandleCreate
<1>2. Due(r, d) /\ Kept(r, d) /\ ~InHand(r, d) /\ d \in disk /\ Parent[d] \in Dirs
  BY <1>1 DEF Due, AllKept, InHand
<1>3. Entered(r, d) => Entered(r, d)'
  BY <1>1 DEF Entered
<1>4. Head(events) = events[1] /\ Len(events) > 0 /\ 1 \in 1..Len(events) /\ Head(events) \in Event
  BY <1>1, TakenEvent
<1>5. \A e \in Dirs : NoCreate(e) => NoCreate(e)'
  BY <1>1, KeptByTaking
<1>6. Announced(d) => Announced(d)' \/ (CreateAt(1, d) /\ NoCreate(Parent[d])')
  BY <1>1, KeptByTaking
<1>7. CASE HandleWrite
  <2>1. ~CreateAt(1, d) /\ adding' = None
    BY <1>1, <1>4, <1>7 DEF HandleWrite, CreateAt
  <2>2. Foreign(r, d) => Foreign(r, d)'
    BY <1>1, <1>2, <1>5, <2>1 DEF Foreign
  <2> QED  BY <1>2, <1>3, <1>6, <2>1, <2>2 DEF Kept
<1>8. CASE HandleCreate
  <2> DEFINE p == Parent[d]
             targets == {s \in Watchers(p) : d \notin Ignored[s]}
  <2>1. ASSUME Foreign(r, d) PROVE Foreign(r, d)'
    <3>1. Head(events).dir # p
      BY <1>4, <1>8, <2>1 DEF Foreign, NoCreate, CreateAt, HandleCreate
    <3>2. adding' # None => adding'.dir = Head(events).dir
      BY <1>8 DEF HandleCreate
    <3> QED  BY <1>1, <1>2, <1>5, <2>1, <3>1, <3>2 DEF Foreign
  <2>2. ASSUME CreateAt(1, d), NoCreate(p)' PROVE InHand(r, d)' \/ Foreign(r, d)'
    <3>1. Head(events).dir = d
      BY <1>4, <2>2 DEF CreateAt
    <3>2. adding' = IF targets # {} THEN [dir |-> d, targets |-> targets] ELSE None
      BY <1>2, <1>8, <3>1 DEF HandleCreate
    <3>3. CASE p \in list[r]
      <4>1. r \in registry[p] /\ gen[r] # 0
        BY <3>3 DEF Listed, Lives
      <4>2. r \in targets
        BY <1>2, <4>1 DEF Watchers, Due
      <4>3. adding' = [dir |-> d, targets |-> targets]
        BY <3>2, <4>2
      <4>4. targets \subseteq Services
        BY <1>2, WatchersTyped
      <4>5. adding' \in {None} \cup [dir : Dirs, targets : SUBSET Services] /\ adding'.dir = d /\ adding'.targets = targets
        BY <4>3, <4>4
      <4>6. adding' # None
        BY <1>2, <4>3, <4>4
      <4> QED  BY <1>1, <2>2, <4>1, <4>2, <4>5, <4>6 DEF InHand
    <3>4. CASE p \notin list[r]
      <4>1. d # p
        BY <1>2, TreeAssumption
      <4>2. adding' # None => adding'.dir = d
        BY <3>2
      <4> QED  BY <1>1, <2>2, <3>4, <4>1, <4>2 DEF Foreign
    <3> QED  BY <3>3, <3>4
  <2> QED  BY <1>2, <1>3, <1>6, <2>1, <2>2 DEF Kept
<1> QED  BY <1>7, <1>8

\* register enters the directory in hand, which is no parent of another due one.
LEMMA KeptByRegister ==
  ASSUME TypeOK, OnDisk, AllKept, Register
  PROVE  AllKept'
<1> USE WatcherAssumption
<1>t. ManTypes /\ DiskTypes /\ EventTypes
  BY Types
<1> SUFFICES ASSUME NEW r \in Services, NEW d \in Dirs, Due(r, d)' PROVE Kept(r, d)'
  BY DEF AllKept
<1>1. UNCHANGED <<disk, events, gen, announced, closed>> /\ adding # None /\ adding' = None
  BY DEF Register
<1>2. Due(r, d) /\ Kept(r, d) /\ ~closed /\ d \in disk
  BY <1>1 DEF Due, AllKept, OnDisk
<1>3. Announced(d) => Announced(d)'
  BY <1>1 DEF Announced, CreateAt
<1>4. NoCreate(Parent[d]) => NoCreate(Parent[d])'
  BY <1>1 DEF NoCreate, CreateAt
<1>5. CASE adding.dir \notin disk
  <2>1. UNCHANGED <<fs, list, registry>>
    BY <1>5 DEF Register
  <2>2. ~InHand(r, d)
    BY <1>2, <1>5 DEF InHand
  <2>3. Foreign(r, d) => Foreign(r, d)'
    BY <1>1, <1>4, <2>1 DEF Foreign
  <2>4. Entered(r, d) => Entered(r, d)'
    BY <2>1 DEF Entered
  <2> QED  BY <1>2, <1>3, <2>2, <2>3, <2>4 DEF Kept
<1>6. CASE adding.dir \in disk
  <2> DEFINE S == {s \in adding.targets : gen[s] # 0}
  <2>1. /\ fs' = fs \cup {adding.dir}
        /\ list' = [s \in Services |-> IF s \in S THEN list[s] \cup {adding.dir} ELSE list[s]]
        /\ registry' = [registry EXCEPT ![adding.dir] = @ \cup S]
    BY <1>2, <1>6 DEF Register
  <2>2. adding.dir \in Dirs
    BY <1>t, <1>6 DEF DiskTypes
  <2>3. registry'[d] = IF d = adding.dir THEN registry[d] \cup S ELSE registry[d]
    BY <1>t, <2>1, <2>2 DEF ManTypes
  <2>4. \A x : x \in list'[r] => x \in list[r] \/ x = adding.dir
    BY <2>1
  <2>5. Entered(r, d) => Entered(r, d)'
    BY <2>1, <2>3 DEF Entered
  <2>6. ASSUME InHand(r, d) PROVE Entered(r, d)' \/ Foreign(r, d)'
    <3>1. adding.dir = d /\ NoCreate(Parent[d])
      BY <2>6 DEF InHand
    <3>2. CASE r \in adding.targets /\ gen[r] # 0
      <4>1. r \in S
        BY <3>2
      <4> QED  BY <2>1, <2>3, <3>1, <4>1 DEF Entered
    <3>3. CASE Parent[d] \notin list[r]
      <4>1. Parent[d] # d
        BY <1>2, TreeAssumption DEF Due
      <4> QED  BY <1>1, <1>4, <2>4, <3>1, <3>3, <4>1 DEF Foreign
    <3> QED  BY <2>6, <3>2, <3>3 DEF InHand
  <2>7. Foreign(r, d) => Foreign(r, d)'
    BY <1>1, <1>4, <2>4 DEF Foreign
  <2> QED  BY <1>2, <1>3, <2>5, <2>6, <2>7 DEF Kept
<1> QED  BY <1>5, <1>6

\* The file system announces a directory after its parent.
LEMMA KeptByFileSystem ==
  ASSUME TypeOK, OnDisk, AllKept, NEW c \in Dirs, Write(c) \/ MakeDir(c) \/ RemoveDir(c)
  PROVE  AllKept'
<1> USE WatcherAssumption
<1>t. ManTypes /\ DiskTypes /\ EventTypes
  BY Types
<1> SUFFICES ASSUME NEW r \in Services, NEW d \in Dirs, Due(r, d)' PROVE Kept(r, d)'
  BY DEF AllKept
<1>1. UNCHANGED <<gen, list, registry, adding>>
  BY DEF Write, MakeDir, RemoveDir
<1>2. ASSUME Due(r, d), Entered(r, d) => Entered(r, d)',
             \/ UNCHANGED events
             \/ \E x \in Event : events' = Append(events, x) /\ (x.op = "create" => x.dir # Parent[d])
      PROVE  Kept(r, d)'
  <2>1. Announced(d) => Announced(d)'
    BY <1>2, KeptByAdding DEF Announced, CreateAt
  <2>2. NoCreate(Parent[d]) => NoCreate(Parent[d])'
    BY <1>2, KeptByAdding DEF NoCreate, CreateAt
  <2>3. InHand(r, d) \/ Foreign(r, d) => InHand(r, d)' \/ Foreign(r, d)'
    BY <1>1, <2>2 DEF InHand, Foreign
  <2> QED  BY <1>2, <2>1, <2>3 DEF AllKept, Kept
<1>3. CASE Write(c)
  <2>1. [op |-> "write", dir |-> c] \in Event /\ [op |-> "write", dir |-> c].op # "create"
    BY DEF Event
  <2>2. events' = Append(events, [op |-> "write", dir |-> c]) /\ UNCHANGED <<disk, fs, announced>>
    BY <1>3 DEF Write
  <2>3. Due(r, d) /\ (Entered(r, d) => Entered(r, d)')
    BY <1>1, <2>2 DEF Due, Entered
  <2> QED  BY <1>2, <2>1, <2>2, <2>3
<1>4. CASE MakeDir(c)
  <2>1. UNCHANGED fs /\ c \notin disk /\ disk' = disk \cup {c}
    BY <1>4 DEF MakeDir
  <2>2. Entered(r, d) => Entered(r, d)'
    BY <1>1, <2>1 DEF Entered
  <2> DEFINE x == [op |-> "create", dir |-> c]
  <2>3. x \in Event /\ x.op = "create" /\ x.dir = c
    BY DEF Event
  <2>4. /\ Parent[c] \in fs => events' = Append(events, x) /\ announced' = announced \cup (Services \X {c})
        /\ Parent[c] \notin fs => UNCHANGED events /\ announced' = announced \ (Services \X {c})
    BY <1>4 DEF MakeDir
  <2> HIDE DEF x
  <2>5. CASE d # c
    <3>1. Due(r, d)
      BY <2>1, <2>4, <2>5 DEF Due
    <3>2. Parent[d] # c
      BY <2>1, <3>1 DEF Due, OnDisk
    <3> QED  BY <1>2, <2>2, <2>3, <2>4, <3>1, <3>2
  <2>6. CASE d = c
    <3>1. Parent[c] \in fs
      BY <2>4, <2>6 DEF Due
    <3>2. events' = Append(events, x)
      BY <2>4, <3>1
    <3>3. Len(events') = Len(events) + 1 /\ Len(events) \in Nat /\ events'[Len(events) + 1] = x
      BY <2>3, <3>2, AddedEvent
    <3>4. PICK n \in Nat : n = Len(events) + 1
      BY <3>3
    <3>5. n \in 1..Len(events') /\ events'[n] = x /\ \A j \in 1..Len(events') : ~(j > n)
      BY <3>3, <3>4
    <3>6. CreateAt(n, d)'
      BY <2>3, <2>6, <3>5 DEF CreateAt
    <3>7. Announced(d)'
      BY <3>5, <3>6 DEF Announced
    <3> QED  BY <3>7 DEF Kept
  <2> QED  BY <2>5, <2>6
<1>5. CASE RemoveDir(c)
  <2>1. UNCHANGED <<events, announced>> /\ disk' = disk \ {c} /\ fs' = fs \ {c}
    BY <1>5 DEF RemoveDir
  <2>2. Due(r, d) /\ d # c
    BY <2>1 DEF Due
  <2>3. Entered(r, d) => Entered(r, d)'
    BY <1>1, <2>1, <2>2 DEF Entered
  <2> QED  BY <1>2, <2>1, <2>2, <2>3
<1> QED  BY <1>3, <1>4, <1>5

\* No step forgets a directory.
LEMMA AllKeptPreserved ==
  ASSUME TypeOK, Lives, OnDisk, Listed, AllKept, Next
  PROVE  AllKept'
<1>1. ASSUME NEW s \in Services, StartFails(s) \/ StartWatching(s) PROVE AllKept'
  BY <1>1, KeptByStarting
<1>2. ASSUME NEW s \in Services, StopWatching(s) PROVE AllKept'
  BY <1>2, KeptByStopping
<1>3. CASE Close
  BY <1>3 DEF Close, AllKept, Due
<1>4. CASE HandleWrite \/ HandleCreate
  BY <1>4, KeptByHandling
<1>5. CASE Register
  BY <1>5, KeptByRegister
<1>6. ASSUME NEW e \in emits, EmitCheck(e) \/ EmitPublish(e) PROVE AllKept'
  BY <1>6, KeptStill DEF EmitCheck, EmitPublish
<1>7. ASSUME NEW g \in Gens, TimerStep(g) \/ DebouncerStop(g) PROVE AllKept'
  BY <1>7, KeptStill DEF TimerStep, Expire, ExpireStray, Fire, DebouncerStop
<1>8. ASSUME NEW d \in Dirs, Write(d) \/ MakeDir(d) \/ RemoveDir(d) PROVE AllKept'
  BY <1>8, KeptByFileSystem
<1> QED  BY <1>1, <1>2, <1>3, <1>4, <1>5, <1>6, <1>7, <1>8 DEF Next, EventStep, EmitStep

-----------------------------------------------------------------------------
(* The inductive invariant and what follows from it *)

\* At first nothing is watched.
LEMMA InitIInv == Init => IInv
<1> SUFFICES ASSUME Init PROVE IInv
  OBVIOUS
<1> USE WatcherAssumption DEF Init
<1>1. ManTypes
  <2>1. 0 \in 0..MaxGen
    OBVIOUS
  <2> QED  BY <2>1 DEF ManTypes, Gens
<1>2. DiskTypes
  <2>1. 0 \in 0..MaxChanges
    OBVIOUS
  <2> QED  BY <2>1 DEF DiskTypes
<1>3. EventTypes
  <2>1. <<>> \in Seq(Event)
    OBVIOUS
  <2> QED  BY <2>1 DEF EventTypes
<1>4. DebTypes
  BY DEF DebTypes
<1>5. EmitTypes
  BY DEF EmitTypes
<1>6. TypeOK
  BY <1>1, <1>2, <1>3, <1>4, <1>5, Types
<1>7. Lives
  BY DEF Lives
<1>8. Collections /\ Changes /\ ChangeNotLost
  BY DEF Collections, Changes, ChangeNotLost
<1>9. OnDisk
  <2>1. Len(events) = 0
    OBVIOUS
  <2> QED  BY <2>1, TreeAssumption DEF OnDisk
<1>10. Listed /\ AllKept
  BY DEF Listed, AllKept, Due
<1> QED  BY <1>6, <1>7, <1>8, <1>9, <1>10 DEF IInv

\* Every step keeps it.
LEMMA StepIInv == IInv /\ [Next]_vars => IInv'
<1> SUFFICES ASSUME IInv, [Next]_vars PROVE IInv'
  OBVIOUS
<1>1. CASE Next
  <2>1. TypeOK' /\ Lives' /\ Collections' /\ Changes' /\ OnDisk' /\ Listed' /\ AllKept'
    BY <1>1, TypesPreserved, LivesPreserved, CollectionsPreserved, ChangesPreserved, OnDiskPreserved,
       ListedPreserved, AllKeptPreserved DEF IInv
  <2>2. ChangeNotLost'
    BY <1>1, <2>1, ChangeNotLostPreserved DEF IInv
  <2> QED  BY <2>1, <2>2 DEF IInv
<1>2. CASE UNCHANGED vars
  <2>1. TypeOK' /\ Lives' /\ Collections' /\ Changes'
    BY <1>2 DEF IInv, vars, TypeOK, Lives, Collections, Changes
  <2>2. ChangeNotLost' /\ OnDisk' /\ Listed'
    BY <1>2 DEF IInv, vars, ChangeNotLost, Collected, OnDisk, Listed
  <2>3. AllKept'
    BY <1>2, KeptStill DEF IInv, vars
  <2> QED  BY <2>1, <2>2, <2>3 DEF IInv
<1> QED  BY <1>1, <1>2

\* The invariant says what WatchKept does, and more.
LEMMA IInvKeeps == IInv => WatchKept
<1> SUFFICES ASSUME IInv, NEW s \in Services, gen[s] # 0, NEW d \in Dirs
             PROVE  /\ d \in list[s] => s \in registry[d]
                    /\ (<<s, d>> \in announced /\ d \in disk /\ Parent[d] \in list[s] /\ d \notin Ignored[s])
                       => (d \in fs /\ s \in registry[d]) \/ Coming(d)
  BY DEF WatchKept
<1>t. list[s] \subseteq Dirs /\ events \in Seq(Event) /\ DOMAIN events = 1..Len(events)
  BY Types, LenProperties DEF IInv, ManTypes, EventTypes
<1>1. d \in list[s] => s \in registry[d]
  BY DEF IInv, Listed
<1>2. ASSUME <<s, d>> \in announced, d \in disk, Parent[d] \in list[s], d \notin Ignored[s]
      PROVE  (d \in fs /\ s \in registry[d]) \/ Coming(d)
  <2>1. Due(s, d)
    BY <1>t, <1>2, WatcherAssumption DEF Due
  <2>2. Kept(s, d) /\ ~Foreign(s, d)
    BY <1>2, <2>1 DEF IInv, AllKept, Foreign
  <2>3. Announced(d) => Coming(d)
    <3>1. SUFFICES ASSUME Announced(d) PROVE Coming(d)
      OBVIOUS
    <3>2. PICK i \in 1..Len(events) : CreateAt(i, d)
      BY <3>1 DEF Announced
    <3>e. events[i] \in Event
      BY <1>t, <3>2
    <3>3. events[i] = [op |-> "create", dir |-> d]
      BY <3>2, <3>e DEF CreateAt, Event
    <3> QED  BY <1>t, <3>3 DEF Coming
  <2>4. InHand(s, d) => Coming(d)
    BY DEF InHand, Coming
  <2> QED  BY <2>2, <2>3, <2>4 DEF Kept, Entered
<1> QED  BY <1>1, <1>2

\* The types of the watcher's variables.
THEOREM WatcherTypeOK == Spec => []TypeOK
<1>1. Init => IInv
  BY InitIInv
<1>2. IInv /\ [Next]_vars => IInv'
  BY StepIInv
<1>3. IInv => TypeOK
  BY DEF IInv
<1> QED  BY <1>1, <1>2, <1>3, PTL DEF Spec

\* A watched service is entered for every directory it was given, and directories
\* that appear below are entered or on their way (watcher.go:188-206, 290-343, 437-468).
THEOREM WatcherWatchKept == Spec => []WatchKept
<1>1. Init => IInv
  BY InitIInv
<1>2. IInv /\ [Next]_vars => IInv'
  BY StepIInv
<1>3. IInv => WatchKept
  BY IInvKeeps
<1> QED  BY <1>1, <1>2, <1>3, PTL DEF Spec

\* A change that fsnotify saw for a watched service is reported or still on its way
\* (debouncer.go:34-86).
THEOREM WatcherChangeNotLost == Spec => []ChangeNotLost
<1>1. Init => IInv
  BY InitIInv
<1>2. IInv /\ [Next]_vars => IInv'
  BY StepIInv
<1>3. IInv => ChangeNotLost
  BY DEF IInv
<1> QED  BY <1>1, <1>2, <1>3, PTL DEF Spec

=============================================================================
