------------------------------- MODULE Config -------------------------------
(***************************************************************************)
(* How fuku gets from files to tiers: internal/config/loader.go finds and  *)
(* reads a file, merges an override into it (Yaml), derives the order of   *)
(* tiers from the text (topology.go), decodes it, applies defaults and     *)
(* validates it; discovery then resolves a profile (Discovery).  The       *)
(* decoder (viper) is external: it sees what the document means, refuses   *)
(* one that repeats a key or merges what is no mapping, drops services     *)
(* without a field and fills fields that exist by default.                 *)
(***************************************************************************)
EXTENDS Yaml, Topology, Integers, FiniteSets

CONSTANTS
    Disks,      \* states of the four files: [Files -> nodes and the marks below]
    Paths,      \* what --config may name; None if it is not given
    Profiles,   \* the profiles asked for
    Normal,     \* normalizeTier and TrimSpace on the scalars that occur
    Number,     \* strconv on those that are numbers
    LogOutputs, \* scalars that are stdout or stderr in some case
    Listen      \* server.listen values with a loopback host and a valid port

ConfigFile == "fuku.yaml"
ConfigFileAlt == "fuku.yml"
OverrideConfigFile == "fuku.override.yaml"
OverrideConfigFileAlt == "fuku.override.yml"
Files == {ConfigFile, ConfigFileAlt, OverrideConfigFile, OverrideConfigFileAlt}

\* Files that are not there, cannot be examined, cannot be read, are not YAML.
Absent == Node("absent", None, <<>>)
NoStat == Node("nostat", None, <<>>)
NoRead == Node("noread", None, <<>>)
Garbage == Node("garbage", None, <<>>)
Empty == Removed

ASSUME NormalAssumption == \A v \in DOMAIN Normal : Normal[v] \in DOMAIN Normal /\ Normal[Normal[v]] = Normal[v]

VARIABLES
    pc,         \* the next step, "ready" or "failed"
    disk,       \* the files; they do not change meanwhile
    path,       \* --config
    profile,    \* the profile asked for, None until then
    file,       \* the base file chosen, None without one
    doc,        \* the document, merged once the override is applied
    topology,   \* parseTierOrder's order and services by tier
    cfg,        \* the decoded configuration
    resolved    \* Resolve's answer

vars == <<pc, disk, path, profile, file, doc, topology, cfg, resolved>>
inputs == <<disk, path>>

-----------------------------------------------------------------------------
(* The topology, from the nodes of the document and not from its meaning. *)
TierField(n) ==
    LET f == Flatten(n)
    IN  IF "tier" \in Keys(f) THEN Normal[ValueOf(f, "tier").val] ELSE NoTier

Entries(root, k) ==
    IF IsMap(root) THEN SelectSeq(root.items, LAMBDA it : it.key = k /\ IsMap(it.node)) ELSE <<>>

DeclaredDefault(root) ==
    LET defaults == Entries(root, "defaults")
    IN  IF defaults = <<>> THEN NoTier ELSE TierField(Last(defaults).node)

\* The tier of each service that is a mapping, in the order of the text.
DeclaredTiers(root) ==
    LET services == FlattenSeq([i \in DOMAIN Entries(root, "services") |-> Entries(root, "services")[i].node.items])
        mappings == SelectSeq(services, LAMBDA it : IsMap(it.node))
        Tier(n) == IF TierField(n) # NoTier THEN TierField(n) ELSE DeclaredDefault(root)
    IN  [i \in DOMAIN mappings |-> [service |-> mappings[i].key, tier |-> Tier(mappings[i].node)]]

DefaultTopology == [order |-> <<>>, tierServices |-> <<>>, hasDefaultOnly |-> TRUE]

parseTierOrder(root) ==
    LET declared == DeclaredTiers(root)
        order == TierOrder(declared)
        tiers == {Named(declared[i]) : i \in DOMAIN declared}
    IN  [order |-> order,
         tierServices |-> [t \in tiers |-> {declared[i].service : i \in {j \in DOMAIN declared : Named(declared[j]) = t}}],
         hasDefaultOnly |-> IsMap(root) /\ order \in {<<>>, <<Default>>}]

-----------------------------------------------------------------------------
(* The configuration, from the meaning of the document. *)
Missing == Value("missing", None, <<>>, <<>>)
Get(v, k) == IF v.kind = "map" /\ k \in DOMAIN v.map THEN v.map[k] ELSE Missing
Has(v, k) == Get(v, k).kind \notin {"missing", "null"}
Text(v, k) == Get(v, k).val
Int2(v, section, k, default) == IF Has(Get(v, section), k) THEN Number[Text(Get(v, section), k)] ELSE default

ProfileOf(v) ==
    CASE v.kind = "scalar" -> [kind |-> "string", entries |-> <<v.val>>]
      [] v.kind = "seq" /\ (\A i \in DOMAIN v.seq : v.seq[i].kind = "scalar") ->
            [kind |-> "list", entries |-> [i \in DOMAIN v.seq |-> v.seq[i].val]]
      [] OTHER -> [kind |-> v.kind, entries |-> <<>>]

MaxWorkers == 5
RetryAttempts == 3
RetryBackoff == 500
SocketLogsBufferSize == 1000
SocketLogsHistorySize == 5000

DefaultProfiles == Default :> [kind |-> "string", entries |-> <<Wildcard>>]

\* DefaultConfig with what the decoder found in v
Decode(v) ==
    LET services == {s \in DOMAIN Get(v, "services").map : DOMAIN Get(Get(v, "services"), s).map # {}}
        given == {p \in DOMAIN Get(v, "profiles").map : Has(Get(v, "profiles"), p)}
    IN  [services |-> [s \in services |-> Get(Get(v, "services"), s)],
         tier     |-> [s \in services |-> Text(Get(Get(v, "services"), s), "tier")],
         dir      |-> [s \in services |-> Text(Get(Get(v, "services"), s), "dir")],
         default  |-> Text(Get(v, "defaults"), "tier"),
         profiles |-> [p \in given |-> ProfileOf(Get(v, "profiles").map[p])] @@ DefaultProfiles,
         workers  |-> Int2(v, "concurrency", "workers", MaxWorkers),
         attempts |-> Int2(v, "retry", "attempts", RetryAttempts),
         backoff  |-> Int2(v, "retry", "backoff", RetryBackoff),
         buffer   |-> Int2(v, "logs", "buffer", SocketLogsBufferSize),
         history  |-> Int2(v, "logs", "history", SocketLogsHistorySize),
         listen   |-> Text(Get(v, "server"), "listen"),
         token    |-> Text(Get(Get(v, "server"), "auth"), "token")]

ApplyDefaults(c) ==
    [c EXCEPT !.dir = [s \in DOMAIN c.dir |-> IF c.dir[s] = None THEN s ELSE c.dir[s]],
              !.tier = [s \in DOMAIN c.tier |-> IF c.tier[s] = NoTier THEN c.default ELSE c.tier[s]]]

normalizeTiers(c) ==
    [c EXCEPT !.tier = [s \in DOMAIN c.tier |-> Normal[c.tier[s]]], !.default = Normal[c.default]]

-----------------------------------------------------------------------------
(* Validate *)
ReadinessTarget == "http" :> "url" @@ "tcp" :> "address" @@ "log" :> "pattern"

ValidReadiness(r) ==
    /\ Text(r, "type") \in DOMAIN ReadinessTarget
    /\ Text(r, ReadinessTarget[Text(r, "type")]) # None

ValidService(s) ==
    /\ Text(s, "command") # None => Normal[Text(s, "command")] # None
    /\ Has(s, "readiness") => ValidReadiness(Get(s, "readiness"))
    /\ LET output == Get(Get(s, "logs"), "output").seq
       IN  \A i \in DOMAIN output : output[i].val \in LogOutputs
    /\ Has(s, "watch") => Get(Get(s, "watch"), "include").seq # <<>>

ValidServer(c) == c.listen # None => c.token # None /\ c.listen \in Listen

Validate(c) ==
    /\ c.workers > 0
    /\ c.attempts > 0
    /\ c.backoff >= 0
    /\ c.buffer > 0
    /\ c.history > 0
    /\ ValidServer(c)
    /\ \A s \in DOMAIN c.services : ValidService(c.services[s])

-----------------------------------------------------------------------------
NoConfig == ApplyDefaults(Decode(Missing))

Init ==
    /\ pc = "locate"
    /\ disk \in Disks
    /\ path \in Paths
    /\ profile = None
    /\ file = None
    /\ doc = Empty
    /\ topology = DefaultTopology
    /\ cfg = NoConfig
    /\ resolved = Failure("not resolved")

Fail ==
    /\ pc' = "failed"
    /\ UNCHANGED <<inputs, profile, file, doc, topology, cfg, resolved>>

\* The first candidate that is there; one that cannot be examined is an error.
Choice(candidates) ==
    LET there == SelectSeq(candidates, LAMBDA f : disk[f] # Absent)
    IN  IF there = <<>> THEN None ELSE Head(there)

BaseFile == IF path = None THEN Choice(<<ConfigFile, ConfigFileAlt>>) ELSE path
OverrideFile == Choice(<<OverrideConfigFile, OverrideConfigFileAlt>>)

\* resolveDefaultConfig, resolveExplicitConfig and ReadFile.  Without a file Load
\* returns the defaults at once.
Locate ==
    /\ pc = "locate"
    /\ \/ /\ BaseFile = None
          /\ pc' = "resolve"
          /\ UNCHANGED <<file, doc>>
       \/ /\ BaseFile # None
          /\ disk[BaseFile] \notin {Absent, NoStat, NoRead}
          /\ file' = BaseFile
          /\ doc' = disk[BaseFile]
          /\ pc' = IF path = None THEN "override" ELSE "parse"
    /\ UNCHANGED <<inputs, profile, topology, cfg, resolved>>

LocateFails ==
    /\ pc = "locate"
    /\ BaseFile # None
    /\ disk[BaseFile] \in {Absent, NoStat, NoRead}
    /\ Fail

\* applyOverride; only Load comes here.
OverrideUnusable ==
    /\ OverrideFile # None
    /\ \/ disk[OverrideFile] \in {NoStat, NoRead, Garbage}
       \/ doc = Garbage
       \/ ~ParsesAlone(InjectAnchors(doc, disk[OverrideFile]))

ApplyOverride ==
    /\ pc = "override"
    /\ ~OverrideUnusable
    /\ doc' = IF OverrideFile = None THEN doc ELSE MergeYAML(doc, disk[OverrideFile])
    /\ pc' = "parse"
    /\ UNCHANGED <<inputs, profile, file, topology, cfg, resolved>>

ApplyOverrideFails ==
    /\ pc = "override"
    /\ OverrideUnusable
    /\ Fail

\* parseConfig
Decodable == doc.kind \in {"map", "null", "removed"} /\ Decodes(doc)

Parse ==
    /\ pc = "parse"
    /\ Decodable
    /\ topology' = parseTierOrder(doc)
    /\ cfg' = normalizeTiers(ApplyDefaults(Decode(Plain(doc))))
    /\ pc' = "validate"
    /\ UNCHANGED <<inputs, profile, file, doc, resolved>>

ParseFails ==
    /\ pc = "parse"
    /\ ~Decodable
    /\ Fail

Accept ==
    /\ pc = "validate"
    /\ Validate(cfg)
    /\ pc' = "resolve"
    /\ UNCHANGED <<inputs, profile, file, doc, topology, cfg, resolved>>

Reject ==
    /\ pc = "validate"
    /\ ~Validate(cfg)
    /\ Fail

\* discovery.Resolve at the start of runner.Run
ResolveProfile ==
    /\ pc = "resolve"
    /\ profile' \in Profiles
    /\ resolved' = Resolve(cfg.profiles, cfg.tier, topology.order, profile')
    /\ pc' = "ready"
    /\ UNCHANGED <<inputs, file, doc, topology, cfg>>

Next ==
    \/ Locate \/ LocateFails
    \/ ApplyOverride \/ ApplyOverrideFails
    \/ Parse \/ ParseFails
    \/ Accept \/ Reject
    \/ ResolveProfile

Spec == Init /\ [][Next]_vars

-----------------------------------------------------------------------------
(* Properties *)

\* Whether the override gives another value to something that holds an anchor of the base.
RECURSIVE TouchesAnchor(_, _)
TouchesAnchor(b, o) ==
    /\ DOMAIN Anchors(b) # {}
    /\ \/ b.anchor # None
       \/ ~(IsMap(b) /\ IsMap(o))
       \/ \E k \in Keys(b) \cap Keys(o) : TouchesAnchor(ValueOf(b, k), ValueOf(o, k))
       \/ DOMAIN Anchors(b) \cap DOMAIN Anchors(o) # {}

Merged == pc = "parse" /\ path = None /\ OverrideFile # None
Base == disk[file]
Over == disk[OverrideFile]

\* An override that stands for itself and leaves the anchors of the base alone gives the
\* document that the merge rules of the documentation describe, whichever aliases, merge
\* keys and lists of aliases either of them uses, as the decoder understands them
\* (merge.go: mergeYAML).
MergeIsOverlay ==
    /\ Merged /\ Over # Empty /\ ParsesAlone(Over) /\ ~TouchesAnchor(Base, Over)
    /\ Decodes(Base) /\ ListsName(Base) /\ Decodes(Over) /\ ListsName(Over)
    => Decodes(doc) /\ Plain(doc) = Overlay(Plain(Base), Plain(Over))

\* The paths of mappings below n at which there is an alias, each with its anchor.
RECURSIVE AliasPaths(_)
AliasPaths(n) ==
    UNION {LET it == n.items[i]
           IN  CASE it.node.kind = "alias" -> {[path |-> <<it.key>>, anchor |-> it.node.val]}
                 [] IsMap(it.node) -> {[p EXCEPT !.path = <<it.key>> \o @] : p \in AliasPaths(it.node)}
                 [] OTHER -> {}
           : i \in DOMAIN n.items}

At(v, p) == FoldLeft(Get, v, p)

\* Whether the override says something about what is at path p of the base.
RECURSIVE Mentions(_, _)
Mentions(o, p) == p = <<>> \/ ~IsMap(o) \/ (Head(p) \in Keys(o) /\ Mentions(ValueOf(o, Head(p)), Tail(p)))

\* An alias of the base which the override does not mention has the value its anchor has
\* after the merge, and is gone if that is gone (merge.go: resolveAliases).
AliasesFollowAnchors ==
    Merged /\ Base # Empty /\ Over # Empty /\ IsMap(Over) /\ Decodes(doc) =>
        \A a \in AliasPaths(Base) :
            /\ a.path[Len(a.path)] # MergeKey
            /\ ~Mentions(Over, a.path)
            /\ a.anchor \notin DOMAIN Anchors(Over)
            /\ At(Plain(doc), Front(a.path)).kind # "missing"
            => \A k \in Keys(Base) :
                  ValueOf(Base, k).anchor = a.anchor => At(Plain(doc), a.path) = Get(Plain(doc), k)

\* The services of the text in its order, and the tier each declares or inherits.
ServicesInText == LET e == Entries(doc, "services") IN IF e = <<>> THEN <<>> ELSE Last(e).node.items
Meaning == Plain(doc)
DeclaredTier(s) ==
    LET own == Normal[Text(Get(Get(Meaning, "services"), s), "tier")]
        inherited == Normal[Text(Get(Meaning, "defaults"), "tier")]
    IN  CASE own # NoTier -> own
          [] own = NoTier /\ inherited # NoTier -> inherited
          [] OTHER -> Default

\* Services are written as mappings, with a tier that is a scalar and not blank if they
\* have or merge one.
WrittenOut ==
    \A i \in DOMAIN ServicesInText :
        LET n == ServicesInText[i].node
        IN  /\ IsMap(n)
            /\ "tier" \in DOMAIN Fields(n) =>
                  Fields(n)["tier"].kind = "scalar" /\ Normal[Fields(n)["tier"].val] # NoTier

\* Neither services nor defaults merge lists with mappings written out in them, as every
\* list of aliases becomes in a document that an override was merged into.
ListsPlain == \A k \in {"services", "defaults"} : \A i \in DOMAIN Entries(doc, k) : ListsName(Entries(doc, k)[i].node)

\* Each service of the profile is in one tier, the one it declares, and the tiers follow
\* each other by first appearance in the text with the default one last.
ResolvedAsDeclared ==
    LET Entry(s) == [service |-> s, tier |-> DeclaredTier(s)]
    IN  AsDeclared([i \in DOMAIN ServicesInText |-> Entry(ServicesInText[i].key)],
                   Names(cfg.profiles[profile], cfg.services), resolved.tiers)

\* Resolve gives the tiers as they are declared, although their order comes from the code's
\* own walk over the text and membership from the decoder, each with its own reading of
\* merge keys (topology.go, discovery.go).
TiersAsDeclared ==
    pc = "ready" /\ resolved.error = "" /\ WrittenOut /\ ListsPlain => ResolvedAsDeclared

\* configuration.astro:103, "Tier order is defined by first appearance in the YAML file",
\* with lists of any kind: once there is an override, resolveAliases writes out what a list
\* of aliases merges, and flattenMergeKeys passes over it (merge.go:272-278, 335-352), so
\* that the decoder knows a tier that parseTierOrder has not seen (topology.go:89-97).
TiersInTextOrder ==
    pc = "ready" /\ resolved.error = "" /\ WrittenOut => ResolvedAsDeclared
=============================================================================
