-------------------------------- MODULE Yaml --------------------------------
(***************************************************************************)
(* YAML documents as trees and the merging of an override into a base      *)
(* (internal/config/merge.go).  Keys and scalars are strings; tags, styles *)
(* and comments are left out.  An alias holds the node it points at, as    *)
(* yaml.Node.Alias does; no node contains an alias of itself.              *)
(***************************************************************************)
EXTENDS Sequences, SequencesExt, TLC

None == ""
MergeKey == "<<"

\* A yaml.Node.  items are the content: the keys of a sequence's items are None.
Node(kind, val, items) == [kind |-> kind, anchor |-> None, val |-> val, items |-> items]
Item(k, n) == [key |-> k, node |-> n]

Scalar(v) == Node("scalar", v, <<>>)
NullNode == Node("null", None, <<>>)
Mapping(items) == Node("map", None, items)
Sequence(nodes) == Node("seq", None, [i \in DOMAIN nodes |-> Item(None, nodes[i])])
Anchored(n, a) == [n EXCEPT !.anchor = a]
AliasOf(n) == Node("alias", n.anchor, <<Item(None, n)>>)

\* What stands for the nil that mergeNodes and resolveAliasValue return.
Removed == Node("removed", None, <<>>)

IsNull(n) == n.kind = "null"
IsMap(n) == n.kind = "map"
Keys(n) == {n.items[i].key : i \in DOMAIN n.items}

\* buildKeyIndex: of a key that occurs twice the last one counts.
ValueOf(n, k) ==
    n.items[CHOOSE i \in DOMAIN n.items : /\ n.items[i].key = k
                                          /\ \A j \in DOMAIN n.items : n.items[j].key = k => j <= i].node

Target(alias) == alias.items[1].node

\* resolveNode
Deref(n) == IF n.kind = "alias" THEN [Target(n) EXCEPT !.anchor = None] ELSE n

\* mergeKeyTargets
MapTargets(items) ==
    LET maps == SelectSeq(items, LAMBDA it : it.node.kind = "alias" /\ IsMap(Target(it.node)))
    IN  [i \in DOMAIN maps |-> Target(maps[i].node)]

MergeKeyTargets(v) ==
    CASE v.kind = "alias" -> MapTargets(<<Item(None, v)>>)
      [] v.kind = "seq"   -> MapTargets(v.items)
      [] v.kind = "map"   -> <<v>>
      [] OTHER            -> <<>>

\* flattenMergeKeys: explicit keys first, then those of the targets, the first of a name.
AddUnseen(items, it) ==
    IF \E i \in DOMAIN items : items[i].key = it.key THEN items ELSE Append(items, it)

RECURSIVE Flatten(_)
Flatten(n) ==
    IF ~IsMap(n) \/ MergeKey \notin Keys(n)
    THEN n
    ELSE LET explicit == SelectSeq(n.items, LAMBDA it : it.key # MergeKey)
             merges   == SelectSeq(n.items, LAMBDA it : it.key = MergeKey)
             targets  == FlattenSeq([i \in DOMAIN merges |-> MergeKeyTargets(merges[i].node)])
             inherited == FlattenSeq([i \in DOMAIN targets |-> Flatten(targets[i]).items])
         IN  [n EXCEPT !.items = FoldLeft(AddUnseen, explicit, inherited)]

-----------------------------------------------------------------------------
\* The anchor of a merged node: the override's, else the base's.
PreserveAnchor(b, o) == IF o.anchor = None THEN [o EXCEPT !.anchor = b.anchor] ELSE o

\* mergeSequences
MergeSequences(b, o) == PreserveAnchor(b, [o EXCEPT !.items = b.items \o o.items])

\* mergeNodes and mergeMappings
RECURSIVE MergeNodes(_, _)
MergeMappings(base, over) ==
    LET b == Flatten(base)
        o == Flatten(over)
        Merge(it) == IF it.key \in Keys(o) THEN Item(it.key, MergeNodes(it.node, ValueOf(o, it.key))) ELSE it
        kept == SelectSeq([i \in DOMAIN b.items |-> Merge(b.items[i])], LAMBDA it : it.node.kind # "removed")
        new  == SelectSeq(o.items, LAMBDA it : it.key \notin Keys(b) /\ ~IsNull(it.node))
    IN  PreserveAnchor(b, [o EXCEPT !.items =
            kept \o [i \in DOMAIN new |-> Item(new[i].key, Flatten(Deref(new[i].node)))]])

\* Faulty: an alias in the base is not followed before the override is merged into it.
MergeNodesNoDeref(base, over) ==
    LET o == Deref(over)
    IN  CASE IsNull(o) -> Removed
          [] ~IsNull(o) /\ IsMap(base) /\ IsMap(o) -> MergeMappings(base, o)
          [] OTHER -> PreserveAnchor(base, o)

MergeNodes(base, over) ==
    LET b == Deref(base)
        o == Deref(over)
    IN  CASE IsNull(o) -> Removed
          [] ~IsNull(o) /\ IsMap(b) /\ IsMap(o) -> MergeMappings(b, o)
          [] ~IsNull(o) /\ b.kind = "seq" /\ o.kind = "seq" -> MergeSequences(b, o)
          [] OTHER -> PreserveAnchor(b, o)

-----------------------------------------------------------------------------
\* collectAnchors: of two nodes with one anchor the later counts.
RECURSIVE Anchors(_)
Anchors(n) ==
    LET own == IF n.anchor = None THEN <<>> ELSE n.anchor :> n
        Add(found, it) == Anchors(it.node) @@ found
    IN  IF n.kind = "alias" THEN own ELSE FoldLeft(Add, own, n.items)

\* copyNode
RECURSIVE CopyNode(_)
CopyNode(n) ==
    [n EXCEPT !.anchor = None,
              !.items = [i \in DOMAIN n.items |-> Item(n.items[i].key, IF n.kind = "alias" THEN Target(n)
                                                                       ELSE CopyNode(n.items[i].node))]]

\* Faulty: an alias keeps the node it pointed at before the merge.
AliasValueBeforeMerge(n, anchors) == Deref(n)

\* resolveAliasValue
AliasValue(n, anchors) ==
    CASE n.kind # "alias" -> n
      [] n.kind = "alias" /\ n.val \in DOMAIN anchors -> CopyNode(anchors[n.val])
      [] OTHER -> Removed

\* replaceAliases: a mapping that merged an anchor no longer there goes with it.
RECURSIVE ReplaceAliases(_, _)
ReplaceAliases(n, anchors) ==
    LET Resolve(it) == LET v == AliasValue(it.node, anchors)
                       IN  Item(it.key, IF v.kind = "removed" THEN v ELSE ReplaceAliases(v, anchors))
        lostMerge == \E i \in DOMAIN n.items : /\ n.items[i].key = MergeKey
                                               /\ AliasValue(n.items[i].node, anchors).kind = "removed"
    IN  CASE n.kind \notin {"map", "seq"} -> n
          [] IsMap(n) /\ lostMerge -> Removed
          [] OTHER -> [n EXCEPT !.items = SelectSeq([i \in DOMAIN n.items |-> Resolve(n.items[i])],
                                                    LAMBDA it : it.node.kind # "removed")]

\* resolveAliases on the root, whose own removal is not looked at.
ResolveAliases(root) ==
    LET resolved == ReplaceAliases(root, Anchors(root))
    IN  IF resolved.kind = "removed" THEN root ELSE resolved

-----------------------------------------------------------------------------
\* An alias of the override to an anchor it does not define: it cannot be parsed alone.
RECURSIVE AliasNames(_)
AliasNames(n) ==
    IF n.kind = "alias" THEN {n.val} ELSE UNION {AliasNames(n.items[i].node) : i \in DOMAIN n.items}

ParsesAlone(n) == AliasNames(n) \subseteq DOMAIN Anchors(n)

\* extractAnchorDefs: the top-level entries of the base that hold an anchor, in front of the override.
InjectAnchors(base, over) ==
    IF ParsesAlone(over) \/ ~IsMap(base)
    THEN over
    ELSE LET defs == SelectSeq(base.items, LAMBDA it : DOMAIN Anchors(it.node) # {})
         IN  [over EXCEPT !.items = defs \o over.items]

\* mergeYAML.  Removed stands for a document with no content.
MergeYAML(base, over) ==
    LET parsed == InjectAnchors(base, over)
    IN  CASE over.kind = "removed" -> base
          [] over.kind # "removed" /\ base.kind = "removed" -> ResolveAliases(parsed)
          [] over.kind # "removed" /\ base.kind # "removed" /\ MergeNodes(base, parsed).kind = "removed" -> base
          [] OTHER -> ResolveAliases(MergeNodes(base, parsed))

-----------------------------------------------------------------------------
(* What a document means to the decoder (yaml.v3, through viper), which has its  *)
(* own reading of merge keys: aliases and merge keys gone, mappings as functions. *)
Meant(n) == IF n.kind = "alias" THEN Target(n) ELSE n

\* What a merge key names, in the order in which it counts: an alias or a mapping, or a
\* list of those.
Sources(v) == IF v.kind = "seq" THEN [i \in DOMAIN v.items |-> Meant(v.items[i].node)] ELSE <<Meant(v)>>

\* No key occurs twice in a mapping, and a merge key names mappings only.
RECURSIVE Decodes(_)
Decodes(n) ==
    /\ \A i \in DOMAIN n.items : Decodes(n.items[i].node)
    /\ IsMap(n) => \A i, j \in DOMAIN n.items : n.items[i].key = n.items[j].key => i = j
    /\ IsMap(n) /\ MergeKey \in Keys(n) =>
          \A i \in DOMAIN Sources(ValueOf(n, MergeKey)) : IsMap(Sources(ValueOf(n, MergeKey))[i])

\* The fields of a mapping: its own, and of each name the first of those it merges.
RECURSIVE Fields(_)
Fields(n) ==
    LET own == [k \in Keys(n) \ {MergeKey} |-> ValueOf(n, k)]
        Inherit(fields, m) == fields @@ Fields(m)
    IN  IF MergeKey \in Keys(n) THEN FoldLeft(Inherit, own, Sources(ValueOf(n, MergeKey))) ELSE own

Value(kind, val, seq, map) == [kind |-> kind, val |-> val, seq |-> seq, map |-> map]

RECURSIVE Plain(_)
Plain(n) ==
    CASE n.kind = "alias" -> Plain(Target(n))
      [] IsMap(n) -> Value("map", None, <<>>, [k \in DOMAIN Fields(n) |-> Plain(Fields(n)[k])])
      [] n.kind = "seq" -> Value("seq", None, [i \in DOMAIN n.items |-> Plain(n.items[i].node)], <<>>)
      [] OTHER -> Value(n.kind, n.val, <<>>, <<>>)

\* Whether a list below a merge key of n holds aliases only: mergeKeyTargets passes over
\* mappings that are written out in it.
RECURSIVE ListsName(_)
ListsName(n) ==
    \A i \in DOMAIN n.items :
        LET it == n.items[i]
        IN  /\ ListsName(it.node)
            /\ it.key = MergeKey /\ it.node.kind = "seq" =>
                   \A j \in DOMAIN it.node.items : it.node.items[j].node.kind = "alias"

\* The reference definition of an override: docs/src/pages/docs/configuration.astro:197-228.
RECURSIVE Overlay(_, _)
Overlay(b, o) ==
    CASE b.kind = "map" /\ o.kind = "map" ->
            LET keys == {k \in DOMAIN b.map \cup DOMAIN o.map : k \in DOMAIN o.map => o.map[k].kind # "null"}
            IN  Value("map", None, <<>>,
                      [k \in keys |-> CASE k \notin DOMAIN o.map -> b.map[k]
                                        [] k \notin DOMAIN b.map -> o.map[k]
                                        [] OTHER -> Overlay(b.map[k], o.map[k])])
      [] b.kind = "seq" /\ o.kind = "seq" -> Value("seq", None, b.seq \o o.seq, <<>>)
      [] OTHER -> o
=============================================================================
