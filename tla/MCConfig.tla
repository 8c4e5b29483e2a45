------------------------------ MODULE MCConfig ------------------------------
(* Documents for TLC: three services, a block with an anchor, defaults and profiles,  *)
(* written plainly, with aliases and with merge keys; overrides of each part of them. *)
EXTENDS Config

Map1(k, n) == Mapping(<<Item(k, n)>>)
Opt(k, n) == IF n = Absent THEN <<>> ELSE <<Item(k, n)>>

\* The block others refer to.
Block == Anchored(Mapping(<<Item("tier", Scalar("Base ")), Item("list", Sequence(<<Scalar("a")>>))>>), "b")
Block2 == Anchored(Mapping(<<Item(MergeKey, AliasOf(Block)), Item("dir", Scalar("d"))>>), "c")

Tier(t) == Map1("tier", Scalar(t))
MergingList == Map1(MergeKey, Sequence(<<AliasOf(Block2), AliasOf(Block)>>))
Bodies == {Tier("edge"), Tier("base"), Map1("dir", Scalar("d")), AliasOf(Block),
           Mapping(<<Item("dir", Scalar("d")), Item(MergeKey, AliasOf(Block))>>),
           Mapping(<<Item(MergeKey, AliasOf(Block2)), Item("tier", Scalar("edge"))>>),
           Mapping(<<Item("dir", Scalar("d")), Item("watch", AliasOf(Block))>>),
           MergingList, Map1(MergeKey, Sequence(<<AliasOf(Block), Tier("ops")>>)),
           Map1(MergeKey, Scalar("a")), Mapping(<<Item("tier", Scalar("edge")), Item("tier", Scalar("base"))>>)}

Defaults == {Absent, Tier(" Edge"), Tier("default")}

DevProfile == Mapping(<<Item("dev", Sequence(<<Scalar("web"), Scalar("api"), Scalar("web")>>)),
                        Item("one", Scalar("db")), Item("odd", Sequence(<<NullNode>>)),
                        Item("bad", Mapping(<<>>)), Item("lost", Scalar("gone"))>>)

Doc(x, y, d, api, db, web) ==
    Mapping(Opt("x", x) \o Opt("y", y) \o Opt("defaults", d)
            \o <<Item("services", Mapping(<<Item("web", web), Item("api", api), Item("db", db)>>)),
                 Item("profiles", DevProfile)>>)

BaseDocs == {Doc(Block, Block2, d, a, b, w) : d \in Defaults, a \in Bodies, b \in {Tier("base"), Tier(" "), Map1("dir", Scalar("d"))},
                                              w \in {Map1("dir", Scalar("d")), Tier("edge")}}
PlainDocs == {Doc(Absent, Absent, d, a, b, Tier("edge")) : d \in Defaults, a \in {Tier("base"), Map1("dir", Scalar("d"))},
                                                          b \in {Tier("base"), Tier("Default")}}

OverX == {Absent, NullNode, Scalar("base"), Map1("tier", Scalar("edge")), Map1("list", Sequence(<<Scalar("a"), Scalar("b")>>))}
OverApi == {Absent, NullNode, Tier("edge"), Map1("tier", NullNode), Map1("watch", Map1("tier", Scalar("edge"))),
            Map1("list", Sequence(<<Scalar("b")>>)), AliasOf(Block)}
Own == Anchored(Map1("tier", Scalar("ops")), "o")
OverNew == {Absent, Mapping(<<Item(MergeKey, AliasOf(Own)), Item("dir", NullNode)>>)}

OverDoc(x, api, new) ==
    Mapping(Opt("x", x) \o Opt("o", IF new = Absent THEN Absent ELSE Own)
            \o (IF api = Absent /\ new = Absent THEN <<>>
                ELSE <<Item("services", Mapping(Opt("api", api) \o Opt("ops", new)))>>))

OverDocs == {OverDoc(x, a, n) : x \in OverX, a \in OverApi, n \in OverNew} \cup {Empty, NullNode}

Disk(base, alt, over, overAlt) ==
    ConfigFile :> base @@ ConfigFileAlt :> alt @@ OverrideConfigFile :> over @@ OverrideConfigFileAlt :> overAlt

Section(k, f, v) == Map1(k, Map1(f, Scalar(v)))
Readiness(t, f) == Map1("services", Map1("api", Map1("readiness", Mapping(<<Item("type", Scalar(t)), Item(f, Scalar("u"))>>))))
Settings == {Section(s, "workers", n) : s \in {"concurrency", "other"}, n \in {"0", "1"}}
            \cup {Section("retry", "attempts", "0"), Section("retry", "backoff", "-1"), Section("logs", "buffer", "0"),
                  Section("logs", "history", "0"), Section("server", "listen", "127.0.0.1:1"),
                  Mapping(<<Item("server", Mapping(<<Item("listen", Scalar("127.0.0.1:1")), Item("auth", Map1("token", Scalar("t")))>>))>>)}
            \cup {Readiness(t, f) : t \in {"http", "log", "odd"}, f \in {"url", "address"}}
            \cup {Map1("services", Map1("api", b)) :
                    b \in {Map1("command", Scalar(" ")), Map1("logs", Map1("output", Sequence(<<Scalar("STDOUT"), Scalar("odd")>>))),
                           Map1("watch", Map1("include", Sequence(<<>>))), Map1("watch", Map1("include", Sequence(<<Scalar("a")>>)))}}

APlainDoc == Doc(Absent, Absent, Absent, Tier("base"), Tier("base"), Tier("edge"))

MCDisks ==
    {Disk(b, Absent, o, Absent) : b \in BaseDocs, o \in OverDocs \cup {Absent}}
    \cup {Disk(b, Absent, s, Absent) : b \in PlainDocs, s \in Settings \cup {Absent}}
    \cup {Disk(b, a, o, p) : b, a \in {Absent, NoStat, NoRead, Garbage, Empty, APlainDoc},
                             o, p \in {Absent, NoStat, Garbage, Tier("edge")}}

MCPaths == {None, ConfigFileAlt}
MCProfiles == {Default, "dev", "one", "odd", "bad", "lost", "none"}
MCNormal == [v \in {None, "edge", "base", "default", "ops", "u", "a", "b", "c", "d", "o"} |-> v]
            @@ " " :> None @@ "Base " :> "base" @@ " Edge" :> "edge" @@ "Default" :> "default"
MCNumber == "0" :> 0 @@ "1" :> 1 @@ "-1" :> -1
MCLogOutputs == {"stdout", "STDOUT", "stderr"}
MCListen == {"127.0.0.1:1"}
=============================================================================
