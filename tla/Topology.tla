------------------------------ MODULE Topology ------------------------------
(***************************************************************************)
(* The order of tiers, from the services in the order of the text          *)
(* (internal/config/topology.go).  A text is a sequence of records: the    *)
(* service, and the tier that it has of its own or from defaults, NoTier   *)
(* for none.                                                               *)
(***************************************************************************)
EXTENDS Discovery

\* Faulty: a tier seen again moves to the end.
AddTierLastSeen(order, d) ==
    IF d.tier \in {NoTier, Default} THEN order ELSE Append(SelectSeq(order, LAMBDA t : t # d.tier), d.tier)

AddTier(order, d) ==
    IF d.tier \in {NoTier, Default} \/ Listed(order, d.tier) THEN order ELSE Append(order, d.tier)

\* named[i] is topology.Order after i services; the default tier comes last
TierOrder(text) ==
    LET named[i \in 0..Len(text)] == IF i = 0 THEN <<>> ELSE AddTier(named[i - 1], text[i])
        order == named[Len(text)]
    IN  IF \E i \in DOMAIN text : text[i].tier = NoTier THEN Append(order, Default) ELSE order

Named(d) == IF d.tier = NoTier THEN Default ELSE d.tier

\* What tiers a text asks for when the services in chosen are to run: each of them is in
\* one tier, the one the text names, and no tier is without any; tiers follow each other by
\* first appearance in the text, and the default one is last.
AsDeclared(text, chosen, tiers) ==
    /\ \A s \in chosen : \E i \in DOMAIN tiers : s \in tiers[i].services
    /\ \A i \in DOMAIN tiers : tiers[i].services # {}
    /\ \A i \in DOMAIN tiers : \A s \in tiers[i].services :
          /\ s \in chosen
          /\ \E k \in DOMAIN text : text[k].service = s
          /\ \A k \in DOMAIN text : text[k].service = s => Named(text[k]) = tiers[i].name
    /\ \A i, j \in DOMAIN tiers : i < j =>
          /\ tiers[i].name # Default
          /\ \/ tiers[j].name = Default
             \/ \E k \in DOMAIN text : /\ Named(text[k]) = tiers[i].name
                                       /\ \A l \in 1..k : Named(text[l]) # tiers[j].name
=============================================================================
