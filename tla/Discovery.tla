------------------------------ MODULE Discovery ------------------------------
(***************************************************************************)
(* From the services of a profile to tiers (internal/app/discovery).       *)
(* services maps a name to its tier, order is the topology's list of tiers *)
(* and a profile is a record of its kind ("string", "list" or another) and *)
(* its entries.  Services of a tier are sorted by name in the code and so  *)
(* are determined by their set.                                            *)
(***************************************************************************)
EXTENDS Naturals, Sequences

Default == "default"
NoTier == ""
Wildcard == "*"

Positions(order, t) == {i \in DOMAIN order : order[i] = t}
Listed(order, t) == Positions(order, t) # {}

\* buildTierIndexMap and getTierIndex: a tier not listed counts as the default one,
\* which comes after all the others if it is not listed itself.
DefaultIndex(order) ==
    IF Listed(order, Default) THEN CHOOSE i \in Positions(order, Default) : TRUE ELSE Len(order) + 1

TierIndex(order, t) ==
    IF Listed(order, t) THEN CHOOSE i \in Positions(order, t) : TRUE ELSE DefaultIndex(order)

ServiceTier(services, s) == IF services[s] = NoTier THEN Default ELSE services[s]

Failure(e) == [error |-> e, tiers |-> <<>>]

\* getServicesForProfile
Names(profile, services) ==
    IF profile.kind = "string" /\ profile.entries = <<Wildcard>>
    THEN DOMAIN services
    ELSE {profile.entries[i] : i \in DOMAIN profile.entries}

\* The indices that occur, in ascending order: sort.Ints; ascending[k] has those up to k
Ascending(used, n) ==
    LET ascending[k \in 0..n] == IF k = 0 THEN <<>>
                                ELSE IF k \in used THEN Append(ascending[k - 1], k) ELSE ascending[k - 1]
    IN  ascending[n]

\* groupServicesByTier: one group per index that occurs.
Group(names, services, order) ==
    LET Index(s) == TierIndex(order, ServiceTier(services, s))
        sorted == Ascending({Index(s) : s \in names}, Len(order) + 1)
        TierName(k) == IF k \in DOMAIN order THEN order[k] ELSE Default
    IN  [j \in DOMAIN sorted |-> [name |-> TierName(sorted[j]),
                                  services |-> {s \in names : Index(s) = sorted[j]}]]

\* Resolve, with the errors in the order in which it meets them.
Resolve(profiles, services, order, p) ==
    CASE p \notin DOMAIN profiles -> Failure("profile not found")
      [] p \in DOMAIN profiles /\ profiles[p].kind \notin {"string", "list"} -> Failure("unsupported profile format")
      [] p \in DOMAIN profiles /\ profiles[p].kind \in {"string", "list"} ->
            LET names == Names(profiles[p], services)
            IN  IF names \subseteq DOMAIN services
                THEN [error |-> "", tiers |-> Group(names, services, order)]
                ELSE Failure("service not found")
=============================================================================
