---------------------------- MODULE MCServicesUI ----------------------------
(* Two services; the queries are the one without a character, one that is    *)
(* blank, one that only web matches and one that nothing matches.            *)
EXTENDS ServicesUI

CONSTANTS db, web

MCServiceOrder == <<db, web>>

MCMatch == [q \in {"web", "zzz"} |-> IF q = "web" THEN {web} ELSE {}]

=============================================================================
