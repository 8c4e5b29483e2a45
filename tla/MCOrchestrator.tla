--------------------------- MODULE MCOrchestrator ---------------------------
(* Small instances of Orchestrator.  Two services db and web; tasks bound   *)
(* the number of commands and file changes.                                 *)
EXTENDS Orchestrator

CONSTANTS db, web

OneTier == [s \in Services |-> 1]
TwoTiers == [s \in Services |-> IF s = db THEN 1 ELSE 2]

=============================================================================
