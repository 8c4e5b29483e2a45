---------------------------- MODULE MCProfileRun ----------------------------
(* A small instance of ProfileRun.  server and fuku run in the directory of a *)
(* service, server leads the process group of both; root is another user's    *)
(* and leads the group of child, which runs elsewhere.                        *)
EXTENDS ProfileRun

CONSTANTS web, fuku, server, root, child

OneTier == [s \in Services |-> 1]
Dirs == [p \in Strays |-> CASE p = server -> {web, None} [] p = child -> {} [] OTHER -> {web}]
Groups == [p \in Strays |-> IF p \in {server, fuku} THEN server ELSE root]

=============================================================================
