------------------------------ MODULE MCStore ------------------------------
(* Two services, two process ids and three sequence numbers: a message may  *)
(* be older than, the same as or newer than the one shown.                  *)
EXTENDS Store

=============================================================================
