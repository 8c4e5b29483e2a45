--------------------------- MODULE MCServicesState ---------------------------
(* One service: enough messages for a start, a restart and a second start.   *)
EXTENDS ServicesState

=============================================================================
