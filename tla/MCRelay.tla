------------------------------ MODULE MCRelay ------------------------------
(* One connection: hub and server treat each by itself, with a channel, a   *)
(* handler and a write pump of its own.                                     *)
EXTENDS Relay

CONSTANTS api, db, c1

\* A client asks for all services, or for one
AllOrApi == {{}, {api}}

=============================================================================
