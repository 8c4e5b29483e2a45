------------------------------- MODULE MCBus -------------------------------
(* Two publishers and one subscriber with a channel of one; the publishers  *)
(* are alike, but TLC allows no symmetry beside liveness.                   *)
EXTENDS Bus

=============================================================================
