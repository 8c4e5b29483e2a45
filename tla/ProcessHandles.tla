--------------------------- MODULE ProcessHandles ---------------------------
(***************************************************************************)
(* What the registry and its callers name: the services and the process    *)
(* handles (internal/app/process/process.go) that are registered for them. *)
(***************************************************************************)
EXTENDS Integers, FiniteSets

CONSTANTS Services,   \* service ids
          Procs,      \* process handles: each is created and added at most once
          None        \* a missing map entry

ASSUME NoneAssumption == None \notin [proc : Procs, order : Nat]

ASSUME ProcsFinite == IsFiniteSet(Procs)

=============================================================================
