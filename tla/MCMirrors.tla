------------------------------- MODULE MCMirrors -------------------------------
(* Small instances of Mirrors. *)
EXTENDS Mirrors, TLC

CONSTANTS a, b

Symmetric == Permutations(Clients)
=============================================================================
