------------------------------ MODULE MCRealtime ------------------------------
(* Small instances of Realtime for TLC. *)
EXTENDS Realtime, TLC

CONSTANTS u1, t1, t2

OneOwner == t1 :> u1
TwoLogins == t1 :> u1 @@ t2 :> u1

LoginSymmetry == Permutations(Sockets) \cup Permutations(Tokens)
=============================================================================
