--------------------------- MODULE MCBearerToken ---------------------------
(* BearerToken with an administrator, another user and a short clock. *)
EXTENDS BearerToken, TLC

CONSTANTS a1, u1

Roles    == a1 :> 0 @@ u1 :> 2
Symmetry == Permutations(Tokens)
===========================================================================
