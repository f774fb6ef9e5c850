---------------------------- MODULE MCChatRooms ----------------------------
(* ChatRooms with the administrator and two other users, whose sockets come in
   every order: two tabs of one user among them. *)
EXTENDS ChatRooms, TLC

CONSTANTS a1, g1, g2

Symmetry == Permutations({g1, g2}) \cup Permutations(Sockets) \cup Permutations(Messages)
===========================================================================
