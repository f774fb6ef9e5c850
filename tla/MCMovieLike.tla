--------------------------- MODULE MCMovieLike ----------------------------
(* MovieLike on small instances; the constants are given by the cfg files. *)
EXTENDS MovieLike
===========================================================================
