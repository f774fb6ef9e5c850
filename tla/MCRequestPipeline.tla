------------------------- MODULE MCRequestPipeline -------------------------
(* RequestPipeline on small instances; the constants are given by the cfg files. *)
EXTENDS RequestPipeline, TLC

\* no constant and no action tells one request from another
Alike == Permutations(Requests)
===========================================================================
