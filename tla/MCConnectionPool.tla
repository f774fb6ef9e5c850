------------------------- MODULE MCConnectionPool -------------------------
(* ConnectionPool on small pools; the constants are given by the cfg files. *)
EXTENDS ConnectionPool
===========================================================================
