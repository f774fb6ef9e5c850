---------------------------- MODULE MCNamedRows ----------------------------
(* NamedRows with three calls on each of the three services. *)
EXTENDS NamedRows
===========================================================================
