---------------------------- MODULE MCVideoFiles ----------------------------
(* VideoFiles with two files and two requests, in development and production. *)
EXTENDS VideoFiles
=============================================================================
