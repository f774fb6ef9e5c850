--------------------------- MODULE MCRecentMovies ---------------------------
(* RecentMovies with three clients; the constants are given by the cfg file. *)
EXTENDS RecentMovies
===========================================================================
