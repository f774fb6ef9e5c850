-------------------------- MODULE MCMovieCatalog --------------------------
(* Request bodies and starting catalogues for MovieCatalog. *)
EXTENDS MovieCatalog, TLC

Film(t, d, gs, f) == [title |-> t, detail |-> t, director |-> d, genres |-> gs, file |-> f]

\* bodies that compete for a title, the file, the genre and the director
Posts2 == {Film("a", "d1", {"g1"}, "f1"), Film("b", "d1", {}, "f1")}
Patches3 == {[title |-> "b", detail |-> "b", genres |-> {"g1"}], [director |-> "d1", genres |-> {}], [file |-> "f1"]}
CatalogNone == <<>>

Symmetry == Permutations(Requests)
===========================================================================
