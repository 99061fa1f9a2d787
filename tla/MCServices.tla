----------------------------- MODULE MCServices -----------------------------
(* A small archive for Services. *)
EXTENDS Services, TLC

Symmetry == Permutations(Refs)

(* A shared file, one in two languages, one in English only. *)
SmallArchive == <<<<"ja", "menu">>, <<"files", "map">>, <<"en", "menu">>>>
LooseFiles == {<<"", "movie">>}
Asked == {<<"files", "map">>, <<"", "movie">>}
=============================================================================
