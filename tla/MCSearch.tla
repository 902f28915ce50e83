------------------------------ MODULE MCSearch ------------------------------
(***************************************************************************)
(* Small instances of Indexer and Search for TLC.                          *)
(***************************************************************************)
EXTENDS Search, TLC

Symmetric == Permutations(MemIds) \cup Permutations(Clients) \cup Permutations(Workers)
             \cup Permutations(Bodies)
=============================================================================
