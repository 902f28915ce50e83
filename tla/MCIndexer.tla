------------------------------ MODULE MCIndexer ------------------------------
(***************************************************************************)
(* Small instances of Indexer for TLC.                                     *)
(***************************************************************************)
EXTENDS Indexer, TLC

Symmetric == Permutations(Clients) \cup Permutations(MemIds) \cup Permutations(Workers)
=============================================================================
