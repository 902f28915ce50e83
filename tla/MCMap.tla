-------------------------------- MODULE MCMap --------------------------------
(***************************************************************************)
(* The small instance of Search with KnowledgeMap for TLC.                 *)
(***************************************************************************)
EXTENDS KnowledgeMap, TLC

Symmetric == Permutations(MemIds) \cup Permutations(Clients) \cup Permutations(Workers)
             \cup Permutations(Bodies)
=============================================================================
