--------------------------- MODULE MCEvaluations ---------------------------
(***************************************************************************)
(* Small instances of Evaluations for TLC.                                 *)
(***************************************************************************)
EXTENDS Evaluations, TLC

Symmetric == Permutations(Clients) \cup Permutations(Ids) \cup Permutations(Decisions)
             \cup Permutations(Prints) \cup Permutations(Reviews)
=============================================================================
