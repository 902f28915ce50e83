------------------------------- MODULE MCReads -------------------------------
(***************************************************************************)
(* The small instance of Reads for TLC.                                    *)
(***************************************************************************)
EXTENDS Reads, TLC

\* Memory ids are interchangeable; bodies are not, they have lengths.
Symmetric == Permutations(MemIds)
=============================================================================
