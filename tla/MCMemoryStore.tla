---------------------------- MODULE MCMemoryStore ----------------------------
(***************************************************************************)
(* Small instances of MemoryStore for TLC.                                 *)
(***************************************************************************)
EXTENDS MemoryStore, TLC

\* Clients, memory ids and bodies are interchangeable; workspaces are not,
\* because Move compares them.
Symmetric == Permutations(Clients) \cup Permutations(MemIds) \cup Permutations(Workers)
=============================================================================
