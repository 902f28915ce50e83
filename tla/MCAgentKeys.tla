---------------------------- MODULE MCAgentKeys ----------------------------
(***************************************************************************)
(* A small instance of Accounts and AgentKeys for TLC.                     *)
(***************************************************************************)
EXTENDS AgentKeys, TLC

Symmetric == Permutations(Names) \cup Permutations(Emails) \cup Permutations(Clients)
             \cup Permutations(InviteIds) \cup Permutations(Workspaces \ Legacy)

\* Bound: before there is a key all requests about accounts may be in progress
\* at once, from then on one at a time beside the keys and the MCP requests.
Bounded ==
  (\E k \in KeyIds : HasKey(k)) => Cardinality({t \in Clients : pc[t] # "idle"}) <= 1

BoundedSpec == KeysInit /\ [][KeysNext /\ Bounded']_keyVars
=============================================================================
