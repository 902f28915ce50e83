---------------------------- MODULE KnowledgeMap ----------------------------
(***************************************************************************)
(* The knowledge map of the dashboard (server/knowledge_map.go) over       *)
(* Search: the memories are listed in one statement, and then Qdrant is    *)
(* asked for their vectors in batches, each at a moment of its own         *)
(* (search/vectors.go), while writes, moves and the worker go on.          *)
(*                                                                         *)
(* The view has room for every memory.  It is not drawn while a search     *)
(* runs: neither changes what the other reads.  What follows from the      *)
(* vectors, the edges between nodes, is not modelled.                      *)
(***************************************************************************)
EXTENDS Search

VARIABLE map   \* the view being drawn

mapVars == <<searchVars, map>>

NoMap == [pc |-> "idle"]

\* A listed memory, with the indexed_revision of its row, and a vector received.
Node == [id: MemIds, row: Row, indexed: Nat]
Vector == [id: MemIds, point: Point]

MapInit == SearchInit /\ map = NoMap

\* The map of a workspace, or of all workspaces of a user.  Bound: one of the
\* memories is indexed, as nothing is drawn of the vectors of the others.
ListNodes(wss) ==
  /\ map.pc = "idle" /\ search.pc = "idle"
  /\ \E m \in MemIds : /\ Live(m) /\ memories[m].ws \in wss
                       /\ indexed[m] = memories[m].rev
  /\ map' = [pc |-> "vectors", asked |-> {}, vectors |-> {},
             nodes |-> {[id |-> m, row |-> memories[m], indexed |-> indexed[m]] :
                          m \in {x \in MemIds : Live(x) /\ memories[x].ws \in wss}}]

Unasked == {n.id : n \in map.nodes} \ map.asked

\* One batch is answered, or its request fails and the view is degraded; what
\* the other batches brought is kept.
FetchBatch ==
  /\ map.pc = "vectors"
  /\ \E batch \in SUBSET Unasked \ {{}} :
       map' = [map EXCEPT !.asked = @ \cup batch,
                          !.vectors = @ \cup {[id |-> m, point |-> points[m]] :
                                                m \in {x \in batch : points[x] # NoPoint}}]
BatchFails ==
  /\ map.pc = "vectors"
  /\ \E batch \in SUBSET Unasked \ {{}} : map' = [map EXCEPT !.asked = @ \cup batch]

Drawn == map.pc = "vectors" /\ Unasked = {}
Render == Drawn /\ map' = NoMap

\* mutant: the revision of the point is not compared
FitsAnyRevision(n, p) == p.ws = n.row.ws /\ n.indexed = n.row.rev
\* The node is drawn as indexed, with the weights of this vector.
Fitting(n, p) == p.ws = n.row.ws /\ p.rev = n.row.rev /\ n.indexed = n.row.rev

MapStep ==
  \/ \E wss \in SUBSET Workspaces \ {{}} : ListNodes(wss)
  \/ FetchBatch \/ BatchFails \/ Render

MapNext ==
  \/ MapStep /\ UNCHANGED searchVars
  \/ (map.pc = "idle" \/ UNCHANGED search) /\ SearchNext /\ UNCHANGED map

MapSpec == MapInit /\ [][MapNext]_mapVars

-----------------------------------------------------------------------------
\* The weights drawn for a memory are those of the text it is drawn with,
\* although rows and vectors were read at different moments and a memory may
\* have been rewritten, moved or forgotten, and indexed again, in between.
MapDrawsWhatItLists ==
  Drawn => \A n \in map.nodes, v \in map.vectors :
             v.id = n.id /\ Fitting(n, v.point) => v.point = Target(n.row)
=============================================================================
