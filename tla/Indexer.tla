------------------------------- MODULE Indexer -------------------------------
(***************************************************************************)
(* The indexing pipeline: MemoryStore with the Qdrant collection its       *)
(* ProcessOne callback writes to (search/qdrant.go, Apply).                *)
(*                                                                         *)
(* Apply is one HTTP request, PUT of the whole point or delete by id.  Its *)
(* caller waits a few seconds; then the transaction goes on as failed, and *)
(* the request may have been lost, may have been carried out, or may still *)
(* be on its way and be carried out at any later time.                     *)
(*                                                                         *)
(* Qdrant itself is external: a map from ids to points.                    *)
(***************************************************************************)
EXTENDS MemoryStore

CONSTANTS
  Rejected,   \* memories Qdrant always refuses to store
  MaxLate,    \* bound: abandoned requests on their way at one time
  NoPoint

Point == [ws: Workspaces, kind: Kinds, body: Bodies, rev: Nat]

ASSUME IndexerAssumption ==
  /\ Rejected \subseteq MemIds
  /\ MaxLate \in Nat
  /\ NoPoint \notin Point

VARIABLES
  points,   \* the Qdrant collection
  late      \* requests nobody waits for any more

indexVars == <<memories, indexed, outbox, wsLock, memLock, pc, req, todo, wk, points, late>>

\* What Apply asks of the collection: to hold this for the id.
Target(row) ==
  IF row = NoRow \/ row.deleted THEN NoPoint
  ELSE [ws |-> row.ws, kind |-> row.kind, body |-> row.body, rev |-> row.rev]
Put(w) == [id |-> wk[w].id, point |-> Target(wk[w].row)]
Accepted(r) == r.point = NoPoint \/ r.id \notin Rejected

IndexerTypeOK ==
  /\ StoreTypeOK
  /\ points \in [MemIds -> Point \cup {NoPoint}]
  /\ late \subseteq [id: MemIds, point: Point \cup {NoPoint}]
  /\ Cardinality(late) <= MaxLate

IndexerInit ==
  /\ StoreInit
  /\ points = [m \in MemIds |-> NoPoint]
  /\ late = {}

-----------------------------------------------------------------------------
Deliver(r) ==
  /\ Accepted(r)
  /\ points' = [points EXCEPT ![r.id] = r.point]

\* What has become of a request its caller has given up.
Abandon(r) ==
  \/ UNCHANGED <<points, late>>
  \/ Deliver(r) /\ UNCHANGED late
  \/ Cardinality(late) < MaxLate /\ late' = late \cup {r} /\ UNCHANGED points

ApplyOk(w) ==
  /\ Callback(w, TRUE)
  /\ Deliver(Put(w))
  /\ UNCHANGED late

\* mutant: an error status is taken for success
ApplyFailsSilently(w) == Callback(w, TRUE) /\ Abandon(Put(w))

\* Refused, unreachable, or no answer in time.
ApplyFails(w) == Callback(w, FALSE) /\ Abandon(Put(w))

\* The process dies, or loses its database connection, while Apply runs.
CrashInApply(w) ==
  /\ wk[w].pc = "apply"
  /\ WorkerCrash(w)
  /\ Abandon(Put(w))

LateLands ==
  \E r \in late :
    /\ Deliver(r)
    /\ late' = late \ {r}
    /\ UNCHANGED storeVars

\* Everything but a request that is carried out late.
PromptNext ==
  \/ StoreStep /\ UNCHANGED <<points, late>>
  \/ \E w \in Workers : ApplyOk(w) \/ ApplyFails(w) \/ CrashInApply(w)
IndexerNext == PromptNext \/ LateLands

IndexerSpec == IndexerInit /\ [][IndexerNext]_indexVars

\* An index that carries a request out before its caller gives up, or never.
PromptSpec == IndexerInit /\ [][PromptNext]_indexVars

-----------------------------------------------------------------------------
(***************************************************************************)
(* Properties.                                                             *)
(***************************************************************************)

\* A point never runs ahead of its row, and a point at the row's revision was
\* made from exactly that row, live: Rehydrate compares nothing but the
\* revision before it answers a search with the row.
PointsTellTheTruth ==
  \A m \in MemIds :
    points[m] # NoPoint =>
      /\ Exists(m)
      /\ points[m].rev <= memories[m].rev
      /\ points[m].rev = memories[m].rev => points[m] = Target(memories[m])

\* Whatever the collection holds wrongly is queued to be put right: a pending
\* or stale point, and the point of a memory that has been forgotten.  A callback
\* that raced a revision update, which the comment in ProcessOne excludes, would
\* leave the old revision there and the event of the new one gone.
StalePointIsQueued ==
  \A m \in MemIds : points[m] # Target(memories[m]) => outbox[m] # NoRow

\* A memory reported as indexed can be found under its current version.
IndexedIsFindable ==
  \A m \in MemIds :
    Live(m) /\ indexed[m] = memories[m].rev => points[m] = Target(memories[m])
=============================================================================
