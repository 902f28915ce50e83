------------------------------- MODULE Search -------------------------------
(***************************************************************************)
(* search/service.go over Indexer: a search asks Qdrant and then reads     *)
(* every hit back from PostgreSQL, one statement each (Rehydrate), while   *)
(* writes, moves and the worker go on; if Qdrant fails it lists from       *)
(* PostgreSQL instead.                                                     *)
(*                                                                         *)
(* A search changes nothing, so one at a time shows what any number of     *)
(* them would.  A query is the body it matches; limit and offset leave     *)
(* room for every memory.                                                  *)
(***************************************************************************)
EXTENDS Indexer

VARIABLES
  search,   \* the search in progress
  calm      \* history: nothing has been queued since it began

searchVars == <<indexVars, search, calm>>

NoSearch == [pc |-> "idle"]

SearchInit == IndexerInit /\ search = NoSearch /\ calm = TRUE

Searching(ws, b, step, hits) ==
  search' = [pc |-> step, ws |-> ws, query |-> b, hits |-> hits, found |-> {}]

AskIndex(ws, b) ==
  /\ search.pc = "idle"
  /\ Searching(ws, b, "rehydrate",
       {[id |-> m, rev |-> points[m].rev] :
          m \in {x \in MemIds : points[x] # NoPoint /\ points[x].ws = ws /\ points[x].body = b}})

IndexFails(ws, b) == search.pc = "idle" /\ Searching(ws, b, "list", {})

\* mutant: a hit counts although its memory has been written since
LiveHit(h) == LiveIn(h.id, search.ws)
\* Get finds the memory in the workspace, at the revision of the hit.
CurrentHit(h) == LiveIn(h.id, search.ws) /\ memories[h.id].rev = h.rev

Found(ids) == {[id |-> m, row |-> memories[m]] : m \in ids}

RehydrateHit ==
  /\ search.pc = "rehydrate"
  /\ \E h \in search.hits :
       search' = [search EXCEPT !.hits = @ \ {h},
                                !.found = @ \cup Found({m \in {h.id} : CurrentHit(h)})]

Matching(ws, b) == {m \in MemIds : LiveIn(m, ws) /\ memories[m].body = b}

\* The rows of the fallback; their count is read before and is not modelled.
ListMatching ==
  /\ search.pc = "list"
  /\ search' = [search EXCEPT !.pc = "rehydrate", !.found = Found(Matching(search.ws, search.query))]

Done == search.pc = "rehydrate" /\ search.hits = {}
Answer == Done /\ search' = NoSearch

SearchStep ==
  \/ \E ws \in Workspaces, b \in Bodies : AskIndex(ws, b) \/ IndexFails(ws, b)
  \/ RehydrateHit \/ ListMatching \/ Answer

Settled == \A m \in MemIds : outbox[m] = NoRow

SearchNext ==
  /\ \/ SearchStep /\ UNCHANGED indexVars
     \/ IndexerNext /\ UNCHANGED search
  /\ calm' = (search'.pc = "idle" \/ (calm /\ Settled'))

SearchSpec == SearchInit /\ [][SearchNext]_searchVars

-----------------------------------------------------------------------------
\* What a search has found is, row by row, a live memory of the workspace that
\* matches the query: not one that has been rewritten, moved or forgotten since
\* it was indexed, whatever is late.
FindingsMatch ==
  search.pc # "idle" =>
    \A f \in search.found :
      ~f.row.deleted /\ f.row.ws = search.ws /\ f.row.body = search.query

\* Once the queue is empty a search misses nothing, whether the index answers
\* or the fallback does.
SettledSearchIsComplete ==
  Done /\ calm => {f.id : f \in search.found} = Matching(search.ws, search.query)
=============================================================================
