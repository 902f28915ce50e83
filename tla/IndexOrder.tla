----------------------------- MODULE IndexOrder -----------------------------
(***************************************************************************)
(* The order in which ProcessOne takes events, ORDER BY next_attempt: the  *)
(* liveness of Indexer rests on it.                                        *)
(*                                                                         *)
(* A write sets next_attempt to now and a backoff ends when next_attempt   *)
(* comes, so the due events are ordered by when they became due.           *)
(***************************************************************************)
EXTENDS Indexer, SequencesExt

VARIABLE order   \* ids of the due events, by next_attempt

orderVars == <<indexVars, order>>

\* Memories a Reindex lets go of: it has queued them again, or is rolled back.
\* Of one that was pending before the two look the same, so either may be.
Reindexed ==
  {m \in MemIds : \E t \in Clients : req[t].op = "reindex" /\ memLock[m] = t /\ memLock'[m] # t}

\* Events that are due and were not written in the step keep their place, the
\* others that are due now follow, in any order if one transaction made several.
StillDue(again) ==
  SelectSeq(order, LAMBDA m : Due(m)' /\ memories'[m] = memories[m] /\ m \notin again)
NewlyDue(again) == {m \in MemIds : Due(m)'} \ ToSet(StillDue(again))
RequeuedFirst ==   \* mutant: DESC
  \E again \in {{}, Reindexed} : \E s \in SetToSeqs(NewlyDue(again)) : order' = s \o StillDue(again)
Requeued ==
  \E again \in {{}, Reindexed} : \E s \in SetToSeqs(NewlyDue(again)) : order' = StillDue(again) \o s

\* ProcessOne takes the first due event whose memory nobody has locked.
InTurn(m) ==
  LET open == SelectSeq(order, LAMBDA x : Free(memLock, x))
  IN  open # <<>> /\ m = Head(open)

Ordered(A) ==
  /\ A
  /\ \A w \in Workers : wk[w].pc = "idle" /\ wk'[w].pc = "scanned" => InTurn(wk'[w].id)
  /\ Requeued

OrderInit == IndexerInit /\ order = <<>>
OrderSpec == OrderInit /\ [][Ordered(IndexerNext)]_orderVars

-----------------------------------------------------------------------------
IndexKeeps == UNCHANGED <<points, late>>
WorkerRuns(w) == (WorkerStep(w) /\ IndexKeeps) \/ ApplyOk(w) \/ ApplyFails(w)
Serves(w, m, A) == Ordered(wk[w].pc # "idle" /\ wk[w].id = m /\ A)

\* RunWorker goes on as long as its process lives and the clock of the database
\* runs.  What is tried for ever works out in the end: Qdrant stores a point it
\* does not reject, and no worker dies each time at the same statement.
OrderFairness ==
  /\ \A w \in Workers : WF_orderVars(Ordered(WorkerRuns(w)))
  /\ \A w \in Workers, m \in MemIds :
       /\ SF_orderVars(Serves(w, m, Claim(w) /\ IndexKeeps))
       /\ SF_orderVars(Serves(w, m, ApplyOk(w)))
       /\ SF_orderVars(Serves(w, m, m \in Rejected /\ ApplyFails(w)))
       /\ SF_orderVars(Serves(w, m, Complete(w) /\ IndexKeeps))
       /\ SF_orderVars(Serves(w, m, PutOff(w) /\ IndexKeeps))
  /\ \A m \in MemIds : WF_orderVars(Ordered(BackoffEnds(m) /\ IndexKeeps))

FairOrderSpec == OrderSpec /\ OrderFairness

\* Once the clients are quiet the queue drains and the collection is right,
\* but for the memories Qdrant rejects: a memory that fails for ever does not
\* keep the worker from the others.
Quiet == \A t \in Clients : pc[t] = "idle"
Drained == \A m \in MemIds \ Rejected : outbox[m] = NoRow /\ points[m] = Target(memories[m])
QueueDrains == <>[]Quiet => <>[]Drained
=============================================================================
