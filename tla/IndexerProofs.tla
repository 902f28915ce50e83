---------------------------- MODULE IndexerProofs ----------------------------
(***************************************************************************)
(* The safety of the indexing pipeline, for any number of clients, workers *)
(* and memories, and for any number of requests carried out late.          *)
(*                                                                         *)
(* The pipeline only adds the collection to a step of MemoryStore, so      *)
(* StoreInv holds of it.  What is left to know of a store step is what it  *)
(* does to one memory: nothing; or it writes it and queues it; or it       *)
(* completes a worker's event.                                             *)
(***************************************************************************)
EXTENDS Indexer, MemoryStoreProofs

-----------------------------------------------------------------------------
(***************************************************************************)
(* Steps of the store.                                                     *)
(***************************************************************************)

\* What a step of the pipeline does to the tables is a step of the store.
LEMMA IndexerImplementsStoreStep ==
  ASSUME [IndexerNext]_indexVars
  PROVE  [StoreNext]_storeVars
  BY DEF IndexerNext, PromptNext, ApplyOk, ApplyFails, CrashInApply, LateLands, StoreNext, StoreStep,
         indexVars, storeVars

\* The pipeline keeps the invariant of the store.
LEMMA StoreInvKept ==
  ASSUME StoreInv, [StoreNext]_storeVars
  PROVE  StoreInv'
  BY TypesKept, ClientInvKept, WorkerInvKept, MemoryInvKept, StutterInv DEF StoreInv

LEMMA LedgerStepOfStore ==
  ASSUME StoreInv, [StoreNext]_storeVars
  PROVE  [LedgerNext]_memories
  BY InsertRefines, CommitRefines, OthersKeepMemories DEF storeVars

\* A step keeps a row, creates it at revision 1, or replaces a live row by its
\* next revision; a live row has authored content.
LEMMA RowStep ==
  ASSUME LedgerTypeOK, [LedgerNext]_memories, NEW m \in MemIds
  PROVE  \/ memories'[m] = memories[m]
         \/ /\ ~Exists(m) /\ memories'[m] \in Row
            /\ memories'[m].rev = 1 /\ memories'[m].body \in Bodies
         \/ /\ Live(m) /\ memories'[m] \in Row
            /\ memories'[m].rev = memories[m].rev + 1
            /\ ~memories'[m].deleted => memories'[m].body \in Bodies \cup {memories[m].body}
<1>1. CASE UNCHANGED memories
  BY <1>1
<1>2. CASE LedgerNext
  <2> PICK o \in MemIds, ws \in Workspaces :
        \/ \E kind \in Kinds, body \in Bodies, key \in Keys \cup {NoKey} :
             Create(o, ws, kind, body, key)
        \/ \E kind \in Kinds, body \in Bodies : Revise(o, ws, kind, body)
        \/ \E to \in Workspaces : Relocate(o, ws, to)
        \/ Erase(o, ws)
    BY <1>2 DEF LedgerNext
  <2>0. /\ memories \in [MemIds -> Row \cup {NoRow}]
        /\ LiveIn(o, ws) => Live(o) /\ memories[o] \in Row
    BY DEF LedgerTypeOK, LiveIn, Live, Exists
  <2>1. CASE o # m
    BY <2>0, <2>1 DEF Create, Revise, Relocate, Erase
  <2>2. CASE o = m
    <3>1. ASSUME NEW kind \in Kinds, NEW body \in Bodies, NEW key \in Keys \cup {NoKey},
                 Create(o, ws, kind, body, key)
          PROVE  /\ ~Exists(m) /\ memories'[m] \in Row
                 /\ memories'[m].rev = 1 /\ memories'[m].body \in Bodies
      BY <2>0, <2>2, <3>1 DEF Create, NewRow, Row
    <3>2. ASSUME NEW kind \in Kinds, NEW body \in Bodies, Revise(o, ws, kind, body)
          PROVE  /\ Live(m) /\ memories'[m] \in Row
                 /\ memories'[m].rev = memories[m].rev + 1 /\ memories'[m].body \in Bodies
      <4>1. memories'[m] = Revised(memories[m], kind, body) /\ Live(m) /\ memories[m] \in Row
        BY <2>0, <2>2, <3>2 DEF Revise
      <4> QED BY <4>1, WrittenRows DEF Revised, Row
    <3>3. ASSUME NEW to \in Workspaces, Relocate(o, ws, to)
          PROVE  /\ Live(m) /\ memories'[m] \in Row
                 /\ memories'[m].rev = memories[m].rev + 1 /\ memories'[m].body = memories[m].body
      <4>1. memories'[m] = Relocated(memories[m], to) /\ Live(m) /\ memories[m] \in Row
        BY <2>0, <2>2, <3>3 DEF Relocate
      <4> QED BY <4>1, WrittenRows DEF Relocated, Row
    <3>4. ASSUME Erase(o, ws)
          PROVE  /\ Live(m) /\ memories'[m] \in Row
                 /\ memories'[m].rev = memories[m].rev + 1 /\ memories'[m].deleted
      <4>1. memories'[m] = Erased(memories[m]) /\ Live(m) /\ memories[m] \in Row
        BY <2>0, <2>2, <3>4 DEF Erase
      <4> QED BY <4>1, WrittenRows DEF Erased, Row
    <3> QED BY <3>1, <3>2, <3>3, <3>4
  <2> QED BY <2>1, <2>2
<1> QED BY <1>1, <1>2

\* What a step does to memory m.
Spared(m) ==
  /\ memories'[m] = memories[m] /\ indexed'[m] = indexed[m]
  /\ outbox[m] # NoRow => outbox'[m] # NoRow
Queued(m) == indexed'[m] = 0 /\ outbox'[m] # NoRow
Completed(m) ==
  /\ memories'[m] = memories[m]
  /\ \E w \in Workers : wk[w].pc = "applied" /\ wk[w].id = m

LEMMA SparedByNoWrite ==
  ASSUME NoWrite, NEW m \in MemIds
  PROVE  Spared(m)
  BY DEF NoWrite, Spared

LEMMA StoreStepOfMemory ==
  ASSUME StoreInv, StoreNext, NEW m \in MemIds
  PROVE  Spared(m) \/ Queued(m) \/ Completed(m)
<1>0. /\ StoreTypeOK /\ MemoryInv(m) /\ Upsert # NoRow /\ Delete # NoRow
      /\ memories \in [MemIds -> Row \cup {NoRow}]
  <2>1. Upsert \in Event /\ Delete \in Event
    BY DEF Upsert, Delete, Event
  <2>2. StoreTypeOK /\ MemoryInv(m)
    BY DEF StoreInv
  <2> QED BY <2>1, <2>2, StoreAssumption DEF StoreTypeOK, LedgerTypeOK
<1>1. ASSUME NEW o \in MemIds, NEW row, NEW event, Write(o, row, event), event # NoRow
      PROVE  Spared(m) \/ Queued(m)
  BY <1>0, <1>1 DEF Write, Spared, Queued, StoreTypeOK
<1>2. ASSUME NEW t \in Clients, BeginCall(t) \/ ClientStep(t) \/ Abort(t)
      PROVE  Spared(m) \/ Queued(m)
  <2>1. CASE InsertMemory(t)
    BY <1>0, <1>1, <2>1, InsertCommits
  <2>2. CASE CommitWrite(t)
    BY <1>0, <1>1, <2>2, UpdateCommits
  <2>3. CASE ReindexCommit(t)
    BY <1>0, <2>3 DEF ReindexCommit, Spared, Queued
  <2>4. CASE ~InsertMemory(t) /\ ~CommitWrite(t) /\ ~ReindexCommit(t)
    <3>1. NoWrite
      BY <1>2, <2>4
         DEF BeginCall, BeginRemember, BeginMove, BeginForget, BeginReindex, Begin, ClientStep, Abort,
             LockWorkspace, LockSecondWorkspace, LookupKey, ReadForUpdate, LockMemory, CountProfile,
             UpdateMemory, ReindexSnapshot, ReindexTouch, Return
    <3> QED BY <3>1, SparedByNoWrite
  <2> QED BY <2>1, <2>2, <2>3, <2>4
<1>3. ASSUME NEW w \in Workers,
             WorkerStep(w) \/ WorkerCrash(w) \/ \E ok \in BOOLEAN : Callback(w, ok)
      PROVE  Spared(m) \/ Completed(m)
  <2>1. CASE Complete(w)
    <3>1. CASE wk[w].id = m
      BY <2>1, <3>1 DEF Complete, Completed
    <3>2. CASE wk[w].id # m
      BY <1>0, <2>1, <3>2 DEF Complete, Spared, StoreTypeOK
    <3> QED BY <3>1, <3>2
  <2>2. CASE PutOff(w)
    <3>1. CASE wk[w].id = m
      <4>1. outbox[m] # NoRow => [outbox[m] EXCEPT !.due = FALSE] \in Event
        BY <1>0 DEF StoreTypeOK, Event
      <4>2. outbox'[m] = [outbox[m] EXCEPT !.due = FALSE]
        BY <1>0, <2>2, <3>1 DEF PutOff, StoreTypeOK
      <4> QED BY <2>2, <4>1, <4>2, StoreAssumption DEF PutOff, Spared
    <3>2. CASE wk[w].id # m
      BY <1>0, <2>2, <3>2 DEF PutOff, Spared, StoreTypeOK
    <3> QED BY <3>1, <3>2
  <2>3. CASE ~Complete(w) /\ ~PutOff(w)
    <3>1. NoWrite
      BY <1>3, <2>3 DEF WorkerStep, WorkerCrash, Callback, Scan, Claim, Skip
    <3> QED BY <3>1, SparedByNoWrite
  <2> QED BY <2>1, <2>2, <2>3
<1>4. ASSUME NEW o \in MemIds, BackoffEnds(o) PROVE Spared(m)
  <2>1. CASE o = m
    <3>1. outbox[m] \in Event
      BY <1>0, <1>4, <2>1 DEF BackoffEnds, StoreTypeOK
    <3>2. outbox'[m] \in Event
      BY <1>0, <1>4, <2>1, <3>1 DEF BackoffEnds, StoreTypeOK, Event
    <3> QED BY <1>4, <3>2, StoreAssumption DEF BackoffEnds, Spared
  <2>2. CASE o # m
    BY <1>0, <1>4, <2>2 DEF BackoffEnds, Spared, StoreTypeOK
  <2> QED BY <2>1, <2>2
<1> QED BY <1>2, <1>3, <1>4, StoreSteps

-----------------------------------------------------------------------------
(***************************************************************************)
(* A point tells the truth of a row that is at or past its revision, and   *)
(* so does a request on its way: whenever it is carried out, it leaves no  *)
(* point that a search would take for another version.                     *)
(***************************************************************************)
Truth(m, point) ==
  point # NoPoint =>
    /\ Exists(m)
    /\ point.rev <= memories[m].rev
    /\ point.rev = memories[m].rev => point = Target(memories[m])

\* A live row has the content its author wrote.
Authored(m) == Live(m) => memories[m].body \in Bodies

IndexTypes ==
  /\ points \in [MemIds -> Point \cup {NoPoint}]
  /\ late \subseteq [id: MemIds, point: Point \cup {NoPoint}]
  /\ IsFiniteSet(late) /\ Cardinality(late) <= MaxLate

IndexerInv ==
  /\ StoreInv
  /\ IndexTypes
  /\ \A m \in MemIds : Authored(m) /\ Truth(m, points[m])
  /\ \A r \in late : Truth(r.id, r.point)

\* What a worker sends is typed, and the truth of the row as it is.
LEMMA PutIsTrue ==
  ASSUME StoreInv, \A m \in MemIds : Authored(m), NEW w \in Workers, wk[w].pc = "apply"
  PROVE  /\ Put(w) \in [id: MemIds, point: Point \cup {NoPoint}]
         /\ Put(w).point = Target(memories[Put(w).id])
         /\ Truth(Put(w).id, Put(w).point)
<1> DEFINE m == wk[w].id
<1>1. /\ m \in MemIds /\ memories[m] = wk[w].row /\ memories[m] \in Row \cup {NoRow}
      /\ Authored(m)
  BY DEF StoreInv, StoreTypeOK, LedgerTypeOK, WorkerInv, WorkerState
<1>2. Target(memories[m]) \in Point \cup {NoPoint}
  BY <1>1 DEF Target, Point, Row, Authored, Live, Exists
<1>3. Put(w) = [id |-> m, point |-> Target(memories[m])]
  BY <1>1 DEF Put
<1>4. Truth(m, Target(memories[m]))
  <2> SUFFICES ASSUME Target(memories[m]) # NoPoint
               PROVE  Exists(m) /\ Target(memories[m]).rev <= memories[m].rev
    BY DEF Truth
  <2>1. memories[m] \in Row /\ Target(memories[m]).rev = memories[m].rev /\ Exists(m)
    BY <1>1 DEF Target, Exists
  <2> QED BY <2>1 DEF Row
<1> QED BY <1>1, <1>2, <1>3, <1>4

\* The truth stays the truth, whatever is written.
LEMMA TruthKept ==
  ASSUME LedgerTypeOK, [LedgerNext]_memories, NEW m \in MemIds,
         NEW p \in Point \cup {NoPoint}, Truth(m, p)
  PROVE  Truth(m, p)'
<1>1. CASE memories'[m] = memories[m]
  BY <1>1 DEF Truth, Exists
<1>2. CASE ~Exists(m)
  BY <1>2 DEF Truth
<1>3. CASE /\ Live(m) /\ memories'[m] \in Row
           /\ memories'[m].rev = memories[m].rev + 1
  <2> SUFFICES ASSUME p # NoPoint PROVE Truth(m, p)'
    BY DEF Truth
  <2>1. memories[m] \in Row /\ p \in Point /\ p.rev <= memories[m].rev
    BY <1>3 DEF Live, Exists, LedgerTypeOK, Truth
  <2>2. memories[m].rev \in Nat /\ p.rev \in Nat
    BY <2>1 DEF Row, Point
  <2>3. p.rev < memories'[m].rev /\ memories'[m] # NoRow
    BY <1>3, <2>1, <2>2, LedgerAssumption
  <2> QED BY <1>3, <2>2, <2>3 DEF Truth, Exists, Row
<1> QED BY <1>1, <1>2, <1>3, RowStep

LEMMA AuthoredKept ==
  ASSUME LedgerTypeOK, [LedgerNext]_memories, NEW m \in MemIds, Authored(m)
  PROVE  Authored(m)'
  BY RowStep DEF Authored, Live, Exists

\* The collection takes something true, or stays as it is; what is on its way
\* afterwards was on its way before or is true.
IndexMoves(r) ==
  /\ \A m \in MemIds : points'[m] # points[m] => m = r.id /\ points'[m] = r.point
  /\ points' \in [MemIds -> Point \cup {NoPoint}]
  /\ late' \subseteq late \cup {r}
  /\ IsFiniteSet(late') /\ Cardinality(late') <= MaxLate

LEMMA DeliverMoves ==
  ASSUME IndexTypes, NEW r \in [id: MemIds, point: Point \cup {NoPoint}],
         Deliver(r), late' \subseteq late
  PROVE  IndexMoves(r)
<1>1. IsFiniteSet(late') /\ Cardinality(late') <= Cardinality(late)
  BY FS_Subset DEF IndexTypes
<1>2. Cardinality(late') \in Nat /\ Cardinality(late) \in Nat
  BY <1>1, FS_CardinalityType DEF IndexTypes
<1>3. Cardinality(late') <= MaxLate
  BY <1>1, <1>2, IndexerAssumption DEF IndexTypes
<1> QED BY <1>1, <1>3 DEF IndexTypes, IndexMoves, Deliver

LEMMA AbandonMoves ==
  ASSUME IndexTypes, NEW r \in [id: MemIds, point: Point \cup {NoPoint}], Abandon(r)
  PROVE  IndexMoves(r)
<1>1. CASE UNCHANGED <<points, late>>
  BY <1>1 DEF IndexTypes, IndexMoves
<1>2. CASE Deliver(r) /\ UNCHANGED late
  BY <1>2, DeliverMoves
<1>3. CASE Cardinality(late) < MaxLate /\ late' = late \cup {r} /\ UNCHANGED points
  <2>1. /\ IsFiniteSet(late \cup {r})
        /\ Cardinality(late \cup {r}) = IF r \in late THEN Cardinality(late) ELSE Cardinality(late) + 1
    BY FS_AddElement, Zenon DEF IndexTypes
  <2>2. Cardinality(late) \in Nat
    BY FS_CardinalityType DEF IndexTypes
  <2>3. Cardinality(late') <= MaxLate
    BY <1>3, <2>1, <2>2, IndexerAssumption
  <2> QED BY <1>3, <2>1, <2>3 DEF IndexTypes, IndexMoves
<1> QED BY <1>1, <1>2, <1>3 DEF Abandon

\* What is carried out was on its way, or is the row as it is.
Sent(r) == Truth(r.id, r.point) /\ (r \in late \/ r.point = Target(memories[r.id]))

\* Every step but the statements of the store moves the index.
LEMMA IndexerStepMoves ==
  ASSUME IndexerInv, IndexerNext
  PROVE  \/ UNCHANGED <<points, late>>
         \/ \E r \in [id: MemIds, point: Point \cup {NoPoint}] : Sent(r) /\ IndexMoves(r)
<1>0. StoreInv /\ IndexTypes /\ \A m \in MemIds : Authored(m)
  BY DEF IndexerInv
<1>1. ASSUME NEW w \in Workers, ApplyOk(w) \/ ApplyFails(w) \/ CrashInApply(w)
      PROVE  \E r \in [id: MemIds, point: Point \cup {NoPoint}] : Sent(r) /\ IndexMoves(r)
  <2>1. wk[w].pc = "apply"
    BY <1>1 DEF ApplyOk, ApplyFails, CrashInApply, Callback
  <2>2. Put(w) \in [id: MemIds, point: Point \cup {NoPoint}] /\ Sent(Put(w))
    BY <1>0, <2>1, PutIsTrue DEF Sent
  <2>3. IndexMoves(Put(w))
    BY <1>0, <1>1, <2>2, DeliverMoves, AbandonMoves DEF ApplyOk, ApplyFails, CrashInApply
  <2> QED BY <2>2, <2>3
<1>2. ASSUME LateLands
      PROVE  \E r \in [id: MemIds, point: Point \cup {NoPoint}] : Sent(r) /\ IndexMoves(r)
  <2>1. PICK r \in late : Deliver(r) /\ late' = late \ {r}
    BY <1>2 DEF LateLands
  <2>2. r \in [id: MemIds, point: Point \cup {NoPoint}] /\ Sent(r)
    BY DEF IndexerInv, IndexTypes, Sent
  <2> QED BY <1>0, <2>1, <2>2, DeliverMoves
<1> QED BY <1>1, <1>2 DEF IndexerNext, PromptNext

LEMMA IndexerInvKept ==
  ASSUME IndexerInv, [IndexerNext]_indexVars
  PROVE  IndexerInv'
<1>0. /\ StoreInv /\ LedgerTypeOK /\ IndexTypes
      /\ [StoreNext]_storeVars /\ [LedgerNext]_memories
  BY IndexerImplementsStoreStep, LedgerStepOfStore DEF IndexerInv, StoreInv, StoreTypeOK
<1>1. StoreInv'
  BY <1>0, StoreInvKept
<1>2. ASSUME NEW m \in MemIds PROVE Authored(m)'
  BY <1>0, AuthoredKept DEF IndexerInv
<1>3. /\ points \in [MemIds -> Point \cup {NoPoint}]
      /\ late \subseteq [id: MemIds, point: Point \cup {NoPoint}]
  BY <1>0 DEF IndexTypes
<1>4. ASSUME NEW m \in MemIds, NEW p \in Point \cup {NoPoint}, Truth(m, p) PROVE Truth(m, p)'
  BY <1>0, <1>4, TruthKept
<1>5. CASE UNCHANGED <<points, late>>
  <2>1. IndexTypes'
    BY <1>0, <1>5 DEF IndexTypes
  <2>2. ASSUME NEW m \in MemIds PROVE Truth(m, points[m])'
    <3>1. points[m] \in Point \cup {NoPoint} /\ Truth(m, points[m])
      BY <1>3 DEF IndexerInv
    <3>2. points'[m] = points[m]
      BY <1>5
    <3> QED BY <1>4, <3>1, <3>2 DEF Truth
  <2>3. ASSUME NEW r \in late' PROVE Truth(r.id, r.point)'
    <3>1. r.id \in MemIds /\ r.point \in Point \cup {NoPoint} /\ Truth(r.id, r.point)
      BY <1>3, <1>5 DEF IndexerInv
    <3> QED BY <1>4, <3>1 DEF Truth
  <2> QED BY <1>1, <1>2, <2>1, <2>2, <2>3 DEF IndexerInv
<1>6. ASSUME NEW r \in [id: MemIds, point: Point \cup {NoPoint}], Truth(r.id, r.point), IndexMoves(r)
      PROVE  IndexerInv'
  <2>1. IndexTypes'
    BY <1>3, <1>6 DEF IndexTypes, IndexMoves
  <2>2. ASSUME NEW m \in MemIds PROVE Truth(m, points[m])'
    <3>1. points'[m] \in Point \cup {NoPoint} /\ Truth(m, points'[m])
      BY <1>3, <1>6 DEF IndexerInv, IndexMoves
    <3> QED BY <1>4, <3>1 DEF Truth
  <2>3. ASSUME NEW s \in late' PROVE Truth(s.id, s.point)'
    <3>1. s.id \in MemIds /\ s.point \in Point \cup {NoPoint} /\ Truth(s.id, s.point)
      BY <1>3, <1>6 DEF IndexerInv, IndexMoves
    <3> QED BY <1>4, <3>1 DEF Truth
  <2> QED BY <1>1, <1>2, <2>1, <2>2, <2>3 DEF IndexerInv
<1>7. CASE UNCHANGED indexVars
  BY <1>5, <1>7 DEF indexVars
<1> QED BY <1>5, <1>6, <1>7, IndexerStepMoves DEF Sent

LEMMA InitIndexerInv == IndexerInit => IndexerInv
<1> SUFFICES ASSUME IndexerInit PROVE IndexerInv
  OBVIOUS
<1>1. StoreInv /\ memories = [m \in MemIds |-> NoRow]
  BY InitInv DEF IndexerInit, StoreInit, LedgerInit
<1>2. IndexTypes
  BY FS_EmptySet, IndexerAssumption DEF IndexerInit, IndexTypes
<1> QED BY <1>1, <1>2 DEF IndexerInit, IndexerInv, Authored, Truth, Live, Exists

THEOREM IndexerInvariant == IndexerSpec => []IndexerInv
  BY InitIndexerInv, IndexerInvKept, PTL DEF IndexerSpec

\* The pipeline is the store with an index beside it, so all that is proved of
\* StoreSpec holds of it.
THEOREM IndexerImplementsStore == IndexerSpec => StoreSpec
<1>1. IndexerInit => StoreInit
  BY DEF IndexerInit
<1> QED BY <1>1, IndexerImplementsStoreStep, PTL DEF IndexerSpec, StoreSpec

\* Tables and collection keep their types.
THEOREM IndexerTypes == IndexerSpec => []IndexerTypeOK
<1>1. IndexerInv => IndexerTypeOK
  BY DEF IndexerInv, StoreInv, IndexTypes, IndexerTypeOK
<1> QED BY <1>1, IndexerInvariant, PTL

\* However many abandoned requests the collection carries out, and however late,
\* a point at the revision of a row was made from exactly that row.
THEOREM PointsAreTrue == IndexerSpec => []PointsTellTheTruth
<1>1. IndexerInv => PointsTellTheTruth
  BY DEF IndexerInv, Truth, PointsTellTheTruth
<1> QED BY <1>1, IndexerInvariant, PTL

-----------------------------------------------------------------------------
(***************************************************************************)
(* An index that is prompt: it carries a request out before its caller     *)
(* gives up, or never.  Then a callback leaves the collection as it was,   *)
(* or with the row as it is in the table for as long as the worker holds   *)
(* its lock, and the event goes only after the point is right.             *)
(***************************************************************************)

\* What is true of a memory and its point between any two statements; a row's
\* revision is above 0, the indexed_revision of a pending one.
InOrder(m) ==
  /\ Exists(m) => memories[m].rev > 0
  /\ points[m] # Target(memories[m]) => outbox[m] # NoRow
  /\ Live(m) /\ indexed[m] = memories[m].rev => points[m] = Target(memories[m])
  /\ (\E w \in Workers : wk[w].pc = "applied" /\ wk[w].id = m) => points[m] = Target(memories[m])

PromptInv == IndexerInv /\ \A m \in MemIds : InOrder(m)

\* The collection changes only to what a row is, while nothing is written.
LEMMA PromptPoints ==
  ASSUME IndexerInv, PromptNext, NEW m \in MemIds, points'[m] # points[m]
  PROVE  points'[m] = Target(memories[m]) /\ memories' = memories /\ NoWrite
<1>0. StoreInv /\ points \in [MemIds -> Point \cup {NoPoint}] /\ \A o \in MemIds : Authored(o)
  BY DEF IndexerInv, IndexTypes
<1>1. PICK w \in Workers : ApplyOk(w) \/ ApplyFails(w) \/ CrashInApply(w)
  BY DEF PromptNext
<1>2. wk[w].pc = "apply" /\ NoWrite
  BY <1>1 DEF ApplyOk, ApplyFails, CrashInApply, Callback, WorkerCrash
<1>3. Deliver(Put(w))
  BY <1>1 DEF ApplyOk, ApplyFails, CrashInApply, Abandon
<1>4. m = Put(w).id /\ points'[m] = Put(w).point
  BY <1>0, <1>3 DEF Deliver
<1> QED BY <1>0, <1>2, <1>4, PutIsTrue DEF NoWrite

\* Only ApplyOk turns a worker's event into an applied one.
LEMMA BecomesApplied ==
  ASSUME IndexerInv, PromptNext, NEW w \in Workers, wk'[w].pc = "applied"
  PROVE  \/ wk'[w] = wk[w]
         \/ ApplyOk(w) /\ wk'[w].id = wk[w].id
<1>0. StoreTypeOK
  BY DEF IndexerInv, StoreInv
<1>1. ASSUME NEW t \in Clients, BeginCall(t) \/ ClientStep(t) \/ Abort(t) PROVE wk' = wk
  BY <1>1
     DEF BeginCall, BeginRemember, BeginMove, BeginForget, BeginReindex, Begin, ClientStep, Abort,
         LockWorkspace, LockSecondWorkspace, LookupKey, ReadForUpdate, LockMemory, CountProfile,
         InsertMemory, UpdateMemory, CommitWrite, ReindexSnapshot, ReindexTouch, ReindexCommit,
         Return, Finish
<1>2. ASSUME NEW v \in Workers, WorkerStep(v) \/ WorkerCrash(v) PROVE wk'[w] = wk[w]
  <2>1. PICK state \in [pc: {"idle"}] \cup [pc: {"scanned"}, id: MemIds]
               \cup [pc: {"apply"}, id: {wk[v].id}, row: {memories[wk[v].id]}, kind: {outbox[wk[v].id].kind}] :
          wk' = [wk EXCEPT ![v] = state]
    BY <1>2
       DEF WorkerStep, WorkerCrash, Scan, Claim, Skip, Complete, PutOff, WorkerEnds, WorkerGoto, IdleWorker
  <2> QED BY <1>0, <2>1 DEF StoreTypeOK
<1>3. ASSUME NEW m \in MemIds, BackoffEnds(m) PROVE wk' = wk
  BY <1>3 DEF BackoffEnds
<1>4. ASSUME NEW v \in Workers, ApplyOk(v) \/ ApplyFails(v) \/ CrashInApply(v)
      PROVE  wk'[w] = wk[w] \/ (ApplyOk(w) /\ wk'[w].id = wk[w].id)
  <2>1. CASE v # w
    BY <1>0, <1>4, <2>1
       DEF ApplyOk, ApplyFails, CrashInApply, Callback, WorkerCrash, WorkerEnds, WorkerGoto, StoreTypeOK
  <2>2. CASE v = w /\ ApplyOk(v)
    <3>1. wk[w].pc = "apply" /\ wk' = [wk EXCEPT ![w] = [wk[w] EXCEPT !.pc = "applied"]]
      BY <2>2 DEF ApplyOk, Callback, WorkerGoto
    <3>2. wk[w] \in WorkerState
      BY <1>0 DEF StoreTypeOK
    <3>3. wk'[w].id = wk[w].id
      BY <1>0, <3>1, <3>2 DEF StoreTypeOK, WorkerState
    <3> QED BY <2>2, <3>3
  <2>3. CASE v = w /\ (ApplyFails(v) \/ CrashInApply(v))
    <3>1. wk'[w].pc \in {"failed", "idle"}
      BY <1>0, <2>3
         DEF ApplyFails, CrashInApply, Callback, WorkerCrash, WorkerEnds, WorkerGoto, IdleWorker,
             StoreTypeOK, WorkerState
    <3> QED BY <3>1
  <2> QED BY <1>4, <2>1, <2>2, <2>3
<1> QED BY <1>1, <1>2, <1>3, <1>4 DEF PromptNext, StoreStep

LEMMA InOrderKept ==
  ASSUME PromptInv, [PromptNext]_indexVars, NEW m \in MemIds
  PROVE  InOrder(m)'
<1>1. CASE UNCHANGED indexVars
  BY <1>1 DEF indexVars, PromptInv, InOrder, Exists, Live
<1>2. CASE PromptNext
  <2>0. /\ IndexerInv /\ StoreInv /\ StoreTypeOK /\ LedgerTypeOK /\ InOrder(m)
        /\ points \in [MemIds -> Point \cup {NoPoint}]
    BY DEF PromptInv, IndexerInv, IndexTypes, StoreInv, StoreTypeOK
  <2>1. StoreNext /\ [LedgerNext]_memories /\ StoreInv'
    <3>1. [StoreNext]_storeVars
      BY IndexerImplementsStoreStep, <1>2 DEF IndexerNext
    <3>2. StoreNext
      BY <1>2
         DEF PromptNext, ApplyOk, ApplyFails, CrashInApply, StoreNext, StoreStep
    <3> QED BY <2>0, <3>1, <3>2, LedgerStepOfStore, StoreInvKept
  <2>2. Spared(m) \/ Queued(m) \/ Completed(m)
    BY <2>0, <2>1, StoreStepOfMemory
  <2>3. Exists(m)' => memories'[m].rev > 0
    <3>1. Live(m) => memories[m].rev \in Nat
      BY <2>0 DEF Live, Exists, LedgerTypeOK, Row
    <3> QED BY <2>0, <2>1, <3>1, RowStep DEF InOrder, Exists, Live
  <2>4. memories'[m] = memories[m] /\ points[m] = Target(memories[m]) => points'[m] = Target(memories'[m])
    BY <2>0, <1>2, PromptPoints
  <2>5. ASSUME NEW w \in Workers, wk'[w].pc = "applied", wk'[w].id = m
        PROVE  points'[m] = Target(memories'[m])
    <3>1. CASE wk'[w] = wk[w]
      <4>1. memories'[m] = wk'[w].row /\ memories[m] = wk[w].row
        BY <2>0, <2>1, <2>5, <3>1 DEF StoreInv, WorkerInv
      <4> QED BY <2>0, <2>4, <2>5, <3>1, <4>1 DEF InOrder
    <3>2. CASE ApplyOk(w) /\ wk'[w].id = wk[w].id
      <4>1. /\ wk[w].pc = "apply" /\ memories' = memories /\ Put(w).id = m
            /\ points' = [points EXCEPT ![Put(w).id] = Put(w).point]
        BY <2>5, <3>2 DEF ApplyOk, Callback, NoWrite, Deliver, Put
      <4>2. Put(w).point = Target(memories[m])
        BY <2>0, <4>1, PutIsTrue DEF IndexerInv
      <4> QED BY <2>0, <4>1, <4>2
    <3> QED BY <1>2, <2>0, <2>5, <3>1, <3>2, BecomesApplied
  <2>6. CASE Spared(m)
    <3>1. points'[m] # Target(memories'[m]) => outbox'[m] # NoRow
      BY <2>0, <2>4, <2>6 DEF Spared, InOrder
    <3>2. Live(m)' /\ indexed'[m] = memories'[m].rev => points'[m] = Target(memories'[m])
      BY <2>0, <2>4, <2>6 DEF Spared, InOrder, Live, Exists
    <3> QED BY <2>3, <2>5, <3>1, <3>2 DEF InOrder, Exists, Live
  <2>7. CASE Queued(m)
    <3>1. Live(m)' => indexed'[m] # memories'[m].rev
      BY <2>3, <2>7 DEF Queued, Live, Exists
    <3> QED BY <2>3, <2>5, <2>7, <3>1 DEF Queued, InOrder, Exists, Live
  <2>8. CASE Completed(m)
    <3>1. points'[m] = Target(memories'[m])
      BY <2>0, <2>4, <2>8 DEF Completed, InOrder
    <3> QED BY <2>3, <3>1 DEF InOrder, Exists, Live
  <2> QED BY <2>2, <2>6, <2>7, <2>8
<1> QED BY <1>1, <1>2

LEMMA InitPromptInv == IndexerInit => PromptInv
<1> SUFFICES ASSUME IndexerInit PROVE PromptInv
  OBVIOUS
<1>1. /\ memories = [m \in MemIds |-> NoRow] /\ points = [m \in MemIds |-> NoPoint]
      /\ wk = [w \in Workers |-> IdleWorker]
  BY DEF IndexerInit, StoreInit, LedgerInit
<1>2. ASSUME NEW m \in MemIds PROVE InOrder(m)
  BY <1>1 DEF InOrder, Target, Exists, Live, IdleWorker
<1> QED BY <1>2, InitIndexerInv DEF PromptInv

THEOREM PromptInvariant == PromptSpec => []PromptInv
<1>1. PromptInv /\ [PromptNext]_indexVars => PromptInv'
  BY IndexerInvKept, InOrderKept DEF PromptInv, IndexerNext
<1> QED BY <1>1, InitPromptInv, PTL DEF PromptSpec

\* Whatever the collection holds wrongly has an event in the outbox.
THEOREM StalePointsAreQueued == PromptSpec => []StalePointIsQueued
<1>1. PromptInv => StalePointIsQueued
  BY DEF PromptInv, InOrder, StalePointIsQueued
<1> QED BY <1>1, PromptInvariant, PTL

\* indexed_revision is never ahead of the collection.
THEOREM IndexedMemoriesAreFindable == PromptSpec => []IndexedIsFindable
<1>1. PromptInv => IndexedIsFindable
  BY DEF PromptInv, InOrder, IndexedIsFindable
<1> QED BY <1>1, PromptInvariant, PTL
=============================================================================
