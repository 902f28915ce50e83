-------------------------- MODULE MemoryStoreProofs --------------------------
(***************************************************************************)
(* The safety of MemoryStore for any number of clients, workers,           *)
(* workspaces and memories.                                                *)
(***************************************************************************)
EXTENDS MemoryStore, MemoryLedgerProofs

-----------------------------------------------------------------------------
(***************************************************************************)
(* The inductive invariant.                                                *)
(***************************************************************************)

\* A request is at a statement of its own operation.
RequestFits(t) ==
  LET r == req[t] IN
  /\ pc[t] = "idle" => r.op = "none"
  /\ pc[t] = "lockWs" => r.op \in {"remember", "move"}
  /\ pc[t] \in {"lockSecond", "lockMem"} => r.op = "move"
  /\ pc[t] \in {"lookup", "insert"} => IsCreate(r)
  /\ pc[t] = "read" => r.op = "remember" /\ r.id # NoId
  /\ pc[t] = "count" => r.op \in {"remember", "move"}
  /\ pc[t] \in {"update", "commit"} => r.op \in {"remember", "move", "forget"} /\ ~IsCreate(r)
  /\ pc[t] \in {"snapshot", "touch"} => r.op = "reindex"
  /\ r.op = "move" => r.ws # r.to

\* The row locks a transaction has taken by the statement it is at.
HoldsLocks(t) ==
  LET r == req[t] IN
  /\ r.op = "remember" /\ pc[t] # "lockWs" => wsLock[r.ws] = t
  /\ r.op = "move" /\ pc[t] # "lockWs" => wsLock[FirstWs(r)] = t
  /\ r.op = "move" /\ pc[t] \notin {"lockWs", "lockSecond"} => wsLock[SecondWs(r)] = t
  /\ r.op = "move" /\ pc[t] \in {"count", "update"} => memLock[r.id] = t
  /\ pc[t] = "commit" => memLock[r.id] = t

\* What an update has read is still so, or its UPDATE will match no row; a write
\* about to commit replaces what it saw.
ReadHolds(t) ==
  LET r == req[t] IN
  /\ r.op = "move" /\ pc[t] \in {"count", "update"} => LiveIn(r.id, r.ws)
  /\ r.op = "remember" /\ ~IsCreate(r) /\ pc[t] \in {"count", "update"} =>
       /\ Exists(r.id) /\ memories[r.id].rev >= r.exp
       /\ memories[r.id].rev = r.exp => LiveIn(r.id, r.ws)
  /\ pc[t] = "commit" =>
       /\ LiveIn(r.id, r.ws)
       /\ r.op # "forget" => memories[r.id].rev = r.exp

\* The write ahead of t puts an entry into the profile of TargetWs, which was
\* counted and still has a place.
NeedsRoom(t) ==
  LET r == req[t] IN
  \/ pc[t] = "insert" /\ r.kind \in ProfileKinds
  \/ /\ pc[t] \in {"update", "commit"} /\ r.op = "remember" /\ r.kind \in ProfileKinds
     /\ memories[r.id].rev = r.exp /\ memories[r.id].kind = "memory"
  \/ pc[t] \in {"update", "commit"} /\ r.op = "move" /\ memories[r.id].kind \in ProfileKinds
KeepsRoom(t) == NeedsRoom(t) => ~ProfileFull(TargetWs(req[t]))

\* The key of a create is still free.
KeyFree(t) ==
  pc[t] \in {"count", "insert"} /\ IsCreate(req[t]) /\ req[t].key # NoKey
  => \A m \in MemIds : ~HoldsKey(m, req[t].ws, req[t].key)

ClientInv(t) ==
  RequestFits(t) /\ HoldsLocks(t) /\ ReadHolds(t) /\ KeepsRoom(t) /\ KeyFree(t)

\* A worker keeps its memory locked from the claim to the end, so the row and
\* the kind of event it has read stay what they are.
WorkerInv(w) ==
  wk[w].pc \in {"apply", "applied", "failed"} =>
    LET m == wk[w].id IN
    /\ memLock[m] = w
    /\ memories[m] = wk[w].row
    /\ outbox[m] # NoRow /\ outbox[m].kind = wk[w].kind

\* Only a row is locked, on the list of a Reindex or in the outbox; only a
\* forgotten row has a delete event; a pending memory has an event.
MemoryInv(m) ==
  /\ memLock[m] # NoTx => Exists(m)
  /\ (\E t \in Clients : m \in todo[t]) => Exists(m)
  /\ outbox[m] # NoRow => Exists(m) /\ (outbox[m].kind = "delete" => memories[m].deleted)
  /\ Live(m) /\ indexed[m] # memories[m].rev => outbox[m] # NoRow

StoreInv ==
  /\ StoreTypeOK
  /\ \A t \in Clients : ClientInv(t)
  /\ \A w \in Workers : WorkerInv(w)
  /\ \A m \in MemIds : MemoryInv(m)

-----------------------------------------------------------------------------
(***************************************************************************)
(* Typing.                                                                 *)
(***************************************************************************)
\* Only NoReq has no operation, and the operation of a request tells its fields.
LEMMA RequestKinds ==
  ASSUME NEW r \in Request
  PROVE  /\ r.op \in {"remember", "move", "forget", "reindex", "none"}
         /\ r.op = "remember" => r \in RememberReq
         /\ r.op = "move" => r \in MoveReq
         /\ r.op = "forget" => r \in ForgetReq
         /\ r.op = "reindex" => r \in ReindexReq
         /\ r.op = "none" => r = NoReq
  BY DEF Request, RememberReq, MoveReq, ForgetReq, ReindexReq, NoReq

\* The workspaces of a request.
LEMMA RequestWorkspaces ==
  ASSUME NEW r \in Request, r.op \in {"remember", "move"}
  PROVE  /\ r.ws \in Workspaces /\ FirstWs(r) \in Workspaces /\ TargetWs(r) \in Workspaces
         /\ r.op = "move" => /\ r.to \in Workspaces /\ SecondWs(r) \in Workspaces
                             /\ {FirstWs(r), SecondWs(r)} = {r.ws, r.to}
         /\ r.op = "remember" => FirstWs(r) = r.ws
<1>1. CASE r.op = "remember"
  <2>1. r \in RememberReq
    BY <1>1, RequestKinds
  <2> QED BY <1>1, <2>1 DEF RememberReq, FirstWs, TargetWs
<1>2. CASE r.op = "move"
  <2>1. r \in MoveReq
    BY <1>2, RequestKinds
  <2> QED BY <1>2, <2>1 DEF MoveReq, FirstWs, SecondWs, TargetWs
<1> QED BY <1>1, <1>2

\* The end of a transaction keeps the types of all but the tables.
LEMMA FinishTypes ==
  ASSUME StoreTypeOK, NEW t \in Clients, Finish(t)
  PROVE  /\ wsLock' \in [Workspaces -> Clients \cup {NoTx}]
         /\ memLock' \in [MemIds -> Txs \cup {NoTx}]
         /\ pc' \in [Clients -> Steps]
         /\ req' \in [Clients -> Request]
         /\ todo' \in [Clients -> SUBSET MemIds]
         /\ wk' \in [Workers -> WorkerState]
  BY DEF StoreTypeOK, Finish, Released, Steps, Request

LEMMA ReturnTypes ==
  ASSUME StoreTypeOK, NEW t \in Clients, Return(t)
  PROVE  StoreTypeOK'
  BY FinishTypes DEF StoreTypeOK, LedgerTypeOK, Return, NoWrite

\* So does the end of a worker's transaction.
LEMMA WorkerEndTypes ==
  ASSUME StoreTypeOK, NEW w \in Workers, WorkerEnds(w)
  PROVE  /\ wsLock' \in [Workspaces -> Clients \cup {NoTx}]
         /\ memLock' \in [MemIds -> Txs \cup {NoTx}]
         /\ pc' \in [Clients -> Steps]
         /\ req' \in [Clients -> Request]
         /\ todo' \in [Clients -> SUBSET MemIds]
         /\ wk' \in [Workers -> WorkerState]
  BY DEF StoreTypeOK, WorkerEnds, WorkerGoto, ClientsKeep, Released, WorkerState, IdleWorker

\* A committed write is typed.
LEMMA WriteTypes ==
  ASSUME StoreTypeOK, NEW m \in MemIds, NEW row \in Row, NEW event \in Event, Write(m, row, event)
  PROVE  /\ LedgerTypeOK'
         /\ indexed' \in [MemIds -> Nat]
         /\ outbox' \in [MemIds -> Event \cup {NoRow}]
  BY DEF StoreTypeOK, LedgerTypeOK, Write

LEMMA ClientTypes ==
  ASSUME StoreInv, NEW t \in Clients, ClientStep(t)
  PROVE  StoreTypeOK'
<1> USE DEF StoreInv
<1>0. /\ StoreTypeOK /\ ClientInv(t) /\ RequestFits(t) /\ req[t] \in Request
      /\ Upsert \in Event /\ Delete \in Event
  BY DEF StoreTypeOK, ClientInv, Upsert, Delete, Event
<1>1. CASE LockWorkspace(t)
  <2>1. req[t].op \in {"remember", "move"} /\ FirstWs(req[t]) \in Workspaces
    BY <1>0, <1>1, RequestWorkspaces DEF LockWorkspace, RequestFits
  <2>2. StepWithWorkspace(req[t]) \in Steps
    BY <2>1 DEF StepWithWorkspace, CreateStep, Steps, IsCreate
  <2> QED BY <1>0, <1>1, <2>1, <2>2 DEF LockWorkspace, Goto, NoWrite, StoreTypeOK, LedgerTypeOK
<1>2. CASE LockSecondWorkspace(t)
  <2>1. SecondWs(req[t]) \in Workspaces
    BY <1>0, <1>2, RequestWorkspaces DEF LockSecondWorkspace, RequestFits
  <2> QED BY <1>0, <1>2, <2>1 DEF LockSecondWorkspace, Goto, NoWrite, StoreTypeOK, LedgerTypeOK, Steps
<1>3. CASE LookupKey(t)
  <2>1. CreateStep(req[t]) \in Steps
    BY DEF CreateStep, Steps
  <2> QED BY <1>0, <1>3, <2>1, ReturnTypes DEF LookupKey, Goto, NoWrite, StoreTypeOK, LedgerTypeOK
<1>4. CASE ReadForUpdate(t)
  BY <1>0, <1>4, ReturnTypes DEF ReadForUpdate, Goto, NoWrite, StoreTypeOK, LedgerTypeOK, Steps
<1>5. CASE LockMemory(t)
  <2>1. req[t].id \in MemIds
    BY <1>0, <1>5, RequestKinds DEF LockMemory, RequestFits, MoveReq
  <2> QED BY <1>0, <1>5, <2>1, ReturnTypes
          DEF LockMemory, Goto, NoWrite, StoreTypeOK, LedgerTypeOK, Steps, Txs
<1>6. CASE CountProfile(t)
  BY <1>0, <1>6, ReturnTypes DEF CountProfile, Goto, NoWrite, StoreTypeOK, LedgerTypeOK, Steps
<1>7. CASE InsertMemory(t)
  <2>1. req[t] \in RememberReq
    BY <1>0, <1>7, RequestKinds DEF InsertMemory, RequestFits, IsCreate
  <2>2. NewRow(req[t].ws, req[t].kind, req[t].body, req[t].key) \in Row
    BY <2>1 DEF NewRow, Row, RememberReq
  <2>3. PICK m \in MemIds : Write(m, NewRow(req[t].ws, req[t].kind, req[t].body, req[t].key), Upsert)
    BY <1>7 DEF InsertMemory
  <2>4. Finish(t)
    BY <1>7 DEF InsertMemory
  <2> QED BY <1>0, <2>2, <2>3, <2>4, WriteTypes, FinishTypes DEF StoreTypeOK
<1>8. CASE UpdateMemory(t)
  <2>1. req[t].id \in MemIds
    BY <1>0, <1>8, RequestKinds DEF UpdateMemory, RequestFits, IsCreate, RememberReq, MoveReq, ForgetReq
  <2> QED BY <1>0, <1>8, <2>1, ReturnTypes
          DEF UpdateMemory, Goto, NoWrite, StoreTypeOK, LedgerTypeOK, Steps, Txs
<1>9. CASE CommitWrite(t)
  <2>1. /\ req[t].op \in {"remember", "move", "forget"} /\ req[t].id \in MemIds
        /\ memories[req[t].id] \in Row
    BY <1>0, <1>9, RequestKinds
       DEF CommitWrite, RequestFits, IsCreate, RememberReq, MoveReq, ForgetReq, ClientInv, ReadHolds,
           LiveIn, Live, Exists, StoreTypeOK, LedgerTypeOK
  <2>2. PICK row \in Row, event \in Event : Write(req[t].id, row, event)
    <3>1. CASE req[t].op = "remember"
      <4>1. Revised(memories[req[t].id], req[t].kind, req[t].body) \in Row
        BY <1>0, <2>1, <3>1, WrittenRows, RequestKinds DEF RememberReq
      <4> QED BY <1>0, <1>9, <3>1, <4>1 DEF CommitWrite
    <3>2. CASE req[t].op = "move"
      <4>1. Relocated(memories[req[t].id], req[t].to) \in Row
        BY <1>0, <2>1, <3>2, WrittenRows, RequestKinds DEF MoveReq
      <4> QED BY <1>0, <1>9, <3>2, <4>1 DEF CommitWrite
    <3>3. CASE req[t].op = "forget"
      <4>1. Erased(memories[req[t].id]) \in Row
        BY <2>1, WrittenRows
      <4> QED BY <1>0, <1>9, <3>3, <4>1 DEF CommitWrite
    <3> QED BY <2>1, <3>1, <3>2, <3>3
  <2>3. Finish(t)
    BY <1>9 DEF CommitWrite
  <2> QED BY <1>0, <2>1, <2>2, <2>3, WriteTypes, FinishTypes DEF StoreTypeOK
<1>10. CASE ReindexSnapshot(t)
  BY <1>0, <1>10 DEF ReindexSnapshot, Goto, NoWrite, StoreTypeOK, LedgerTypeOK, Steps
<1>11. CASE ReindexTouch(t)
  BY <1>0, <1>11 DEF ReindexTouch, NoWrite, StoreTypeOK, LedgerTypeOK, Txs
<1>12. CASE ReindexCommit(t)
  <2>1. Finish(t)
    BY <1>12 DEF ReindexCommit
  <2>2. indexed' \in [MemIds -> Nat] /\ outbox' \in [MemIds -> Event \cup {NoRow}] /\ LedgerTypeOK'
    BY <1>0, <1>12 DEF ReindexCommit, StoreTypeOK, LedgerTypeOK
  <2> QED BY <1>0, <2>1, <2>2, FinishTypes DEF StoreTypeOK
<1> QED BY <1>1, <1>2, <1>3, <1>4, <1>5, <1>6, <1>7, <1>8, <1>9, <1>10, <1>11, <1>12 DEF ClientStep

LEMMA BeginTypes ==
  ASSUME StoreInv, NEW t \in Clients, BeginCall(t)
  PROVE  StoreTypeOK'
<1> SUFFICES ASSUME NEW r \in Request, NEW step \in Steps, Begin(t, r, step) PROVE StoreTypeOK'
  BY DEF BeginCall, BeginRemember, BeginMove, BeginForget, BeginReindex, Request, Steps
<1> QED BY DEF Begin, Goto, NoWrite, StoreInv, StoreTypeOK, LedgerTypeOK

LEMMA WorkerTypes ==
  ASSUME StoreInv, NEW w \in Workers,
         WorkerStep(w) \/ WorkerCrash(w) \/ \E ok \in BOOLEAN : Callback(w, ok)
  PROVE  StoreTypeOK'
<1> USE DEF StoreInv
<1>0. StoreTypeOK /\ WorkerInv(w) /\ wk[w] \in WorkerState
  BY DEF StoreTypeOK
<1>1. ASSUME NEW m \in MemIds, Scan(w, m) PROVE StoreTypeOK'
  BY <1>0, <1>1 DEF Scan, WorkerGoto, NoWrite, ClientsKeep, WorkerState, StoreTypeOK, LedgerTypeOK
<1>2. CASE Claim(w)
  <2>1. wk[w].id \in MemIds /\ wk[w].pc = "scanned"
    BY <1>0, <1>2 DEF Claim, WorkerState
  <2>2. /\ memories[wk[w].id] \in Row /\ outbox[wk[w].id] \in Event
    BY <1>0, <1>2, <2>1 DEF Claim, Due, MemoryInv, Exists, StoreTypeOK, LedgerTypeOK
  <2>3. [pc |-> "apply", id |-> wk[w].id, row |-> memories[wk[w].id], kind |-> outbox[wk[w].id].kind]
           \in WorkerState
    BY <2>1, <2>2 DEF WorkerState, Event
  <2> QED BY <1>0, <1>2, <2>1, <2>3
          DEF Claim, WorkerGoto, NoWrite, ClientsKeep, StoreTypeOK, LedgerTypeOK, Txs
<1>3. CASE Skip(w) \/ WorkerCrash(w)
  BY <1>0, <1>3, WorkerEndTypes DEF Skip, WorkerCrash, NoWrite, StoreTypeOK, LedgerTypeOK
<1>4. ASSUME NEW ok \in BOOLEAN, Callback(w, ok) PROVE StoreTypeOK'
  <2>1. [wk[w] EXCEPT !.pc = IF ok THEN "applied" ELSE "failed"] \in WorkerState
    BY <1>0, <1>4 DEF Callback, WorkerState
  <2> QED BY <1>0, <1>4, <2>1
          DEF Callback, WorkerGoto, NoWrite, ClientsKeep, StoreTypeOK, LedgerTypeOK
<1>5. CASE Complete(w)
  <2>1. wk[w].id \in MemIds /\ memories[wk[w].id] \in Row
    BY <1>0, <1>5 DEF Complete, WorkerState, WorkerInv, StoreTypeOK, LedgerTypeOK
  <2>2. outbox' \in [MemIds -> Event \cup {NoRow}] /\ indexed' \in [MemIds -> Nat]
    BY <1>0, <1>5, <2>1 DEF Complete, StoreTypeOK, Row
  <2> QED BY <1>0, <1>5, <2>2, WorkerEndTypes DEF Complete, StoreTypeOK, LedgerTypeOK
<1>6. CASE PutOff(w)
  <2>1. wk[w].id \in MemIds /\ outbox[wk[w].id] \in Event
    BY <1>0, <1>6 DEF PutOff, WorkerState, WorkerInv, StoreTypeOK
  <2>2. [outbox[wk[w].id] EXCEPT !.due = FALSE] \in Event
    BY <2>1 DEF Event
  <2>3. outbox' \in [MemIds -> Event \cup {NoRow}]
    BY <1>0, <1>6, <2>1, <2>2 DEF PutOff, StoreTypeOK
  <2> QED BY <1>0, <1>6, <2>3, WorkerEndTypes DEF PutOff, StoreTypeOK, LedgerTypeOK
<1> QED BY <1>1, <1>2, <1>3, <1>4, <1>5, <1>6 DEF WorkerStep

LEMMA BackoffTypes ==
  ASSUME StoreInv, NEW m \in MemIds, BackoffEnds(m)
  PROVE  StoreTypeOK'
<1>1. outbox[m] \in Event /\ StoreTypeOK
  BY DEF BackoffEnds, StoreInv, StoreTypeOK
<1>2. [outbox[m] EXCEPT !.due = TRUE] \in Event
  BY <1>1 DEF Event
<1> QED BY <1>1, <1>2 DEF BackoffEnds, ClientsKeep, StoreTypeOK, LedgerTypeOK

\* One step of the system, by who takes it.
LEMMA StoreSteps ==
  ASSUME StoreNext
  PROVE  \/ \E t \in Clients : BeginCall(t) \/ ClientStep(t) \/ Abort(t)
         \/ \E w \in Workers : \/ WorkerStep(w) \/ WorkerCrash(w)
                               \/ \E ok \in BOOLEAN : Callback(w, ok)
         \/ \E m \in MemIds : BackoffEnds(m)
  BY DEF StoreNext, StoreStep

LEMMA TypesKept ==
  ASSUME StoreInv, StoreNext
  PROVE  StoreTypeOK'
<1>1. ASSUME NEW t \in Clients, Abort(t) PROVE StoreTypeOK'
  BY <1>1, ReturnTypes DEF Abort, StoreInv
<1> QED BY <1>1, StoreSteps, BeginTypes, ClientTypes, WorkerTypes, BackoffTypes

-----------------------------------------------------------------------------
(***************************************************************************)
(* What a step leaves to the other clients.                                *)
(***************************************************************************)
\* A profile that only shrinks keeps its room.
LEMMA RoomStays ==
  ASSUME NEW ws \in Workspaces, ~ProfileFull(ws), Profile(ws)' \subseteq Profile(ws)
  PROVE  ~ProfileFull(ws)'
<1>1. IsFiniteSet(Profile(ws))
  BY LedgerAssumption, FS_Subset DEF Profile
<1>2. /\ Cardinality(Profile(ws)') \in Nat /\ Cardinality(Profile(ws)) \in Nat
      /\ Cardinality(Profile(ws)') <= Cardinality(Profile(ws))
  BY <1>1, FS_Subset, FS_CardinalityType
<1> QED BY <1>2, LedgerAssumption DEF ProfileFull

\* The workspace whose profile or keys a client counts on is locked by it.
LEMMA LockedTarget ==
  ASSUME StoreInv, NEW t \in Clients
  PROVE  /\ NeedsRoom(t) => TargetWs(req[t]) \in Workspaces /\ wsLock[TargetWs(req[t])] = t
         /\ pc[t] \in {"count", "insert"} /\ IsCreate(req[t]) =>
              req[t].ws \in Workspaces /\ wsLock[req[t].ws] = t
<1>0. ClientInv(t) /\ RequestFits(t) /\ HoldsLocks(t) /\ req[t] \in Request
  BY DEF StoreInv, StoreTypeOK, ClientInv
<1>1. NeedsRoom(t) => /\ req[t].op \in {"remember", "move"}
                      /\ pc[t] \notin {"lockWs", "lockSecond"}
  BY <1>0 DEF NeedsRoom, RequestFits, IsCreate
<1>2. CASE req[t].op = "remember"
  BY <1>0, <1>1, <1>2, RequestWorkspaces DEF TargetWs, HoldsLocks, IsCreate
<1>3. CASE req[t].op = "move"
  <2>1. NeedsRoom(t) => wsLock[FirstWs(req[t])] = t /\ wsLock[SecondWs(req[t])] = t
    BY <1>0, <1>1, <1>3 DEF HoldsLocks
  <2> QED BY <1>0, <1>3, <2>1, RequestWorkspaces DEF TargetWs, IsCreate
<1> QED BY <1>1, <1>2, <1>3 DEF IsCreate

\* Client u takes no part in the step and keeps its locks.
Untouched(u) ==
  /\ pc'[u] = pc[u] /\ req'[u] = req[u]
  /\ \A x \in Workspaces : wsLock[x] = u => wsLock'[x] = u
  /\ \A m \in MemIds : memLock[m] = u => memLock'[m] = u

LEMMA UntouchedLocks ==
  ASSUME StoreInv, NEW u \in Clients, Untouched(u)
  PROVE  RequestFits(u)' /\ HoldsLocks(u)'
<1>0. RequestFits(u) /\ HoldsLocks(u) /\ req[u] \in Request
  BY DEF StoreInv, StoreTypeOK, ClientInv
<1>1. RequestFits(u)'
  BY <1>0 DEF Untouched, RequestFits, IsCreate
<1>2. req[u].op \in {"remember", "move"} =>
        /\ req[u].ws \in Workspaces /\ FirstWs(req[u]) \in Workspaces
        /\ req[u].op = "move" => SecondWs(req[u]) \in Workspaces
  BY <1>0, RequestWorkspaces
<1>3. req[u].op = "move" => req[u].id \in MemIds
  BY <1>0, RequestKinds DEF MoveReq
<1>4. pc[u] = "commit" => req[u].id \in MemIds
  BY <1>0, RequestKinds DEF RequestFits, IsCreate, RememberReq, MoveReq, ForgetReq
<1>5. HoldsLocks(u)'
  BY <1>0, <1>2, <1>3, <1>4 DEF Untouched, HoldsLocks, FirstWs, SecondWs
<1> QED BY <1>1, <1>5

\* A step that writes no memory leaves an untouched client's invariant alone.
LEMMA UntouchedByReads ==
  ASSUME StoreInv, NEW u \in Clients, Untouched(u), UNCHANGED memories
  PROVE  ClientInv(u)'
<1>0. ClientInv(u)
  BY DEF StoreInv
<1>1. \A ws : Profile(ws)' = Profile(ws)
  BY DEF Profile, LiveIn, Live, Exists
<1>2. ReadHolds(u)'
  BY <1>0 DEF ClientInv, ReadHolds, Untouched, LiveIn, Live, Exists, IsCreate
<1>3. KeepsRoom(u)'
  BY <1>0, <1>1 DEF ClientInv, KeepsRoom, NeedsRoom, ProfileFull, TargetWs, Untouched
<1>4. KeyFree(u)'
  BY <1>0 DEF ClientInv, KeyFree, HoldsKey, Exists, IsCreate, Untouched
<1> QED BY <1>2, <1>3, <1>4, UntouchedLocks DEF ClientInv

\* Transaction t commits row as memory m: a new version of a row it has locked,
\* or a new row, that is in a workspace t has locked unless it is being erased.
CommitsRow(t, m, row) ==
  /\ row \in Row
  /\ memories' = [memories EXCEPT ![m] = row]
  /\ Exists(m) => memLock[m] = t /\ row.rev = memories[m].rev + 1
  /\ \/ wsLock[row.ws] = t
     \/ /\ Exists(m) /\ row.deleted
        /\ row.ws = memories[m].ws /\ row.key = memories[m].key

LEMMA UntouchedByWrites ==
  ASSUME StoreInv, NEW t \in Clients, NEW m \in MemIds, NEW row, CommitsRow(t, m, row),
         NEW u \in Clients, u # t, Untouched(u)
  PROVE  ClientInv(u)'
<1>0. /\ ClientInv(u) /\ ReadHolds(u) /\ RequestFits(u) /\ HoldsLocks(u) /\ req[u] \in Request
      /\ memories \in [MemIds -> Row \cup {NoRow}]
  BY DEF StoreInv, StoreTypeOK, LedgerTypeOK, ClientInv
<1>1. ASSUME NEW ws \in Workspaces, wsLock[ws] = u
      PROVE  /\ Profile(ws)' \subseteq Profile(ws)
             /\ \A key : \A o \in MemIds : HoldsKey(o, ws, key)' => HoldsKey(o, ws, key)
  <2>1. row.ws # ws \/ (Exists(m) /\ row.deleted /\ memories[m].ws = ws /\ row.key = memories[m].key)
    BY <1>1 DEF CommitsRow
  <2>2. memories'[m] = row /\ \A o \in MemIds \ {m} : memories'[o] = memories[o]
    BY <1>0 DEF CommitsRow
  <2> QED BY <2>1, <2>2 DEF Profile, LiveIn, Live, Exists, HoldsKey
<1>2. \A o \in MemIds : Exists(o) =>
        /\ memories'[o] # NoRow
        /\ \/ memories'[o] = memories[o]
           \/ memories'[o].rev = memories[o].rev + 1 /\ memLock[o] = t
  BY <1>0, LedgerAssumption DEF CommitsRow, Exists
<1>3. req[u].op \in {"remember", "move", "forget"} /\ ~IsCreate(req[u]) => req[u].id \in MemIds
  BY <1>0, RequestKinds DEF IsCreate, RememberReq, MoveReq, ForgetReq
\* The row a later statement of u goes by is locked, or read at a revision.
<1>4. (req[u].op = "move" /\ pc[u] \in {"count", "update"}) \/ pc[u] = "commit" =>
        /\ req[u].id \in MemIds /\ LiveIn(req[u].id, req[u].ws)
        /\ memories'[req[u].id] = memories[req[u].id]
  <2>1. (req[u].op = "move" /\ pc[u] \in {"count", "update"}) \/ pc[u] = "commit" =>
          /\ memLock[req[u].id] = u /\ req[u].id \in MemIds /\ LiveIn(req[u].id, req[u].ws)
    BY <1>0, <1>3 DEF HoldsLocks, ReadHolds, RequestFits, IsCreate
  <2> QED BY <1>2, <2>1 DEF LiveIn, Live
<1>5. ASSUME req[u].op = "remember", ~IsCreate(req[u]), pc[u] \in {"count", "update"}
      PROVE  /\ req[u].id \in MemIds
             /\ memories'[req[u].id] # NoRow /\ memories'[req[u].id].rev >= req[u].exp
             /\ memories'[req[u].id].rev = req[u].exp =>
                  memories'[req[u].id] = memories[req[u].id] /\ LiveIn(req[u].id, req[u].ws)
  <2> DEFINE id == req[u].id
  <2>1. id \in MemIds /\ Exists(id) /\ memories[id].rev >= req[u].exp
        /\ (memories[id].rev = req[u].exp => LiveIn(id, req[u].ws))
    BY <1>0, <1>3, <1>5 DEF ReadHolds
  <2>2. memories[id].rev \in Nat /\ req[u].exp \in Nat
    BY <1>0, <1>5, <2>1, RequestKinds, StoreAssumption DEF Exists, Row, RememberReq
  <2>3. CASE memories'[id] = memories[id]
    BY <1>2, <2>1, <2>3
  <2>4. CASE memories'[id].rev = memories[id].rev + 1
    BY <1>2, <2>1, <2>2, <2>4
  <2> QED BY <1>2, <2>1, <2>3, <2>4
<1>6. ReadHolds(u)'
  BY <1>0, <1>4, <1>5 DEF ReadHolds, Untouched, LiveIn, Live, Exists, IsCreate
<1>7. KeepsRoom(u)'
  <2>1. NeedsRoom(u)' => NeedsRoom(u)
    BY <1>0, <1>4, <1>5 DEF NeedsRoom, Untouched, RequestFits
  <2> QED BY <1>0, <1>1, <2>1, LockedTarget, RoomStays
          DEF ClientInv, KeepsRoom, TargetWs, Untouched, ProfileFull
<1>8. KeyFree(u)'
  BY <1>0, <1>1, LockedTarget DEF ClientInv, KeyFree, Untouched, IsCreate
<1> QED BY <1>6, <1>7, <1>8, UntouchedLocks DEF ClientInv

-----------------------------------------------------------------------------
(***************************************************************************)
(* The client that takes a step.                                           *)
(***************************************************************************)
LEMMA FinishLeaves ==
  ASSUME StoreTypeOK, NEW t \in Clients, Finish(t)
  PROVE  ClientInv(t)' /\ \A u \in Clients \ {t} : Untouched(u)
<1>1. pc'[t] = "idle" /\ req'[t] = NoReq /\ req'[t].op = "none"
  BY DEF StoreTypeOK, Finish, NoReq
<1>2. ClientInv(t)'
  BY <1>1 DEF ClientInv, RequestFits, HoldsLocks, ReadHolds, KeepsRoom, NeedsRoom, KeyFree, IsCreate
<1>3. \A u \in Clients \ {t} : Untouched(u)
  BY DEF StoreTypeOK, Finish, Untouched, Released
<1> QED BY <1>2, <1>3

\* The statements that write no memory: the client goes on, or returns.
LEMMA ReturnInv ==
  ASSUME StoreInv, NEW t \in Clients, Return(t)
  PROVE  \A u \in Clients : ClientInv(u)'
<1>1. \A u \in Clients \ {t} : ClientInv(u)'
  BY FinishLeaves, UntouchedByReads DEF StoreInv, Return, NoWrite
<1> QED BY <1>1, FinishLeaves DEF StoreInv, Return

\* The statement t goes on from, to one that relies on no more than it has.
OwnStep(t) ==
  /\ UNCHANGED <<memories, req>>
  /\ \A u \in Clients \ {t} : pc'[u] = pc[u]
  /\ \A x \in Workspaces : wsLock[x] # NoTx => wsLock'[x] = wsLock[x]
  /\ \A m \in MemIds : memLock[m] # NoTx => memLock'[m] = memLock[m]

LEMMA OwnStepLeaves ==
  ASSUME StoreInv, NEW t \in Clients, OwnStep(t)
  PROVE  \A u \in Clients \ {t} : ClientInv(u)'
<1>1. \A u \in Clients \ {t} : Untouched(u)
  BY StoreAssumption DEF OwnStep, Untouched
<1> QED BY <1>1, UntouchedByReads DEF OwnStep

LEMMA BeginInv ==
  ASSUME StoreInv, NEW t \in Clients, BeginCall(t)
  PROVE  \A u \in Clients : ClientInv(u)'
<1>1. PICK r \in Request, step \in {"lockWs", "update", "snapshot"} :
        /\ Begin(t, r, step)
        /\ step = "lockWs" => r.op \in {"remember", "move"}
        /\ step = "update" => r.op = "forget"
        /\ step = "snapshot" => r.op = "reindex"
        /\ r.op = "move" => r.ws # r.to
  BY DEF BeginCall, BeginRemember, BeginMove, BeginForget, BeginReindex, Request,
         RememberReq, MoveReq, ForgetReq, ReindexReq
<1>2. pc'[t] = step /\ req'[t] = r /\ UNCHANGED <<memories, wsLock, memLock>>
  BY <1>1 DEF Begin, Goto, NoWrite, StoreInv, StoreTypeOK
<1>3. \A u \in Clients \ {t} : Untouched(u)
  BY <1>1 DEF Begin, Goto, Untouched, StoreInv, StoreTypeOK
<1>4. ClientInv(t)'
  BY <1>1, <1>2
     DEF ClientInv, RequestFits, HoldsLocks, ReadHolds, KeepsRoom, NeedsRoom, KeyFree, IsCreate
<1> QED BY <1>2, <1>3, <1>4, UntouchedByReads

LEMMA LockInv ==
  ASSUME StoreInv, NEW t \in Clients,
         LockWorkspace(t) \/ LockSecondWorkspace(t) \/ LockMemory(t)
  PROVE  \A u \in Clients : ClientInv(u)'
<1>0. /\ ClientInv(t) /\ RequestFits(t) /\ HoldsLocks(t) /\ req[t] \in Request /\ StoreTypeOK
      /\ pc[t] \in {"lockWs", "lockSecond", "lockMem"}
  BY DEF StoreInv, StoreTypeOK, ClientInv, LockWorkspace, LockSecondWorkspace, LockMemory
<1>1. CASE LockWorkspace(t)
  <2>1. OwnStep(t)
    BY <1>0, <1>1 DEF LockWorkspace, OwnStep, Goto, NoWrite, Free, StoreTypeOK
  <2>2. /\ req[t].op \in {"remember", "move"}
        /\ FirstWs(req[t]) \in Workspaces /\ (req[t].op = "remember" => FirstWs(req[t]) = req[t].ws)
    BY <1>0, <1>1, RequestWorkspaces DEF LockWorkspace, RequestFits
  <2>3. /\ pc'[t] = StepWithWorkspace(req[t]) /\ wsLock'[FirstWs(req[t])] = t
        /\ req'[t] = req[t] /\ UNCHANGED <<memories, memLock>>
    BY <1>0, <1>1, <2>2 DEF LockWorkspace, Goto, NoWrite, StoreTypeOK
  <2>4. ClientInv(t)'
    <3>1. CASE req[t].op = "move"
      <4>1. pc'[t] = "lockSecond"
        BY <2>3, <3>1 DEF StepWithWorkspace, IsCreate
      <4> QED BY <1>0, <2>3, <3>1, <4>1
              DEF ClientInv, RequestFits, HoldsLocks, ReadHolds, KeepsRoom, NeedsRoom, KeyFree,
                  IsCreate, FirstWs
    <3>2. CASE req[t].op = "remember" /\ ~IsCreate(req[t])
      <4>1. pc'[t] = "read"
        BY <2>3, <3>2 DEF StepWithWorkspace, IsCreate
      <4> QED BY <1>0, <2>2, <2>3, <3>2, <4>1
              DEF ClientInv, RequestFits, HoldsLocks, ReadHolds, KeepsRoom, NeedsRoom, KeyFree, IsCreate
    <3>3. CASE IsCreate(req[t]) /\ req[t].key # NoKey
      <4>1. pc'[t] = "lookup"
        BY <2>3, <3>3 DEF StepWithWorkspace, IsCreate
      <4> QED BY <1>0, <2>2, <2>3, <3>3, <4>1
              DEF ClientInv, RequestFits, HoldsLocks, ReadHolds, KeepsRoom, NeedsRoom, KeyFree, IsCreate
    <3>4. CASE IsCreate(req[t]) /\ req[t].key = NoKey
      <4>1. pc'[t] = CreateStep(req[t])
        BY <2>3, <3>4 DEF StepWithWorkspace, IsCreate
      <4> QED BY <1>0, <2>2, <2>3, <3>4, <4>1
              DEF ClientInv, RequestFits, HoldsLocks, ReadHolds, KeepsRoom, NeedsRoom, KeyFree,
                  IsCreate, CreateStep
    <3> QED BY <2>2, <3>1, <3>2, <3>3, <3>4 DEF IsCreate
  <2> QED BY <2>1, <2>4, OwnStepLeaves
<1>2. CASE LockSecondWorkspace(t)
  <2>1. OwnStep(t)
    BY <1>0, <1>2 DEF LockSecondWorkspace, OwnStep, Goto, NoWrite, Free, StoreTypeOK
  <2>2. req[t].op = "move" /\ SecondWs(req[t]) \in Workspaces /\ FirstWs(req[t]) \in Workspaces
    BY <1>0, <1>2, RequestWorkspaces DEF LockSecondWorkspace, RequestFits
  <2>3. /\ pc'[t] = "lockMem" /\ wsLock'[SecondWs(req[t])] = t /\ wsLock'[FirstWs(req[t])] = t
        /\ req'[t] = req[t] /\ UNCHANGED <<memories, memLock>>
    BY <1>0, <1>2, <2>2 DEF LockSecondWorkspace, Goto, NoWrite, StoreTypeOK, HoldsLocks
  <2>4. ClientInv(t)'
    BY <1>0, <2>2, <2>3
       DEF ClientInv, RequestFits, HoldsLocks, ReadHolds, KeepsRoom, NeedsRoom, KeyFree,
           IsCreate, FirstWs, SecondWs
  <2> QED BY <2>1, <2>4, OwnStepLeaves
<1>3. CASE LockMemory(t) /\ ~Return(t)
  <2>1. OwnStep(t)
    BY <1>0, <1>3 DEF LockMemory, OwnStep, Goto, NoWrite, Free, StoreTypeOK
  <2>2. req[t].op = "move" /\ req[t].id \in MemIds
    BY <1>0, <1>3, RequestKinds DEF LockMemory, RequestFits, MoveReq
  <2>3. /\ pc'[t] = (IF memories[req[t].id].kind \in ProfileKinds THEN "count" ELSE "update")
        /\ memLock'[req[t].id] = t /\ LiveIn(req[t].id, req[t].ws)
        /\ req'[t] = req[t] /\ UNCHANGED <<memories, wsLock>>
    BY <1>0, <1>3, <2>2 DEF LockMemory, Goto, NoWrite, StoreTypeOK
  <2>4. ClientInv(t)'
    BY <1>0, <1>3, <2>2, <2>3
       DEF ClientInv, RequestFits, HoldsLocks, ReadHolds, KeepsRoom, NeedsRoom, KeyFree, LockMemory,
           IsCreate, FirstWs, SecondWs, LiveIn, Live, Exists
  <2> QED BY <2>1, <2>4, OwnStepLeaves
<1> QED BY <1>1, <1>2, <1>3, ReturnInv

LEMMA ReadInv ==
  ASSUME StoreInv, NEW t \in Clients,
         LookupKey(t) \/ ReadForUpdate(t) \/ CountProfile(t) \/ UpdateMemory(t), ~Return(t)
  PROVE  \A u \in Clients : ClientInv(u)'
<1>0. /\ ClientInv(t) /\ RequestFits(t) /\ HoldsLocks(t) /\ ReadHolds(t) /\ KeepsRoom(t) /\ KeyFree(t)
      /\ req[t] \in Request /\ StoreTypeOK
  BY DEF StoreInv, StoreTypeOK, ClientInv
<1>1. CASE LookupKey(t)
  <2>1. OwnStep(t) /\ req'[t] = req[t] /\ UNCHANGED <<memories, wsLock, memLock>>
    BY <1>0, <1>1 DEF LookupKey, OwnStep, Goto, NoWrite, StoreTypeOK
  <2>2. /\ pc'[t] = CreateStep(req[t]) /\ IsCreate(req[t]) /\ pc[t] = "lookup"
        /\ \A m \in MemIds : ~HoldsKey(m, req[t].ws, req[t].key)
    BY <1>0, <1>1 DEF LookupKey, Goto, StoreTypeOK, RequestFits
  <2>3. \A m \in MemIds : ~HoldsKey(m, req[t].ws, req[t].key)'
    BY <2>1, <2>2 DEF HoldsKey, Exists
  <2>4. ClientInv(t)'
    BY <1>0, <2>1, <2>2, <2>3
       DEF ClientInv, RequestFits, HoldsLocks, ReadHolds, KeepsRoom, NeedsRoom, KeyFree,
           IsCreate, CreateStep
  <2> QED BY <2>1, <2>4, OwnStepLeaves
<1>2. CASE ReadForUpdate(t)
  <2>1. OwnStep(t) /\ req'[t] = req[t] /\ UNCHANGED <<memories, wsLock, memLock>>
    BY <1>0, <1>2 DEF ReadForUpdate, OwnStep, Goto, NoWrite, StoreTypeOK
  <2>2. /\ pc[t] = "read" /\ req[t].op = "remember" /\ req[t].id # NoId
        /\ LiveIn(req[t].id, req[t].ws) /\ memories[req[t].id].rev = req[t].exp
        /\ pc'[t] \in {"count", "update"}
        /\ pc'[t] = "update" =>
             ~(memories[req[t].id].kind = "memory" /\ req[t].kind \in ProfileKinds)
    BY <1>0, <1>2 DEF ReadForUpdate, Goto, StoreTypeOK, RequestFits
  <2>3. req[t].exp \in Nat
    BY <1>0, <2>2, RequestKinds, StoreAssumption DEF RememberReq
  <2>4. ClientInv(t)'
    BY <1>0, <2>1, <2>2, <2>3
       DEF ClientInv, RequestFits, HoldsLocks, ReadHolds, KeepsRoom, NeedsRoom, KeyFree,
           IsCreate, LiveIn, Live, Exists
  <2> QED BY <2>1, <2>4, OwnStepLeaves
<1>3. CASE CountProfile(t)
  <2>1. OwnStep(t) /\ req'[t] = req[t] /\ UNCHANGED <<memories, wsLock, memLock>>
    BY <1>0, <1>3 DEF CountProfile, OwnStep, Goto, NoWrite, StoreTypeOK
  <2>2. /\ pc[t] = "count" /\ ~ProfileFull(TargetWs(req[t]))
        /\ pc'[t] = IF IsCreate(req[t]) THEN "insert" ELSE "update"
    BY <1>0, <1>3 DEF CountProfile, Goto, StoreTypeOK
  <2>3. KeepsRoom(t)'
    BY <2>1, <2>2 DEF KeepsRoom, ProfileFull, Profile, LiveIn, Live, Exists, TargetWs
  <2>4. KeyFree(t)'
    BY <1>0, <2>1, <2>2 DEF KeyFree, HoldsKey, Exists, IsCreate
  <2>5. RequestFits(t)' /\ HoldsLocks(t)' /\ ReadHolds(t)'
    BY <1>0, <2>1, <2>2
       DEF RequestFits, HoldsLocks, ReadHolds, IsCreate, LiveIn, Live, Exists, FirstWs, SecondWs
  <2>6. ClientInv(t)'
    BY <2>3, <2>4, <2>5 DEF ClientInv
  <2> QED BY <2>1, <2>6, OwnStepLeaves
<1>4. CASE UpdateMemory(t)
  <2>1. /\ pc[t] = "update" /\ Matches(req[t]) /\ req[t].op \in {"remember", "move", "forget"}
        /\ ~IsCreate(req[t]) /\ req[t].id \in MemIds
    BY <1>0, <1>4, RequestKinds
       DEF UpdateMemory, RequestFits, IsCreate, RememberReq, MoveReq, ForgetReq
  <2>2. /\ pc'[t] = "commit" /\ memLock'[req[t].id] = t /\ req'[t] = req[t]
        /\ UNCHANGED <<memories, wsLock>>
    BY <1>0, <1>4, <2>1 DEF UpdateMemory, Goto, NoWrite, StoreTypeOK
  <2>3. OwnStep(t)
    BY <1>0, <1>4, <2>1, <2>2 DEF UpdateMemory, OwnStep, Goto, NoWrite, StoreTypeOK
  <2>4. RequestFits(t)' /\ HoldsLocks(t)'
    BY <1>0, <2>1, <2>2 DEF RequestFits, HoldsLocks, IsCreate, FirstWs, SecondWs
  <2>5. ReadHolds(t)'
    BY <1>0, <2>1, <2>2 DEF ReadHolds, Matches, LiveIn, Live, Exists, IsCreate
  <2>6. KeepsRoom(t)' /\ KeyFree(t)'
    BY <1>0, <2>1, <2>2
       DEF KeepsRoom, NeedsRoom, KeyFree, TargetWs, ProfileFull, Profile, LiveIn, Live, Exists
  <2>7. ClientInv(t)'
    BY <2>4, <2>5, <2>6 DEF ClientInv
  <2> QED BY <2>3, <2>7, OwnStepLeaves
<1> QED BY <1>1, <1>2, <1>3, <1>4

\* The statements that write: what they commit is a CommitsRow.
LEMMA InsertCommits ==
  ASSUME StoreInv, NEW t \in Clients, InsertMemory(t)
  PROVE  \E m \in MemIds :
           LET row == NewRow(req[t].ws, req[t].kind, req[t].body, req[t].key) IN
           /\ ~Exists(m) /\ CommitsRow(t, m, row) /\ Write(m, row, Upsert)
           /\ req[t] \in RememberReq
<1>0. /\ RequestFits(t) /\ HoldsLocks(t) /\ req[t] \in Request /\ StoreTypeOK /\ pc[t] = "insert"
  BY DEF StoreInv, StoreTypeOK, ClientInv, InsertMemory
<1>1. req[t] \in RememberReq /\ IsCreate(req[t]) /\ wsLock[req[t].ws] = t
  BY <1>0, RequestKinds DEF RequestFits, HoldsLocks, IsCreate
<1> DEFINE row == NewRow(req[t].ws, req[t].kind, req[t].body, req[t].key)
<1>2. row \in Row /\ row.ws = req[t].ws
  BY <1>1 DEF NewRow, Row, RememberReq
<1>3. PICK m \in MemIds : ~Exists(m) /\ Write(m, row, Upsert)
  BY DEF InsertMemory
<1>4. CommitsRow(t, m, row)
  BY <1>1, <1>2, <1>3 DEF CommitsRow, Write
<1> QED BY <1>1, <1>3, <1>4

\* The version a CommitWrite leaves, and its event.
Written(r) ==
  CASE r.op = "remember" -> Revised(memories[r.id], r.kind, r.body)
    [] r.op = "move"     -> Relocated(memories[r.id], r.to)
    [] r.op = "forget"   -> Erased(memories[r.id])

LEMMA UpdateCommits ==
  ASSUME StoreInv, NEW t \in Clients, CommitWrite(t)
  PROVE  /\ req[t].id \in MemIds /\ memories[req[t].id] \in Row
         /\ LiveIn(req[t].id, req[t].ws)
         /\ CommitsRow(t, req[t].id, Written(req[t]))
         /\ Write(req[t].id, Written(req[t]), IF req[t].op = "forget" THEN Delete ELSE Upsert)
<1>0. /\ RequestFits(t) /\ HoldsLocks(t) /\ ReadHolds(t) /\ req[t] \in Request /\ StoreTypeOK
      /\ pc[t] = "commit"
  BY DEF StoreInv, StoreTypeOK, ClientInv, CommitWrite
<1>1. /\ req[t].op \in {"remember", "move", "forget"} /\ ~IsCreate(req[t]) /\ req[t].id \in MemIds
      /\ LiveIn(req[t].id, req[t].ws) /\ memLock[req[t].id] = t
  BY <1>0, RequestKinds
     DEF RequestFits, HoldsLocks, ReadHolds, IsCreate, RememberReq, MoveReq, ForgetReq
<1>2. memories[req[t].id] \in Row
  BY <1>0, <1>1 DEF StoreTypeOK, LedgerTypeOK, LiveIn, Live, Exists
<1>3. CASE req[t].op = "remember"
  <2>1. /\ Written(req[t]) = Revised(memories[req[t].id], req[t].kind, req[t].body)
        /\ Write(req[t].id, Written(req[t]), Upsert)
    BY <1>3 DEF Written, CommitWrite
  <2>2. /\ Written(req[t]) \in Row /\ Written(req[t]).rev = memories[req[t].id].rev + 1
        /\ Written(req[t]).ws = req[t].ws
    BY <1>0, <1>1, <1>2, <1>3, <2>1, RequestKinds, WrittenRows
       DEF Revised, Row, RememberReq, LiveIn
  <2> QED BY <1>0, <1>1, <1>2, <1>3, <2>1, <2>2 DEF CommitsRow, Write, HoldsLocks
<1>4. CASE req[t].op = "move"
  <2>1. /\ Written(req[t]) = Relocated(memories[req[t].id], req[t].to)
        /\ Write(req[t].id, Written(req[t]), Upsert)
    BY <1>4 DEF Written, CommitWrite
  <2>2. /\ Written(req[t]) \in Row /\ Written(req[t]).rev = memories[req[t].id].rev + 1
        /\ Written(req[t]).ws = req[t].to
    BY <1>0, <1>1, <1>2, <1>4, <2>1, RequestKinds, WrittenRows
       DEF Relocated, Row, MoveReq
  <2>3. wsLock[req[t].to] = t
    BY <1>0, <1>4, RequestWorkspaces DEF HoldsLocks
  <2> QED BY <1>1, <1>2, <1>4, <2>1, <2>2, <2>3 DEF CommitsRow, Write
<1>5. CASE req[t].op = "forget"
  <2>1. /\ Written(req[t]) = Erased(memories[req[t].id])
        /\ Write(req[t].id, Written(req[t]), Delete)
    BY <1>5 DEF Written, CommitWrite
  <2>2. /\ Written(req[t]) \in Row /\ Written(req[t]).rev = memories[req[t].id].rev + 1
        /\ Written(req[t]).deleted
        /\ Written(req[t]).ws = memories[req[t].id].ws /\ Written(req[t]).key = memories[req[t].id].key
    <3>1. Written(req[t]) \in Row
      BY <1>2, <2>1, WrittenRows
    <3>2. /\ Erased(memories[req[t].id]).rev = memories[req[t].id].rev + 1
          /\ Erased(memories[req[t].id]).deleted
          /\ Erased(memories[req[t].id]).ws = memories[req[t].id].ws
          /\ Erased(memories[req[t].id]).key = memories[req[t].id].key
      BY <1>2 DEF Erased, Row
    <3> QED BY <2>1, <3>1, <3>2
  <2> QED BY <1>1, <1>2, <1>5, <2>1, <2>2 DEF CommitsRow, Write, LiveIn, Live
<1> QED BY <1>1, <1>3, <1>4, <1>5

LEMMA ClientInvKept ==
  ASSUME StoreInv, StoreNext
  PROVE  \A u \in Clients : ClientInv(u)'
<1>0. StoreTypeOK
  BY DEF StoreInv
<1>1. ASSUME NEW t \in Clients, InsertMemory(t) PROVE \A u \in Clients : ClientInv(u)'
  <2>1. Finish(t)
    BY <1>1 DEF InsertMemory
  <2>2. \E row : \E m \in MemIds : CommitsRow(t, m, row)
    BY <1>1, InsertCommits
  <2> QED BY <1>0, <2>1, <2>2, FinishLeaves, UntouchedByWrites
<1>2. ASSUME NEW t \in Clients, CommitWrite(t) PROVE \A u \in Clients : ClientInv(u)'
  <2>1. Finish(t)
    BY <1>2 DEF CommitWrite
  <2>2. \E row : \E m \in MemIds : CommitsRow(t, m, row)
    BY <1>2, UpdateCommits
  <2> QED BY <1>0, <2>1, <2>2, FinishLeaves, UntouchedByWrites
<1>3. ASSUME NEW t \in Clients, ReindexSnapshot(t) \/ ReindexTouch(t)
      PROVE  \A u \in Clients : ClientInv(u)'
  <2>1. OwnStep(t) /\ req'[t] = req[t] /\ UNCHANGED <<memories, wsLock>>
    BY <1>0, <1>3 DEF ReindexSnapshot, ReindexTouch, OwnStep, Goto, NoWrite, Free, StoreTypeOK
  <2>2. pc[t] \in {"snapshot", "touch"} /\ pc'[t] = "touch" /\ req[t].op = "reindex"
    BY <1>0, <1>3 DEF ReindexSnapshot, ReindexTouch, Goto, StoreTypeOK, StoreInv, ClientInv, RequestFits
  <2>3. ClientInv(t)'
    BY <2>1, <2>2
       DEF ClientInv, RequestFits, HoldsLocks, ReadHolds, KeepsRoom, NeedsRoom, KeyFree, IsCreate
  <2> QED BY <2>1, <2>3, OwnStepLeaves
<1>4. ASSUME NEW t \in Clients, ReindexCommit(t) PROVE \A u \in Clients : ClientInv(u)'
  BY <1>0, <1>4, FinishLeaves, UntouchedByReads DEF ReindexCommit
<1>5. ASSUME NEW t \in Clients, ClientStep(t) PROVE \A u \in Clients : ClientInv(u)'
  BY <1>1, <1>2, <1>3, <1>4, <1>5, LockInv, ReadInv, ReturnInv DEF ClientStep
<1>6. ASSUME NEW t \in Clients, Abort(t) PROVE \A u \in Clients : ClientInv(u)'
  BY <1>6, ReturnInv DEF Abort
<1>7. ASSUME NEW u \in Clients,
             \/ \E w \in Workers : \/ WorkerStep(w) \/ WorkerCrash(w)
                                   \/ \E ok \in BOOLEAN : Callback(w, ok)
             \/ \E m \in MemIds : BackoffEnds(m)
      PROVE  ClientInv(u)'
  <2>1. ASSUME NEW w \in Workers, WorkerEnds(w) PROVE Untouched(u)
    BY <1>0, <2>1, StoreAssumption DEF WorkerEnds, ClientsKeep, Untouched, Released, StoreTypeOK
  <2>2. ASSUME NEW w \in Workers, Skip(w) \/ Complete(w) \/ PutOff(w) \/ WorkerCrash(w)
        PROVE  Untouched(u) /\ UNCHANGED memories
    BY <2>1, <2>2 DEF Skip, Complete, PutOff, WorkerCrash, NoWrite
  <2>3. ASSUME NEW w \in Workers, NEW m \in MemIds, Scan(w, m)
        PROVE  Untouched(u) /\ UNCHANGED memories
    BY <2>3 DEF Scan, ClientsKeep, NoWrite, Untouched
  <2>4. ASSUME NEW w \in Workers, Claim(w) PROVE Untouched(u) /\ UNCHANGED memories
    BY <1>0, <2>4, StoreAssumption DEF Claim, ClientsKeep, NoWrite, Untouched, Free, StoreTypeOK
  <2>5. ASSUME NEW m \in MemIds, BackoffEnds(m) PROVE Untouched(u) /\ UNCHANGED memories
    BY <2>5 DEF BackoffEnds, ClientsKeep, Untouched
  <2>6. ASSUME NEW w \in Workers, WorkerStep(w) PROVE Untouched(u) /\ UNCHANGED memories
    <3>1. CASE \E m \in MemIds : Scan(w, m)
      BY <2>3, <3>1
    <3> QED BY <2>2, <2>4, <2>6, <3>1 DEF WorkerStep
  <2>7. Untouched(u) /\ UNCHANGED memories
    <3>1. ASSUME NEW w \in Workers, NEW ok \in BOOLEAN, Callback(w, ok)
          PROVE  Untouched(u) /\ UNCHANGED memories
      BY <3>1 DEF Callback, ClientsKeep, NoWrite, Untouched
    <3> QED BY <1>7, <2>2, <2>5, <2>6, <3>1
  <2> QED BY <2>7, UntouchedByReads
<1> QED BY <1>5, <1>6, <1>7, StoreSteps, BeginInv

-----------------------------------------------------------------------------
(***************************************************************************)
(* The workers.                                                            *)
(***************************************************************************)
\* The step leaves alone every row that w has locked.
Spares(w) ==
  /\ wk'[w] = wk[w]
  /\ \A m \in MemIds : memLock[m] = w /\ Exists(m) =>
       /\ memLock'[m] = w /\ memories'[m] = memories[m]
       /\ outbox[m] # NoRow => outbox'[m] # NoRow /\ outbox'[m].kind = outbox[m].kind

LEMMA SparedWorker ==
  ASSUME StoreInv, NEW w \in Workers, Spares(w)
  PROVE  WorkerInv(w)'
<1>1. WorkerInv(w) /\ wk[w] \in WorkerState /\ \A m \in MemIds : MemoryInv(m)
  BY DEF StoreInv, StoreTypeOK
<1>2. wk[w].pc \in {"apply", "applied", "failed"} => wk[w].id \in MemIds
  BY <1>1 DEF WorkerState
<1> QED BY <1>1, <1>2 DEF Spares, WorkerInv, MemoryInv

LEMMA ClientSpares ==
  ASSUME StoreInv, NEW t \in Clients, BeginCall(t) \/ ClientStep(t) \/ Abort(t), NEW w \in Workers
  PROVE  Spares(w)
<1>0. StoreTypeOK /\ t # w /\ w # NoTx
  BY StoreAssumption DEF StoreInv
<1>1. ASSUME Finish(t) PROVE wk' = wk /\ \A m \in MemIds : memLock[m] = w => memLock'[m] = w
  BY <1>0, <1>1 DEF Finish, Released, StoreTypeOK
<1>2. ASSUME NEW m \in MemIds, NEW row, NEW event, Write(m, row, event), Finish(t),
             ~Exists(m) \/ memLock[m] = t
      PROVE  Spares(w)
  BY <1>0, <1>1, <1>2 DEF Write, Spares, StoreTypeOK, LedgerTypeOK
<1>3. CASE BeginCall(t)
  <2>1. UNCHANGED <<wk, memLock, memories, outbox>>
    BY <1>3 DEF BeginCall, BeginRemember, BeginMove, BeginForget, BeginReindex, Begin, NoWrite
  <2> QED BY <2>1 DEF Spares
<1>4. ASSUME Return(t) PROVE Spares(w)
  BY <1>1, <1>4 DEF Return, NoWrite, Spares
<1>5. CASE InsertMemory(t)
  <2>1. \E row : \E m \in MemIds : ~Exists(m) /\ Write(m, row, Upsert)
    BY <1>5, InsertCommits
  <2> QED BY <1>2, <1>5, <2>1 DEF InsertMemory
<1>6. CASE CommitWrite(t)
  <2>1. req[t].id \in MemIds /\ memLock[req[t].id] = t
    BY <1>6, UpdateCommits DEF CommitsRow, LiveIn, Live
  <2>2. \E row, event : Write(req[t].id, row, event)
    BY <1>6, UpdateCommits
  <2> QED BY <1>2, <1>6, <2>1, <2>2 DEF CommitWrite
<1>7. CASE ReindexCommit(t)
  BY <1>0, <1>1, <1>7 DEF ReindexCommit, Spares
<1>8. CASE LockWorkspace(t) \/ LockSecondWorkspace(t) \/ LookupKey(t) \/ ReadForUpdate(t)
           \/ CountProfile(t) \/ ReindexSnapshot(t)
  BY <1>4, <1>8
     DEF LockWorkspace, LockSecondWorkspace, LookupKey, ReadForUpdate, CountProfile,
         ReindexSnapshot, NoWrite, Spares
<1>9. CASE LockMemory(t) \/ UpdateMemory(t) \/ ReindexTouch(t)
  BY <1>0, <1>4, <1>9
     DEF LockMemory, UpdateMemory, ReindexTouch, NoWrite, Spares, Free, StoreTypeOK
<1> QED BY <1>3, <1>4, <1>5, <1>6, <1>7, <1>8, <1>9 DEF ClientStep, Abort

LEMMA WorkerInvKept ==
  ASSUME StoreInv, StoreNext
  PROVE  \A w \in Workers : WorkerInv(w)'
<1>0. StoreTypeOK
  BY DEF StoreInv
<1>1. ASSUME NEW v \in Workers,
             WorkerStep(v) \/ WorkerCrash(v) \/ \E ok \in BOOLEAN : Callback(v, ok),
             NEW w \in Workers
      PROVE  WorkerInv(w)'
  <2>0. /\ WorkerInv(v) /\ wk[v] \in WorkerState /\ v # NoTx /\ w # NoTx
        /\ wk[v].pc # "idle" => wk[v].id \in MemIds /\ MemoryInv(wk[v].id)
    BY <1>0, StoreAssumption DEF StoreInv, StoreTypeOK, WorkerState
  <2>1. ASSUME WorkerEnds(v) PROVE wk'[v].pc = "idle"
    BY <1>0, <2>1 DEF WorkerEnds, WorkerGoto, IdleWorker, StoreTypeOK
  <2>2. ASSUME WorkerEnds(v), v # w
        PROVE  wk'[w] = wk[w] /\ \A m \in MemIds : memLock[m] = w => memLock'[m] = w
    BY <1>0, <2>2 DEF WorkerEnds, WorkerGoto, Released, StoreTypeOK
  <2>3. ASSUME NEW m \in MemIds, Scan(v, m) PROVE WorkerInv(w)'
    <3>1. CASE v = w
      BY <1>0, <2>3, <3>1 DEF Scan, WorkerGoto, WorkerInv, StoreTypeOK
    <3>2. CASE v # w
      BY <1>0, <2>3, <3>2, SparedWorker DEF Scan, WorkerGoto, NoWrite, Spares, StoreTypeOK
    <3> QED BY <3>1, <3>2
  <2>4. CASE Claim(v)
    <3>1. CASE v = w
      BY <1>0, <2>0, <2>4, <3>1
         DEF Claim, WorkerGoto, WorkerInv, NoWrite, Due, StoreTypeOK
    <3>2. CASE v # w
      BY <1>0, <2>0, <2>4, <3>2, SparedWorker
         DEF Claim, WorkerGoto, NoWrite, Spares, Free, StoreTypeOK
    <3> QED BY <3>1, <3>2
  <2>5. CASE Skip(v) \/ WorkerCrash(v)
    <3>1. CASE v = w
      BY <2>1, <2>5, <3>1 DEF Skip, WorkerCrash, WorkerInv
    <3>2. CASE v # w
      BY <2>2, <2>5, <3>2, SparedWorker DEF Skip, WorkerCrash, NoWrite, Spares
    <3> QED BY <3>1, <3>2
  <2>6. ASSUME NEW ok \in BOOLEAN, Callback(v, ok) PROVE WorkerInv(w)'
    <3>1. CASE v = w
      <4>1. wk'[v] = [wk[v] EXCEPT !.pc = IF ok THEN "applied" ELSE "failed"] /\ wk[v].pc = "apply"
        BY <1>0, <2>6 DEF Callback, WorkerGoto, StoreTypeOK
      <4>2. wk'[v].id = wk[v].id /\ wk'[v].row = wk[v].row /\ wk'[v].kind = wk[v].kind
        BY <2>0, <4>1 DEF WorkerState
      <4> QED BY <2>0, <2>6, <3>1, <4>1, <4>2 DEF Callback, WorkerInv, NoWrite
    <3>2. CASE v # w
      BY <1>0, <2>6, <3>2, SparedWorker DEF Callback, WorkerGoto, NoWrite, Spares, StoreTypeOK
    <3> QED BY <3>1, <3>2
  <2>7. CASE Complete(v) \/ PutOff(v)
    <3>1. CASE v = w
      BY <2>1, <2>7, <3>1 DEF Complete, PutOff, WorkerInv
    <3>2. CASE v # w
      <4>1. memLock[wk[v].id] = v /\ UNCHANGED memories /\ WorkerEnds(v)
            /\ \A m \in MemIds : m # wk[v].id => outbox'[m] = outbox[m]
        BY <1>0, <2>0, <2>7 DEF Complete, PutOff, WorkerInv, StoreTypeOK
      <4> QED BY <2>2, <3>2, <4>1, SparedWorker DEF Spares
    <3> QED BY <3>1, <3>2
  <2> QED BY <1>1, <2>3, <2>4, <2>5, <2>6, <2>7 DEF WorkerStep
<1>2. ASSUME NEW m \in MemIds, BackoffEnds(m), NEW w \in Workers PROVE WorkerInv(w)'
  <2>1. outbox[m] \in Event /\ outbox'[m] = [outbox[m] EXCEPT !.due = TRUE]
        /\ \A o \in MemIds : o # m => outbox'[o] = outbox[o]
    BY <1>0, <1>2 DEF BackoffEnds, StoreTypeOK
  <2>2. outbox'[m] \in Event /\ outbox'[m].kind = outbox[m].kind /\ outbox'[m] # NoRow
    BY <2>1, StoreAssumption DEF Event
  <2> QED BY <1>2, <2>1, <2>2, SparedWorker DEF BackoffEnds, Spares
<1> QED BY <1>1, <1>2, StoreSteps, ClientSpares, SparedWorker

-----------------------------------------------------------------------------
(***************************************************************************)
(* The queue.                                                              *)
(***************************************************************************)
\* A step that writes neither table of m keeps its MemoryInv, if what it locks
\* or lists is a row.
LEMMA MemoryInvQuiet ==
  ASSUME StoreInv, NEW m \in MemIds,
         memories'[m] = memories[m], indexed'[m] = indexed[m], outbox'[m] = outbox[m],
         Exists(m) \/ memLock'[m] \in {memLock[m], NoTx},
         \A t \in Clients : m \in todo'[t] => m \in todo[t] \/ Exists(m)
  PROVE  MemoryInv(m)'
  BY DEF StoreInv, MemoryInv, Exists, Live

\* A committed write leaves its memory pending and queued.
LEMMA MemoryInvWritten ==
  ASSUME StoreInv, NEW t \in Clients, Finish(t), NEW m \in MemIds, NEW row \in Row, NEW event \in Event,
         Write(m, row, event), event.kind = "delete" => row.deleted
  PROVE  \A o \in MemIds : MemoryInv(o)'
<1>0. StoreTypeOK
  BY DEF StoreInv
<1>1. memories'[m] = row /\ outbox'[m] = event
  BY <1>0 DEF Write, StoreTypeOK, LedgerTypeOK
<1>2. MemoryInv(m)'
  BY <1>1, LedgerAssumption, StoreAssumption DEF MemoryInv, Exists, Live
<1>3. ASSUME NEW o \in MemIds, o # m PROVE MemoryInv(o)'
  <2>1. memories'[o] = memories[o] /\ indexed'[o] = indexed[o] /\ outbox'[o] = outbox[o]
    BY <1>0, <1>3 DEF Write, StoreTypeOK, LedgerTypeOK
  <2>2. memLock'[o] \in {memLock[o], NoTx} /\ \A u \in Clients : o \in todo'[u] => o \in todo[u]
    BY <1>0 DEF Finish, Released, StoreTypeOK
  <2> QED BY <2>1, <2>2, MemoryInvQuiet
<1> QED BY <1>2, <1>3

LEMMA ClientMemoryInv ==
  ASSUME StoreInv, NEW t \in Clients, BeginCall(t) \/ ClientStep(t) \/ Abort(t), NEW m \in MemIds
  PROVE  MemoryInv(m)'
<1>0. StoreTypeOK /\ MemoryInv(m)
  BY DEF StoreInv
<1>1. ASSUME Finish(t)
      PROVE  memLock'[m] \in {memLock[m], NoTx} /\ \A u \in Clients : m \in todo'[u] => m \in todo[u]
  BY <1>0, <1>1 DEF Finish, Released, StoreTypeOK
<1>2. CASE BeginCall(t)
  <2>1. UNCHANGED <<memories, indexed, outbox, memLock, todo>>
    BY <1>2 DEF BeginCall, BeginRemember, BeginMove, BeginForget, BeginReindex, Begin, NoWrite
  <2> QED BY <2>1, MemoryInvQuiet
<1>3. ASSUME Return(t) PROVE MemoryInv(m)'
  BY <1>1, <1>3, MemoryInvQuiet DEF Return, NoWrite
<1>4. CASE InsertMemory(t)
  <2>1. PICK o \in MemIds, row \in Row : Write(o, row, Upsert)
    BY <1>4, InsertCommits DEF CommitsRow
  <2>2. Upsert \in Event /\ Upsert.kind = "upsert" /\ Finish(t)
    BY <1>4 DEF Upsert, Event, InsertMemory
  <2> QED BY <2>1, <2>2, MemoryInvWritten
<1>5. CASE CommitWrite(t)
  <2> DEFINE row == Written(req[t])
             event == IF req[t].op = "forget" THEN Delete ELSE Upsert
  <2>1. req[t].id \in MemIds /\ row \in Row /\ Write(req[t].id, row, event)
    BY <1>5, UpdateCommits DEF CommitsRow
  <2>2. event \in Event /\ (event.kind = "delete" => req[t].op = "forget")
    BY DEF Upsert, Delete, Event
  <2>3. req[t].op = "forget" => row.deleted
    BY <1>5, UpdateCommits DEF Written, Erased, Row
  <2>4. Finish(t)
    BY <1>5 DEF CommitWrite
  <2> HIDE DEF row, event
  <2> QED BY <2>1, <2>2, <2>3, <2>4, MemoryInvWritten
<1>6. CASE ReindexCommit(t)
  <2>1. Finish(t) /\ UNCHANGED memories
    BY <1>6 DEF ReindexCommit
  <2>2. CASE memLock[m] = t
    <3>1. Exists(m)
      BY <1>0, <2>2, StoreAssumption DEF MemoryInv
    <3>2. outbox'[m] = Upsert
      BY <1>6, <2>2 DEF ReindexCommit
    <3>3. Upsert \in Event /\ Upsert.kind = "upsert"
      BY DEF Upsert, Event
    <3> QED BY <2>1, <3>1, <3>2, <3>3, StoreAssumption DEF MemoryInv, Exists, Live
  <2>3. CASE memLock[m] # t
    <3>1. indexed'[m] = indexed[m] /\ outbox'[m] = outbox[m]
      BY <1>6, <2>3 DEF ReindexCommit
    <3> QED BY <1>1, <2>1, <3>1, MemoryInvQuiet
  <2> QED BY <2>2, <2>3
<1>7. CASE LockWorkspace(t) \/ LockSecondWorkspace(t) \/ LookupKey(t) \/ ReadForUpdate(t)
           \/ CountProfile(t)
  BY <1>3, <1>7, MemoryInvQuiet
     DEF LockWorkspace, LockSecondWorkspace, LookupKey, ReadForUpdate, CountProfile, NoWrite
<1>8. CASE LockMemory(t) \/ UpdateMemory(t)
  BY <1>0, <1>3, <1>8, MemoryInvQuiet
     DEF LockMemory, UpdateMemory, NoWrite, Matches, LiveIn, Live, StoreTypeOK
<1>9. CASE ReindexSnapshot(t) \/ ReindexTouch(t)
  <2>1. UNCHANGED <<memories, indexed, outbox>>
    BY <1>9 DEF ReindexSnapshot, ReindexTouch, NoWrite
  <2>2. Exists(m) \/ memLock'[m] = memLock[m]
    BY <1>0, <1>9 DEF ReindexSnapshot, ReindexTouch, MemoryInv, StoreTypeOK
  <2>3. \A u \in Clients : m \in todo'[u] => m \in todo[u] \/ Exists(m)
    BY <1>0, <1>9 DEF ReindexSnapshot, ReindexTouch, Live, StoreTypeOK
  <2> QED BY <2>1, <2>2, <2>3, MemoryInvQuiet
<1> QED BY <1>2, <1>3, <1>4, <1>5, <1>6, <1>7, <1>8, <1>9 DEF ClientStep, Abort

LEMMA WorkerMemoryInv ==
  ASSUME StoreInv, NEW w \in Workers,
         WorkerStep(w) \/ WorkerCrash(w) \/ \E ok \in BOOLEAN : Callback(w, ok),
         NEW m \in MemIds
  PROVE  MemoryInv(m)'
<1>0. StoreTypeOK /\ MemoryInv(m) /\ WorkerInv(w) /\ wk[w] \in WorkerState
  BY DEF StoreInv, StoreTypeOK
<1>1. ASSUME WorkerEnds(w)
      PROVE  memLock'[m] \in {memLock[m], NoTx} /\ UNCHANGED todo
  BY <1>0, <1>1 DEF WorkerEnds, ClientsKeep, Released, StoreTypeOK
<1>2. CASE (\E o \in MemIds : Scan(w, o)) \/ \E ok \in BOOLEAN : Callback(w, ok)
  <2>1. UNCHANGED <<memories, indexed, outbox, memLock, todo>>
    BY <1>2 DEF Scan, Callback, NoWrite, ClientsKeep
  <2> QED BY <2>1, MemoryInvQuiet
<1>3. CASE Claim(w)
  BY <1>0, <1>3, MemoryInvQuiet DEF Claim, NoWrite, ClientsKeep, Due, MemoryInv, StoreTypeOK
<1>4. CASE Skip(w) \/ WorkerCrash(w)
  BY <1>1, <1>4, MemoryInvQuiet DEF Skip, WorkerCrash, NoWrite
<1>5. CASE Complete(w)
  <2>1. WorkerEnds(w) /\ UNCHANGED memories
    BY <1>5 DEF Complete
  <2>2. CASE wk[w].id = m
    <3>1. outbox'[m] = NoRow /\ (wk[w].kind = "upsert" => indexed'[m] = memories[m].rev)
          /\ (wk[w].kind = "delete" => memories[m].deleted)
      BY <1>0, <1>5, <2>2 DEF Complete, WorkerInv, MemoryInv, StoreTypeOK
    <3>2. wk[w].kind \in {"upsert", "delete"}
      BY <1>0, <1>5 DEF Complete, WorkerState
    <3> QED BY <1>0, <1>1, <2>1, <3>1, <3>2 DEF MemoryInv, Exists, Live
  <2>3. CASE wk[w].id # m
    <3>1. outbox'[m] = outbox[m] /\ indexed'[m] = indexed[m]
      BY <1>0, <1>5, <2>3 DEF Complete, StoreTypeOK
    <3> QED BY <1>1, <2>1, <3>1, MemoryInvQuiet
  <2> QED BY <2>2, <2>3
<1>6. CASE PutOff(w)
  <2>1. WorkerEnds(w) /\ UNCHANGED <<memories, indexed>>
    BY <1>6 DEF PutOff
  <2>2. CASE wk[w].id = m
    <3>1. outbox[m] \in Event
      BY <1>0, <1>6, <2>2 DEF PutOff, WorkerInv, StoreTypeOK
    <3>2. outbox'[m] = [outbox[m] EXCEPT !.due = FALSE]
      BY <1>0, <1>6, <2>2 DEF PutOff, StoreTypeOK
    <3>3. outbox'[m] # NoRow /\ outbox'[m].kind = outbox[m].kind /\ outbox[m] # NoRow
      BY <3>1, <3>2, StoreAssumption DEF Event
    <3> QED BY <1>0, <1>1, <2>1, <3>3 DEF MemoryInv, Exists, Live
  <2>3. CASE wk[w].id # m
    <3>1. outbox'[m] = outbox[m]
      BY <1>0, <1>6, <2>3 DEF PutOff, StoreTypeOK
    <3> QED BY <1>1, <2>1, <3>1, MemoryInvQuiet
  <2> QED BY <2>2, <2>3
<1> QED BY <1>2, <1>3, <1>4, <1>5, <1>6 DEF WorkerStep

LEMMA MemoryInvKept ==
  ASSUME StoreInv, StoreNext
  PROVE  \A m \in MemIds : MemoryInv(m)'
<1>1. ASSUME NEW o \in MemIds, BackoffEnds(o), NEW m \in MemIds PROVE MemoryInv(m)'
  <2>0. StoreTypeOK /\ MemoryInv(m)
    BY DEF StoreInv
  <2>1. CASE o = m
    <3>1. outbox[m] \in Event /\ outbox'[m] = [outbox[m] EXCEPT !.due = TRUE]
      BY <1>1, <2>0, <2>1 DEF BackoffEnds, StoreTypeOK
    <3>2. outbox'[m] # NoRow /\ outbox'[m].kind = outbox[m].kind
      BY <3>1, StoreAssumption DEF Event
    <3> QED BY <1>1, <2>0, <2>1, <3>2 DEF BackoffEnds, ClientsKeep, MemoryInv, Exists, Live
  <2>2. CASE o # m
    BY <1>1, <2>0, <2>2, MemoryInvQuiet DEF BackoffEnds, ClientsKeep, StoreTypeOK
  <2> QED BY <2>1, <2>2
<1> QED BY <1>1, StoreSteps, ClientMemoryInv, WorkerMemoryInv

-----------------------------------------------------------------------------
(***************************************************************************)
(* The invariant, and what follows from it.                                *)
(***************************************************************************)
LEMMA InitInv == StoreInit => StoreInv
<1> SUFFICES ASSUME StoreInit PROVE StoreInv
  OBVIOUS
<1>1. StoreTypeOK
  BY DEF StoreInit, StoreTypeOK, LedgerInit, LedgerTypeOK, Steps, Request, IdleWorker, WorkerState
<1>2. ASSUME NEW t \in Clients PROVE ClientInv(t)
  BY <1>2 DEF StoreInit, NoReq, ClientInv, RequestFits, HoldsLocks, ReadHolds, KeepsRoom, NeedsRoom,
              KeyFree, IsCreate
<1>3. ASSUME NEW w \in Workers PROVE WorkerInv(w)
  BY <1>3 DEF StoreInit, IdleWorker, WorkerInv
<1>4. ASSUME NEW m \in MemIds PROVE MemoryInv(m)
  BY <1>4 DEF StoreInit, LedgerInit, MemoryInv, Exists, Live
<1> QED BY <1>1, <1>2, <1>3, <1>4 DEF StoreInv

LEMMA StutterInv ==
  ASSUME StoreInv, UNCHANGED storeVars
  PROVE  StoreInv'
<1> USE DEF storeVars, StoreInv
<1>1. StoreTypeOK'
  BY DEF StoreTypeOK, LedgerTypeOK
<1>2. ASSUME NEW t \in Clients PROVE ClientInv(t)'
  BY <1>2, UntouchedByReads DEF Untouched
<1>3. ASSUME NEW w \in Workers PROVE WorkerInv(w)'
  BY <1>3 DEF WorkerInv
<1>4. ASSUME NEW m \in MemIds PROVE MemoryInv(m)'
  BY <1>4, MemoryInvQuiet
<1> QED BY <1>1, <1>2, <1>3, <1>4

\* StoreInv is inductive.
THEOREM StoreInvariant == StoreSpec => []StoreInv
<1>1. StoreInv /\ [StoreNext]_storeVars => StoreInv'
  BY TypesKept, ClientInvKept, WorkerInvKept, MemoryInvKept, StutterInv DEF StoreInv
<1> QED BY <1>1, InitInv, PTL DEF StoreSpec

\* Every variable keeps its type.
THEOREM StoreTypes == StoreSpec => []StoreTypeOK
<1>1. StoreInv => StoreTypeOK
  BY DEF StoreInv
<1> QED BY <1>1, StoreInvariant, PTL

\* The INSERT of a create never violates UNIQUE(workspace_id, idempotency_key).
THEOREM CreatesKeepKeysFree == StoreSpec => []KeyStaysFree
<1>1. StoreInv => KeyStaysFree
  BY DEF StoreInv, ClientInv, KeyFree, KeyStaysFree
<1> QED BY <1>1, StoreInvariant, PTL

\* No update is lost: Remember and Move replace the version their caller saw.
THEOREM NoLostUpdate == StoreSpec => []WriteReplacesWhatItSaw
<1>1. StoreInv => WriteReplacesWhatItSaw
  BY DEF StoreInv, ClientInv, ReadHolds, WriteReplacesWhatItSaw
<1> QED BY <1>1, StoreInvariant, PTL

\* The row an apply callback was given is the row in the table for as long as
\* the callback runs, and its event is still queued.
THEOREM CallbacksAreCurrent == StoreSpec => []CallbackSeesCurrentRow
<1>1. StoreInv => CallbackSeesCurrentRow
  BY DEF StoreInv, WorkerInv, CallbackSeesCurrentRow
<1> QED BY <1>1, StoreInvariant, PTL

\* A memory that is pending is in the outbox.
THEOREM PendingMemoriesAreQueued == StoreSpec => []PendingIsQueued
<1>1. StoreInv => PendingIsQueued
  BY DEF StoreInv, MemoryInv, PendingIsQueued
<1> QED BY <1>1, StoreInvariant, PTL

-----------------------------------------------------------------------------
(***************************************************************************)
(* The refinement: every commit is one step of the ledger.                 *)
(***************************************************************************)
LEMMA InsertRefines ==
  ASSUME StoreInv, NEW t \in Clients, InsertMemory(t)
  PROVE  LedgerNext
<1>0. /\ KeyFree(t) /\ KeepsRoom(t) /\ RequestFits(t) /\ pc[t] = "insert"
  BY DEF StoreInv, ClientInv, InsertMemory
<1>1. PICK m \in MemIds :
        /\ ~Exists(m) /\ req[t] \in RememberReq
        /\ Write(m, NewRow(req[t].ws, req[t].kind, req[t].body, req[t].key), Upsert)
  BY InsertCommits
<1>2. req[t].key # NoKey => \A o \in MemIds : ~HoldsKey(o, req[t].ws, req[t].key)
  BY <1>0 DEF KeyFree, RequestFits
<1>3. req[t].kind \in ProfileKinds => ~ProfileFull(req[t].ws)
  BY <1>0, <1>1 DEF KeepsRoom, NeedsRoom, TargetWs, RememberReq
<1>4. Create(m, req[t].ws, req[t].kind, req[t].body, req[t].key)
  BY <1>1, <1>2, <1>3 DEF Create, Write
<1>5. /\ req[t].ws \in Workspaces /\ req[t].kind \in Kinds /\ req[t].body \in Bodies
      /\ req[t].key \in Keys \cup {NoKey}
  BY <1>1 DEF RememberReq
<1> QED BY <1>4, <1>5 DEF LedgerNext

LEMMA CommitRefines ==
  ASSUME StoreInv, NEW t \in Clients, CommitWrite(t)
  PROVE  LedgerNext
<1>0. /\ KeepsRoom(t) /\ RequestFits(t) /\ ReadHolds(t) /\ req[t] \in Request /\ pc[t] = "commit"
  BY DEF StoreInv, StoreTypeOK, ClientInv, CommitWrite
<1> DEFINE m == req[t].id
<1>1. m \in MemIds /\ LiveIn(m, req[t].ws)
  BY UpdateCommits
<1>2. CASE req[t].op = "remember"
  <2>1. /\ req[t].ws \in Workspaces /\ req[t].kind \in Kinds /\ req[t].body \in Bodies
        /\ memories[m].rev = req[t].exp
    BY <1>0, <1>2, RequestKinds DEF RememberReq, ReadHolds
  <2>2. memories' = [memories EXCEPT ![m] = Revised(memories[m], req[t].kind, req[t].body)]
    BY <1>2 DEF CommitWrite, Write
  <2>3. memories[m].kind = "memory" /\ req[t].kind \in ProfileKinds => ~ProfileFull(req[t].ws)
    BY <1>0, <1>2, <2>1 DEF KeepsRoom, NeedsRoom, TargetWs
  <2>4. Revise(m, req[t].ws, req[t].kind, req[t].body)
    BY <1>1, <2>2, <2>3 DEF Revise
  <2> QED BY <1>1, <2>1, <2>4 DEF LedgerNext
<1>3. CASE req[t].op = "move"
  <2>1. /\ req[t].ws \in Workspaces /\ req[t].to \in Workspaces /\ req[t].ws # req[t].to
    BY <1>0, <1>3, RequestKinds DEF MoveReq, RequestFits
  <2>2. memories' = [memories EXCEPT ![m] = Relocated(memories[m], req[t].to)]
    BY <1>3 DEF CommitWrite, Write
  <2>3. memories[m].kind \in ProfileKinds => ~ProfileFull(req[t].to)
    BY <1>0, <1>3 DEF KeepsRoom, NeedsRoom, TargetWs
  <2>4. Relocate(m, req[t].ws, req[t].to)
    BY <1>1, <2>1, <2>2, <2>3 DEF Relocate
  <2> QED BY <1>1, <2>1, <2>4 DEF LedgerNext
<1>4. CASE req[t].op = "forget"
  <2>1. req[t].ws \in Workspaces
    BY <1>0, <1>4, RequestKinds DEF ForgetReq
  <2>2. memories' = [memories EXCEPT ![m] = Erased(memories[m])]
    BY <1>4 DEF CommitWrite, Write
  <2>3. Erase(m, req[t].ws)
    BY <1>1, <2>2 DEF Erase
  <2> QED BY <1>1, <2>1, <2>3 DEF LedgerNext
<1> QED BY <1>0, <1>2, <1>3, <1>4 DEF RequestFits

\* Only InsertMemory and CommitWrite write memories.
LEMMA OthersKeepMemories ==
  ASSUME StoreNext,
         \A t \in Clients : ~InsertMemory(t) /\ ~CommitWrite(t)
  PROVE  UNCHANGED memories
<1>1. ASSUME NEW t \in Clients, BeginCall(t) \/ ClientStep(t) \/ Abort(t) PROVE UNCHANGED memories
  BY <1>1
     DEF BeginCall, BeginRemember, BeginMove, BeginForget, BeginReindex, Begin, ClientStep, Abort,
         LockWorkspace, LockSecondWorkspace, LookupKey, ReadForUpdate, LockMemory, CountProfile,
         UpdateMemory, ReindexSnapshot, ReindexTouch, ReindexCommit, Return, NoWrite
<1>2. ASSUME NEW w \in Workers,
             WorkerStep(w) \/ WorkerCrash(w) \/ \E ok \in BOOLEAN : Callback(w, ok)
      PROVE  UNCHANGED memories
  BY <1>2 DEF WorkerStep, WorkerCrash, Callback, Scan, Claim, Skip, Complete, PutOff, NoWrite
<1>3. ASSUME NEW m \in MemIds, BackoffEnds(m) PROVE UNCHANGED memories
  BY <1>3 DEF BackoffEnds
<1> QED BY <1>1, <1>2, <1>3, StoreSteps

\* The store implements its ledger: a count or a lookup made statements ago
\* still holds when the write it allowed commits.
THEOREM StoreImplementsLedger == StoreSpec => LedgerSpec
<1>1. StoreInit => LedgerInit
  BY DEF StoreInit
<1>2. StoreInv /\ [StoreNext]_storeVars => [LedgerNext]_memories
  BY InsertRefines, CommitRefines, OthersKeepMemories DEF storeVars
<1> QED BY <1>1, <1>2, StoreInvariant, PTL DEF StoreSpec, LedgerSpec

\* So the store inherits what is proved of the ledger: Remember and Move, however
\* interleaved, leave every profile within its limit,
THEOREM StoreCapsProfiles == StoreSpec => []ProfileCapped
  BY StoreImplementsLedger, ProfilesCapped

\* every write it commits gives the row a new revision,
THEOREM StoreRevisionsNameVersions == StoreSpec => RevisionsIdentify
  BY StoreImplementsLedger, RevisionsNameVersions

\* and no key is held twice in a workspace, without the UNIQUE constraint having
\* to refuse anybody.
THEOREM StoreKeysNameRows == StoreSpec => []KeysUnique
  BY StoreImplementsLedger, KeysNameRows

-----------------------------------------------------------------------------
(***************************************************************************)
(* Deadlock.  HoldsLocks says what a transaction has locked by now; that   *)
(* it has locked nothing else tells who can be waited for.                 *)
(***************************************************************************)
OwnsMemory(t, m) ==
  \/ pc[t] = "commit" /\ m = req[t].id
  \/ pc[t] \in {"count", "update"} /\ req[t].op = "move" /\ m = req[t].id
  \/ pc[t] = "touch" /\ m \notin todo[t]

OwnsWorkspace(t, ws) ==
  \/ pc[t] \notin {"idle", "lockWs"} /\ req[t].op \in {"remember", "move"} /\ ws = FirstWs(req[t])
  \/ pc[t] \notin {"idle", "lockWs", "lockSecond"} /\ req[t].op = "move" /\ ws = SecondWs(req[t])

LocksOwned(t) ==
  /\ \A m \in MemIds : memLock[m] = t => OwnsMemory(t, m)
  /\ \A ws \in Workspaces : wsLock[ws] = t => OwnsWorkspace(t, ws)

\* Client u takes no part in the step and gets no lock.
LEMMA OwnedElsewhere ==
  ASSUME NEW u \in Clients, LocksOwned(u),
         pc'[u] = pc[u], req'[u] = req[u], todo'[u] = todo[u],
         \A m \in MemIds : memLock'[m] = u => memLock[m] = u,
         \A ws \in Workspaces : wsLock'[ws] = u => wsLock[ws] = u
  PROVE  LocksOwned(u)'
<1>1. \A m : OwnsMemory(u, m)' <=> OwnsMemory(u, m)
  BY DEF OwnsMemory
<1>2. \A ws : OwnsWorkspace(u, ws)' <=> OwnsWorkspace(u, ws)
  BY DEF OwnsWorkspace, FirstWs, SecondWs
<1> QED BY <1>1, <1>2 DEF LocksOwned

\* A transaction that ends owns nothing.
LEMMA FinishOwns ==
  ASSUME StoreTypeOK, NEW t \in Clients, \A u \in Clients : LocksOwned(u), Finish(t)
  PROVE  \A u \in Clients : LocksOwned(u)'
<1>1. /\ \A u \in Clients \ {t} : pc'[u] = pc[u] /\ req'[u] = req[u] /\ todo'[u] = todo[u]
      /\ \A m \in MemIds : memLock'[m] # t /\ (memLock'[m] # NoTx => memLock'[m] = memLock[m])
      /\ \A ws \in Workspaces : wsLock'[ws] # t /\ (wsLock'[ws] # NoTx => wsLock'[ws] = wsLock[ws])
  BY StoreAssumption DEF StoreTypeOK, Finish, Released
<1>2. LocksOwned(t)'
  BY <1>1 DEF LocksOwned
<1>3. ASSUME NEW u \in Clients \ {t} PROVE LocksOwned(u)'
  <2>1. /\ \A m \in MemIds : memLock'[m] = u => memLock[m] = u
        /\ \A ws \in Workspaces : wsLock'[ws] = u => wsLock[ws] = u
    BY <1>1, StoreAssumption
  <2> QED BY <1>1, <2>1, OwnedElsewhere
<1> QED BY <1>2, <1>3

\* What a step of t that goes on leaves the others.
LEMMA GoesOn ==
  ASSUME StoreTypeOK, NEW t \in Clients, \A u \in Clients : LocksOwned(u),
         \A u \in Clients \ {t} : pc'[u] = pc[u] /\ req'[u] = req[u] /\ todo'[u] = todo[u],
         \A m \in MemIds : memLock'[m] = memLock[m] \/ memLock'[m] = t,
         \A ws \in Workspaces : wsLock'[ws] = wsLock[ws] \/ wsLock'[ws] = t,
         LocksOwned(t)'
  PROVE  \A u \in Clients : LocksOwned(u)'
<1>1. ASSUME NEW u \in Clients \ {t} PROVE LocksOwned(u)'
  BY OwnedElsewhere
<1> QED BY <1>1

\* A call begins without a lock.
LEMMA BeginOwns ==
  ASSUME StoreTypeOK, NEW t \in Clients, \A u \in Clients : LocksOwned(u), BeginCall(t)
  PROVE  \A u \in Clients : LocksOwned(u)'
<1>1. PICK r, step : Begin(t, r, step)
  BY DEF BeginCall, BeginRemember, BeginMove, BeginForget, BeginReindex
<1>2. /\ pc[t] = "idle"
      /\ \A u \in Clients \ {t} : pc'[u] = pc[u] /\ req'[u] = req[u] /\ todo'[u] = todo[u]
      /\ memLock' = memLock /\ wsLock' = wsLock
  BY <1>1 DEF Begin, Goto, StoreTypeOK
<1>3. /\ \A m \in MemIds : memLock'[m] # t
      /\ \A ws \in Workspaces : wsLock'[ws] # t
  BY <1>2 DEF LocksOwned, OwnsMemory, OwnsWorkspace
<1>4. LocksOwned(t)'
  BY <1>3 DEF LocksOwned
<1> QED BY <1>2, <1>4, GoesOn

\* Every statement locks what it is said to own, and nothing it does not.
LEMMA ClientOwns ==
  ASSUME StoreInv, NEW t \in Clients, \A u \in Clients : LocksOwned(u), ClientStep(t)
  PROVE  \A u \in Clients : LocksOwned(u)'
<1>0. /\ StoreTypeOK /\ RequestFits(t) /\ LocksOwned(t) /\ req[t] \in Request
  BY DEF StoreInv, ClientInv, StoreTypeOK
<1> DEFINE Alone == \A u \in Clients \ {t} : pc'[u] = pc[u] /\ req'[u] = req[u] /\ todo'[u] = todo[u]
<1>1. CASE LockWorkspace(t)
  <2>1. /\ Alone /\ pc'[t] = StepWithWorkspace(req[t]) /\ req' = req /\ memLock' = memLock
        /\ pc[t] = "lockWs" /\ wsLock' = [wsLock EXCEPT ![FirstWs(req[t])] = t]
    BY <1>0, <1>1 DEF LockWorkspace, Goto, StoreTypeOK
  <2>2. req[t].op \in {"remember", "move"}
    BY <1>0, <2>1 DEF RequestFits
  <2>3. StepWithWorkspace(req[t]) \in {"lockSecond", "read", "lookup", "count", "insert"}
    BY <2>2 DEF StepWithWorkspace, CreateStep, IsCreate
  <2>4. /\ \A m \in MemIds : memLock[m] # t
        /\ \A ws \in Workspaces : wsLock[ws] # t
    BY <1>0, <2>1 DEF LocksOwned, OwnsMemory, OwnsWorkspace
  <2>5. \A ws \in Workspaces : wsLock'[ws] = wsLock[ws] \/ (wsLock'[ws] = t /\ ws = FirstWs(req[t]))
    BY <1>0, <2>1 DEF StoreTypeOK
  <2>6. OwnsWorkspace(t, FirstWs(req[t]))'
    BY <2>1, <2>2, <2>3 DEF OwnsWorkspace
  <2>7. LocksOwned(t)'
    BY <2>1, <2>4, <2>5, <2>6 DEF LocksOwned, OwnsWorkspace, FirstWs, SecondWs
  <2> QED BY <1>0, <2>1, <2>5, <2>7, GoesOn
<1>2. CASE LockSecondWorkspace(t)
  <2>1. /\ Alone /\ pc'[t] = "lockMem" /\ req' = req /\ memLock' = memLock
        /\ pc[t] = "lockSecond" /\ wsLock' = [wsLock EXCEPT ![SecondWs(req[t])] = t]
    BY <1>0, <1>2 DEF LockSecondWorkspace, Goto, StoreTypeOK
  <2>2. req[t].op = "move"
    BY <1>0, <2>1 DEF RequestFits
  <2>3. /\ \A m \in MemIds : memLock[m] # t
        /\ \A ws \in Workspaces : wsLock[ws] = t => ws = FirstWs(req[t])
    BY <1>0, <2>1 DEF LocksOwned, OwnsMemory, OwnsWorkspace
  <2>4. \A ws \in Workspaces : wsLock'[ws] = wsLock[ws] \/ (wsLock'[ws] = t /\ ws = SecondWs(req[t]))
    BY <1>0, <2>1 DEF StoreTypeOK
  <2>5. LocksOwned(t)'
    BY <2>1, <2>2, <2>3, <2>4 DEF LocksOwned, OwnsWorkspace, FirstWs, SecondWs
  <2> QED BY <1>0, <2>1, <2>4, <2>5, GoesOn
<1>3. CASE /\ \/ LookupKey(t) \/ ReadForUpdate(t) \/ CountProfile(t)
           /\ ~Return(t)
  <2>1. /\ Alone /\ req' = req /\ todo' = todo /\ memLock' = memLock /\ wsLock' = wsLock
        /\ pc[t] \in {"lookup", "read", "count"} /\ pc'[t] \in {"count", "insert", "update"}
        /\ pc[t] = "count" /\ req[t].op = "move" => pc'[t] = "update"
    BY <1>0, <1>3 DEF LookupKey, ReadForUpdate, CountProfile, CreateStep, IsCreate, Goto, StoreTypeOK
  <2>2. \A m \in MemIds : memLock[m] = t =>
          pc[t] = "count" /\ req[t].op = "move" /\ m = req[t].id
    BY <1>0, <2>1 DEF LocksOwned, OwnsMemory
  <2>3. \A m \in MemIds : memLock'[m] = t => OwnsMemory(t, m)'
    BY <2>1, <2>2 DEF OwnsMemory
  <2>4. \A ws \in Workspaces : wsLock'[ws] = t => OwnsWorkspace(t, ws)'
    BY <1>0, <2>1 DEF LocksOwned, OwnsWorkspace, FirstWs, SecondWs
  <2>5. LocksOwned(t)'
    BY <2>3, <2>4 DEF LocksOwned
  <2> QED BY <1>0, <2>1, <2>5, GoesOn
<1>4. CASE (LockMemory(t) \/ UpdateMemory(t)) /\ ~Return(t)
  <2>1. /\ Alone /\ req' = req /\ todo' = todo /\ wsLock' = wsLock
        /\ memLock' = [memLock EXCEPT ![req[t].id] = t]
        /\ \/ pc[t] = "lockMem" /\ pc'[t] \in {"count", "update"}
           \/ pc[t] = "update" /\ pc'[t] = "commit"
    BY <1>0, <1>4 DEF LockMemory, UpdateMemory, Goto, StoreTypeOK
  <2>2. pc[t] = "lockMem" => req[t].op = "move"
    BY <1>0, <2>1 DEF RequestFits
  <2>3. \A m \in MemIds : memLock[m] = t => m = req[t].id
    BY <1>0, <2>1 DEF LocksOwned, OwnsMemory
  <2>4. \A m \in MemIds : memLock'[m] = memLock[m] \/ (memLock'[m] = t /\ m = req[t].id)
    BY <1>0, <2>1 DEF StoreTypeOK
  <2>5. \A m \in MemIds : memLock'[m] = t => OwnsMemory(t, m)'
    BY <2>1, <2>2, <2>3, <2>4 DEF OwnsMemory
  <2>6. \A ws \in Workspaces : wsLock'[ws] = t => OwnsWorkspace(t, ws)'
    BY <1>0, <2>1 DEF LocksOwned, OwnsWorkspace, FirstWs, SecondWs
  <2>7. LocksOwned(t)'
    BY <2>5, <2>6 DEF LocksOwned
  <2> QED BY <1>0, <2>1, <2>4, <2>7, GoesOn
<1>5. CASE ReindexSnapshot(t)
  <2>1. /\ Alone /\ memLock' = memLock /\ wsLock' = wsLock /\ pc[t] = "snapshot"
    BY <1>0, <1>5 DEF ReindexSnapshot, Goto, StoreTypeOK
  <2>2. req[t].op = "reindex"
    BY <1>0, <2>1 DEF RequestFits
  <2>3. /\ \A m \in MemIds : memLock'[m] # t
        /\ \A ws \in Workspaces : wsLock'[ws] # t
    BY <1>0, <2>1, <2>2 DEF LocksOwned, OwnsMemory, OwnsWorkspace
  <2>4. LocksOwned(t)'
    BY <2>3 DEF LocksOwned
  <2> QED BY <1>0, <2>1, <2>4, GoesOn
<1>6. CASE ReindexTouch(t)
  <2>1. PICK m \in todo[t] : /\ memLock' = [memLock EXCEPT ![m] = t]
                             /\ todo' = [todo EXCEPT ![t] = todo[t] \ {m}]
    BY <1>6 DEF ReindexTouch
  <2>2. /\ Alone /\ pc' = pc /\ req' = req /\ wsLock' = wsLock /\ pc[t] = "touch"
        /\ todo'[t] = todo[t] \ {m}
    BY <1>0, <1>6, <2>1 DEF ReindexTouch, StoreTypeOK
  <2>3. req[t].op = "reindex"
    BY <1>0, <2>2 DEF RequestFits
  <2>4. \A x \in MemIds : memLock'[x] = memLock[x] \/ (memLock'[x] = t /\ x = m)
    BY <1>0, <2>1 DEF StoreTypeOK
  <2>5. \A x \in MemIds : memLock[x] = t => x \notin todo[t]
    BY <1>0, <2>2 DEF LocksOwned, OwnsMemory
  <2>6. \A x \in MemIds : memLock'[x] = t => OwnsMemory(t, x)'
    BY <2>2, <2>4, <2>5 DEF OwnsMemory
  <2>7. \A ws \in Workspaces : wsLock'[ws] # t
    BY <1>0, <2>2, <2>3 DEF LocksOwned, OwnsWorkspace
  <2>8. LocksOwned(t)'
    BY <2>6, <2>7 DEF LocksOwned
  <2> QED BY <1>0, <2>2, <2>4, <2>8, GoesOn
<1>7. CASE Finish(t)
  BY <1>0, <1>7, FinishOwns
<1>8. \/ Finish(t) \/ LockWorkspace(t) \/ LockSecondWorkspace(t)
      \/ ReindexSnapshot(t) \/ ReindexTouch(t)
      \/ (LookupKey(t) \/ ReadForUpdate(t) \/ CountProfile(t)) /\ ~Return(t)
      \/ (LockMemory(t) \/ UpdateMemory(t)) /\ ~Return(t)
  BY DEF ClientStep, Return, InsertMemory, CommitWrite, ReindexCommit
<1> QED BY <1>1, <1>2, <1>3, <1>4, <1>5, <1>6, <1>7, <1>8

\* A worker takes locks for itself only.
LEMMA WorkerOwns ==
  ASSUME StoreInv, NEW w \in Workers, \A u \in Clients : LocksOwned(u),
         WorkerStep(w) \/ WorkerCrash(w) \/ \E ok \in BOOLEAN : Callback(w, ok)
  PROVE  \A u \in Clients : LocksOwned(u)'
<1>0. memLock \in [MemIds -> Txs \cup {NoTx}] /\ w \notin Clients /\ NoTx \notin Clients
  BY StoreAssumption DEF StoreInv, StoreTypeOK
<1>1. ClientsKeep
  BY DEF WorkerStep, WorkerCrash, WorkerEnds, Callback, Scan, Claim, Skip, Complete, PutOff
<1>2. \A m \in MemIds : memLock'[m] \in {memLock[m], w, NoTx}
  BY <1>0 DEF WorkerStep, WorkerCrash, WorkerEnds, Released, Callback, Scan, Claim, Skip, Complete, PutOff
<1>3. ASSUME NEW u \in Clients PROVE LocksOwned(u)'
  <2>1. \A m \in MemIds : memLock'[m] = u => memLock[m] = u
    BY <1>0, <1>2
  <2> QED BY <1>1, <2>1, OwnedElsewhere DEF ClientsKeep
<1> QED BY <1>3

\* Every step of the store keeps to it.
LEMMA LocksOwnedKept ==
  ASSUME StoreInv, [StoreNext]_storeVars, \A u \in Clients : LocksOwned(u)
  PROVE  \A u \in Clients : LocksOwned(u)'
<1>0. StoreTypeOK
  BY DEF StoreInv
<1>1. ASSUME NEW t \in Clients, Abort(t) PROVE \A u \in Clients : LocksOwned(u)'
  BY <1>0, <1>1, FinishOwns DEF Abort, Return
<1>2. ASSUME NEW m \in MemIds, BackoffEnds(m) PROVE \A u \in Clients : LocksOwned(u)'
  BY <1>2, OwnedElsewhere DEF BackoffEnds, ClientsKeep
<1>3. CASE UNCHANGED storeVars
  BY <1>3, OwnedElsewhere DEF storeVars
<1>4. ASSUME NEW t \in Clients, BeginCall(t) PROVE \A u \in Clients : LocksOwned(u)'
  BY <1>0, <1>4, BeginOwns
<1>5. ASSUME NEW t \in Clients, ClientStep(t) PROVE \A u \in Clients : LocksOwned(u)'
  BY <1>5, ClientOwns
<1>6. ASSUME NEW w \in Workers, WorkerStep(w) \/ WorkerCrash(w) \/ \E ok \in BOOLEAN : Callback(w, ok)
      PROVE  \A u \in Clients : LocksOwned(u)'
  BY <1>6, WorkerOwns
<1>7. CASE StoreNext
  BY <1>1, <1>2, <1>4, <1>5, <1>6, <1>7, StoreSteps
<1> QED BY <1>3, <1>7

\* A finite set has a member with the largest number.
LEMMA Largest ==
  ASSUME NEW T, IsFiniteSet(T), T # {}, NEW g, \A x \in T : g[x] \in Nat
  PROVE  \E x \in T : \A y \in T : g[y] <= g[x]
<1> DEFINE Above(x) == {y \in T : g[y] > g[x]}
           Family == {Above(x) : x \in T}
<1>1. Family \subseteq FiniteSubsetsOf(T) /\ Family # {}
  <2>1. \A x \in T : Above(x) \in SUBSET T
    OBVIOUS
  <2>2. \A x \in T : IsFiniteSet(Above(x))
    BY <2>1, FS_Subset
  <2> QED BY <2>1, <2>2 DEF FiniteSubsetsOf
<1>2. IsWellFoundedOn(StrictSubsetOrdering(T), FiniteSubsetsOf(T))
  BY FS_StrictSubsetOrderingWellFounded
<1>3. \E A \in Family : \A B \in Family : <<B, A>> \notin StrictSubsetOrdering(T)
  <2> HIDE DEF Family
  <2> QED BY <1>1, <1>2, WFMin
<1>4. PICK x \in T : \A z \in T : <<Above(z), Above(x)>> \notin StrictSubsetOrdering(T)
  BY <1>3
<1>5. ASSUME NEW y \in T, ~(g[y] <= g[x]) PROVE FALSE
  <2>1. g[y] > g[x] /\ \A z \in T : g[z] > g[y] => g[z] > g[x]
    BY <1>5
  <2>2. y \in Above(x) /\ y \notin Above(y) /\ Above(y) \subseteq Above(x)
    BY <2>1
  <2>3. Above(y) \in SUBSET T /\ Above(x) \in SUBSET T
    OBVIOUS
  <2> HIDE DEF Above
  <2>4. <<Above(y), Above(x)>> \in StrictSubsetOrdering(T)
    BY <2>2, <2>3 DEF StrictSubsetOrdering
  <2> QED BY <1>4, <2>4
<1> QED BY <1>5

\* Who waits for a memory of somebody who waits himself waits for a Reindex.
LEMMA MemoryWaitIsForReindex ==
  ASSUME StoreInv, NEW u \in Clients, LocksOwned(u), NEW v \in Clients, u # v, WaitsOn(u, v),
         NEW m \in MemIds, memLock[m] = u
  PROVE  pc[u] = "touch"
<1>0. req[u] \in Request /\ RequestFits(u)
  BY DEF StoreInv, StoreTypeOK, ClientInv
<1>1. OwnsMemory(u, m)
  BY DEF LocksOwned
<1>2. pc[u] # "commit" /\ pc[u] # "count"
  BY DEF WaitsOn
<1>3. pc[u] # "update"
  BY <1>1 DEF OwnsMemory, WaitsOn
<1> QED BY <1>1, <1>2, <1>3 DEF OwnsMemory

\* Who waits for a workspace of somebody who waits himself, with no Reindex in
\* play, waits for a Move that has its first workspace.
LEMMA WorkspaceWaitIsForMove ==
  ASSUME StoreInv, NEW u \in Clients, LocksOwned(u), pc[u] \in {"lockWs", "lockSecond"},
         NEW ws \in Workspaces, wsLock[ws] = u
  PROVE  pc[u] = "lockSecond" /\ ws = FirstWs(req[u])
BY DEF LocksOwned, OwnsWorkspace

\* Move takes its locks in the order of the workspaces.
LEMMA MoveLocksUpwards ==
  ASSUME StoreInv, NEW t \in Clients, pc[t] = "lockSecond"
  PROVE  /\ FirstWs(req[t]) \in Nat /\ SecondWs(req[t]) \in Nat
         /\ FirstWs(req[t]) < SecondWs(req[t])
         /\ SecondWs(req[t]) \in Workspaces
<1>1. req[t] \in Request /\ req[t].op = "move" /\ req[t].ws # req[t].to
  BY DEF StoreInv, StoreTypeOK, ClientInv, RequestFits
<1>2. req[t].ws \in Workspaces /\ req[t].to \in Workspaces /\ Workspaces \subseteq Nat
  BY <1>1, RequestWorkspaces, LedgerAssumption
<1>3. req[t].ws \in Nat /\ req[t].to \in Nat
  BY <1>2
<1> QED BY <1>1, <1>2, <1>3 DEF FirstWs, SecondWs

\* In a circle of waiting clients without two Reindex calls everybody waits for
\* a workspace that a Move has taken first, and itself wants a later one.
LEMMA NoCircle ==
  ASSUME StoreInv, \A t \in Clients : LocksOwned(t),
         NEW S \in SUBSET Clients, IsFiniteSet(S), S # {},
         \A t \in S : \E u \in S \ {t} : WaitsOn(t, u),
         \A t, u \in S : req[t].op = "reindex" /\ req[u].op = "reindex" => t = u
  PROVE  FALSE
<1>0. \A t \in S : req[t] \in Request /\ RequestFits(t)
  BY DEF StoreInv, StoreTypeOK, ClientInv
<1>1. ASSUME NEW t \in S, NEW u \in S \ {t}, NEW m \in MemIds, memLock[m] = u
      PROVE  pc[u] = "touch" /\ req[u].op = "reindex"
  <2>1. PICK v \in S \ {u} : WaitsOn(u, v)
    OBVIOUS
  <2>2. pc[u] = "touch"
    BY <1>1, <2>1, MemoryWaitIsForReindex
  <2> QED BY <1>0, <2>2 DEF RequestFits
<1>2. \A t \in S : pc[t] # "touch"
  <2> SUFFICES ASSUME NEW t \in S, pc[t] = "touch" PROVE FALSE
    OBVIOUS
  <2>1. PICK u \in S \ {t} : WaitsOn(t, u)
    OBVIOUS
  <2>2. PICK m \in todo[t] : memLock[m] = u
    BY <2>1 DEF WaitsOn
  <2>3. m \in MemIds
    BY DEF StoreInv, StoreTypeOK
  <2>4. req[u].op = "reindex" /\ req[t].op = "reindex"
    BY <1>0, <1>1, <2>2, <2>3 DEF RequestFits
  <2> QED BY <2>4
<1>3. \A t \in S, m \in MemIds : \A u \in S \ {t} : memLock[m] # u
  BY <1>1, <1>2
<1>4. ASSUME NEW t \in S, NEW u \in S \ {t}, WaitsOn(t, u)
      PROVE  \/ pc[t] = "lockWs" /\ wsLock[FirstWs(req[t])] = u
             \/ pc[t] = "lockSecond" /\ wsLock[SecondWs(req[t])] = u
  <2>1. pc[t] \in {"lockMem", "update"} => req[t].id \in MemIds
    BY <1>0, RequestKinds DEF RequestFits, IsCreate, RememberReq, MoveReq, ForgetReq
  <2> QED BY <1>2, <1>3, <1>4, <2>1 DEF WaitsOn
<1>5. \A t \in S : pc[t] \in {"lockWs", "lockSecond"}
  BY <1>4
<1>6. \A t \in S : FirstWs(req[t]) \in Workspaces /\ (pc[t] = "lockSecond" => SecondWs(req[t]) \in Workspaces)
  BY <1>0, <1>5, RequestWorkspaces DEF RequestFits
<1>7. ASSUME NEW t \in S
      PROVE  \E u \in S : /\ pc[u] = "lockSecond"
                          /\ pc[t] = "lockSecond" => SecondWs(req[t]) = FirstWs(req[u])
  <2>1. PICK u \in S \ {t} : WaitsOn(t, u)
    OBVIOUS
  <2>2. PICK ws \in Workspaces : wsLock[ws] = u /\ (pc[t] = "lockSecond" => ws = SecondWs(req[t]))
    BY <1>4, <1>6, <2>1
  <2>3. pc[u] = "lockSecond" /\ ws = FirstWs(req[u])
    BY <1>5, <2>2, WorkspaceWaitIsForMove
  <2> QED BY <2>2, <2>3
<1> DEFINE T == {t \in S : pc[t] = "lockSecond"}
           g == [t \in T |-> SecondWs(req[t])]
<1>8. IsFiniteSet(T) /\ T # {} /\ \A t \in T : g[t] \in Nat
  <2>1. T # {}
    BY <1>7
  <2>2. \A t \in T : g[t] \in Nat
    BY MoveLocksUpwards
  <2>3. T \in SUBSET S
    OBVIOUS
  <2> QED BY <2>1, <2>2, <2>3, FS_Subset
<1>9. PICK x \in T : \A y \in T : g[y] <= g[x]
  <2> HIDE DEF T, g
  <2> QED BY <1>8, Largest
<1>10. PICK u \in T : SecondWs(req[x]) = FirstWs(req[u])
  BY <1>7
<1>11. SecondWs(req[u]) \in Nat /\ SecondWs(req[x]) \in Nat /\ SecondWs(req[x]) < SecondWs(req[u])
  BY <1>10, MoveLocksUpwards
<1>12. g[u] <= g[x] /\ g[u] = SecondWs(req[u]) /\ g[x] = SecondWs(req[x])
  BY <1>9
<1> QED BY <1>11, <1>12

\* The invariant excludes every other circle.
LEMMA NoDeadlockFromInv ==
  ASSUME IsFiniteSet(Clients), StoreInv, \A t \in Clients : LocksOwned(t)
  PROVE  OnlyReindexesDeadlock
<1> SUFFICES ASSUME NEW S \in SUBSET Clients, S # {},
                    \A t \in S : \E u \in S \ {t} : WaitsOn(t, u),
                    ~ \E t, u \in S : t # u /\ req[t].op = "reindex" /\ req[u].op = "reindex"
             PROVE  FALSE
  BY DEF OnlyReindexesDeadlock
<1>1. IsFiniteSet(S)
  BY FS_Subset
<1>2. \A t, u \in S : req[t].op = "reindex" /\ req[u].op = "reindex" => t = u
  OBVIOUS
<1> QED BY <1>1, <1>2, NoCircle

\* Requests wait for one another in a circle only where two Reindex calls take
\* part.  The connections of a pool are finitely many: among infinitely many
\* everybody could wait for the next.
THEOREM DeadlocksNeedReindexes ==
  ASSUME IsFiniteSet(Clients)
  PROVE  StoreSpec => []OnlyReindexesDeadlock
<1> DEFINE Owned == \A t \in Clients : LocksOwned(t)
<1>1. StoreInit => Owned
  BY StoreAssumption DEF StoreInit, LocksOwned
<1>2. StoreInv /\ Owned /\ [StoreNext]_storeVars => Owned'
  BY LocksOwnedKept
<1>3. StoreInv /\ Owned => OnlyReindexesDeadlock
  BY NoDeadlockFromInv
<1> HIDE DEF Owned
<1> QED BY <1>1, <1>2, <1>3, StoreInvariant, PTL DEF StoreSpec
=============================================================================
