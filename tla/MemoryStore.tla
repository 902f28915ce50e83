----------------------------- MODULE MemoryStore -----------------------------
(***************************************************************************)
(* internal/store/store.go on PostgreSQL at READ COMMITTED: Remember,      *)
(* Move, Forget, Reindex and ProcessOne as the statements they issue.      *)
(*                                                                         *)
(* One action is one statement that another transaction can observe or be  *)
(* blocked by.  A statement reads committed rows only; what a transaction  *)
(* writes stays private until its commit, so the writes are made by the    *)
(* action that commits, and from the statement that touches a row until    *)
(* then the row is locked.  A statement that needs a row another           *)
(* transaction has locked is not enabled: the caller waits, and when it    *)
(* goes on it re-evaluates its WHERE on the row as it is then.             *)
(*                                                                         *)
(* Every transaction that writes an outbox row has locked its memory row   *)
(* first, so the outbox needs no locks of its own here.  Of an outbox row  *)
(* the model keeps the event kind and whether next_attempt has come; its   *)
(* revision, attempts and last_error decide nothing in the code.           *)
(***************************************************************************)
EXTENDS MemoryLedger

CONSTANTS
  Clients,   \* transactions of API and MCP requests and of kasane reindex
  Workers,   \* RunWorker goroutines, one per server process
  Calls,     \* the operations the clients issue in a run
  MaxRev,    \* bound: no row is written beyond this revision
  NoId, NoTx

Event == [kind: {"upsert", "delete"}, due: BOOLEAN]

ASSUME StoreAssumption ==
  /\ Clients \cap Workers = {}
  /\ NoTx \notin Clients \cup Workers
  /\ NoId \notin MemIds
  /\ NoRow \notin Event
  /\ Calls \subseteq {"remember", "move", "forget", "reindex"}
  /\ MaxRev \in Nat

VARIABLES
  indexed,   \* indexed_revision of every row
  outbox,    \* outbox table: at most one pending event per memory
  wsLock,    \* row locks on workspaces: holder or NoTx
  memLock,   \* row locks on memories: holder or NoTx
  pc, req,   \* what each client transaction executes next, and for whom
  todo,      \* rows a Reindex has read and not yet touched
  wk         \* the ProcessOne transaction of each worker

storeVars == <<memories, indexed, outbox, wsLock, memLock, pc, req, todo, wk>>

Txs == Clients \cup Workers

Upsert == [kind |-> "upsert", due |-> TRUE]
Delete == [kind |-> "delete", due |-> TRUE]

\* Requests after validation: an update has an id and an expected revision, a
\* move goes to another workspace.
RememberReq == [op: {"remember"}, ws: Workspaces, id: MemIds \cup {NoId},
                kind: Kinds, body: Bodies, key: Keys \cup {NoKey}, exp: 0..MaxRev]
MoveReq == [op: {"move"}, ws: Workspaces, to: Workspaces, id: MemIds, exp: 0..MaxRev]
ForgetReq == [op: {"forget"}, ws: Workspaces, id: MemIds]
ReindexReq == [op: {"reindex"}, scope: SUBSET Workspaces]
NoReq == [op |-> "none"]
Request == RememberReq \cup MoveReq \cup ForgetReq \cup ReindexReq \cup {NoReq}

Steps == {"idle", "lockWs", "lockSecond", "lookup", "read", "lockMem", "count",
          "insert", "update", "snapshot", "touch", "commit"}

IdleWorker == [pc |-> "idle"]
WorkerState ==
  [pc: {"idle"}] \cup [pc: {"scanned"}, id: MemIds]
    \cup [pc: {"apply", "applied", "failed"}, id: MemIds, row: Row,
          kind: {"upsert", "delete"}]

StoreTypeOK ==
  /\ LedgerTypeOK
  /\ indexed \in [MemIds -> Nat]
  /\ outbox \in [MemIds -> Event \cup {NoRow}]
  /\ wsLock \in [Workspaces -> Clients \cup {NoTx}]
  /\ memLock \in [MemIds -> Txs \cup {NoTx}]
  /\ pc \in [Clients -> Steps]
  /\ req \in [Clients -> Request]
  /\ todo \in [Clients -> SUBSET MemIds]
  /\ wk \in [Workers -> WorkerState]

StoreInit ==
  /\ LedgerInit
  /\ indexed = [m \in MemIds |-> 0]
  /\ outbox = [m \in MemIds |-> NoRow]
  /\ wsLock = [ws \in Workspaces |-> NoTx]
  /\ memLock = [m \in MemIds |-> NoTx]
  /\ pc = [t \in Clients |-> "idle"]
  /\ req = [t \in Clients |-> NoReq]
  /\ todo = [t \in Clients |-> {}]
  /\ wk = [w \in Workers |-> IdleWorker]

-----------------------------------------------------------------------------
(***************************************************************************)
(* Locks and transaction boundaries.                                       *)
(***************************************************************************)
Free(lock, x) == lock[x] = NoTx
Released(lock, t) == [x \in DOMAIN lock |-> IF lock[x] = t THEN NoTx ELSE lock[x]]

\* COMMIT or ROLLBACK: the locks of the transaction go, the call has returned.
Finish(t) ==
  /\ wsLock' = Released(wsLock, t)
  /\ memLock' = Released(memLock, t)
  /\ pc' = [pc EXCEPT ![t] = "idle"]
  /\ req' = [req EXCEPT ![t] = NoReq]
  /\ todo' = [todo EXCEPT ![t] = {}]
  /\ UNCHANGED wk

Goto(t, step) == pc' = [pc EXCEPT ![t] = step]
NoWrite == UNCHANGED <<memories, indexed, outbox>>

\* An error return: the deferred Rollback undoes nothing anyone has seen.
Return(t) == Finish(t) /\ NoWrite

Begin(t, r, step) ==
  /\ pc[t] = "idle"
  /\ r.op \in Calls
  /\ req' = [req EXCEPT ![t] = r]
  /\ Goto(t, step)
  /\ NoWrite
  /\ UNCHANGED <<wsLock, memLock, todo, wk>>

\* The memory and the outbox event of a write become visible together.
Write(m, row, event) ==
  /\ memories' = [memories EXCEPT ![m] = row]
  /\ indexed' = [indexed EXCEPT ![m] = 0]
  /\ outbox' = [outbox EXCEPT ![m] = event]

-----------------------------------------------------------------------------
(***************************************************************************)
(* Remember, Move and Forget.                                              *)
(***************************************************************************)
IsCreate(r) == r.op = "remember" /\ r.id = NoId

\* Move takes the two workspace locks in string order, Remember takes one.
FirstWsAsGiven(r) == r.ws   \* mutant: Move without the sort
FirstWs(r) == IF r.op = "move" /\ r.to < r.ws THEN r.to ELSE r.ws
SecondWs(r) == IF FirstWs(r) = r.ws THEN r.to ELSE r.ws

\* A write that turns a row into a profile entry of TargetWs is preceded by a
\* count of that profile.
TargetWs(r) == IF r.op = "move" THEN r.to ELSE r.ws
CreateStep(r) == IF r.kind \in ProfileKinds THEN "count" ELSE "insert"
StepWithWorkspace(r) ==
  CASE r.op = "move" -> "lockSecond"
    [] r.op = "remember" /\ ~IsCreate(r) -> "read"
    [] IsCreate(r) /\ r.key # NoKey -> "lookup"
    [] IsCreate(r) /\ r.key = NoKey -> CreateStep(r)

\* mutant: the SELECT of the workspace without FOR UPDATE
SelectWorkspace(t) ==
  /\ pc[t] = "lockWs"
  /\ Goto(t, StepWithWorkspace(req[t]))
  /\ NoWrite
  /\ UNCHANGED <<wsLock, memLock, req, todo, wk>>

LockWorkspace(t) ==
  /\ pc[t] = "lockWs"
  /\ Free(wsLock, FirstWs(req[t]))
  /\ wsLock' = [wsLock EXCEPT ![FirstWs(req[t])] = t]
  /\ Goto(t, StepWithWorkspace(req[t]))
  /\ NoWrite
  /\ UNCHANGED <<memLock, req, todo, wk>>

LockSecondWorkspace(t) ==
  /\ pc[t] = "lockSecond"
  /\ Free(wsLock, SecondWs(req[t]))
  /\ wsLock' = [wsLock EXCEPT ![SecondWs(req[t])] = t]
  /\ Goto(t, "lockMem")
  /\ NoWrite
  /\ UNCHANGED <<memLock, req, todo, wk>>

\* The SELECT ... FOR UPDATE by idempotency key.  A row found ends the call,
\* with that row or with ErrConflict, after waiting for whoever has it locked.
LookupKey(t) ==
  LET r == req[t]
      found == {m \in MemIds : HoldsKey(m, r.ws, r.key)}
  IN  /\ pc[t] = "lookup"
      /\ \A m \in found : Free(memLock, m)
      /\ IF found # {}
         THEN Return(t)
         ELSE /\ Goto(t, CreateStep(r))
              /\ NoWrite
              /\ UNCHANGED <<wsLock, memLock, req, todo, wk>>

\* The unlocked read an update decides on.
ReadForUpdate(t) ==
  LET r == req[t]
      fits == LiveIn(r.id, r.ws) /\ memories[r.id].rev = r.exp
      promotes == memories[r.id].kind = "memory" /\ r.kind \in ProfileKinds
  IN  /\ pc[t] = "read"
      /\ IF fits
         THEN /\ Goto(t, IF promotes THEN "count" ELSE "update")
              /\ NoWrite
              /\ UNCHANGED <<wsLock, memLock, req, todo, wk>>
         ELSE Return(t)

\* The SELECT kind ... FOR UPDATE of Move.
LockMemory(t) ==
  LET r == req[t] IN
  /\ pc[t] = "lockMem"
  /\ Free(memLock, r.id)
  /\ IF LiveIn(r.id, r.ws)
     THEN /\ memLock' = [memLock EXCEPT ![r.id] = t]
          /\ Goto(t, IF memories[r.id].kind \in ProfileKinds THEN "count" ELSE "update")
          /\ NoWrite
          /\ UNCHANGED <<wsLock, req, todo, wk>>
     ELSE Return(t)

CountProfile(t) ==
  LET r == req[t] IN
  /\ pc[t] = "count"
  /\ IF ProfileFull(TargetWs(r))
     THEN Return(t)
     ELSE /\ Goto(t, IF IsCreate(r) THEN "insert" ELSE "update")
          /\ NoWrite
          /\ UNCHANGED <<wsLock, memLock, req, todo, wk>>

\* INSERT of memory and event, and COMMIT: a new row is nobody else's to see
\* or lock before it is committed.  uuid() picks the id; the table rejects a
\* second row with the same key.
InsertMemory(t) ==
  LET r == req[t] IN
  /\ pc[t] = "insert"
  /\ r.key # NoKey => \A o \in MemIds : ~HoldsKey(o, r.ws, r.key)
  /\ \E m \in MemIds :
       /\ ~Exists(m)
       /\ Write(m, NewRow(r.ws, r.kind, r.body, r.key), Upsert)
  /\ Finish(t)

\* mutant: the UPDATE trusts the revision read before
MatchesAnyRevision(r) == Exists(r.id) /\ memories[r.id].ws = r.ws

\* The WHERE of the UPDATE, on the row as it is once the UPDATE has it.  That of
\* Remember does not ask for a live row: the revision has to tell.
Matches(r) ==
  /\ Exists(r.id) /\ memories[r.id].ws = r.ws
  /\ r.op # "remember" => ~memories[r.id].deleted
  /\ r.op # "forget" => memories[r.id].rev = r.exp

UpdateMemory(t) ==
  LET r == req[t] IN
  /\ pc[t] = "update"
  /\ memLock[r.id] \in {NoTx, t}
  /\ IF Matches(r)
     THEN /\ memories[r.id].rev < MaxRev
          /\ memLock' = [memLock EXCEPT ![r.id] = t]
          /\ Goto(t, "commit")
          /\ NoWrite
          /\ UNCHANGED <<wsLock, req, todo, wk>>
     ELSE Return(t)

CommitWrite(t) ==
  LET r == req[t]
      row == memories[r.id]
  IN  /\ pc[t] = "commit"
      /\ CASE r.op = "remember" -> Write(r.id, Revised(row, r.kind, r.body), Upsert)
           [] r.op = "move"     -> Write(r.id, Relocated(row, r.to), Upsert)
           [] r.op = "forget"   -> Write(r.id, Erased(row), Delete)
      /\ Finish(t)

-----------------------------------------------------------------------------
(***************************************************************************)
(* Reindex: an unlocked list of live memories, then every row in turn, all *)
(* locks kept to the end.  The events it writes are upserts even for a     *)
(* memory forgotten since the list was read.                               *)
(***************************************************************************)
ReindexSnapshot(t) ==
  /\ pc[t] = "snapshot"
  /\ todo' = [todo EXCEPT ![t] = {m \in MemIds : Live(m) /\ memories[m].ws \in req[t].scope}]
  /\ Goto(t, "touch")
  /\ NoWrite
  /\ UNCHANGED <<wsLock, memLock, req, wk>>

ReindexTouch(t) ==
  /\ pc[t] = "touch"
  /\ \E m \in todo[t] :
       /\ Free(memLock, m)
       /\ memLock' = [memLock EXCEPT ![m] = t]
       /\ todo' = [todo EXCEPT ![t] = @ \ {m}]
  /\ NoWrite
  /\ UNCHANGED <<wsLock, pc, req, wk>>

ReindexCommit(t) ==
  LET touched == {m \in MemIds : memLock[m] = t} IN
  /\ pc[t] = "touch"
  /\ todo[t] = {}
  /\ indexed' = [m \in MemIds |-> IF m \in touched THEN 0 ELSE indexed[m]]
  /\ outbox' = [m \in MemIds |-> IF m \in touched THEN Upsert ELSE outbox[m]]
  /\ UNCHANGED memories
  /\ Finish(t)

-----------------------------------------------------------------------------
(***************************************************************************)
(* A client transaction ends early at any statement: the request context   *)
(* expires, the connection or the process dies, PostgreSQL breaks a        *)
(* deadlock.                                                               *)
(***************************************************************************)
Abort(t) == pc[t] # "idle" /\ Return(t)

BeginRemember(t) ==
  \E r \in RememberReq :
    /\ r.exp \in IF r.id = NoId THEN {0} ELSE 1..(MaxRev - 1)
    /\ r.id # NoId => r.key = NoKey
    /\ Begin(t, r, "lockWs")
BeginMove(t) ==
  \E r \in MoveReq : r.ws # r.to /\ r.exp \in 1..(MaxRev - 1) /\ Begin(t, r, "lockWs")
BeginForget(t) == \E r \in ForgetReq : Begin(t, r, "update")
\* One workspace from the API, all of them from the command line.
BeginReindex(t) ==
  \E r \in ReindexReq :
    /\ r.scope = Workspaces \/ \E ws \in Workspaces : r.scope = {ws}
    /\ Begin(t, r, "snapshot")

BeginCall(t) == BeginRemember(t) \/ BeginMove(t) \/ BeginForget(t) \/ BeginReindex(t)

ClientStep(t) ==
  \/ LockWorkspace(t) \/ LockSecondWorkspace(t)
  \/ LookupKey(t) \/ ReadForUpdate(t) \/ LockMemory(t) \/ CountProfile(t)
  \/ InsertMemory(t) \/ UpdateMemory(t) \/ CommitWrite(t)
  \/ ReindexSnapshot(t) \/ ReindexTouch(t) \/ ReindexCommit(t)

-----------------------------------------------------------------------------
(***************************************************************************)
(* ProcessOne.  The first query finds a due event in its snapshot and then *)
(* locks the memory row, skipping it if somebody has it; the outbox row is *)
(* read again under that lock, because the event may have been handled or  *)
(* put off in between.                                                     *)
(***************************************************************************)
ClientsKeep == UNCHANGED <<wsLock, pc, req, todo>>
WorkerGoto(w, state) == wk' = [wk EXCEPT ![w] = state]
WorkerEnds(w) ==
  /\ WorkerGoto(w, IdleWorker)
  /\ memLock' = Released(memLock, w)
  /\ ClientsKeep

Due(m) == outbox[m] # NoRow /\ outbox[m].due

Scan(w, m) ==
  /\ wk[w].pc = "idle"
  /\ Due(m)
  /\ WorkerGoto(w, [pc |-> "scanned", id |-> m])
  /\ NoWrite /\ ClientsKeep /\ UNCHANGED memLock

\* mutant: the memory is read without FOR UPDATE
ClaimUnlocked(w) ==
  /\ wk[w].pc = "scanned" /\ Exists(wk[w].id) /\ Due(wk[w].id)
  /\ LET m == wk[w].id
     IN  WorkerGoto(w, [pc |-> "apply", id |-> m, row |-> memories[m], kind |-> outbox[m].kind])
  /\ NoWrite /\ ClientsKeep /\ UNCHANGED memLock

\* The memory row is locked and read, the event is read again.
Claim(w) ==
  /\ wk[w].pc = "scanned"
  /\ LET m == wk[w].id IN
     /\ Free(memLock, m)
     /\ Due(m)
     /\ memLock' = [memLock EXCEPT ![m] = w]
     /\ WorkerGoto(w, [pc |-> "apply", id |-> m, row |-> memories[m], kind |-> outbox[m].kind])
  /\ NoWrite /\ ClientsKeep

\* Somebody has the row (SKIP LOCKED), or has handled or postponed the event.
Skip(w) ==
  /\ wk[w].pc = "scanned"
  /\ ~(Free(memLock, wk[w].id) /\ Due(wk[w].id))
  /\ WorkerEnds(w) /\ NoWrite

\* The apply callback returns; what it did to the index is the caller's.
Callback(w, ok) ==
  /\ wk[w].pc = "apply"
  /\ WorkerGoto(w, [wk[w] EXCEPT !.pc = IF ok THEN "applied" ELSE "failed"])
  /\ NoWrite /\ ClientsKeep /\ UNCHANGED memLock

\* The final statements: indexed_revision takes the revision the row has now.
Complete(w) ==
  /\ wk[w].pc = "applied"
  /\ LET m == wk[w].id IN
     /\ outbox' = [outbox EXCEPT ![m] = NoRow]
     /\ indexed' = IF wk[w].kind = "delete" THEN indexed
                   ELSE [indexed EXCEPT ![m] = memories[m].rev]
  /\ UNCHANGED memories
  /\ WorkerEnds(w)

\* mutant: a failed event is given up
GiveUp(w) ==
  /\ wk[w].pc = "failed"
  /\ outbox' = [outbox EXCEPT ![wk[w].id] = NoRow]
  /\ UNCHANGED <<memories, indexed>>
  /\ WorkerEnds(w)

\* attempts+1 and a later next_attempt.
PutOff(w) ==
  /\ wk[w].pc = "failed"
  /\ outbox' = [outbox EXCEPT ![wk[w].id].due = FALSE]
  /\ UNCHANGED <<memories, indexed>>
  /\ WorkerEnds(w)

\* The process dies or its connection is lost before the commit.
WorkerCrash(w) ==
  /\ wk[w].pc # "idle"
  /\ WorkerEnds(w) /\ NoWrite

\* next_attempt comes.
BackoffEnds(m) ==
  /\ outbox[m] # NoRow /\ ~outbox[m].due
  /\ outbox' = [outbox EXCEPT ![m].due = TRUE]
  /\ UNCHANGED <<memories, indexed, memLock, wk>> /\ ClientsKeep

WorkerStep(w) ==
  \/ \E m \in MemIds : Scan(w, m)
  \/ Claim(w) \/ Skip(w) \/ Complete(w) \/ PutOff(w)

\* Everything but the callback, which is composed with the index in Indexer.
StoreStep ==
  \/ \E t \in Clients : BeginCall(t) \/ ClientStep(t) \/ Abort(t)
  \/ \E w \in Workers : WorkerStep(w) \/ WorkerCrash(w)
  \/ \E m \in MemIds : BackoffEnds(m)

StoreNext == StoreStep \/ \E w \in Workers, ok \in BOOLEAN : Callback(w, ok)

StoreSpec == StoreInit /\ [][StoreNext]_storeVars

-----------------------------------------------------------------------------
(***************************************************************************)
(* Properties.  That the store implements its ledger is LedgerSpec itself: *)
(* a count or a lookup made some statements ago still holds when the write *)
(* it allowed commits.                                                     *)
(***************************************************************************)

\* The INSERT of a create never meets the UNIQUE(workspace_id, idempotency_key)
\* constraint: once the lookup has found the key free, no create, no retry of
\* the same create and no move brings it into the workspace before the INSERT.
KeyStaysFree ==
  \A t \in Clients :
    pc[t] \in {"count", "insert"} /\ IsCreate(req[t]) /\ req[t].key # NoKey
    => \A m \in MemIds : ~HoldsKey(m, req[t].ws, req[t].key)

\* No lost update: a Remember or Move that is about to commit replaces the
\* live row its caller named, at the revision its caller has seen, in the
\* workspace it was sent to; a Forget erases a live row.
WriteReplacesWhatItSaw ==
  \A t \in Clients :
    pc[t] = "commit" =>
      /\ LiveIn(req[t].id, req[t].ws)
      /\ req[t].op # "forget" => memories[req[t].id].rev = req[t].exp

\* While the apply callback runs, and until its result is written, the memory
\* it was given is the row in the table and its event is still queued
\* (the comment in ProcessOne: no worker callback races a revision update).
CallbackSeesCurrentRow ==
  \A w \in Workers :
    wk[w].pc \in {"apply", "applied", "failed"} =>
      /\ memories[wk[w].id] = wk[w].row
      /\ outbox[wk[w].id] # NoRow

\* A memory that is not indexed at its revision is queued: no interleaving of
\* writes, moves, reindexing and two workers leaves one pending for ever.
PendingIsQueued ==
  \A m \in MemIds : Live(m) /\ indexed[m] # memories[m].rev => outbox[m] # NoRow

\* Client t is at a statement that waits, or may come to wait, for a row that
\* u has locked.
WaitsOn(t, u) ==
  LET r == req[t] IN
  \/ pc[t] = "lockWs" /\ wsLock[FirstWs(r)] = u
  \/ pc[t] = "lockSecond" /\ wsLock[SecondWs(r)] = u
  \/ pc[t] = "lookup" /\ \E m \in MemIds : HoldsKey(m, r.ws, r.key) /\ memLock[m] = u
  \/ pc[t] \in {"lockMem", "update"} /\ memLock[r.id] = u
  \/ pc[t] = "touch" /\ \E m \in todo[t] : memLock[m] = u

\* Requests never wait for one another in a circle, unless two Reindex calls
\* that lock their rows in different orders are part of it.
OnlyReindexesDeadlock ==
  \A S \in SUBSET Clients :
    S # {} /\ (\A t \in S : \E u \in S \ {t} : WaitsOn(t, u))
    => \E t, u \in S : t # u /\ req[t].op = "reindex" /\ req[u].op = "reindex"

\* PostgreSQL hands a row lock to whoever waited for it, so a client whose lock
\* keeps becoming free gets it; a worker goes on and its callback returns,
\* within six seconds.
StoreFairness ==
  /\ \A t \in Clients : SF_storeVars(ClientStep(t))
  /\ \A w \in Workers : WF_storeVars(WorkerStep(w) \/ \E ok \in BOOLEAN : Callback(w, ok))
FairStoreSpec == StoreSpec /\ StoreFairness

\* Every call that does not die returns, whatever the others and the workers
\* lock meanwhile, unless the model itself stops one: AtBound, no revision or id
\* is left for a write.
AtBound(t) ==
  \/ pc[t] = "update" /\ Exists(req[t].id) /\ memories[req[t].id].rev >= MaxRev
  \/ pc[t] = "insert" /\ \A m \in MemIds : Exists(m)
CallsReturn == \A t \in Clients : pc[t] # "idle" ~> pc[t] = "idle" \/ \E u \in Clients : AtBound(u)
=============================================================================
