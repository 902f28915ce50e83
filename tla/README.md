# Kasane in TLA+

Kasane keeps memories for coding agents: explicit notes, stack choices and practices, in workspaces,
stored in PostgreSQL and indexed for keyword search in Qdrant. Agents reach them over MCP with bearer
keys, owners over a web API. This directory holds TLA+ specifications of the parts of Kasane that keep
state and run concurrently, TLC configurations that check them on small instances, and proofs for
instances of any size.

Paths below are relative to `src/`; `store.go` is `internal/store/store.go`, `qdrant.go` is
`internal/search/qdrant.go`, and `decision_feedback.go` exists in both `internal/store` and
`internal/server`.

## The system

| Component | State | Operations | Modules |
|---|---|---|---|
| Memories (`store.go`, `schema.sql`) | `memories`, one row per memory with workspace, kind, text, revision, idempotency key, deleted; `outbox`, at most one pending index event per memory | Remember (create, update), Move, Forget, Reindex | `MemoryLedger`, `MemoryStore` |
| Index worker (`app.go` RunWorker, `store.go` ProcessOne, `qdrant.go` Apply) | the Qdrant collection, `indexed_revision`, `next_attempt` | claim an event, apply it, complete or put it off | `MemoryStore`, `Indexer`, `IndexOrder` |
| Search (`internal/search/service.go`, `store.go` Rehydrate, listWhere) | none; reads index, then rows | index search and rehydration, PostgreSQL fallback | `Search` |
| Knowledge map (`server/knowledge_map.go`, `search/vectors.go`) | none; lists rows, then asks for their vectors in batches | draw the map of one or all workspaces | `KnowledgeMap` |
| Contexts and usage (`core/validation.go` PackContext, `server/mcp.go`, `usage.go`, both) | `workspace_usage_daily` | find, pack into a budget, account for it | `Reads` |
| Relevance (`server/decision.go`, `decision/client.go`) | none; reads practices one by one, then asks Kaname | relevance request, validated answer | `Reads` |
| Decision evaluations (`decision_feedback.go`, both) | `decision_evaluations`, `decision_feedback_policies` | submit, retry, review, withdraw, set the policy, export, purge | `EvaluationLedger`, `Evaluations` |
| Accounts (`invitations.go`, `security.go` Bootstrap, `tenancy.go`) | `owners`, `invitations`, owner of every workspace | bootstrap, issue, accept, revoke, create a workspace | `Accounts` |
| Agent keys (`security.go`, `workspace_tools.go`) | `agent_keys`, `agent_key_workspaces` | issue, revoke, authenticate, choose a workspace, create one | `AgentKeys` |
| Processes (`cmd/kasane/main.go`, `migrate.go`, `app.go` RunWorker) | `schema_version`, the pool, the listener, the worker loop | connect, migrate, run a command, serve, stop | `Processes` |
| Sessions, login limiter, waitlist, routing | see *Not modelled* | | |

How they interact. Every request is a goroutine of its own with a deadline of 25 seconds
(`app.go:296`); it speaks to PostgreSQL in single statements or in a transaction at READ COMMITTED.
Nothing is shared in memory but the login limiter, so requests meet in the database: row locks (`FOR
UPDATE`), unique indexes and transaction-scoped advisory locks. Every write of a memory queues an event
in the same transaction. One worker per process (and several processes may run) takes events, calls
Qdrant *inside* the transaction that has the memory locked, and records the outcome. A search asks
Qdrant and believes only hits whose revision is still that of the row; the knowledge map draws a memory
with a vector only if workspace and revision are those it has listed. Every process migrates the
database before it does anything else, so releases and crashes meet in `migrate.go`.

What is hard: decisions made on a read some statements before the write (profile limit, idempotency
key, revision, policy, quota, recheck of an export), lock orders, a request to Qdrant that times out and
may still be carried out, crashes between the index write and the commit, retries of creates and of
evaluations, ids that may be written in two ways, answers of a service that may say anything, several
processes that migrate one database, and what must happen in the end (the queue drains, expired content
goes, a process that is told to stop does).

## Conventions

A transaction is a client or worker with a program counter. One action is one statement that another
transaction can observe or be blocked by. What a transaction writes shows when it commits, so the action
that commits makes the write; from the statement that touches a row until then the row is locked, and a
statement that needs a locked row is not enabled. `Abort` ends any transaction at any statement, for
the deadline, a lost connection, a dead process or a deadlock PostgreSQL breaks. An `UPDATE` that has
waited re-evaluates its `WHERE`: it is evaluated when the action is taken. Operators named in the
comments as a *mutant* are not part of a specification; they are the broken variants against which the
properties are tried.

## Modules

**MemoryLedger** is the abstract specification: the `memories` table with `Create`, `Revise`,
`Relocate` and `Erase` as atomic operations with the guards a caller may rely on (profile not full, key
not in use, revision as expected). `NewRow`, `Revised`, `Relocated` and `Erased` are the rows the
statements of `store.go` write; title, content, tags and source are one `body`. Properties:
`ProfileCapped` (100 stack choices and practices per workspace), `KeysUnique` (one memory per idempotency key and
workspace), `RevisionsIdentify` (a change is a new revision, a forgotten memory never changes).

**MemoryStore** is `store.go` by statements. Remember takes the lock of its workspace
(`LockWorkspace`), looks the key up (`LookupKey`), counts (`CountProfile`) and inserts
(`InsertMemory`), or reads the row without a lock (`ReadForUpdate`), counts for a promotion and updates
(`UpdateMemory`, `CommitWrite`). Move takes both workspaces in order (`FirstWs`, `SecondWs`), the memory
(`LockMemory`), counts in the target and updates. Forget is one `UPDATE`. Reindex lists live rows
without locks (`ReindexSnapshot`) and touches them in any order (`ReindexTouch`). ProcessOne finds a due
event in a snapshot (`Scan`), locks the memory and reads the event again (`Claim`, or `Skip`), runs the
callback (`Callback`) and completes or puts off. The module extends the ledger and is shown to
implement it: the mapping is the identity on `memories`, every commit is a ledger step, everything else
a stutter.

**Indexer** composes the store with the collection: the callback is `Apply`, an HTTP request given up
after five seconds. An abandoned request is lost, carried out, or kept in `late` and carried out at any
later time. Qdrant is external, a map from ids to points that may refuse some memories for ever
(`Rejected`). **IndexOrder** adds the order of `ORDER BY next_attempt`, which liveness needs.

**Search** puts one search over the Indexer: hits are rehydrated one by one, each against the row as it
is then.

**KnowledgeMap** puts one view of the dashboard over Search and its Indexer: `ListNodes` is the listing,
`FetchBatch` and `BatchFails` are the requests for vectors, which meet whatever the collection holds when
they arrive, `Fitting` is the test of `knowledge_map.go:64`.

**Reads** is the other requests that read memories while they are written, over the ledger:
`kasane_context` and `kasane_profile` find texts (`AskContext`, `FindNext`), pack them turn by turn
(`PackNext`) and account for what that saved (`Record`, or `LateRecord` for a statement given up after
100 ms); a relevance request reads practices (`ReadRule`), is sent (`Send`) and accepts what
`ValidResponse` lets through (`Judge`). A body is its number of characters. Kaname is external and answers
any sequence of judgements.

**EvaluationLedger** is the abstract specification of the evaluations of a workspace: `Submit`, `Retry`,
`Review`, `Withdraw`, `SetConsent` and `Purge` happen at one instant, with quota and consent as they are
then. **Evaluations** is the code, and is shown to implement it under `stored <- evaluations`, `consent <-
policy` and `given <- told`, the decisions each caller was told. It is one workspace: submission (`LookForOld` outside a transaction, `AskKaname`, then
`LockQuota` .. `InsertEvaluation` in one), review (read, then a guarded `UPDATE`), withdrawal, policy
change (`SweepCandidates`, `CommitPolicy`), export (`FetchForExport`, `RecheckAndSend`), expiry and
purge. The advisory lock is on the *text* of the workspace id, so the locks are indexed by spelling:
submissions use the canonical one, the policy route that of its path.

**Accounts** has the row locks of invitations, the advisory lock of Bootstrap and the unique indexes of
`owners` (an insert waits for an uncommitted row it clashes with). **AgentKeys** extends it with keys,
grants and MCP requests, which keep the identity read at their start. Issuing a key is one action
although it checks and inserts in several statements: what it checks, the owner of workspaces that have
one, never changes.

**Processes** is `run()` in `main.go` for any number of processes on one database: connect, migrate under
the advisory lock (`LockAndRead`, `RunScripts`), do what the command says (`RunCommand`, `Serve`), and stop:
`WaitForEnd` is the select on signal and listener, `Drained` is Shutdown with its ten seconds, `JoinWorker`
waits for the loop, `CloseAndExit` for the pool, which waits for connections in use. `Missing` says which of
the five scripts run on which release. A process can end anywhere (`Gone`), and PostgreSQL then ends its
transaction. Of requests and the worker there is whether they hold a connection; of the tables, which
scripts have run and the accounts, which the third script changes.

`MC*` modules extend these with a symmetry set, where one is sound.

## Runs

Deadlock checking is off everywhere: the bounds (ids, revisions) leave nothing to do in the end, and a
circle of waiting reindexers is a property of its own.

| Run | Question | Bounds and why they are enough |
|---|---|---|
| Writers | do counts and lookups still hold at the commit; does the store implement its ledger? | two clients, two workspaces, two ids, profile limit 1, one key: the smallest instance in which two transactions compete for the last place or one key, within a workspace or through a move |
| CallsReturn | is an update lost; can requests wait in a circle; does every call return? | two clients, a worker, one memory, two workspaces, three revisions (so that an expected revision can be out of date); moves in both directions meet. Reindex is among the calls, but with one memory two of them cannot deadlock |
| Index | is whatever the collection has wrong queued; does the callback see the current row; does a search with an empty queue miss anything? | two workers, a client, two memories, two bodies, failed requests, crashes and reindexing, a search; `MaxLate = 0`: no request is carried out after it was given up |
| IndexRace (violated) | the comment that no callback races a revision update: is what the collection has wrong queued even when an abandoned request lands late? | one memory of two revisions, one worker, one late request |
| IndexOrder | does the queue drain beside an event that always fails? | one worker, two memories, one of them rejected |
| SearchLate | does a search or a map show what is no longer so, even with a late request? | one memory, two workspaces, two bodies, three revisions: indexed, rewritten or moved, and back again, between the listing and its vectors |
| Evaluations | consent, quota, one decision per evaluation, exports, finality; is every request atomic? | two requests on two evaluations, limit 1, two requests' fingerprints, two decisions, two reviews |
| Purge | does expired content go? | two evaluations, two requests |
| PolicySpelling (violated) | consent, when the policy route may write the id in upper case | one evaluation, two requests |
| Accounts | atomic acceptance, one administrator, ownership, reach of keys | three names, two invitations to one address, three workspaces of which one predates accounts: beside the administrator two acceptances have names and workspaces to commit with, one after the other or at once. Two requests, one key of any mode, one MCP request; once there is a key one request about accounts at a time (`Bounded` in MCAgentKeys), as the keys meet no more of an account than its commit |
| Processes | is a database migrated once and completely; does what is told to stop end? | two processes, each of which may start again after it ended, two accounts, a database of any of the five releases or none, from release 3 on also with an administrator and an invited user: the smallest instance with two migrations at once, a crash in one, an upgrade of a database in use, and accounts that register in between |
| Reads | does a context fit its budget; is the accounting true; is an answer about what was asked? | two memories of one or four characters under headers of three, budgets that leave no room, room for a header only, for a part, and for everything; two practices, two writings of an id; two accounted requests, so that a late statement comes after another's |

`MaxRev` bounds revisions, `MaxLate` abandoned requests on their way, `MaxProfile` (100 in the code) and
`MaxActive` (500) are limits of the code made small. `MemIds`, `Workspaces`, `InviteIds` bound how many
are ever made.

Every property is tried against a broken definition (`mutants` in `PROJECT.json`): the lock left out of
Remember, the unsorted locks of Move, a key kept by a move, a worker that reads without `FOR UPDATE`, a
failed event dropped, a hit believed without its revision, the quota without its lock, and so on. Each
property fails for its own.

### Fairness

- `CallsReturn`: strong fairness of each client's step, because PostgreSQL queues waiters on a row
  lock, and weak fairness of the worker, whose callback returns within six seconds.
- `ProcessStops`: weak fairness of what `run()` and the worker loop do next, as nothing else holds
  them up once the context is cancelled; strong fairness of a request's release and answer, which its
  25-second deadline brings. Nothing is assumed of requests that wait for a connection, nor that they stop
  coming before the listener is closed.
- `QueueDrains`: the worker loop goes on while its process lives, and `next_attempt` comes. Strong
  fairness of claiming, applying and completing *each* memory says that a memory which is tried for ever
  is not unlucky for ever (a request Qdrant accepts is answered at some time, a worker does not die at
  the same statement each time). It is assumed that clients become quiet; that the failing memory does
  not starve the others is *not* assumed, it follows from the order.
- `ExpiredIsPurged`: the worker purges every minute and is handed the rows it waits for; a policy change
  that has locked rows commits or is aborted.

## Findings

1. **A late index request** (`store.go:540`, run IndexRace). The comment at `store.go:530-531` says the
   lock order "prevents a worker callback from racing a revision update". The lock ends with the transaction,
   the HTTP request may not. In the trace a request for revision 1 is on its way when its worker dies (or
   gives it up after 5 or 6 seconds); the memory is rewritten, revision 2 is applied and its event deleted;
   then Qdrant carries out the old request. The point is old, `indexed_revision` current and the queue
   empty, against `StalePointIsQueued`. Searches
   never return wrong rows (`FindingsMatch`, `PointsTellTheTruth` hold with late requests), but the
   memory is not found through the index until it is written or reindexed.
2. **The policy lock depends on how the id is written** (`internal/store/decision_feedback.go:169`, run
   PolicySpelling). The policy route passes the path value as it is; MCP requests (`workspacePrincipal`) and
   the issuing of keys lower-case theirs, and submissions come over MCP. A policy
   switched off through an upper-case path does not wait for a submission in progress, whose candidate is
   saved after the sweep, although `docs/decision-feedback.md:97-98` promises that setting false
   atomically withdraws automatic candidates.

Two more observations that are not findings: two Reindex calls can deadlock on rows (PostgreSQL ends
one, the command fails and can be repeated), and the search route passes the path value to the Qdrant
filter as it is written, where the payload holds the canonical id.

## Proofs

`MemoryLedgerProofs` proves of the ledger, for any workspaces, any finite set of ids, any kinds and limits:
types, `ProfilesCapped`, `RevisionsNameVersions`, `KeysNameRows`. `MemoryStoreProofs` proves of the store,
for any number of clients and workers:

- `StoreInvariant`: `StoreInv` always holds;
- from it `StoreTypes`, `CreatesKeepKeysFree`, `NoLostUpdate`, `CallbacksAreCurrent`, `PendingMemoriesAreQueued`;
- `StoreImplementsLedger`: `StoreSpec => LedgerSpec`; and by it `StoreCapsProfiles`,
  `StoreRevisionsNameVersions` and `StoreKeysNameRows`, for which nothing is proved twice.

None of the properties is inductive. `KeyStaysFree` holds because the creator has its workspace locked,
and whoever could bring the key there needs that lock; `StoreInv` therefore says for every statement
which locks its transaction has (`HoldsLocks`), which request it serves (`RequestFits`), what of its reads
is still so (`ReadHolds`), that a place it has counted is still there (`KeepsRoom`), that its key is
free (`KeyFree`), what a worker's lock protects (`WorkerInv`) and what ties rows, locks and events
together (`MemoryInv`). A subtle part is an update: it reads its row *before* it locks it, so `ReadHolds`
says that the row is as read or has a later revision, in which case the `UPDATE` matches nothing. The
proof goes by who moves: a transaction's own step, then what a step of another leaves of the invariant
(`UntouchedLocks`, `UntouchedByReads`, `UntouchedByWrites`).

`DeadlocksNeedReindexes` adds to `StoreInv` the other direction, from a lock to its owner (`LocksOwned`: who has a
memory locked is at a statement after it took that lock, and who has a workspace locked has asked for it).
Then a circle of waiting requests without two Reindex calls would consist of requests that wait for workspaces
(`NoCircle`), each taken by a Move that waits for a later one, and the latest of a finite set has no later
one. The theorem assumes that clients are finitely many, as the connections of a pool are; among infinitely
many everybody could wait for the next.

`IndexerProofs` carries this on to the collection. The pipeline's steps are steps of the store
(`IndexerImplementsStore`), so `StoreInv` holds of it; `IndexerInv` adds that each point, *and each
request on its way*, says of a memory what its row said under the revision it names (`Truth`). That is
kept because a row changes only to a new revision: a request that lands late can take the collection back,
never make it lie. Hence `PointsAreTrue` for any `MaxLate`. Of an index without late requests
(`PromptSpec`) `PromptInv` says between any two statements of a memory: it has an event, or its point is
right (`InOrder`). A step of the store spares a memory, writes and queues it, or completes its event
(`Spared`, `Queued`, `Completed`), and only the last needs the point to be right, which the worker's lock
grants. From it follow `StalePointsAreQueued`, and `IndexedMemoriesAreFindable`.

`SearchProofs` proves `SearchesFindWhatIsThere` with any number of late requests: a hit was true under
its revision (`Honest`), rows keep their revisions' contents, and what is read back at that revision
therefore fits. `SettledSearchesMissNothing` assumes `MaxLate = 0`, and
must: with `MaxLate = 1` the configuration of run Index finds a memory missed for the reason of finding 1. `MapsDrawWhatTheyList` holds for the same reason as findings, but across two
moments that may lie in either order: a vector received names a revision, is true of the row of that
revision, and the row listed either is that row or has another revision.

`EvaluationsProofs` proves `QuotaIsKept`, `RetriesAgree`, `ExportsAreCurrent` and
`WithdrawnStaysWithdrawn` for any number of requests, ids and spellings. The counted room is still there
at the `INSERT` because every submission locks the canonical spelling (`HoldsQuota`, `KeepsRoom`); an
approved evaluation can only expire or be withdrawn between the two reads of an export (`ExportAges`).
`CandidatesHaveConsent` assumes `Spellings = {Canonical}`: then a policy change has the same lock, and
the rows it has swept are all there are (`SweptAll`). Run PolicySpelling shows that it must. Under the same
assumption `EvaluationsImplementLedger` proves the refinement: every statement is a step of
`EvaluationLedger` or none, because what a request has read some statements before its write (room, consent,
a stored decision) is still so at the write (`AtomicInv`).

`ProcessesProofs` proves `NoInvitedAdministrator` and `EveryServerHasItsSchema` for any number of processes and
accounts. Invariant `ProcessesInv`: who runs scripts holds the lock and has read the version that still is;
the tables are those of the version; a database with invited users, made by this release or by one of releases
3 to 5 before the upgrade, has version 3 at least, and the third script runs only below it. A version read before
the lock could be that of another process's past, and the third script would run on a database in use.

`ReadsProofs` proves of reads, for any number of memories, any budgets and answers: their types;
`ContextsKeepTheirBudget`; `JudgementsNameTheirText` from the ledger's `RevisionsIdentify`, since a rule keeps
the row it was read with and the table has that row or a later revision (`Follows`); and
`AnswersJudgeEachRuleOnce`, where `Distinct` at the sending and the order of `ValidResponse` meet.
`ContextsFit` and `SavingsTrue` speak of the sum of the texts found, a fold that takes them in an order
`CHOOSE` picks. That the sum does not depend on it (`CharactersOfRest`), and that what is left out of a set is
missing from its sum (`CharactersOfSubset`), is proved by induction on finite sets, which `SubsetInduction`
states with a collection of sets in place of a predicate. Then `PackInv` says that a context not yet cut holds
exactly the texts packed, each once, and one that is cut less than everything found; `SavingsInv` says of the
counters that each request has put in both sums rounded up, so that the difference is wrong by less than a token.

`AgentKeysProofs` proves of Accounts, for any number of requests, names and addresses, `AdministratorIsOne`,
`WorkspacesAreOwned`, `AcceptancesAreAtomic` and `RevocationIsFinal`. `AccountsInv` says of a request which
locks it has and what it has seen under them (`CallInv`): an acceptance past its check has its invitation
locked, and that is still valid; whoever bootstraps has the advisory lock, and there is still no account; a row
that is inserted clashes with no other, committed or not. Of the tables it says (`TablesInv`) that an address
with an account has one spent invitation and that account a workspace, and that nobody is invited before there
is an account, so that an acceptance never meets workspaces without an owner. `AcceptanceIsAtomic` alone would
not be inductive: account, workspace and spent invitation appear in one commit, and that the invitation was not
spent or revoked meanwhile is what the row lock held since the check gives.

`KeysInv` adds that the home of a key has an owner, whose workspaces alone are granted to the key and allowed to
its requests; that what a running request has read of its key is still so, but for a revocation; and that a key
that made a workspace may create and was granted it. With it `KeysImplementAccounts` proves that MCP requests,
which also make workspaces, are steps of Accounts, so that `AccountsUnderKeys` repeats no proof; then
`KeysStay`, `GrantsStay`, `KeysReach`, and `WorkspacesStayWithTheirOwner`: ownership is given once, which is why
the owner read at the start of a request is right until its end.

The assumptions are `LedgerAssumption`, `StoreAssumption`, `IndexerAssumption`, `EvaluationAssumption`,
`ProcessesAssumption`, `ReadsAssumption`, `AccountsAssumption` and `KeysAssumption`: markers like `NoRow` and
`NoTx` are no rows or transactions, limits are natural numbers, clients are not workers, what is counted is
finite. TLC evaluates them in the runs. No bound is assumed on the number of memories, transactions or late
requests; `MaxRev` bounds revisions for any value.

Every invariant and action property that a run checks is proved, and so are the type invariants of all
these modules. Only model-checked is liveness (`CallsReturn`, `QueueDrains`, `ExpiredIsPurged`,
`ProcessStops`), as fairness and `ENABLED` are out of the prover's reach, and with it the order of the queue in
IndexOrder, which only liveness needs.

## Not modelled, and the plan

Not modelled, and why:

- Sessions and login: a session is one row, inserted, read and deleted by single statements. Owners are
  never deleted and roles never change after a migration, so nothing read through a session goes stale; a
  model would only repeat the `WHERE` of one query.
- The login limiter: a map under one mutex, within one process, that nothing else depends on. Its limits
  (ten attempts, 10000 entries) are among the hazards, without a property.
- The waitlist: an `INSERT .. ON CONFLICT DO NOTHING` and a list.
- Routing, decoding, origin checks and static files, which keep no state.

Of what is modelled, left out are: ranking, paging and the total of a search; weights, similarity and
edges of the knowledge map, which are arithmetic on the vectors it draws with; usage reports, which only read;
the format of the export archive; the diagnostic of the decision client and the encoding of its requests;
validation of texts; passwords; the text of an id, except where the advisory lock of Evaluations and the ids of
a relevance request depend on it; clock differences between application and database.

The plan was, in this order: the ledger and the store with their proofs, the index with its late requests, the
order of the queue, search and evaluations with their proofs, accounts and keys; then the knowledge map, the
reads, the processes, and the ledger of evaluations, with theirs; then the proofs of accounts and keys, of
deadlock and of the sums of reads. It continues with:

1. an abstract specification of the index (what may be found when) that Indexer and Search implement;
2. the order of the queue as an invariant of IndexOrder, which its liveness rests on.
