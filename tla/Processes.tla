------------------------------ MODULE Processes ------------------------------
(***************************************************************************)
(* The life of Kasane's processes (main.go, run) around the one database   *)
(* they migrate (migrate.go): each opens a pool, migrates, does what its   *)
(* command says and ends; a server runs a worker and requests until it is  *)
(* told to stop.                                                           *)
(*                                                                         *)
(* Requests and the worker are told apart only by whether they have a      *)
(* connection of the pool.  Of the tables there is what the scripts of     *)
(* Migrate decide on: which scripts have run, and the accounts, because    *)
(* the third script makes every account it finds an administrator.         *)
(* PostgreSQL, its advisory lock and pgxpool are external.                 *)
(***************************************************************************)
EXTENDS Naturals

CONSTANTS
  Procs,     \* processes; each may start again after it has ended
  Accounts,  \* usernames
  NoProc

Latest == 5
Scripts == 1..Latest   \* schema.sql, keys, accounts and invitations, usage, decision feedback

ASSUME ProcessesAssumption == NoProc \notin Procs

VARIABLES
  version,   \* max(version) of schema_version, 0 for NULL
  tables,    \* scripts whose definitions are in the database
  role,      \* owners: "none" where there is no row, "old" before it has a role
  invited,   \* history: accounts made by accepting an invitation
  lock,      \* advisory lock 918273645: holder or NoProc
  pc,        \* where run() is
  seen,      \* the version Migrate has read
  told,      \* ctx is cancelled
  listener,  \* ListenAndServe: "off", "on" or "failed"
  worker,    \* RunWorker: "off", "between" two turns, in a "turn", or "done"
  request    \* a request: "none", or in progress "without" or "with" a connection

database == <<version, tables, role, invited>>
running == <<pc, seen, told, listener, worker, request>>
processVars == <<database, lock, running>>

Migrated == {"command", "serving", "draining", "joining", "closing"}

ProcessesTypeOK ==
  /\ version \in 0..Latest
  /\ tables \subseteq Scripts
  /\ role \in [Accounts -> {"none", "old", "user", "admin"}]
  /\ invited \subseteq Accounts
  /\ lock \in Procs \cup {NoProc}
  /\ pc \in [Procs -> {"down", "open", "scripts"} \cup Migrated]
  /\ seen \in [Procs -> 0..Latest]
  /\ told \in [Procs -> BOOLEAN]
  /\ listener \in [Procs -> {"off", "on", "failed"}]
  /\ worker \in [Procs -> {"off", "between", "turn", "done"}]
  /\ request \in [Procs -> {"none", "without", "with"}]
  /\ lock # NoProc => pc[lock] = "scripts"

\* An empty database, or that of any release, with the accounts of its time: bootstrap
\* has made one at most, an administrator from release 3 on; others are invited there.
ProcessesInit ==
  /\ version \in 0..Latest
  /\ tables = 1..version
  /\ role \in [Accounts -> CASE version = 0     -> {"none"}
                           [] version \in 1..2 -> {"none", "old"}
                           [] version >= 3     -> {"none", "user", "admin"}]
  /\ \A u, v \in Accounts : {role[u], role[v]} \subseteq {"old", "admin"} => u = v
  /\ invited = {u \in Accounts : role[u] = "user"}
  /\ invited # {} => \E u \in Accounts : role[u] = "admin"
  /\ lock = NoProc
  /\ pc = [p \in Procs |-> "down"]
  /\ seen = [p \in Procs |-> 0]
  /\ told = [p \in Procs |-> FALSE]
  /\ listener = [p \in Procs |-> "off"]
  /\ worker = [p \in Procs |-> "off"]
  /\ request = [p \in Procs |-> "none"]

-----------------------------------------------------------------------------
Goto(p, step) == pc' = [pc EXCEPT ![p] = step]
Holds(p) == lock = p
Registered == {u \in Accounts : role[u] # "none"}

\* A connection to the database within 15 seconds, then Migrate begins.
Start(p) ==
  /\ pc[p] = "down"
  /\ Goto(p, "open")
  /\ UNCHANGED <<database, lock, seen, told, listener, worker, request>>

\* The process is gone, and what it knew; PostgreSQL ends its transactions.
Gone(p) ==
  /\ Goto(p, "down")
  /\ lock' = IF Holds(p) THEN NoProc ELSE lock
  /\ seen' = [seen EXCEPT ![p] = 0]
  /\ told' = [told EXCEPT ![p] = FALSE]
  /\ listener' = [listener EXCEPT ![p] = "off"]
  /\ worker' = [worker EXCEPT ![p] = "off"]
  /\ request' = [request EXCEPT ![p] = "none"]
  /\ UNCHANGED database

\* mutant: the advisory lock is not taken
ReadUnlocked(p) ==
  /\ pc[p] = "open"
  /\ seen' = [seen EXCEPT ![p] = version]
  /\ Goto(p, "scripts")
  /\ UNCHANGED <<database, lock, told, listener, worker, request>>

\* Migrate, one transaction: the lock is its first statement and is waited for;
\* only then is the version read.
LockAndRead(p) ==
  /\ pc[p] = "open" /\ lock = NoProc
  /\ lock' = p
  /\ seen' = [seen EXCEPT ![p] = version]
  /\ Goto(p, "scripts")
  /\ UNCHANGED <<database, told, listener, worker, request>>

\* mutant: accounts.sql belongs to the release after its own
MissingAccounts(v) == {2} \cup {k \in Scripts : (k = 1 /\ v = 0) \/ (k = 3 /\ v < 4) \/ (k > 3 /\ v < k)}
MissingLater(v) == {2} \cup {k \in Scripts : v + 1 < k}   \* mutant: off by one
\* What Migrate runs on a database of version v; the second part always.
Missing(v) == {2} \cup {k \in Scripts : (k = 1 /\ v = 0) \/ (k >= 3 /\ v < k)}

\* The scripts and COMMIT.
RunScripts(p) ==
  /\ pc[p] = "scripts"
  /\ tables' = tables \cup Missing(seen[p])
  /\ version' = Latest
  /\ role' = IF 3 \in Missing(seen[p])
             THEN [u \in Accounts |-> IF role[u] = "none" THEN "none" ELSE "admin"]
             ELSE role
  /\ lock' = IF Holds(p) THEN NoProc ELSE lock
  /\ seen' = [seen EXCEPT ![p] = 0]
  /\ Goto(p, "command")
  /\ UNCHANGED <<invited, told, listener, worker, request>>

\* A statement fails, or finds its context cancelled: run() returns an error.
StartFails(p) == pc[p] \in {"open", "scripts"} /\ Gone(p)

-----------------------------------------------------------------------------
\* Any command but serve: migrate and reindex change nothing here, bootstrap
\* makes the first account.
RunCommand(p) ==
  /\ pc[p] = "command"
  /\ \/ UNCHANGED role
     \/ /\ Registered = {}
        /\ \E u \in Accounts : role' = [role EXCEPT ![u] = "admin"]
  /\ Goto(p, "closing")
  /\ UNCHANGED <<version, tables, invited, lock, seen, told, listener, worker, request>>

\* The command serve: a bad setting, or the worker and then the listener start.
Serve(p) ==
  /\ pc[p] = "command"
  /\ \/ Goto(p, "closing") /\ UNCHANGED <<listener, worker>>
     \/ /\ Goto(p, "serving")
        /\ worker' = [worker EXCEPT ![p] = "between"]
        /\ listener' = [listener EXCEPT ![p] = "on"]
  /\ UNCHANGED <<database, lock, seen, told, request>>

\* SIGTERM or an interrupt; also when it is sent again.
Signal(p) ==
  /\ pc[p] # "down" /\ ~told[p]
  /\ told' = [told EXCEPT ![p] = TRUE]
  /\ UNCHANGED <<database, lock, pc, seen, listener, worker, request>>

ListenFails(p) ==
  /\ pc[p] = "serving" /\ listener[p] = "on"
  /\ listener' = [listener EXCEPT ![p] = "failed"]
  /\ UNCHANGED <<database, lock, pc, seen, told, worker, request>>

\* mutant: a failed listener does not stop the worker
WaitUntold(p) ==
  /\ pc[p] = "serving" /\ (told[p] \/ listener[p] = "failed")
  /\ Goto(p, "draining")
  /\ listener' = [listener EXCEPT ![p] = "off"]
  /\ UNCHANGED <<database, lock, seen, told, worker, request>>

\* The select: stop() cancels the context when it was the listener that ended.
\* Shutdown closes the listener at once.
WaitForEnd(p) ==
  /\ pc[p] = "serving" /\ (told[p] \/ listener[p] = "failed")
  /\ told' = [told EXCEPT ![p] = TRUE]
  /\ listener' = [listener EXCEPT ![p] = "off"]
  /\ Goto(p, "draining")
  /\ UNCHANGED <<database, lock, seen, worker, request>>

\* Shutdown returns when no request is left, or after ten seconds.
Drained(p) ==
  /\ pc[p] = "draining"
  /\ Goto(p, "joining")
  /\ UNCHANGED <<database, lock, seen, told, listener, worker, request>>

JoinWorker(p) ==
  /\ pc[p] = "joining" /\ worker[p] = "done"
  /\ Goto(p, "closing")
  /\ UNCHANGED <<database, lock, seen, told, listener, worker, request>>

\* Pool.Close waits for the connections in use; the rest dies with the process.
CloseAndExit(p) == pc[p] = "closing" /\ request[p] # "with" /\ worker[p] # "turn" /\ Gone(p)

Crash(p) == pc[p] # "down" /\ Gone(p)

-----------------------------------------------------------------------------
(***************************************************************************)
(* The worker's loop and a request, goroutines of their own.               *)
(***************************************************************************)
WorkerTurn(p) ==
  /\ \/ worker[p] = "between" /\ worker' = [worker EXCEPT ![p] = IF told[p] THEN "done" ELSE "turn"]
     \/ worker[p] = "turn" /\ worker' = [worker EXCEPT ![p] = "between"]
  /\ UNCHANGED <<database, lock, pc, seen, told, listener, request>>

Arrive(p) ==
  /\ listener[p] = "on" /\ request[p] = "none"
  /\ request' = [request EXCEPT ![p] = "without"]
  /\ UNCHANGED <<database, lock, pc, seen, told, listener, worker>>

\* A closing pool hands out no connection.
Acquire(p) ==
  /\ request[p] = "without" /\ pc[p] # "closing"
  /\ request' = [request EXCEPT ![p] = "with"]
  /\ UNCHANGED <<database, lock, pc, seen, told, listener, worker>>

\* A transaction ends; that of an acceptance has made an account.
Release(p) ==
  /\ request[p] = "with"
  /\ request' = [request EXCEPT ![p] = "without"]
  /\ \/ UNCHANGED <<role, invited>>
     \/ \E u \in Accounts \ Registered :
          /\ \E a \in Accounts : role[a] = "admin"
          /\ role' = [role EXCEPT ![u] = "user"]
          /\ invited' = invited \cup {u}
  /\ UNCHANGED <<version, tables, lock, pc, seen, told, listener, worker>>

Respond(p) ==
  /\ request[p] = "without"
  /\ request' = [request EXCEPT ![p] = "none"]
  /\ UNCHANGED <<database, lock, pc, seen, told, listener, worker>>

\* What a process does by itself.
ProcessStep(p) ==
  \/ LockAndRead(p) \/ RunScripts(p) \/ StartFails(p)
  \/ RunCommand(p) \/ Serve(p) \/ WaitForEnd(p) \/ Drained(p) \/ JoinWorker(p) \/ CloseAndExit(p)
RequestStep(p) == Acquire(p) \/ Release(p) \/ Respond(p)

ProcessesNext ==
  \E p \in Procs :
    \/ Start(p) \/ ProcessStep(p) \/ WorkerTurn(p) \/ Arrive(p) \/ RequestStep(p)
    \/ Signal(p) \/ ListenFails(p) \/ Crash(p)

ProcessesSpec == ProcessesInit /\ [][ProcessesNext]_processVars

-----------------------------------------------------------------------------
\* An account made by an invitation never becomes an administrator: the script
\* that promotes all accounts there are never runs on a database with invited
\* users, neither when one of releases 3 to 5 is upgraded or started again nor
\* when processes that migrate at once let the first of them serve.
InvitedStayUsers == \A u \in invited : role[u] = "user"

\* No process serves, or runs a command, before every script of its release has
\* been committed, whatever the release the database comes from.
ServesCompleteSchema == \A p \in Procs : pc[p] \in Migrated => tables = Scripts

\* run() goes on; a context that is cancelled ends what waits for it, statements
\* for the migration lock among them; a worker's turn returns; a request has 25 s.
ProcessesFairness ==
  \A p \in Procs :
    /\ WF_processVars(ProcessStep(p))
    /\ WF_processVars(WorkerTurn(p))
    /\ SF_processVars(Release(p)) /\ SF_processVars(Respond(p))
FairProcessesSpec == ProcessesSpec /\ ProcessesFairness

\* A process that is told to stop, or whose listener fails, ends: nothing waits
\* for a worker that was not told, or for a request that goes on for ever.
ProcessStops ==
  \A p \in Procs : told[p] \/ listener[p] = "failed" ~> pc[p] = "down"
=============================================================================
