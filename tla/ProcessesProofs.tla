--------------------------- MODULE ProcessesProofs ---------------------------
(***************************************************************************)
(* What Processes promises for any number of processes and accounts: the   *)
(* scripts run once, complete, and the one that promotes every account     *)
(* never on a database that has invited users.                             *)
(***************************************************************************)
EXTENDS Processes, TLAPS

-----------------------------------------------------------------------------
(***************************************************************************)
(* The inductive invariant.  Whoever is in the scripts holds the lock and  *)
(* has read the version there still is; whoever is past them has left the  *)
(* database at the latest version, and only such a process has requests.   *)
(***************************************************************************)
ScriptsUnderLock ==
  \A p \in Procs : pc[p] = "scripts" => lock = p /\ seen[p] = version

VersionCounts == tables = 1..version

MigratedIsLatest == \A p \in Procs : pc[p] \in Migrated => version = Latest

RequestsAreLate ==
  \A p \in Procs : request[p] # "none" \/ listener[p] = "on" => pc[p] \in Migrated

\* Invitations came with the third script: a database with invited users has it.
InvitedAreLate == invited # {} => version >= 3

ProcessesInv ==
  /\ ProcessesTypeOK
  /\ ScriptsUnderLock
  /\ VersionCounts
  /\ MigratedIsLatest
  /\ RequestsAreLate
  /\ InvitedAreLate
  /\ InvitedStayUsers
-----------------------------------------------------------------------------
LEMMA InitKeepsProcessesInv == ProcessesInit => ProcessesInv
  BY ProcessesAssumption
  DEF ProcessesInit, ProcessesInv, ProcessesTypeOK, ScriptsUnderLock, VersionCounts,
      MigratedIsLatest, RequestsAreLate, InvitedAreLate, InvitedStayUsers, Migrated, Latest, Scripts

\* The scripts, run on a database whose version was read under the lock.
LEMMA ScriptsComplete ==
  ASSUME NEW v \in 0..Latest
  PROVE  (1..v) \cup Missing(v) = Scripts
  BY DEF Missing, Scripts, Latest

\* The process is down afterwards, whatever it was doing.
LEMMA GoneKeepsProcessesInv ==
  ASSUME ProcessesInv, NEW p \in Procs, Gone(p)
  PROVE  ProcessesInv'
<1>1. ProcessesTypeOK'
  BY ProcessesAssumption DEF Gone, Goto, Holds, database, ProcessesInv, ProcessesTypeOK, Migrated, Latest
<1>2. ScriptsUnderLock' /\ MigratedIsLatest' /\ RequestsAreLate'
  BY DEF Gone, Goto, Holds, database, ProcessesInv, ProcessesTypeOK, ScriptsUnderLock,
         MigratedIsLatest, RequestsAreLate, Migrated
<1> QED
  BY <1>1, <1>2 DEF Gone, database, ProcessesInv, VersionCounts, InvitedAreLate, InvitedStayUsers

LEMMA MigrationKeepsProcessesInv ==
  ASSUME ProcessesInv, NEW p \in Procs, LockAndRead(p) \/ RunScripts(p)
  PROVE  ProcessesInv'
<1>1. CASE LockAndRead(p)
  <2>1. ProcessesTypeOK'
    BY <1>1, ProcessesAssumption DEF LockAndRead, Goto, database, ProcessesInv, ProcessesTypeOK, Migrated
  <2>2. ScriptsUnderLock' /\ MigratedIsLatest' /\ RequestsAreLate'
    BY <1>1, ProcessesAssumption
    DEF LockAndRead, Goto, database, ProcessesInv, ProcessesTypeOK, ScriptsUnderLock,
        MigratedIsLatest, RequestsAreLate, Migrated
  <2> QED
    BY <1>1, <2>1, <2>2
    DEF LockAndRead, database, ProcessesInv, VersionCounts, InvitedAreLate, InvitedStayUsers
<1>2. CASE RunScripts(p)
  <2>1. pc[p] = "scripts" /\ lock = p /\ seen[p] = version /\ version \in 0..Latest
    BY <1>2 DEF RunScripts, ProcessesInv, ScriptsUnderLock, ProcessesTypeOK
  <2>2. tables' = Scripts
    BY <1>2, <2>1, ScriptsComplete DEF RunScripts, ProcessesInv, VersionCounts
  <2>3. role' \in [Accounts -> {"none", "old", "user", "admin"}]
    BY <1>2 DEF RunScripts, ProcessesInv, ProcessesTypeOK
  <2>4. version' = Latest /\ lock' = NoProc /\ Latest = 5
    BY <1>2, <2>1 DEF RunScripts, Holds, Latest
  <2>5. ProcessesTypeOK'
    BY <1>2, <2>2, <2>3, <2>4, ProcessesAssumption
    DEF RunScripts, Goto, ProcessesInv, ProcessesTypeOK, Migrated
  <2>6. ScriptsUnderLock'
    BY <1>2, <2>1, <2>4 DEF RunScripts, Goto, ProcessesInv, ProcessesTypeOK, ScriptsUnderLock
  <2>7. VersionCounts' /\ MigratedIsLatest'
    BY <2>2, <2>4 DEF VersionCounts, Scripts, MigratedIsLatest
  <2>10. InvitedAreLate'
    BY <2>4 DEF InvitedAreLate
  <2>8. RequestsAreLate'
    BY <1>2 DEF RunScripts, Goto, ProcessesInv, ProcessesTypeOK, RequestsAreLate, Migrated
  <2>9. InvitedStayUsers'
    <3>1. CASE 3 \in Missing(seen[p])
      <4>1. version < 3
        BY <3>1, <2>1 DEF Missing, Latest
      <4>2. invited = {}
        BY <4>1, <2>1 DEF ProcessesInv, InvitedAreLate, Latest
      <4> QED BY <4>2, <1>2 DEF RunScripts, InvitedStayUsers
    <3>2. CASE 3 \notin Missing(seen[p])
      BY <3>2, <1>2 DEF RunScripts, ProcessesInv, InvitedStayUsers
    <3> QED BY <3>1, <3>2
  <2> QED BY <2>5, <2>6, <2>7, <2>8, <2>9, <2>10 DEF ProcessesInv
<1> QED BY <1>1, <1>2

\* Steps that change neither the database nor the lock.
LEMMA RunningKeepsProcessesInv ==
  ASSUME ProcessesInv, NEW p \in Procs,
         \/ Start(p) \/ Serve(p) \/ Signal(p) \/ ListenFails(p) \/ WaitForEnd(p)
         \/ Drained(p) \/ JoinWorker(p) \/ WorkerTurn(p) \/ Arrive(p) \/ Acquire(p) \/ Respond(p)
  PROVE  ProcessesInv'
<1>1. UNCHANGED <<version, tables, role, invited, lock>>
  BY DEF Start, Serve, Signal, ListenFails, WaitForEnd, Drained, JoinWorker, WorkerTurn, Arrive,
         Acquire, Respond, database
<1>2. ProcessesTypeOK'
  <2>1. pc' \in [Procs -> {"down", "open", "scripts"} \cup Migrated] /\ seen' = seen
    BY DEF Start, Serve, Signal, ListenFails, WaitForEnd, Drained, JoinWorker, WorkerTurn, Arrive,
           Acquire, Respond, Goto, ProcessesInv, ProcessesTypeOK, Migrated
  <2>2. /\ told' \in [Procs -> BOOLEAN]
        /\ listener' \in [Procs -> {"off", "on", "failed"}]
        /\ worker' \in [Procs -> {"off", "between", "turn", "done"}]
        /\ request' \in [Procs -> {"none", "without", "with"}]
    BY DEF Start, Serve, Signal, ListenFails, WaitForEnd, Drained, JoinWorker, WorkerTurn, Arrive,
           Acquire, Respond, ProcessesInv, ProcessesTypeOK
  <2>3. lock # NoProc => pc'[lock] = "scripts"
    BY DEF Start, Serve, Signal, ListenFails, WaitForEnd, Drained, JoinWorker, WorkerTurn, Arrive,
           Acquire, Respond, Goto, ProcessesInv, ProcessesTypeOK
  <2> QED BY <1>1, <2>1, <2>2, <2>3 DEF ProcessesInv, ProcessesTypeOK
<1>3. \A q \in Procs : pc'[q] = "scripts" => pc[q] = "scripts"
  BY DEF Start, Serve, Signal, ListenFails, WaitForEnd, Drained, JoinWorker, WorkerTurn, Arrive,
         Acquire, Respond, Goto, ProcessesInv, ProcessesTypeOK
<1>4. \A q \in Procs : pc'[q] \in Migrated <=> pc[q] \in Migrated
  BY DEF Start, Serve, Signal, ListenFails, WaitForEnd, Drained, JoinWorker, WorkerTurn, Arrive,
         Acquire, Respond, Goto, ProcessesInv, ProcessesTypeOK, Migrated
<1>5. \A q \in Procs : request'[q] # "none" \/ listener'[q] = "on" => pc[q] \in Migrated
  BY DEF Start, Serve, Signal, ListenFails, WaitForEnd, Drained, JoinWorker, WorkerTurn, Arrive,
         Acquire, Respond, ProcessesInv, ProcessesTypeOK, RequestsAreLate, Migrated
<1>6. seen' = seen
  BY DEF Start, Serve, Signal, ListenFails, WaitForEnd, Drained, JoinWorker, WorkerTurn, Arrive,
         Acquire, Respond
<1> QED
  BY <1>1, <1>2, <1>3, <1>4, <1>5, <1>6
  DEF ProcessesInv, ScriptsUnderLock, VersionCounts, MigratedIsLatest, RequestsAreLate,
      InvitedAreLate, InvitedStayUsers

\* The steps that make accounts.
LEMMA AccountsKeepProcessesInv ==
  ASSUME ProcessesInv, NEW p \in Procs, RunCommand(p) \/ Release(p)
  PROVE  ProcessesInv'
<1>1. UNCHANGED <<version, tables, lock, seen, told, listener, worker>> /\ version = Latest
  BY DEF RunCommand, Release, ProcessesInv, MigratedIsLatest, RequestsAreLate, Migrated
<1>2. /\ role' \in [Accounts -> {"none", "old", "user", "admin"}]
      /\ invited' \subseteq Accounts
      /\ InvitedStayUsers'
  <2>1. CASE UNCHANGED <<role, invited>>
    BY <2>1 DEF ProcessesInv, ProcessesTypeOK, InvitedStayUsers
  <2>2. CASE \E u \in Accounts : role' = [role EXCEPT ![u] = "admin"] /\ invited' = invited /\ Registered = {}
    BY <2>2 DEF ProcessesInv, ProcessesTypeOK, InvitedStayUsers, Registered
  <2>3. CASE \E u \in Accounts \ Registered :
               role' = [role EXCEPT ![u] = "user"] /\ invited' = invited \cup {u}
    BY <2>3 DEF ProcessesInv, ProcessesTypeOK, InvitedStayUsers
  <2> QED BY <2>1, <2>2, <2>3 DEF RunCommand, Release
<1>3. /\ pc' \in [Procs -> {"down", "open", "scripts"} \cup Migrated]
      /\ request' \in [Procs -> {"none", "without", "with"}]
      /\ \A q \in Procs : /\ pc'[q] = "scripts" <=> pc[q] = "scripts"
                          /\ pc'[q] \in Migrated <=> pc[q] \in Migrated
                          /\ request'[q] # "none" <=> request[q] # "none"
  BY DEF RunCommand, Release, Goto, ProcessesInv, ProcessesTypeOK, Migrated
<1>4. ProcessesTypeOK'
  BY <1>1, <1>2, <1>3 DEF ProcessesInv, ProcessesTypeOK
<1> QED
  BY <1>1, <1>2, <1>3, <1>4
  DEF ProcessesInv, ScriptsUnderLock, VersionCounts, MigratedIsLatest, RequestsAreLate,
      InvitedAreLate, Latest

LEMMA NextKeepsProcessesInv == ProcessesInv /\ [ProcessesNext]_processVars => ProcessesInv'
<1> SUFFICES ASSUME ProcessesInv, [ProcessesNext]_processVars PROVE ProcessesInv'
  OBVIOUS
<1>1. CASE UNCHANGED processVars
  BY <1>1
  DEF processVars, database, running, ProcessesInv, ProcessesTypeOK, ScriptsUnderLock, VersionCounts,
      MigratedIsLatest, RequestsAreLate, InvitedAreLate, InvitedStayUsers
<1>2. CASE ProcessesNext
  <2>1. PICK p \in Procs :
          \/ Start(p) \/ ProcessStep(p) \/ WorkerTurn(p) \/ Arrive(p) \/ RequestStep(p)
          \/ Signal(p) \/ ListenFails(p) \/ Crash(p)
    BY <1>2 DEF ProcessesNext
  <2>2. CASE StartFails(p) \/ CloseAndExit(p) \/ Crash(p)
    BY <2>2, GoneKeepsProcessesInv DEF StartFails, CloseAndExit, Crash
  <2>3. CASE LockAndRead(p) \/ RunScripts(p)
    BY <2>3, MigrationKeepsProcessesInv
  <2>4. CASE RunCommand(p) \/ Release(p)
    BY <2>4, AccountsKeepProcessesInv
  <2>5. CASE \/ Start(p) \/ Serve(p) \/ Signal(p) \/ ListenFails(p) \/ WaitForEnd(p)
             \/ Drained(p) \/ JoinWorker(p) \/ WorkerTurn(p) \/ Arrive(p) \/ Acquire(p) \/ Respond(p)
    BY <2>5, RunningKeepsProcessesInv
  <2> QED BY <2>1, <2>2, <2>3, <2>4, <2>5 DEF ProcessStep, RequestStep
<1> QED BY <1>1, <1>2

THEOREM ProcessesInvariant == ProcessesSpec => []ProcessesInv
  BY InitKeepsProcessesInv, NextKeepsProcessesInv, PTL DEF ProcessesSpec

-----------------------------------------------------------------------------
\* The tables of Migrate and the state of run() keep their types, and the
\* migration lock is only ever held by a process that is in its scripts.
THEOREM ProcessesTypeCorrect == ProcessesSpec => []ProcessesTypeOK
  BY ProcessesInvariant, PTL DEF ProcessesInv

\* An account made by an invitation, before the upgrade by a release 3 to 5 or
\* since, never becomes an administrator, however many processes migrate at once,
\* from whatever release and wherever they are cut off.
THEOREM NoInvitedAdministrator == ProcessesSpec => []InvitedStayUsers
  BY ProcessesInvariant, PTL DEF ProcessesInv

\* No process goes past Migrate before every script of the release is committed.
THEOREM EveryServerHasItsSchema == ProcessesSpec => []ServesCompleteSchema
<1>1. ProcessesInv => ServesCompleteSchema
  BY DEF ProcessesInv, ServesCompleteSchema, MigratedIsLatest, VersionCounts, Scripts
<1> QED BY <1>1, ProcessesInvariant, PTL
=============================================================================
