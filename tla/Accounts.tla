------------------------------ MODULE Accounts ------------------------------
(***************************************************************************)
(* Who may sign in and who owns which workspace: the bootstrap command,    *)
(* invitations and their acceptance, as the statements they issue.         *)
(*                                                                         *)
(* As in MemoryStore a transaction's writes show at its commit, and the    *)
(* rows it has written are locked until then: an INSERT that meets the     *)
(* uncommitted row of another transaction in a unique index waits for it.  *)
(***************************************************************************)
EXTENDS Naturals, FiniteSets

CONSTANTS
  Names,       \* usernames
  Emails,
  InviteIds,
  Workspaces,  \* ids a workspace can get; bounds their number
  Legacy,      \* workspaces from before accounts, which have no owner
  Clients,     \* requests and bootstrap commands
  NoRow, NoEmail, Nobody, NoTx

Owner == [email: Emails \cup {NoEmail}, role: {"admin", "user"}]
Invitation == [email: Emails, accepted: BOOLEAN, revoked: BOOLEAN, expired: BOOLEAN]

ASSUME AccountsAssumption ==
  /\ Legacy \subseteq Workspaces
  /\ IsFiniteSet(Names) /\ IsFiniteSet(InviteIds)
  /\ NoEmail \notin Emails
  /\ Nobody \notin Names /\ NoRow \notin Names \cup {Nobody} \cup Owner \cup Invitation
  /\ NoTx \notin Clients

VARIABLES
  owners,       \* owners table
  invitations,  \* invitations table
  ownerOf,      \* owner_username of every workspace: Nobody for NULL
  inviteLock,   \* row locks on invitations: holder or NoTx
  bootLock,     \* the advisory lock of Bootstrap: holder or NoTx
  pc, call

accountVars == <<owners, invitations, ownerOf, inviteLock, bootLock, pc, call>>

AcceptCall == [op: {"accept"}, invite: InviteIds, name: Names, inTime: BOOLEAN]
BootstrapCall == [op: {"bootstrap"}, name: Names]
IssueCall == [op: {"issue"}, email: Emails]
NoCall == [op |-> "none"]
Steps == {"idle", "lockInvite", "lockBoot", "count", "insertOwner", "commit",
          "registered", "insertInvite"}

AccountsTypeOK ==
  /\ owners \in [Names -> Owner \cup {NoRow}]
  /\ invitations \in [InviteIds -> Invitation \cup {NoRow}]
  /\ ownerOf \in [Workspaces -> Names \cup {Nobody, NoRow}]
  /\ inviteLock \in [InviteIds -> Clients \cup {NoTx}]
  /\ bootLock \in Clients \cup {NoTx}
  /\ pc \in [Clients -> Steps]
  /\ call \in [Clients -> AcceptCall \cup BootstrapCall \cup IssueCall \cup {NoCall}]

AccountsInit ==
  /\ owners = [n \in Names |-> NoRow]
  /\ invitations = [i \in InviteIds |-> NoRow]
  /\ ownerOf = [ws \in Workspaces |-> IF ws \in Legacy THEN Nobody ELSE NoRow]
  /\ inviteLock = [i \in InviteIds |-> NoTx]
  /\ bootLock = NoTx
  /\ pc = [t \in Clients |-> "idle"]
  /\ call = [t \in Clients |-> NoCall]

-----------------------------------------------------------------------------
Registered == {n \in Names : owners[n] # NoRow}
WithEmail(e) == {n \in Registered : owners[n].email = e}
Admins == {n \in Registered : owners[n].role = "admin"}
Issued(i) == invitations[i] # NoRow
Unspent(i) == Issued(i) /\ ~invitations[i].accepted /\ ~invitations[i].revoked
MadeWorkspace(ws) == ownerOf[ws] # NoRow

Goto(t, step) == pc' = [pc EXCEPT ![t] = step]
NoWrite == UNCHANGED <<owners, invitations, ownerOf>>
LocksKept == UNCHANGED <<inviteLock, bootLock, call>>

Finish(t) ==
  /\ Goto(t, "idle")
  /\ call' = [call EXCEPT ![t] = NoCall]
  /\ inviteLock' = [i \in InviteIds |-> IF inviteLock[i] = t THEN NoTx ELSE inviteLock[i]]
  /\ bootLock' = IF bootLock = t THEN NoTx ELSE bootLock
Return(t) == Finish(t) /\ NoWrite

Begin(t, c, step) ==
  /\ pc[t] = "idle"
  /\ call' = [call EXCEPT ![t] = c]
  /\ Goto(t, step)
  /\ NoWrite /\ UNCHANGED <<inviteLock, bootLock>>

\* What the owners row of a call holds; a bootstrap account has no email.
EmailFor(c) == IF c.op = "accept" THEN invitations[c.invite].email ELSE NoEmail
Clash(c, d) == c.name = d.name \/ (EmailFor(c) = EmailFor(d) /\ EmailFor(c) # NoEmail)

-----------------------------------------------------------------------------
\* The WHERE of the SELECT: now() in it is the time the transaction began.
Usable(t) == Unspent(call[t].invite) /\ call[t].inTime

\* mutant: the SELECT of the invitation without FOR UPDATE
ReadInvitation(t) ==
  /\ pc[t] = "lockInvite"
  /\ IF Usable(t)
     THEN Goto(t, "insertOwner") /\ NoWrite /\ LocksKept
     ELSE Return(t)

LockInvitation(t) ==
  LET i == call[t].invite IN
  /\ pc[t] = "lockInvite"
  /\ inviteLock[i] = NoTx
  /\ IF Usable(t)
     THEN /\ inviteLock' = [inviteLock EXCEPT ![i] = t]
          /\ Goto(t, "insertOwner")
          /\ NoWrite /\ UNCHANGED <<bootLock, call>>
     ELSE Return(t)

\* mutant: Bootstrap counts without pg_advisory_xact_lock
StartBootstrap(t) == pc[t] = "lockBoot" /\ Goto(t, "count") /\ NoWrite /\ LocksKept

LockBootstrap(t) ==
  /\ pc[t] = "lockBoot"
  /\ bootLock = NoTx
  /\ bootLock' = t
  /\ Goto(t, "count")
  /\ NoWrite /\ UNCHANGED <<inviteLock, call>>

CountOwners(t) ==
  /\ pc[t] = "count"
  /\ IF Registered # {}
     THEN Return(t)
     ELSE Goto(t, "insertOwner") /\ NoWrite /\ LocksKept

\* mutant: no unique index on the email
InsertAnyEmail(t) ==
  LET c == call[t] IN
  /\ pc[t] = "insertOwner"
  /\ \A u \in Clients : pc[u] = "commit" => c.name # call[u].name
  /\ IF c.name \in Registered
     THEN Return(t)
     ELSE Goto(t, "commit") /\ NoWrite /\ LocksKept

\* The primary key and owners_email_unique: an uncommitted row with the same
\* name or email is waited for, a committed one refuses the account.
InsertOwner(t) ==
  LET c == call[t] IN
  /\ pc[t] = "insertOwner"
  /\ \A u \in Clients : pc[u] = "commit" => ~Clash(c, call[u])
  /\ IF c.name \in Registered \/ (EmailFor(c) # NoEmail /\ WithEmail(EmailFor(c)) # {})
     THEN Return(t)
     ELSE Goto(t, "commit") /\ NoWrite /\ LocksKept

\* mutant: the invitation is not consumed
CommitUnspent(t) ==
  LET c == call[t] IN
  /\ pc[t] = "commit" /\ c.op = "accept"
  /\ owners' = [owners EXCEPT ![c.name] = [email |-> EmailFor(c), role |-> "user"]]
  /\ \E ws \in Workspaces : ~MadeWorkspace(ws) /\ ownerOf' = [ownerOf EXCEPT ![ws] = c.name]
  /\ UNCHANGED invitations
  /\ Finish(t)

\* The rest of acceptInvitation: a workspace for the account, accepted_at, COMMIT.
CommitAcceptance(t) ==
  LET c == call[t] IN
  /\ pc[t] = "commit" /\ c.op = "accept"
  /\ owners' = [owners EXCEPT ![c.name] = [email |-> EmailFor(c), role |-> "user"]]
  /\ \E ws \in Workspaces : ~MadeWorkspace(ws) /\ ownerOf' = [ownerOf EXCEPT ![ws] = c.name]
  /\ invitations' = [invitations EXCEPT ![c.invite].accepted = TRUE]
  /\ Finish(t)

\* mutant: workspaces without an owner are left so
CommitUnadopted(t) ==
  /\ pc[t] = "commit" /\ call[t].op = "bootstrap"
  /\ owners' = [owners EXCEPT ![call[t].name] = [email |-> NoEmail, role |-> "admin"]]
  /\ UNCHANGED <<ownerOf, invitations>>
  /\ Finish(t)

\* The rest of Bootstrap: ownerless workspaces are the administrator's.
CommitBootstrap(t) ==
  LET n == call[t].name IN
  /\ pc[t] = "commit" /\ call[t].op = "bootstrap"
  /\ owners' = [owners EXCEPT ![n] = [email |-> NoEmail, role |-> "admin"]]
  /\ ownerOf' = [ws \in Workspaces |-> IF ownerOf[ws] = Nobody THEN n ELSE ownerOf[ws]]
  /\ UNCHANGED invitations
  /\ Finish(t)

\* Issuing checks for an account and then inserts, in statements of their own.
CheckRegistered(t) ==
  /\ pc[t] = "registered"
  /\ IF WithEmail(call[t].email) # {}
     THEN Return(t)
     ELSE Goto(t, "insertInvite") /\ NoWrite /\ LocksKept

InsertInvitation(t) ==
  /\ pc[t] = "insertInvite"
  /\ \E i \in InviteIds :
       /\ ~Issued(i)
       /\ invitations' = [invitations EXCEPT ![i] =
            [email |-> call[t].email, accepted |-> FALSE, revoked |-> FALSE, expired |-> FALSE]]
  /\ UNCHANGED <<owners, ownerOf>>
  /\ Finish(t)

\* One UPDATE, of an accepted invitation too.
RevokeInvitation(i) ==
  /\ Admins # {} /\ Issued(i)
  /\ inviteLock[i] = NoTx
  /\ invitations' = [invitations EXCEPT ![i].revoked = TRUE]
  /\ UNCHANGED <<owners, ownerOf, inviteLock, bootLock, pc, call>>

\* Time passes; of an invitation used or revoked already it decides nothing.
ExpireInvitation(i) ==
  /\ Unspent(i) /\ ~invitations[i].expired
  /\ invitations' = [invitations EXCEPT ![i].expired = TRUE]
  /\ UNCHANGED <<owners, ownerOf, inviteLock, bootLock, pc, call>>

CreateWorkspaceOwned(n, ws) ==
  /\ n \in Registered /\ ~MadeWorkspace(ws)
  /\ ownerOf' = [ownerOf EXCEPT ![ws] = n]
  /\ UNCHANGED <<owners, invitations, inviteLock, bootLock, pc, call>>

Abort(t) == pc[t] # "idle" /\ Return(t)

Acceptance(i, n) == [op |-> "accept", invite |-> i, name |-> n, inTime |-> ~invitations[i].expired]

BeginCall(t) ==
  \/ \E n \in Names : Begin(t, [op |-> "bootstrap", name |-> n], "lockBoot")
  \/ \E i \in InviteIds, n \in Names :
       Issued(i) /\ Begin(t, Acceptance(i, n), "lockInvite")
  \/ \E e \in Emails : Admins # {} /\ Begin(t, [op |-> "issue", email |-> e], "registered")

CallStep(t) ==
  \/ LockInvitation(t) \/ LockBootstrap(t) \/ CountOwners(t) \/ InsertOwner(t)
  \/ CommitAcceptance(t) \/ CommitBootstrap(t)
  \/ CheckRegistered(t) \/ InsertInvitation(t)

AccountsNext ==
  \/ \E t \in Clients : BeginCall(t) \/ CallStep(t) \/ Abort(t)
  \/ \E i \in InviteIds : RevokeInvitation(i) \/ ExpireInvitation(i)
  \/ \E n \in Names, ws \in Workspaces : CreateWorkspaceOwned(n, ws)

AccountsSpec == AccountsInit /\ [][AccountsNext]_accountVars

-----------------------------------------------------------------------------
\* An acceptance is all or nothing: every account bound to an email has spent
\* exactly one invitation sent there and owns a workspace, and no email has two
\* accounts, whoever accepts what at the same time.
AcceptanceIsAtomic ==
  \A e \in Emails :
    LET spent == {i \in InviteIds : Issued(i) /\ invitations[i].email = e /\ invitations[i].accepted}
    IN  /\ Cardinality(WithEmail(e)) = Cardinality(spent)
        /\ Cardinality(spent) <= 1
        /\ \A n \in WithEmail(e) : \E ws \in Workspaces : ownerOf[ws] = n

\* Once the administrator's revocation has returned, the link makes no account,
\* not even for an acceptance that had found it valid before.
RevokedIsNeverSpent ==
  [][\A i \in InviteIds :
       Issued(i) /\ invitations[i].revoked
       => invitations'[i].accepted = invitations[i].accepted]_accountVars

\* bootstrap cannot replace an account, nor add a second administrator, however
\* many are started at once.
OneAdministrator == Cardinality(Admins) <= 1

\* From the first account on no workspace is without an owner: one nobody owns
\* is out of everybody's reach for good.
EveryWorkspaceIsOwned ==
  Registered # {} => \A ws \in Workspaces : ownerOf[ws] # Nobody
=============================================================================
