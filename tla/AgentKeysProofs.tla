--------------------------- MODULE AgentKeysProofs ---------------------------
(***************************************************************************)
(* The safety of Accounts and AgentKeys for any number of requests, names, *)
(* invitations, workspaces, keys and agents.                               *)
(***************************************************************************)
EXTENDS AgentKeys, FiniteSetTheorems, TLAPS

-----------------------------------------------------------------------------
(***************************************************************************)
(* The inductive invariant of Accounts.                                    *)
(***************************************************************************)

\* A call is at a statement of its own operation.
CallFits(t) ==
  LET op == call[t].op IN
  /\ pc[t] = "idle" => op = "none"
  /\ pc[t] = "lockInvite" => op = "accept"
  /\ pc[t] \in {"lockBoot", "count"} => op = "bootstrap"
  /\ pc[t] \in {"insertOwner", "commit"} => op \in {"accept", "bootstrap"}
  /\ pc[t] \in {"registered", "insertInvite"} => op = "issue"

\* An acceptance has its invitation locked from the moment it finds it usable,
\* so that it is neither spent nor revoked meanwhile.
InvitationHeld(t) ==
  call[t].op = "accept" =>
    LET i == call[t].invite IN
    /\ Issued(i)
    /\ pc[t] \in {"insertOwner", "commit"} =>
         inviteLock[i] = t /\ ~invitations[i].accepted /\ ~invitations[i].revoked

\* A bootstrap that has counted no account holds the lock under which it counted,
\* and there is still none.
BootstrapHeld(t) ==
  call[t].op = "bootstrap" =>
    /\ pc[t] \in {"count", "insertOwner", "commit"} => bootLock = t
    /\ pc[t] \in {"insertOwner", "commit"} => Registered = {}

\* An inserted row meets no other row, committed or not.
RowFits(t) ==
  pc[t] = "commit" =>
    /\ call[t].name \notin Registered
    /\ EmailFor(call[t]) # NoEmail => WithEmail(EmailFor(call[t])) = {}
    /\ \A u \in Clients \ {t} : pc[u] = "commit" => ~Clash(call[t], call[u])

CallInv(t) ==
  /\ CallFits(t) /\ InvitationHeld(t) /\ BootstrapHeld(t) /\ RowFits(t)
  /\ call[t].op = "issue" => Registered # {}

\* Accounts and spent invitations of one address.
SpentOn(e) == {i \in InviteIds : Issued(i) /\ invitations[i].email = e /\ invitations[i].accepted}
AddressInv(e) ==
  /\ \A n, m \in WithEmail(e) : n = m
  /\ \A i, j \in SpentOn(e) : i = j
  /\ WithEmail(e) = {} <=> SpentOn(e) = {}
  /\ \A n \in WithEmail(e) : \E ws \in Workspaces : ownerOf[ws] = n

\* Invitations come after the first account; workspaces belong to accounts.
TablesInv ==
  /\ (\E i \in InviteIds : Issued(i)) => Registered # {}
  /\ \A n, m \in Admins : n = m
  /\ Registered # {} => \A ws \in Workspaces : ownerOf[ws] # Nobody
  /\ \A ws \in Workspaces : ownerOf[ws] \in Names => ownerOf[ws] \in Registered
  /\ \A e \in Emails : AddressInv(e)

AccountsInv ==
  /\ AccountsTypeOK
  /\ \A t \in Clients : CallInv(t)
  /\ TablesInv

-----------------------------------------------------------------------------
(***************************************************************************)
(* Facts about the types, and what every call keeps of the others.         *)
(***************************************************************************)

\* The fields of a call in progress.
LEMMA CallFields ==
  ASSUME AccountsTypeOK, NEW t \in Clients
  PROVE  /\ call[t].op \in {"none", "accept", "bootstrap", "issue"}
         /\ call[t].op = "accept" => call[t].invite \in InviteIds /\ call[t].name \in Names
         /\ call[t].op = "bootstrap" => call[t].name \in Names
         /\ call[t].op = "issue" => call[t].email \in Emails
         /\ pc[t] \in Steps
<1>1. /\ call[t] \in AcceptCall \cup BootstrapCall \cup IssueCall \cup {NoCall}
      /\ pc[t] \in Steps
  BY DEF AccountsTypeOK
<1>2. CASE call[t] \in AcceptCall
  BY <1>1, <1>2 DEF AcceptCall
<1>3. CASE call[t] \in BootstrapCall
  BY <1>1, <1>3 DEF BootstrapCall
<1>4. CASE call[t] \in IssueCall
  BY <1>1, <1>4 DEF IssueCall
<1>5. CASE call[t] = NoCall
  BY <1>1, <1>5 DEF NoCall
<1> QED
  BY <1>1, <1>2, <1>3, <1>4, <1>5

\* The fields of a row that exists.
LEMMA RowFields ==
  ASSUME AccountsTypeOK
  PROVE  /\ \A n \in Registered : owners[n] \in Owner /\ n \in Names
         /\ \A i \in InviteIds : Issued(i) => invitations[i] \in Invitation
BY DEF AccountsTypeOK, Registered, Issued

\* The address of a row to be inserted.
LEMMA EmailForType ==
  ASSUME AccountsTypeOK, NEW t \in Clients, InvitationHeld(t)
  PROVE  EmailFor(call[t]) \in Emails \cup {NoEmail}
<1>1. CASE call[t].op = "accept"
  <2>1. call[t].invite \in InviteIds /\ Issued(call[t].invite)
    BY <1>1, CallFields DEF InvitationHeld
  <2>2. invitations[call[t].invite].email \in Emails
    BY <2>1, RowFields DEF Invitation
  <2> QED
    BY <1>1, <2>2 DEF EmailFor
<1>2. CASE call[t].op # "accept"
  BY <1>2 DEF EmailFor
<1> QED
  BY <1>1, <1>2

\* What a step of t must leave alone for the other calls to stay as they are.
LEMMA OthersKept ==
  ASSUME AccountsInv, NEW t,
         \A u \in Clients \ {t} : pc'[u] = pc[u] /\ call'[u] = call[u],
         \A u \in Clients \ {t}, i \in InviteIds : inviteLock[i] = u =>
            /\ inviteLock'[i] = u
            /\ Issued(i) => /\ invitations'[i].accepted = invitations[i].accepted
                            /\ invitations'[i].revoked = invitations[i].revoked,
         \A u \in Clients \ {t} : bootLock = u => bootLock' = u,
         \A i \in InviteIds : Issued(i) =>
            Issued(i)' /\ invitations'[i].email = invitations[i].email,
         Registered # {} => Registered' # {},
         \A u \in Clients \ {t} :
            pc[u] \in {"insertOwner", "commit"} /\ call[u].op = "bootstrap" => Registered' = {},
         \A u \in Clients \ {t} : pc[u] = "commit" =>
            /\ call[u].name \notin Registered'
            /\ EmailFor(call[u]) # NoEmail => WithEmail(EmailFor(call[u]))' = {}
            /\ t \in Clients /\ pc'[t] = "commit" => ~Clash(call[t], call[u])',
         NEW u \in Clients \ {t}
  PROVE  CallInv(u)'
<1>1. AccountsTypeOK /\ \A v \in Clients : CallInv(v)
  BY DEF AccountsInv
<1>2. /\ CallInv(u) /\ CallFits(u) /\ InvitationHeld(u) /\ BootstrapHeld(u) /\ RowFits(u)
      /\ call[u].op = "issue" => Registered # {}
  BY <1>1 DEF CallInv
<1>3. CallFits(u)'
  BY <1>2 DEF CallFits
<1>4. call[u].op = "accept" => call[u].invite \in InviteIds /\ Issued(call[u].invite)
  BY <1>1, <1>2, CallFields DEF InvitationHeld
<1>5. InvitationHeld(u)'
  BY <1>2, <1>4 DEF InvitationHeld
<1>6. BootstrapHeld(u)'
  BY <1>2 DEF BootstrapHeld
<1>7. \A v \in Clients \ {t} : EmailFor(call[v])' = EmailFor(call[v])
  <2> SUFFICES ASSUME NEW v \in Clients \ {t} PROVE EmailFor(call[v])' = EmailFor(call[v])
    OBVIOUS
  <2>1. call[v].op = "accept" => call[v].invite \in InviteIds /\ Issued(call[v].invite)
    BY <1>1, CallFields DEF CallInv, InvitationHeld
  <2> QED
    BY <2>1 DEF EmailFor
<1>8. RowFits(u)'
  <2> SUFFICES ASSUME pc'[u] = "commit" PROVE RowFits(u)'
    BY DEF RowFits
  <2>1. pc[u] = "commit" /\ call'[u] = call[u]
    OBVIOUS
  <2>2. call'[u].name \notin Registered'
    BY <2>1
  <2>3. EmailFor(call[u])' # NoEmail => WithEmail(EmailFor(call[u]))' = {}
    BY <2>1, <1>7
  <2>4. ASSUME NEW v \in Clients \ {u}, pc'[v] = "commit"
        PROVE  ~Clash(call[u], call[v])'
    <3>1. CASE v = t
      <4>1. ~Clash(call[t], call[u])'
        BY <2>1, <2>4, <3>1
      <4> QED
        BY <4>1, <3>1 DEF Clash
    <3>2. CASE v # t
      <4>1. pc[v] = "commit" /\ call'[v] = call[v] /\ ~Clash(call[u], call[v])
        BY <1>2, <2>1, <2>4, <3>2 DEF RowFits
      <4> QED
        BY <1>7, <2>1, <3>2, <4>1 DEF Clash
    <3> QED
      BY <3>1, <3>2
  <2>5. WithEmail(EmailFor(call[u]))' = {} \/ EmailFor(call[u])' = NoEmail
    BY <2>3
  <2> QED
    BY <2>1, <2>2, <2>5, <2>4 DEF RowFits
<1>9. (call[u].op = "issue" => Registered # {})'
  BY <1>2
<1> QED
  BY <1>3, <1>5, <1>6, <1>8, <1>9 DEF CallInv

\* Without a write the tables are in order as before.
LEMMA TablesStay ==
  ASSUME NoWrite
  PROVE  /\ Registered' = Registered
         /\ \A e : WithEmail(e)' = WithEmail(e)
         /\ \A c : EmailFor(c)' = EmailFor(c)
         /\ TablesInv => TablesInv'
<1>1. owners' = owners /\ invitations' = invitations /\ ownerOf' = ownerOf
  BY DEF NoWrite
<1>2. Registered' = Registered
  BY <1>1 DEF Registered
<1>3. \A e : WithEmail(e)' = WithEmail(e)
  BY <1>1, <1>2 DEF WithEmail
<1>4. \A c : EmailFor(c)' = EmailFor(c)
  BY <1>1 DEF EmailFor
<1>5. Admins' = Admins
  BY <1>1, <1>2 DEF Admins
<1>6. \A i : Issued(i)' <=> Issued(i)
  BY <1>1 DEF Issued
<1>7. \A e : SpentOn(e)' = SpentOn(e)
  BY <1>1, <1>6 DEF SpentOn
<1>8. \A e : AddressInv(e) => AddressInv(e)'
  BY <1>1, <1>3, <1>7 DEF AddressInv
<1>9. TablesInv => TablesInv'
  BY <1>1, <1>2, <1>5, <1>6, <1>8 DEF TablesInv
<1> QED
  BY <1>2, <1>3, <1>4, <1>9

\* A statement of t that writes no table, when it leaves t itself in order.
LEMMA NothingWritten ==
  ASSUME AccountsInv, NEW t \in Clients, NoWrite, AccountsTypeOK',
         \A u \in Clients \ {t} : pc'[u] = pc[u] /\ call'[u] = call[u],
         \A u \in Clients \ {t}, i \in InviteIds : inviteLock[i] = u => inviteLock'[i] = u,
         \A u \in Clients \ {t} : bootLock = u => bootLock' = u,
         \A u \in Clients \ {t} : pc[u] = "commit" /\ pc'[t] = "commit" => ~Clash(call[t], call[u])',
         CallInv(t)'
  PROVE  AccountsInv'
<1>1. owners' = owners /\ invitations' = invitations /\ ownerOf' = ownerOf
  BY DEF NoWrite
<1>2. \A u \in Clients : CallInv(u)
  BY DEF AccountsInv
<1>3. /\ Registered' = Registered
      /\ \A e : WithEmail(e)' = WithEmail(e)
      /\ \A c : EmailFor(c)' = EmailFor(c)
      /\ TablesInv'
  BY TablesStay DEF AccountsInv
<1>4. \A i \in InviteIds : Issued(i) => Issued(i)' /\ invitations'[i].email = invitations[i].email
  BY <1>1 DEF Issued
<1>5. \A u \in Clients \ {t}, i \in InviteIds : inviteLock[i] = u =>
        /\ inviteLock'[i] = u
        /\ invitations'[i].accepted = invitations[i].accepted
        /\ invitations'[i].revoked = invitations[i].revoked
  BY <1>1
<1>6. \A u \in Clients \ {t} :
        pc[u] \in {"insertOwner", "commit"} /\ call[u].op = "bootstrap" => Registered' = {}
  BY <1>2, <1>3 DEF CallInv, BootstrapHeld
<1>7. \A u \in Clients \ {t} : pc[u] = "commit" =>
        /\ call[u].name \notin Registered'
        /\ EmailFor(call[u]) # NoEmail => WithEmail(EmailFor(call[u]))' = {}
        /\ t \in Clients /\ pc'[t] = "commit" => ~Clash(call[t], call[u])'
  <2> SUFFICES ASSUME NEW u \in Clients \ {t}, pc[u] = "commit"
               PROVE  /\ call[u].name \notin Registered'
                      /\ EmailFor(call[u]) # NoEmail => WithEmail(EmailFor(call[u]))' = {}
                      /\ t \in Clients /\ pc'[t] = "commit" => ~Clash(call[t], call[u])'
    OBVIOUS
  <2>1. RowFits(u)
    BY <1>2 DEF CallInv
  <2>2. call[u].name \notin Registered'
    BY <1>3, <2>1 DEF RowFits
  <2>3. EmailFor(call[u])' = EmailFor(call[u])
    BY <1>3
  <2>4. EmailFor(call[u]) # NoEmail => WithEmail(EmailFor(call[u])) = {}
    BY <2>1 DEF RowFits
  <2>5. WithEmail(EmailFor(call[u]))' = WithEmail(EmailFor(call[u]))
    BY <1>3, <2>3
  <2> QED
    BY <2>2, <2>4, <2>5
<1>8. \A u \in Clients \ {t} : CallInv(u)'
  BY <1>3, <1>4, <1>5, <1>6, <1>7, OthersKept
<1> QED
  BY <1>3, <1>8 DEF AccountsInv

\* The end of a call, whatever it wrote.
LEMMA FinishKeeps ==
  ASSUME AccountsTypeOK, NEW t \in Clients, Finish(t),
         owners' \in [Names -> Owner \cup {NoRow}],
         invitations' \in [InviteIds -> Invitation \cup {NoRow}],
         ownerOf' \in [Workspaces -> Names \cup {Nobody, NoRow}]
  PROVE  /\ AccountsTypeOK'
         /\ pc'[t] = "idle" /\ call'[t] = NoCall
         /\ \A u \in Clients \ {t} : pc'[u] = pc[u] /\ call'[u] = call[u]
         /\ \A u \in Clients \ {t}, i \in InviteIds : inviteLock[i] = u => inviteLock'[i] = u
         /\ \A u \in Clients \ {t} : bootLock = u => bootLock' = u
         /\ CallInv(t)'
<1>1. /\ pc' \in [Clients -> Steps] /\ pc'[t] = "idle"
      /\ \A u \in Clients \ {t} : pc'[u] = pc[u]
  BY DEF AccountsTypeOK, Finish, Goto, Steps
<1>2. /\ call' \in [Clients -> AcceptCall \cup BootstrapCall \cup IssueCall \cup {NoCall}]
      /\ call'[t] = NoCall
      /\ \A u \in Clients \ {t} : call'[u] = call[u]
  BY DEF AccountsTypeOK, Finish
<1>3. inviteLock' \in [InviteIds -> Clients \cup {NoTx}]
  BY DEF AccountsTypeOK, Finish
<1>4. bootLock' \in Clients \cup {NoTx}
  BY DEF AccountsTypeOK, Finish
<1>5. AccountsTypeOK'
  BY <1>1, <1>2, <1>3, <1>4 DEF AccountsTypeOK
<1>6. \A u \in Clients \ {t}, i \in InviteIds : inviteLock[i] = u => inviteLock'[i] = u
  BY DEF Finish
<1>7. \A u \in Clients \ {t} : bootLock = u => bootLock' = u
  BY DEF Finish
<1>8. call'[t].op = "none"
  BY <1>2 DEF NoCall
<1>9. CallInv(t)'
  BY <1>1, <1>8 DEF CallInv, CallFits, InvitationHeld, BootstrapHeld, RowFits
<1> QED
  BY <1>1, <1>2, <1>5, <1>6, <1>7, <1>9

\* A call that ends without a write.
LEMMA ReturnKeeps ==
  ASSUME AccountsInv, NEW t \in Clients, Return(t)
  PROVE  AccountsInv'
<1>1. AccountsTypeOK /\ Finish(t) /\ NoWrite
  BY DEF AccountsInv, Return
<1>2. /\ owners' \in [Names -> Owner \cup {NoRow}]
      /\ invitations' \in [InviteIds -> Invitation \cup {NoRow}]
      /\ ownerOf' \in [Workspaces -> Names \cup {Nobody, NoRow}]
  BY <1>1 DEF AccountsTypeOK, NoWrite
<1>3. /\ AccountsTypeOK'
      /\ pc'[t] # "commit"
      /\ \A u \in Clients \ {t} : pc'[u] = pc[u] /\ call'[u] = call[u]
      /\ \A u \in Clients \ {t}, i \in InviteIds : inviteLock[i] = u => inviteLock'[i] = u
      /\ \A u \in Clients \ {t} : bootLock = u => bootLock' = u
      /\ CallInv(t)'
  BY <1>1, <1>2, FinishKeeps
<1> QED
  BY <1>1, <1>3, NothingWritten

\* A statement that writes nothing and takes the call t to its next step.
LEMMA Advance ==
  ASSUME AccountsInv, NEW t \in Clients, NEW step \in Steps, Goto(t, step), NoWrite,
         call' \in [Clients -> AcceptCall \cup BootstrapCall \cup IssueCall \cup {NoCall}],
         inviteLock' \in [InviteIds -> Clients \cup {NoTx}],
         bootLock' \in Clients \cup {NoTx}
  PROVE  /\ AccountsTypeOK'
         /\ pc'[t] = step
         /\ \A u \in Clients \ {t} : pc'[u] = pc[u]
<1>1. AccountsTypeOK
  BY DEF AccountsInv
<1>2. pc' \in [Clients -> Steps] /\ pc'[t] = step /\ \A u \in Clients \ {t} : pc'[u] = pc[u]
  BY <1>1 DEF AccountsTypeOK, Goto
<1> QED
  BY <1>1, <1>2 DEF AccountsTypeOK, NoWrite

\* A call begins: an acceptance for an invitation that exists, an issue by an
\* administrator.
LEMMA BeginKeeps ==
  ASSUME AccountsInv, NEW t \in Clients, NEW c, NEW step \in Steps, Begin(t, c, step),
         \/ step = "lockBoot" /\ c \in BootstrapCall
         \/ step = "lockInvite" /\ c \in AcceptCall /\ Issued(c.invite)
         \/ step = "registered" /\ c \in IssueCall /\ Admins # {}
  PROVE  AccountsInv'
<1>1. AccountsTypeOK
  BY DEF AccountsInv
<1>2. /\ NoWrite /\ Goto(t, step) /\ inviteLock' = inviteLock /\ bootLock' = bootLock
      /\ call' = [call EXCEPT ![t] = c]
  BY DEF Begin
<1>3. /\ call' \in [Clients -> AcceptCall \cup BootstrapCall \cup IssueCall \cup {NoCall}]
      /\ call'[t] = c
      /\ \A u \in Clients \ {t} : call'[u] = call[u]
  BY <1>1, <1>2 DEF AccountsTypeOK
<1>4. inviteLock' \in [InviteIds -> Clients \cup {NoTx}] /\ bootLock' \in Clients \cup {NoTx}
  BY <1>1, <1>2 DEF AccountsTypeOK
<1>5. AccountsTypeOK' /\ pc'[t] = step /\ \A u \in Clients \ {t} : pc'[u] = pc[u]
  BY <1>2, <1>3, <1>4, Advance
<1>6. CallInv(t)'
  <2>1. Registered' = Registered /\ Admins \subseteq Registered
    BY <1>2, TablesStay DEF Admins
  <2>2. \A i : Issued(i)' <=> Issued(i)
    BY <1>2 DEF NoWrite, Issued
  <2>3. CASE step = "lockBoot" /\ c \in BootstrapCall
    <3>1. c.op = "bootstrap"
      BY <2>3 DEF BootstrapCall
    <3> QED
      BY <1>3, <1>5, <2>3, <3>1 DEF CallInv, CallFits, InvitationHeld, BootstrapHeld, RowFits
  <2>4. CASE step = "lockInvite" /\ c \in AcceptCall /\ Issued(c.invite)
    <3>1. c.op = "accept"
      BY <2>4 DEF AcceptCall
    <3> QED
      BY <1>3, <1>5, <2>2, <2>4, <3>1 DEF CallInv, CallFits, InvitationHeld, BootstrapHeld, RowFits
  <2>5. CASE step = "registered" /\ c \in IssueCall /\ Admins # {}
    <3>1. c.op = "issue"
      BY <2>5 DEF IssueCall
    <3> QED
      BY <1>3, <1>5, <2>1, <2>5, <3>1 DEF CallInv, CallFits, InvitationHeld, BootstrapHeld, RowFits
  <2> QED
    BY <2>3, <2>4, <2>5
<1>7. pc'[t] # "commit"
  BY <1>5
<1> QED
  BY <1>2, <1>3, <1>5, <1>6, <1>7, NothingWritten

\* BeginCall starts one of the three with its own first step.
LEMMA BeginCallKeeps ==
  ASSUME AccountsInv, NEW t \in Clients, BeginCall(t)
  PROVE  AccountsInv'
<1>1. CASE \E n \in Names : Begin(t, [op |-> "bootstrap", name |-> n], "lockBoot")
  <2>1. PICK n \in Names : Begin(t, [op |-> "bootstrap", name |-> n], "lockBoot")
    BY <1>1
  <2>2. [op |-> "bootstrap", name |-> n] \in BootstrapCall /\ "lockBoot" \in Steps
    BY DEF BootstrapCall, Steps
  <2> QED
    BY <2>1, <2>2, BeginKeeps
<1>2. CASE \E i \in InviteIds, n \in Names :
             Issued(i) /\ Begin(t, Acceptance(i, n), "lockInvite")
  <2>1. PICK i \in InviteIds, n \in Names :
             Issued(i) /\ Begin(t, Acceptance(i, n), "lockInvite")
    BY <1>2
  <2> DEFINE c == Acceptance(i, n)
  <2>2. c \in AcceptCall /\ c.invite = i /\ "lockInvite" \in Steps
    <3>1. (~invitations[i].expired) \in BOOLEAN
      OBVIOUS
    <3> QED BY <3>1 DEF Acceptance, AcceptCall, Steps
  <2>3. Begin(t, c, "lockInvite") /\ Issued(c.invite)
    BY <2>1, <2>2
  <2> HIDE DEF c
  <2> QED
    BY <2>2, <2>3, BeginKeeps
<1>3. CASE \E e \in Emails : Admins # {} /\ Begin(t, [op |-> "issue", email |-> e], "registered")
  <2>1. PICK e \in Emails : Admins # {} /\ Begin(t, [op |-> "issue", email |-> e], "registered")
    BY <1>3
  <2>2. [op |-> "issue", email |-> e] \in IssueCall /\ "registered" \in Steps
    BY DEF IssueCall, Steps
  <2> QED
    BY <2>1, <2>2, BeginKeeps
<1> QED
  BY <1>1, <1>2, <1>3 DEF BeginCall

\* A usable invitation is locked; it stays usable for the call that locked it.
LEMMA LockInvitationKeeps ==
  ASSUME AccountsInv, NEW t \in Clients, LockInvitation(t)
  PROVE  AccountsInv'
<1> DEFINE i == call[t].invite
<1>1. AccountsTypeOK /\ CallInv(t) /\ pc[t] = "lockInvite" /\ inviteLock[i] = NoTx
  BY DEF AccountsInv, LockInvitation
<1>2. call[t].op = "accept" /\ i \in InviteIds
  BY <1>1, CallFields DEF CallInv, CallFits
<1>3. CASE ~Usable(t)
  BY <1>3, ReturnKeeps DEF LockInvitation
<1>4. CASE Usable(t)
  <2>1. /\ inviteLock' = [inviteLock EXCEPT ![i] = t]
        /\ Goto(t, "insertOwner") /\ NoWrite /\ bootLock' = bootLock /\ call' = call
    BY <1>4 DEF LockInvitation
  <2>2. /\ inviteLock' \in [InviteIds -> Clients \cup {NoTx}] /\ inviteLock'[i] = t
        /\ \A u \in Clients \ {t}, j \in InviteIds : inviteLock[j] = u => inviteLock'[j] = u
    BY <1>1, <1>2, <2>1, AccountsAssumption DEF AccountsTypeOK
  <2>3. /\ call' \in [Clients -> AcceptCall \cup BootstrapCall \cup IssueCall \cup {NoCall}]
        /\ bootLock' \in Clients \cup {NoTx} /\ "insertOwner" \in Steps
    BY <1>1, <2>1 DEF AccountsTypeOK, Steps
  <2>4. AccountsTypeOK' /\ pc'[t] = "insertOwner" /\ \A u \in Clients \ {t} : pc'[u] = pc[u]
    BY <2>1, <2>2, <2>3, Advance
  <2>5. CallInv(t)'
    <3>1. Issued(i) /\ ~invitations[i].accepted /\ ~invitations[i].revoked
      BY <1>4 DEF Usable, Unspent
    <3>2. call'[t].op = "accept" /\ call'[t].invite = i
      BY <1>2, <2>1
    <3>3. InvitationHeld(t)'
      BY <2>1, <2>2, <3>1, <3>2 DEF InvitationHeld, NoWrite, Issued
    <3> QED
      BY <2>4, <3>2, <3>3 DEF CallInv, CallFits, BootstrapHeld, RowFits
  <2> QED
    BY <2>1, <2>2, <2>4, <2>5, NothingWritten
<1> QED
  BY <1>3, <1>4

\* The advisory lock of Bootstrap is taken.
LEMMA LockBootstrapKeeps ==
  ASSUME AccountsInv, NEW t \in Clients, LockBootstrap(t)
  PROVE  AccountsInv'
<1>1. AccountsTypeOK /\ CallInv(t) /\ pc[t] = "lockBoot" /\ bootLock = NoTx
  BY DEF AccountsInv, LockBootstrap
<1>2. call[t].op = "bootstrap"
  BY <1>1 DEF CallInv, CallFits
<1>3. bootLock' = t /\ Goto(t, "count") /\ NoWrite /\ inviteLock' = inviteLock /\ call' = call
  BY DEF LockBootstrap
<1>4. /\ call' \in [Clients -> AcceptCall \cup BootstrapCall \cup IssueCall \cup {NoCall}]
      /\ inviteLock' \in [InviteIds -> Clients \cup {NoTx}]
      /\ bootLock' \in Clients \cup {NoTx} /\ "count" \in Steps
  BY <1>1, <1>3 DEF AccountsTypeOK, Steps
<1>5. AccountsTypeOK' /\ pc'[t] = "count" /\ \A u \in Clients \ {t} : pc'[u] = pc[u]
  BY <1>3, <1>4, Advance
<1>6. CallInv(t)'
  BY <1>2, <1>3, <1>5 DEF CallInv, CallFits, InvitationHeld, BootstrapHeld, RowFits
<1>7. \A u \in Clients \ {t} : bootLock = u => bootLock' = u
  BY <1>1, AccountsAssumption
<1> QED
  BY <1>3, <1>5, <1>6, <1>7, NothingWritten

\* Under the lock there is no account when the count says so.
LEMMA CountOwnersKeeps ==
  ASSUME AccountsInv, NEW t \in Clients, CountOwners(t)
  PROVE  AccountsInv'
<1>1. AccountsTypeOK /\ CallInv(t) /\ pc[t] = "count"
  BY DEF AccountsInv, CountOwners
<1>2. CASE Registered # {}
  BY <1>2, ReturnKeeps DEF CountOwners
<1>3. CASE Registered = {}
  <2>1. Goto(t, "insertOwner") /\ NoWrite /\ inviteLock' = inviteLock /\ bootLock' = bootLock /\ call' = call
    BY <1>3 DEF CountOwners, LocksKept
  <2>2. /\ call' \in [Clients -> AcceptCall \cup BootstrapCall \cup IssueCall \cup {NoCall}]
        /\ inviteLock' \in [InviteIds -> Clients \cup {NoTx}]
        /\ bootLock' \in Clients \cup {NoTx} /\ "insertOwner" \in Steps
    BY <1>1, <2>1 DEF AccountsTypeOK, Steps
  <2>3. AccountsTypeOK' /\ pc'[t] = "insertOwner" /\ \A u \in Clients \ {t} : pc'[u] = pc[u]
    BY <2>1, <2>2, Advance
  <2>4. call[t].op = "bootstrap" /\ bootLock = t
    BY <1>1 DEF CallInv, CallFits, BootstrapHeld
  <2>5. Registered' = {}
    BY <1>3, <2>1, TablesStay
  <2>6. CallInv(t)'
    BY <2>1, <2>3, <2>4, <2>5 DEF CallInv, CallFits, InvitationHeld, BootstrapHeld, RowFits
  <2> QED
    BY <2>1, <2>3, <2>6, NothingWritten
<1> QED
  BY <1>2, <1>3

\* An inserted row meets neither a committed one nor an uncommitted one.
LEMMA InsertOwnerKeeps ==
  ASSUME AccountsInv, NEW t \in Clients, InsertOwner(t)
  PROVE  AccountsInv'
<1> DEFINE c == call[t]
           taken == c.name \in Registered \/ (EmailFor(c) # NoEmail /\ WithEmail(EmailFor(c)) # {})
<1>1. AccountsTypeOK /\ CallInv(t) /\ pc[t] = "insertOwner"
  BY DEF AccountsInv, InsertOwner
<1>2. CASE taken
  BY <1>2, ReturnKeeps DEF InsertOwner
<1>3. CASE ~taken
  <2>1. Goto(t, "commit") /\ NoWrite /\ inviteLock' = inviteLock /\ bootLock' = bootLock /\ call' = call
    BY <1>3 DEF InsertOwner, LocksKept
  <2>2. /\ call' \in [Clients -> AcceptCall \cup BootstrapCall \cup IssueCall \cup {NoCall}]
        /\ inviteLock' \in [InviteIds -> Clients \cup {NoTx}]
        /\ bootLock' \in Clients \cup {NoTx} /\ "commit" \in Steps
    BY <1>1, <2>1 DEF AccountsTypeOK, Steps
  <2>3. AccountsTypeOK' /\ pc'[t] = "commit" /\ \A u \in Clients \ {t} : pc'[u] = pc[u]
    BY <2>1, <2>2, Advance
  <2>4. /\ Registered' = Registered
        /\ \A e : WithEmail(e)' = WithEmail(e)
        /\ \A d : EmailFor(d)' = EmailFor(d)
    BY <2>1, TablesStay
  <2>5. \A u \in Clients : pc[u] = "commit" => ~Clash(c, call[u])
    BY DEF InsertOwner
  <2>6. \A u \in Clients \ {t} : pc[u] = "commit" => ~Clash(call[t], call[u])'
    <3> SUFFICES ASSUME NEW u \in Clients \ {t}, pc[u] = "commit" PROVE ~Clash(call[t], call[u])'
      OBVIOUS
    <3>1. ~Clash(call[t], call[u]) /\ call'[u] = call[u] /\ call'[t] = call[t]
      BY <2>1, <2>5
    <3>2. EmailFor(call[t])' = EmailFor(call[t]) /\ EmailFor(call[u])' = EmailFor(call[u])
      BY <2>1, <2>4
    <3> QED
      BY <3>1, <3>2 DEF Clash
  <2>7. RowFits(t)'
    <3>1. call'[t].name \notin Registered'
      BY <1>3, <2>1, <2>4
    <3>2. EmailFor(call[t])' = EmailFor(call[t])
      BY <2>1, <2>4
    <3>3. EmailFor(call[t])' # NoEmail => WithEmail(EmailFor(call[t]))' = {}
      BY <1>3, <2>4, <3>2
    <3>4. EmailFor(call[t])' = NoEmail \/ WithEmail(EmailFor(call[t]))' = {}
      BY <3>3
    <3>5. \A u \in Clients \ {t} : pc'[u] = "commit" => ~Clash(call[t], call[u])'
      BY <2>3, <2>6
    <3> QED
      BY <3>1, <3>4, <3>5 DEF RowFits
  <2>8. InvitationHeld(t)' /\ BootstrapHeld(t)'
    <3>1. InvitationHeld(t) /\ BootstrapHeld(t)
      BY <1>1 DEF CallInv
    <3>2. InvitationHeld(t)'
      BY <1>1, <2>1, <3>1 DEF InvitationHeld, NoWrite, Issued
    <3>3. BootstrapHeld(t)'
      BY <1>1, <2>1, <2>4, <3>1 DEF BootstrapHeld
    <3> QED
      BY <3>2, <3>3
  <2>9. CallFits(t)' /\ (call[t].op = "issue" => Registered # {})'
    BY <1>1, <2>1, <2>3 DEF CallInv, CallFits
  <2>10. CallInv(t)'
    BY <2>7, <2>8, <2>9 DEF CallInv
  <2> QED
    BY <2>1, <2>3, <2>6, <2>10, NothingWritten
<1> QED
  BY <1>2, <1>3

\* Issuing looks for an account with the address.
LEMMA CheckRegisteredKeeps ==
  ASSUME AccountsInv, NEW t \in Clients, CheckRegistered(t)
  PROVE  AccountsInv'
<1>1. AccountsTypeOK /\ CallInv(t) /\ pc[t] = "registered"
  BY DEF AccountsInv, CheckRegistered
<1>2. CASE WithEmail(call[t].email) # {}
  BY <1>2, ReturnKeeps DEF CheckRegistered
<1>3. CASE WithEmail(call[t].email) = {}
  <2>1. Goto(t, "insertInvite") /\ NoWrite /\ inviteLock' = inviteLock /\ bootLock' = bootLock /\ call' = call
    BY <1>3 DEF CheckRegistered, LocksKept
  <2>2. /\ call' \in [Clients -> AcceptCall \cup BootstrapCall \cup IssueCall \cup {NoCall}]
        /\ inviteLock' \in [InviteIds -> Clients \cup {NoTx}]
        /\ bootLock' \in Clients \cup {NoTx} /\ "insertInvite" \in Steps
    BY <1>1, <2>1 DEF AccountsTypeOK, Steps
  <2>3. AccountsTypeOK' /\ pc'[t] = "insertInvite" /\ \A u \in Clients \ {t} : pc'[u] = pc[u]
    BY <2>1, <2>2, Advance
  <2>4. call[t].op = "issue" /\ Registered # {}
    BY <1>1 DEF CallInv, CallFits
  <2>5. Registered' = Registered
    BY <2>1, TablesStay
  <2>6. CallInv(t)'
    BY <2>1, <2>3, <2>4, <2>5 DEF CallInv, CallFits, InvitationHeld, BootstrapHeld, RowFits
  <2> QED
    BY <2>1, <2>3, <2>6, NothingWritten
<1> QED
  BY <1>2, <1>3

\* An acceptance commits: the account, its workspace and the spent invitation
\* come at once, where there was none of them.
LEMMA CommitAcceptanceKeeps ==
  ASSUME AccountsInv, NEW t \in Clients, CommitAcceptance(t)
  PROVE  AccountsInv'
<1>0. PICK n, i, e : n = call[t].name /\ i = call[t].invite /\ e = EmailFor(call[t])
  OBVIOUS
<1>1. /\ AccountsTypeOK /\ TablesInv /\ \A u \in Clients : CallInv(u)
      /\ pc[t] = "commit" /\ call[t].op = "accept"
  BY DEF AccountsInv, CommitAcceptance
<1>2. PICK ws \in Workspaces : ~MadeWorkspace(ws) /\ ownerOf' = [ownerOf EXCEPT ![ws] = n]
  BY <1>0 DEF CommitAcceptance
<1>3. /\ owners' = [owners EXCEPT ![n] = [email |-> e, role |-> "user"]]
      /\ invitations' = [invitations EXCEPT ![i].accepted = TRUE]
      /\ Finish(t)
  BY <1>0 DEF CommitAcceptance
<1>4. i \in InviteIds /\ n \in Names
  BY <1>0, <1>1, CallFields
<1>5. Issued(i) /\ inviteLock[i] = t /\ ~invitations[i].accepted /\ ~invitations[i].revoked
  BY <1>0, <1>1 DEF CallInv, InvitationHeld
<1>6. invitations[i] \in Invitation /\ e = invitations[i].email /\ e \in Emails /\ e # NoEmail
  <2>1. invitations[i] \in Invitation
    BY <1>1, <1>4, <1>5, RowFields
  <2>2. invitations[i].email \in Emails
    BY <2>1 DEF Invitation
  <2> QED
    BY <1>0, <1>1, <2>1, <2>2, AccountsAssumption DEF EmailFor
<1>7. n \notin Registered /\ WithEmail(e) = {} /\ Registered # {}
  BY <1>0, <1>1, <1>4, <1>5, <1>6 DEF CallInv, RowFits, TablesInv
<1>8. \A u \in Clients \ {t} : pc[u] = "commit" => ~Clash(call[t], call[u])
  BY <1>1 DEF CallInv, RowFits
<1>9. /\ owners' \in [Names -> Owner \cup {NoRow}]
      /\ owners'[n] = [email |-> e, role |-> "user"] /\ owners'[n] \in Owner
      /\ \A m \in Names \ {n} : owners'[m] = owners[m]
  <2>1. [email |-> e, role |-> "user"] \in Owner
    BY <1>6 DEF Owner
  <2> QED
    BY <1>1, <1>3, <1>4, <2>1 DEF AccountsTypeOK
<1>10. /\ invitations' \in [InviteIds -> Invitation \cup {NoRow}]
       /\ invitations'[i] \in Invitation
       /\ invitations'[i].email = e /\ invitations'[i].accepted
       /\ invitations'[i].revoked = invitations[i].revoked
       /\ \A j \in InviteIds \ {i} : invitations'[j] = invitations[j]
  <2>1. invitations'[i] = [invitations[i] EXCEPT !.accepted = TRUE]
    BY <1>1, <1>3, <1>4 DEF AccountsTypeOK
  <2>2. /\ invitations'[i] \in Invitation /\ invitations'[i].email = e
        /\ invitations'[i].accepted
        /\ invitations'[i].revoked = invitations[i].revoked
    BY <1>6, <2>1 DEF Invitation
  <2>3. /\ invitations' \in [InviteIds -> Invitation \cup {NoRow}]
        /\ \A j \in InviteIds \ {i} : invitations'[j] = invitations[j]
    BY <1>1, <1>3, <1>4, <2>1, <2>2 DEF AccountsTypeOK
  <2> QED
    BY <2>2, <2>3
<1>11. /\ ownerOf' \in [Workspaces -> Names \cup {Nobody, NoRow}]
       /\ ownerOf'[ws] = n
       /\ \A w \in Workspaces \ {ws} : ownerOf'[w] = ownerOf[w]
  BY <1>1, <1>2, <1>4 DEF AccountsTypeOK
<1>12. NoRow \notin Owner \cup Invitation \cup Names \cup {Nobody} /\ Nobody \notin Names
  BY AccountsAssumption
<1>13. Registered' = Registered \cup {n}
  BY <1>4, <1>9, <1>12 DEF Registered
<1>14. WithEmail(e)' = {n} /\ \A f \in (Emails \cup {NoEmail}) \ {e} : WithEmail(f)' = WithEmail(f)
  <2>1. owners'[n].email = e
    BY <1>9
  <2>2. \A m \in Registered : m \in Names \ {n}
    BY <1>7 DEF Registered
  <2> QED
    BY <1>7, <1>9, <1>13, <2>1, <2>2 DEF WithEmail
<1>15. Admins' = Admins
  <2>1. owners'[n].role = "user"
    BY <1>9
  <2>2. \A m \in Registered : m \in Names \ {n}
    BY <1>7 DEF Registered
  <2> QED
    BY <1>9, <1>13, <2>1, <2>2 DEF Admins
<1>16. \A j \in InviteIds : /\ Issued(j)' <=> Issued(j)
                            /\ Issued(j) => invitations'[j].email = invitations[j].email
  BY <1>5, <1>6, <1>10, <1>12 DEF Issued
<1>17. SpentOn(e)' = {i} /\ \A f \in Emails \ {e} : SpentOn(f)' = SpentOn(f)
  <2>1. SpentOn(e) = {}
    BY <1>1, <1>6, <1>7 DEF TablesInv, AddressInv
  <2>2. \A f \in Emails, j \in InviteIds \ {i} : j \in SpentOn(f)' <=> j \in SpentOn(f)
    BY <1>10, <1>16 DEF SpentOn
  <2>3. \A f \in Emails : (i \in SpentOn(f)' <=> f = e) /\ i \notin SpentOn(f)
    BY <1>4, <1>5, <1>10, <1>16 DEF SpentOn
  <2>4. \A f : SpentOn(f) \subseteq InviteIds /\ SpentOn(f)' \subseteq InviteIds
    BY DEF SpentOn
  <2>5. \A j : j \in SpentOn(e)' <=> j = i
    BY <1>4, <1>6, <2>1, <2>2, <2>3, <2>4
  <2>6. ASSUME NEW f \in Emails \ {e} PROVE SpentOn(f)' = SpentOn(f)
    <3>1. \A j : j \in SpentOn(f)' <=> j \in SpentOn(f)
      BY <2>2, <2>3, <2>4
    <3> QED
      BY <3>1
  <2> QED
    BY <2>5, <2>6
<1>18. TablesInv'
  <2>1. \A f \in Emails : AddressInv(f)'
    <3> SUFFICES ASSUME NEW f \in Emails PROVE AddressInv(f)'
      OBVIOUS
    <3>1. CASE f = e
      BY <1>11, <1>14, <1>17, <3>1 DEF AddressInv
    <3>2. CASE f # e
      <4>1. WithEmail(f)' = WithEmail(f) /\ SpentOn(f)' = SpentOn(f)
        BY <1>14, <1>17, <3>2
      <4>2. AddressInv(f) /\ WithEmail(f) \subseteq Names
        BY <1>1 DEF TablesInv, WithEmail, Registered
      <4>3. \A w \in Workspaces : ownerOf[w] \in Names => ownerOf'[w] = ownerOf[w]
        BY <1>2, <1>11, <1>12 DEF MadeWorkspace
      <4> QED
        BY <4>1, <4>2, <4>3 DEF AddressInv
    <3> QED
      BY <3>1, <3>2
  <2>2. \A w \in Workspaces : ownerOf'[w] # Nobody
    BY <1>1, <1>4, <1>7, <1>11, <1>12 DEF TablesInv
  <2>3. \A w \in Workspaces : ownerOf'[w] \in Names => ownerOf'[w] \in Registered'
    BY <1>1, <1>11, <1>13 DEF TablesInv
  <2>4. \A m, k \in Admins' : m = k
    BY <1>1, <1>15 DEF TablesInv
  <2>5. Registered' # {}
    BY <1>13
  <2> QED
    BY <2>1, <2>2, <2>3, <2>4, <2>5 DEF TablesInv
<1>19. /\ AccountsTypeOK' /\ CallInv(t)' /\ pc'[t] = "idle"
       /\ \A u \in Clients \ {t} : pc'[u] = pc[u] /\ call'[u] = call[u]
       /\ \A u \in Clients \ {t}, j \in InviteIds : inviteLock[j] = u => inviteLock'[j] = u
       /\ \A u \in Clients \ {t} : bootLock = u => bootLock' = u
  BY <1>1, <1>3, <1>9, <1>10, <1>11, FinishKeeps
<1>20. \A u \in Clients \ {t} : CallInv(u)'
  <2>1. \A u \in Clients \ {t}, j \in InviteIds : inviteLock[j] = u =>
          /\ inviteLock'[j] = u
          /\ Issued(j) => /\ invitations'[j].accepted = invitations[j].accepted
                          /\ invitations'[j].revoked = invitations[j].revoked
    BY <1>5, <1>10, <1>19
  <2>2. \A u \in Clients \ {t} :
          pc[u] \in {"insertOwner", "commit"} /\ call[u].op = "bootstrap" => Registered' = {}
    BY <1>1, <1>7 DEF CallInv, BootstrapHeld
  <2>3. \A u \in Clients \ {t} : pc[u] = "commit" =>
          /\ call[u].name \notin Registered'
          /\ EmailFor(call[u]) # NoEmail => WithEmail(EmailFor(call[u]))' = {}
          /\ t \in Clients /\ pc'[t] = "commit" => ~Clash(call[t], call[u])'
    <3> SUFFICES ASSUME NEW u \in Clients \ {t}, pc[u] = "commit"
                 PROVE  /\ call[u].name \notin Registered'
                        /\ EmailFor(call[u]) # NoEmail => WithEmail(EmailFor(call[u]))' = {}
      BY <1>19
    <3>1. RowFits(u) /\ InvitationHeld(u) /\ CallFits(u)
      BY <1>1 DEF CallInv
    <3>2. ~Clash(call[t], call[u])
      BY <1>8
    <3>3. EmailFor(call[u]) \in Emails \cup {NoEmail}
      BY <1>1, <3>1, EmailForType
    <3>4. EmailFor(call[u])' = EmailFor(call[u])
      <4>1. call[u].op = "accept" => call[u].invite \in InviteIds /\ Issued(call[u].invite)
        BY <1>1, <3>1, CallFields DEF InvitationHeld
      <4> QED
        BY <1>16, <1>19, <4>1 DEF EmailFor
    <3>5. call[u].name \notin Registered'
      BY <1>0, <1>13, <3>1, <3>2 DEF RowFits, Clash
    <3>6. ASSUME EmailFor(call[u]) # NoEmail PROVE WithEmail(EmailFor(call[u]))' = {}
      <4>1. EmailFor(call[u]) # e /\ WithEmail(EmailFor(call[u])) = {}
        BY <1>0, <3>1, <3>2, <3>6 DEF RowFits, Clash
      <4> QED
        BY <1>14, <3>3, <3>4, <4>1
    <3> QED
      BY <3>5, <3>6
  <2>4. Registered # {} => Registered' # {}
    BY <1>13
  <2>5. \A j \in InviteIds : Issued(j) => Issued(j)' /\ invitations'[j].email = invitations[j].email
    BY <1>16
  <2> QED
    BY <1>19, <2>1, <2>2, <2>3, <2>4, <2>5, OthersKept
<1> QED
  BY <1>18, <1>19, <1>20 DEF AccountsInv

\* The first account commits: the lock under which the count was made excludes
\* every other bootstrap, and without an account there is no invitation.
LEMMA CommitBootstrapKeeps ==
  ASSUME AccountsInv, NEW t \in Clients, CommitBootstrap(t)
  PROVE  AccountsInv'
<1>0. PICK n : n = call[t].name
  OBVIOUS
<1>1. /\ AccountsTypeOK /\ TablesInv /\ \A u \in Clients : CallInv(u)
      /\ pc[t] = "commit" /\ call[t].op = "bootstrap"
  BY DEF AccountsInv, CommitBootstrap
<1>2. /\ owners' = [owners EXCEPT ![n] = [email |-> NoEmail, role |-> "admin"]]
      /\ ownerOf' = [ws \in Workspaces |-> IF ownerOf[ws] = Nobody THEN n ELSE ownerOf[ws]]
      /\ invitations' = invitations
      /\ Finish(t)
  BY <1>0 DEF CommitBootstrap
<1>3. n \in Names
  BY <1>0, <1>1, CallFields
<1>4. bootLock = t /\ Registered = {} /\ \A i \in InviteIds : ~Issued(i)
  BY <1>1 DEF CallInv, BootstrapHeld, TablesInv
<1>5. /\ NoRow \notin Owner \cup Names \cup {Nobody} /\ Nobody \notin Names /\ NoEmail \notin Emails
  BY AccountsAssumption
<1>6. /\ owners' \in [Names -> Owner \cup {NoRow}]
      /\ owners'[n] \in Owner /\ owners'[n].email = NoEmail
      /\ \A m \in Names \ {n} : owners'[m] = NoRow
  <2>1. [email |-> NoEmail, role |-> "admin"] \in Owner
    BY DEF Owner
  <2>2. \A m \in Names : owners[m] = NoRow
    BY <1>4 DEF Registered
  <2> QED
    BY <1>1, <1>2, <1>3, <2>1, <2>2 DEF AccountsTypeOK
<1>7. Registered' = {n}
  BY <1>3, <1>5, <1>6 DEF Registered
<1>8. ownerOf' \in [Workspaces -> Names \cup {Nobody, NoRow}]
  BY <1>1, <1>2, <1>3 DEF AccountsTypeOK
<1>9. invitations' \in [InviteIds -> Invitation \cup {NoRow}] /\ \A i \in InviteIds : ~Issued(i)'
  BY <1>1, <1>2, <1>4 DEF AccountsTypeOK, Issued
<1>10. TablesInv'
  <2>1. \A e \in Emails : WithEmail(e)' = {} /\ SpentOn(e)' = {}
    BY <1>5, <1>6, <1>7, <1>9 DEF WithEmail, SpentOn
  <2>2. \A e \in Emails : AddressInv(e)'
    BY <2>1 DEF AddressInv
  <2>3. \A w \in Workspaces : ownerOf'[w] # Nobody
    BY <1>2, <1>3, <1>5
  <2>4. \A w \in Workspaces : ownerOf'[w] \in Names => ownerOf'[w] \in Registered'
    BY <1>1, <1>2, <1>4, <1>7 DEF TablesInv
  <2>5. \A m, k \in Admins' : m = k
    BY <1>7 DEF Admins
  <2> QED
    BY <1>7, <2>2, <2>3, <2>4, <2>5 DEF TablesInv
<1>11. /\ AccountsTypeOK' /\ CallInv(t)' /\ pc'[t] = "idle"
       /\ \A u \in Clients \ {t} : pc'[u] = pc[u] /\ call'[u] = call[u]
       /\ \A u \in Clients \ {t}, j \in InviteIds : inviteLock[j] = u => inviteLock'[j] = u
       /\ \A u \in Clients \ {t} : bootLock = u => bootLock' = u
  BY <1>1, <1>2, <1>6, <1>8, <1>9, FinishKeeps
<1>12. ASSUME NEW u \in Clients \ {t} PROVE pc[u] \notin {"insertOwner", "commit"}
  <2>1. CallFits(u) /\ InvitationHeld(u) /\ BootstrapHeld(u)
    BY <1>1 DEF CallInv
  <2>2. call[u].op # "accept"
    BY <1>1, <1>4, <2>1, CallFields DEF InvitationHeld
  <2> QED
    BY <1>4, <2>1, <2>2 DEF CallFits, BootstrapHeld
<1>13. \A u \in Clients \ {t} : CallInv(u)'
  BY <1>4, <1>7, <1>11, <1>12, OthersKept
<1> QED
  BY <1>10, <1>11, <1>13 DEF AccountsInv

\* An invitation comes into being where there was none.
LEMMA InsertInvitationKeeps ==
  ASSUME AccountsInv, NEW t \in Clients, InsertInvitation(t)
  PROVE  AccountsInv'
<1>0. PICK e : e = call[t].email
  OBVIOUS
<1>1. /\ AccountsTypeOK /\ TablesInv /\ \A u \in Clients : CallInv(u)
      /\ pc[t] = "insertInvite" /\ owners' = owners /\ ownerOf' = ownerOf /\ Finish(t)
  BY DEF AccountsInv, InsertInvitation
<1>2. PICK i \in InviteIds :
        /\ ~Issued(i)
        /\ invitations' = [invitations EXCEPT ![i] =
             [email |-> e, accepted |-> FALSE, revoked |-> FALSE, expired |-> FALSE]]
  BY <1>0 DEF InsertInvitation
<1>3. e \in Emails /\ Registered # {}
  BY <1>0, <1>1, CallFields DEF CallInv, CallFits
<1>4. /\ invitations' \in [InviteIds -> Invitation \cup {NoRow}]
      /\ invitations'[i] \in Invitation /\ ~invitations'[i].accepted
      /\ \A j \in InviteIds \ {i} : invitations'[j] = invitations[j]
  <2>1. [email |-> e, accepted |-> FALSE, revoked |-> FALSE, expired |-> FALSE] \in Invitation
    BY <1>3 DEF Invitation
  <2> QED
    BY <1>1, <1>2, <2>1 DEF AccountsTypeOK
<1>5. \A j \in InviteIds : Issued(j) =>
        j # i /\ Issued(j)' /\ invitations'[j] = invitations[j]
  BY <1>2, <1>4 DEF Issued
<1>6. \A f : SpentOn(f)' = SpentOn(f)
  <2> SUFFICES ASSUME NEW f PROVE SpentOn(f)' = SpentOn(f)
    OBVIOUS
  <2>1. \A j \in InviteIds \ {i} : Issued(j)' <=> Issued(j)
    BY <1>4 DEF Issued
  <2>2. \A j : j \in SpentOn(f)' <=> j \in SpentOn(f)
    BY <1>2, <1>4, <2>1 DEF SpentOn
  <2> QED
    BY <2>2
<1>7. Registered' = Registered /\ Admins' = Admins /\ \A f : WithEmail(f)' = WithEmail(f)
  BY <1>1 DEF Registered, Admins, WithEmail
<1>8. \A f \in Emails : AddressInv(f)'
  BY <1>1, <1>6, <1>7 DEF TablesInv, AddressInv
<1>9. TablesInv'
  BY <1>1, <1>3, <1>7, <1>8 DEF TablesInv
<1>10. /\ AccountsTypeOK' /\ CallInv(t)' /\ pc'[t] = "idle"
       /\ \A u \in Clients \ {t} : pc'[u] = pc[u] /\ call'[u] = call[u]
       /\ \A u \in Clients \ {t}, j \in InviteIds : inviteLock[j] = u => inviteLock'[j] = u
       /\ \A u \in Clients \ {t} : bootLock = u => bootLock' = u
  <2>1. owners' \in [Names -> Owner \cup {NoRow}]
    BY <1>1 DEF AccountsTypeOK
  <2>2. ownerOf' \in [Workspaces -> Names \cup {Nobody, NoRow}]
    BY <1>1 DEF AccountsTypeOK
  <2> QED
    BY <1>1, <1>4, <2>1, <2>2, FinishKeeps
<1>11. \A u \in Clients \ {t} : pc[u] = "commit" =>
         /\ call[u].name \notin Registered'
         /\ EmailFor(call[u]) # NoEmail => WithEmail(EmailFor(call[u]))' = {}
  <2> SUFFICES ASSUME NEW u \in Clients \ {t}, pc[u] = "commit"
               PROVE  /\ call[u].name \notin Registered'
                      /\ EmailFor(call[u]) # NoEmail => WithEmail(EmailFor(call[u]))' = {}
    OBVIOUS
  <2>1. RowFits(u) /\ InvitationHeld(u)
    BY <1>1 DEF CallInv
  <2>2. EmailFor(call[u])' = EmailFor(call[u])
    <3>1. call[u].op = "accept" => call[u].invite \in InviteIds /\ Issued(call[u].invite)
      BY <1>1, <2>1, CallFields DEF InvitationHeld
    <3> QED
      BY <1>5, <1>10, <3>1 DEF EmailFor
  <2>3. WithEmail(EmailFor(call[u]))' = WithEmail(EmailFor(call[u]))
    BY <1>7, <2>2
  <2> QED
    BY <1>7, <2>1, <2>3 DEF RowFits
<1>12. \A u \in Clients \ {t} :
         pc[u] \in {"insertOwner", "commit"} /\ call[u].op = "bootstrap" => Registered' = {}
  BY <1>1, <1>7 DEF CallInv, BootstrapHeld
<1>13. \A u \in Clients \ {t} : CallInv(u)'
  BY <1>3, <1>5, <1>7, <1>10, <1>11, <1>12, OthersKept
<1> QED
  BY <1>9, <1>10, <1>13 DEF AccountsInv

\* A row of invitations is written again, with the address and the acceptance
\* it had; it is revoked only where nobody holds it.
LEMMA InvitationRewritten ==
  ASSUME AccountsInv, NEW i \in InviteIds, Issued(i),
         UNCHANGED <<owners, ownerOf, inviteLock, bootLock, pc, call>>,
         invitations' \in [InviteIds -> Invitation \cup {NoRow}],
         invitations'[i] \in Invitation,
         invitations'[i].email = invitations[i].email,
         invitations'[i].accepted = invitations[i].accepted,
         invitations'[i].revoked = invitations[i].revoked \/ inviteLock[i] = NoTx,
         \A j \in InviteIds \ {i} : invitations'[j] = invitations[j]
  PROVE  AccountsInv'
<1>1. /\ AccountsTypeOK /\ TablesInv /\ \A u \in Clients : CallInv(u)
      /\ owners' = owners /\ ownerOf' = ownerOf /\ pc' = pc /\ call' = call
      /\ inviteLock' = inviteLock /\ bootLock' = bootLock
  BY DEF AccountsInv
<1>2. NoRow \notin Invitation /\ NoTx \notin Clients
  BY AccountsAssumption
<1>3. AccountsTypeOK'
  BY <1>1 DEF AccountsTypeOK
<1>4. \A j \in InviteIds : /\ Issued(j)' <=> Issued(j)
                           /\ invitations'[j].email = invitations[j].email
                           /\ invitations'[j].accepted = invitations[j].accepted
  BY <1>2 DEF Issued
<1>5. \A f : SpentOn(f)' = SpentOn(f)
  BY <1>4 DEF SpentOn
<1>6. Registered' = Registered /\ Admins' = Admins /\ \A f : WithEmail(f)' = WithEmail(f)
  BY <1>1 DEF Registered, Admins, WithEmail
<1>7. \A f \in Emails : AddressInv(f)'
  BY <1>1, <1>5, <1>6 DEF TablesInv, AddressInv
<1>8. TablesInv'
  BY <1>1, <1>4, <1>6, <1>7 DEF TablesInv
<1>9. \A u \in Clients, j \in InviteIds : inviteLock[j] = u =>
        /\ inviteLock'[j] = u
        /\ Issued(j) => /\ invitations'[j].accepted = invitations[j].accepted
                        /\ invitations'[j].revoked = invitations[j].revoked
  BY <1>1, <1>2
<1>10. \A u \in Clients : pc[u] = "commit" =>
         /\ call[u].name \notin Registered'
         /\ EmailFor(call[u]) # NoEmail => WithEmail(EmailFor(call[u]))' = {}
  <2> SUFFICES ASSUME NEW u \in Clients, pc[u] = "commit"
               PROVE  /\ call[u].name \notin Registered'
                      /\ EmailFor(call[u]) # NoEmail => WithEmail(EmailFor(call[u]))' = {}
    OBVIOUS
  <2>1. RowFits(u)
    BY <1>1 DEF CallInv
  <2>2. EmailFor(call[u])' = EmailFor(call[u])
    BY <1>1, <1>4, CallFields DEF EmailFor
  <2>3. WithEmail(EmailFor(call[u]))' = WithEmail(EmailFor(call[u]))
    BY <1>6, <2>2
  <2> QED
    BY <1>6, <2>1, <2>3 DEF RowFits
<1>11. \A u \in Clients :
         pc[u] \in {"insertOwner", "commit"} /\ call[u].op = "bootstrap" => Registered' = {}
  BY <1>1, <1>6 DEF CallInv, BootstrapHeld
<1>12. \A u \in Clients \ {NoTx} : CallInv(u)'
  BY <1>1, <1>2, <1>4, <1>6, <1>9, <1>10, <1>11, OthersKept
<1>13. \A u \in Clients : CallInv(u)'
  BY <1>2, <1>12
<1> QED
  BY <1>3, <1>8, <1>13 DEF AccountsInv

\* The administrator revokes; an invitation in somebody's hands is waited for.
LEMMA RevokeKeeps ==
  ASSUME AccountsInv, NEW i \in InviteIds, RevokeInvitation(i)
  PROVE  AccountsInv'
<1>1. /\ invitations \in [InviteIds -> Invitation \cup {NoRow}]
      /\ Issued(i) /\ inviteLock[i] = NoTx /\ invitations[i] \in Invitation
      /\ invitations' = [invitations EXCEPT ![i] = [invitations[i] EXCEPT !.revoked = TRUE]]
      /\ UNCHANGED <<owners, ownerOf, inviteLock, bootLock, pc, call>>
  BY RowFields DEF AccountsInv, AccountsTypeOK, RevokeInvitation
<1>2. [invitations[i] EXCEPT !.revoked = TRUE] \in Invitation
  BY <1>1 DEF Invitation
<1>3. /\ [invitations[i] EXCEPT !.revoked = TRUE].email = invitations[i].email
      /\ [invitations[i] EXCEPT !.revoked = TRUE].accepted = invitations[i].accepted
  BY <1>1 DEF Invitation
<1>4. /\ invitations' \in [InviteIds -> Invitation \cup {NoRow}]
      /\ invitations'[i] = [invitations[i] EXCEPT !.revoked = TRUE]
      /\ \A j \in InviteIds \ {i} : invitations'[j] = invitations[j]
  BY <1>1, <1>2
<1> QED
  BY <1>1, <1>2, <1>3, <1>4, InvitationRewritten

\* Time passes.
LEMMA ExpireKeeps ==
  ASSUME AccountsInv, NEW i \in InviteIds, ExpireInvitation(i)
  PROVE  AccountsInv'
<1>1. /\ invitations \in [InviteIds -> Invitation \cup {NoRow}]
      /\ Issued(i) /\ invitations[i] \in Invitation
      /\ invitations' = [invitations EXCEPT ![i] = [invitations[i] EXCEPT !.expired = TRUE]]
      /\ UNCHANGED <<owners, ownerOf, inviteLock, bootLock, pc, call>>
  BY RowFields DEF AccountsInv, AccountsTypeOK, ExpireInvitation, Unspent
<1>2. [invitations[i] EXCEPT !.expired = TRUE] \in Invitation
  BY <1>1 DEF Invitation
<1>3. /\ [invitations[i] EXCEPT !.expired = TRUE].email = invitations[i].email
      /\ [invitations[i] EXCEPT !.expired = TRUE].accepted = invitations[i].accepted
      /\ [invitations[i] EXCEPT !.expired = TRUE].revoked = invitations[i].revoked
  BY <1>1 DEF Invitation
<1>4. /\ invitations' \in [InviteIds -> Invitation \cup {NoRow}]
      /\ invitations'[i] = [invitations[i] EXCEPT !.expired = TRUE]
      /\ \A j \in InviteIds \ {i} : invitations'[j] = invitations[j]
  BY <1>1, <1>2
<1> QED
  BY <1>1, <1>2, <1>3, <1>4, InvitationRewritten

\* A workspace is made for an account there is.
LEMMA CreateWorkspaceKeeps ==
  ASSUME AccountsInv, NEW n \in Names, NEW ws \in Workspaces, CreateWorkspaceOwned(n, ws)
  PROVE  AccountsInv'
<1>1. /\ AccountsTypeOK /\ TablesInv /\ \A u \in Clients : CallInv(u)
      /\ n \in Registered /\ ~MadeWorkspace(ws) /\ ownerOf' = [ownerOf EXCEPT ![ws] = n]
      /\ owners' = owners /\ invitations' = invitations /\ pc' = pc /\ call' = call
      /\ inviteLock' = inviteLock /\ bootLock' = bootLock
  BY DEF AccountsInv, CreateWorkspaceOwned
<1>2. /\ ownerOf' \in [Workspaces -> Names \cup {Nobody, NoRow}] /\ ownerOf'[ws] = n
      /\ \A w \in Workspaces \ {ws} : ownerOf'[w] = ownerOf[w]
  BY <1>1 DEF AccountsTypeOK
<1>3. NoRow \notin Names /\ Nobody \notin Names /\ NoTx \notin Clients
  BY AccountsAssumption
<1>4. AccountsTypeOK'
  BY <1>1, <1>2 DEF AccountsTypeOK
<1>5. /\ Registered' = Registered /\ Admins' = Admins /\ \A f : WithEmail(f)' = WithEmail(f)
      /\ \A f : SpentOn(f)' = SpentOn(f) /\ \A i : Issued(i)' <=> Issued(i)
      /\ \A c : EmailFor(c)' = EmailFor(c)
  BY <1>1 DEF Registered, Admins, WithEmail, SpentOn, Issued, EmailFor
<1>6. \A w \in Workspaces : ownerOf[w] \in Names => ownerOf'[w] = ownerOf[w]
  BY <1>1, <1>2, <1>3 DEF MadeWorkspace
<1>7. ASSUME NEW f \in Emails PROVE AddressInv(f)'
  <2>1. AddressInv(f) /\ WithEmail(f) \subseteq Names
    BY <1>1 DEF TablesInv, WithEmail, Registered
  <2> QED
    BY <1>5, <1>6, <2>1 DEF AddressInv
<1>8. TablesInv'
  BY <1>1, <1>2, <1>3, <1>5, <1>7 DEF TablesInv
<1>9. \A u \in Clients : pc[u] = "commit" =>
        /\ call[u].name \notin Registered'
        /\ EmailFor(call[u]) # NoEmail => WithEmail(EmailFor(call[u]))' = {}
  <2> SUFFICES ASSUME NEW u \in Clients, pc[u] = "commit"
               PROVE  /\ call[u].name \notin Registered'
                      /\ EmailFor(call[u]) # NoEmail => WithEmail(EmailFor(call[u]))' = {}
    OBVIOUS
  <2>1. RowFits(u)
    BY <1>1 DEF CallInv
  <2>2. EmailFor(call[u])' = EmailFor(call[u])
    BY <1>1, <1>5
  <2>3. WithEmail(EmailFor(call[u]))' = WithEmail(EmailFor(call[u]))
    BY <1>5, <2>2
  <2> QED
    BY <1>5, <2>1, <2>3 DEF RowFits
<1>10. \A u \in Clients :
         pc[u] \in {"insertOwner", "commit"} /\ call[u].op = "bootstrap" => Registered' = {}
  BY <1>1, <1>5 DEF CallInv, BootstrapHeld
<1>11. \A u \in Clients \ {NoTx} : CallInv(u)'
  BY <1>1, <1>3, <1>5, <1>9, <1>10, OthersKept
<1>12. \A u \in Clients : CallInv(u)'
  BY <1>3, <1>11
<1> QED
  BY <1>4, <1>8, <1>12 DEF AccountsInv

\* Nothing happens.
LEMMA AccountsStutter ==
  ASSUME AccountsInv, UNCHANGED accountVars
  PROVE  AccountsInv'
BY DEF AccountsInv, accountVars, AccountsTypeOK, CallInv, CallFits, InvitationHeld, BootstrapHeld,
       RowFits, TablesInv, AddressInv, SpentOn, WithEmail, Admins, Registered, Issued, EmailFor, Clash

\* At the start there is no account and no invitation.
LEMMA AccountsInitHolds ==
  ASSUME AccountsInit
  PROVE  AccountsInv
<1>1. NoRow \notin Names \cup {Nobody} /\ Legacy \subseteq Workspaces /\ Nobody \notin Names
  BY AccountsAssumption
<1>2. AccountsTypeOK
  BY <1>1 DEF AccountsInit, AccountsTypeOK, Steps
<1>3. /\ Registered = {} /\ Admins = {} /\ \A i \in InviteIds : ~Issued(i)
      /\ \A e : WithEmail(e) = {} /\ SpentOn(e) = {}
  BY DEF AccountsInit, Registered, Admins, Issued, WithEmail, SpentOn
<1>4. \A ws \in Workspaces : ownerOf[ws] \notin Names
  BY <1>1 DEF AccountsInit
<1>5. TablesInv
  BY <1>3, <1>4 DEF TablesInv, AddressInv
<1>6. ASSUME NEW t \in Clients PROVE CallInv(t)
  <2>1. pc[t] = "idle" /\ call[t].op = "none"
    BY DEF AccountsInit, NoCall
  <2> QED
    BY <2>1 DEF CallInv, CallFits, InvitationHeld, BootstrapHeld, RowFits
<1> QED
  BY <1>2, <1>5, <1>6 DEF AccountsInv

\* Every step of Accounts keeps its invariant.
LEMMA AccountsStep ==
  ASSUME AccountsInv, [AccountsNext]_accountVars
  PROVE  AccountsInv'
<1>1. CASE UNCHANGED accountVars
  BY <1>1, AccountsStutter
<1>2. ASSUME NEW t \in Clients, BeginCall(t) \/ CallStep(t) \/ Abort(t) PROVE AccountsInv'
  <2>1. CASE BeginCall(t)
    BY <2>1, BeginCallKeeps
  <2>2. CASE LockInvitation(t)
    BY <2>2, LockInvitationKeeps
  <2>3. CASE LockBootstrap(t)
    BY <2>3, LockBootstrapKeeps
  <2>4. CASE CountOwners(t)
    BY <2>4, CountOwnersKeeps
  <2>5. CASE InsertOwner(t)
    BY <2>5, InsertOwnerKeeps
  <2>6. CASE CommitAcceptance(t)
    BY <2>6, CommitAcceptanceKeeps
  <2>7. CASE CommitBootstrap(t)
    BY <2>7, CommitBootstrapKeeps
  <2>8. CASE CheckRegistered(t)
    BY <2>8, CheckRegisteredKeeps
  <2>9. CASE InsertInvitation(t)
    BY <2>9, InsertInvitationKeeps
  <2>10. CASE Abort(t)
    BY <2>10, ReturnKeeps DEF Abort
  <2> QED
    BY <1>2, <2>1, <2>2, <2>3, <2>4, <2>5, <2>6, <2>7, <2>8, <2>9, <2>10 DEF CallStep
<1>3. CASE \E i \in InviteIds : RevokeInvitation(i) \/ ExpireInvitation(i)
  BY <1>3, RevokeKeeps, ExpireKeeps
<1>4. CASE \E n \in Names, ws \in Workspaces : CreateWorkspaceOwned(n, ws)
  BY <1>4, CreateWorkspaceKeeps
<1> QED
  BY <1>1, <1>2, <1>3, <1>4 DEF AccountsNext

\* The inductive invariant holds whatever requests and bootstrap commands run at
\* the same time.
THEOREM AccountsInvariant == AccountsSpec => []AccountsInv
<1>1. AccountsInit => AccountsInv
  BY AccountsInitHolds
<1>2. AccountsInv /\ [AccountsNext]_accountVars => AccountsInv'
  BY AccountsStep
<1> QED
  BY <1>1, <1>2, PTL DEF AccountsSpec

-----------------------------------------------------------------------------
(***************************************************************************)
(* What follows from the invariant.                                        *)
(***************************************************************************)

\* A set of which any two members are equal has at most one.
LEMMA AtMostOne ==
  ASSUME NEW S, IsFiniteSet(S), \A x, y \in S : x = y
  PROVE  /\ Cardinality(S) \in {0, 1}
         /\ Cardinality(S) = 0 <=> S = {}
<1>1. CASE S = {}
  BY <1>1, FS_EmptySet
<1>2. CASE S # {}
  <2>1. PICK x : S = {x}
    BY <1>2
  <2> QED
    BY <1>2, <2>1, FS_Singleton
<1> QED
  BY <1>1, <1>2

\* Names and invitations are finitely many.
LEMMA AccountSetsAreFinite ==
  ASSUME NEW S, S \subseteq Names \/ S \subseteq InviteIds
  PROVE  IsFiniteSet(S)
BY FS_Subset, AccountsAssumption

\* Two administrators would be one.
LEMMA AdministratorFromInv ==
  ASSUME AccountsInv
  PROVE  OneAdministrator
<1>1. Admins \subseteq Names /\ \A n, m \in Admins : n = m
  BY DEF AccountsInv, TablesInv, Admins, Registered
<1>2. Cardinality(Admins) \in {0, 1}
  BY <1>1, AccountSetsAreFinite, AtMostOne
<1> QED
  BY <1>2 DEF OneAdministrator

\* No workspace is without an owner once there is an account.
LEMMA OwnedFromInv ==
  ASSUME AccountsInv
  PROVE  EveryWorkspaceIsOwned
BY DEF AccountsInv, TablesInv, EveryWorkspaceIsOwned

\* Accounts and spent invitations of an address, counted.
LEMMA AtomicFromInv ==
  ASSUME AccountsInv
  PROVE  AcceptanceIsAtomic
<1> SUFFICES ASSUME NEW e \in Emails
             PROVE  /\ Cardinality(WithEmail(e)) = Cardinality(SpentOn(e))
                    /\ Cardinality(SpentOn(e)) <= 1
                    /\ \A n \in WithEmail(e) : \E ws \in Workspaces : ownerOf[ws] = n
  BY DEF AcceptanceIsAtomic, SpentOn
<1>1. AddressInv(e)
  BY DEF AccountsInv, TablesInv
<1>2. WithEmail(e) \subseteq Names /\ SpentOn(e) \subseteq InviteIds
  BY DEF WithEmail, Registered, SpentOn
<1>3. IsFiniteSet(WithEmail(e)) /\ IsFiniteSet(SpentOn(e))
  BY <1>2, AccountSetsAreFinite
<1>4. /\ Cardinality(WithEmail(e)) \in {0, 1} /\ (Cardinality(WithEmail(e)) = 0 <=> WithEmail(e) = {})
      /\ Cardinality(SpentOn(e)) \in {0, 1} /\ (Cardinality(SpentOn(e)) = 0 <=> SpentOn(e) = {})
  BY <1>1, <1>3, AtMostOne DEF AddressInv
<1>5. WithEmail(e) = {} <=> SpentOn(e) = {}
  BY <1>1 DEF AddressInv
<1>6. \A n \in WithEmail(e) : \E ws \in Workspaces : ownerOf[ws] = n
  BY <1>1 DEF AddressInv
<1> QED
  BY <1>4, <1>5, <1>6

\* A step accepts an invitation only under its lock, and finds it not revoked.
LEMMA RevokedStays ==
  ASSUME AccountsInv, [AccountsNext]_accountVars,
         NEW i \in InviteIds, Issued(i), invitations[i].revoked
  PROVE  invitations'[i].accepted = invitations[i].accepted
<1>1. /\ invitations \in [InviteIds -> Invitation \cup {NoRow}]
      /\ invitations[i] \in Invitation
      /\ \A t \in Clients : CallInv(t)
  BY RowFields DEF AccountsInv, AccountsTypeOK
<1>2. CASE invitations' = invitations
  BY <1>2
<1>3. ASSUME NEW t \in Clients, CommitAcceptance(t)
      PROVE  invitations'[i].accepted = invitations[i].accepted
  <2>1. pc[t] = "commit" /\ call[t].op = "accept"
    BY <1>3 DEF CommitAcceptance
  <2>2. ~invitations[call[t].invite].revoked
    BY <1>1, <2>1 DEF CallInv, InvitationHeld
  <2>3. call[t].invite # i
    BY <2>2
  <2> QED
    BY <1>1, <1>3, <2>3 DEF CommitAcceptance
<1>4. ASSUME NEW t \in Clients, InsertInvitation(t)
      PROVE  invitations'[i].accepted = invitations[i].accepted
  BY <1>1, <1>4 DEF InsertInvitation
<1>5. ASSUME NEW j \in InviteIds, RevokeInvitation(j)
      PROVE  invitations'[i].accepted = invitations[i].accepted
  <2>1. [invitations[i] EXCEPT !.revoked = TRUE].accepted = invitations[i].accepted
    BY <1>1 DEF Invitation
  <2>2. invitations' = [invitations EXCEPT ![j] = [invitations[j] EXCEPT !.revoked = TRUE]]
    BY <1>5 DEF RevokeInvitation
  <2>3. invitations'[i] = IF i = j THEN [invitations[i] EXCEPT !.revoked = TRUE] ELSE invitations[i]
    BY <1>1, <2>2
  <2> QED
    BY <2>1, <2>3
<1>6. ASSUME NEW j \in InviteIds, ExpireInvitation(j)
      PROVE  invitations'[i].accepted = invitations[i].accepted
  <2>1. [invitations[i] EXCEPT !.expired = TRUE].accepted = invitations[i].accepted
    BY <1>1 DEF Invitation
  <2>2. invitations' = [invitations EXCEPT ![j] = [invitations[j] EXCEPT !.expired = TRUE]]
    BY <1>6 DEF ExpireInvitation
  <2>3. invitations'[i] = IF i = j THEN [invitations[i] EXCEPT !.expired = TRUE] ELSE invitations[i]
    BY <1>1, <2>2
  <2> QED
    BY <2>1, <2>3
<1>7. ASSUME NEW t \in Clients,
             \/ BeginCall(t) \/ LockInvitation(t) \/ LockBootstrap(t) \/ CountOwners(t)
             \/ InsertOwner(t) \/ CommitBootstrap(t) \/ CheckRegistered(t) \/ Abort(t)
      PROVE  invitations' = invitations
  BY <1>7 DEF BeginCall, Begin, LockInvitation, LockBootstrap, CountOwners, InsertOwner,
     CommitBootstrap, CheckRegistered, Abort, Return, NoWrite
<1>8. ASSUME NEW n \in Names, NEW ws \in Workspaces, CreateWorkspaceOwned(n, ws)
      PROVE  invitations' = invitations
  BY <1>8 DEF CreateWorkspaceOwned
<1>9. UNCHANGED accountVars => invitations' = invitations
  BY DEF accountVars
<1> QED
  BY <1>2, <1>3, <1>4, <1>5, <1>6, <1>7, <1>8, <1>9 DEF AccountsNext, CallStep

\* owners, invitations, workspaces, locks and calls are of their types.
THEOREM AccountsTypes == AccountsSpec => []AccountsTypeOK
<1>1. AccountsInv => AccountsTypeOK
  BY DEF AccountsInv
<1> QED
  BY <1>1, AccountsInvariant, PTL

\* Bootstrap makes one administrator at most, however many are started at once.
THEOREM AdministratorIsOne == AccountsSpec => []OneAdministrator
<1>1. AccountsInv => OneAdministrator
  BY AdministratorFromInv
<1> QED
  BY <1>1, AccountsInvariant, PTL

\* From the first account on every workspace has an owner.
THEOREM WorkspacesAreOwned == AccountsSpec => []EveryWorkspaceIsOwned
<1>1. AccountsInv => EveryWorkspaceIsOwned
  BY OwnedFromInv
<1> QED
  BY <1>1, AccountsInvariant, PTL

\* acceptInvitation is all or nothing: account, workspace and spent invitation
\* come together, and no address gets two accounts.
THEOREM AcceptancesAreAtomic == AccountsSpec => []AcceptanceIsAtomic
<1>1. AccountsInv => AcceptanceIsAtomic
  BY AtomicFromInv
<1> QED
  BY <1>1, AccountsInvariant, PTL

\* A revoked invitation makes no account any more.
THEOREM RevocationIsFinal == AccountsSpec => RevokedIsNeverSpent
<1>1. AccountsInv /\ [AccountsNext]_accountVars =>
        [\A i \in InviteIds : Issued(i) /\ invitations[i].revoked
           => invitations'[i].accepted = invitations[i].accepted]_accountVars
  BY RevokedStays
<1> QED
  BY <1>1, AccountsInvariant, PTL DEF AccountsSpec, RevokedIsNeverSpent

-----------------------------------------------------------------------------
(***************************************************************************)
(* The inductive invariant of AgentKeys.                                   *)
(***************************************************************************)
Home(k) == keys[k].home
KeyInv(k) ==
  /\ HasKey(k) => /\ ownerOf[Home(k)] \in Names
                  /\ keys[k].create => keys[k].write /\ keys[k].mode # "single"
                  /\ \A ws \in grants[k] : ownerOf[ws] = ownerOf[Home(k)]
  /\ ~HasKey(k) => grants[k] = {}

\* What a request has read of its key and of the owner is still so, but for the
\* revocation.
AskInv(a) ==
  asks[a] # Idle =>
    LET k == asks[a].key IN
    /\ HasKey(k)
    /\ asks[a].id.home = Home(k) /\ asks[a].id.mode = keys[k].mode
    /\ asks[a].id.create = keys[k].create
    /\ asks[a].owner = ownerOf[Home(k)]
    /\ \A ws \in asks[a].on : ownerOf[ws] = ownerOf[Home(k)]

MadeInv(ws) ==
  madeBy[ws] # NoRow =>
    LET k == madeBy[ws] IN
    /\ HasKey(k) /\ keys[k].create
    /\ ws \in grants[k]

KeysInv ==
  /\ KeysTypeOK
  /\ \A k \in KeyIds : KeyInv(k)
  /\ \A a \in Agents : AskInv(a)
  /\ \A ws \in Workspaces : MadeInv(ws)

\* Both invariants together are inductive.
AllInv == AccountsInv /\ KeysInv

-----------------------------------------------------------------------------
\* A workspace with an owner keeps it, and one that exists goes on existing.
LEMMA OwnersStay ==
  ASSUME AccountsInv, [AccountsNext]_accountVars, NEW ws \in Workspaces
  PROVE  /\ ownerOf[ws] \in Names => ownerOf'[ws] = ownerOf[ws]
         /\ MadeWorkspace(ws) => MadeWorkspace(ws)'
<1>1. /\ ownerOf \in [Workspaces -> Names \cup {Nobody, NoRow}]
      /\ NoRow \notin Names \cup {Nobody} /\ Nobody \notin Names
  BY AccountsAssumption DEF AccountsInv, AccountsTypeOK
<1>2. CASE ownerOf' = ownerOf
  BY <1>2 DEF MadeWorkspace
<1>3. ASSUME NEW w \in Workspaces, NEW n \in Names,
             ~MadeWorkspace(w), ownerOf' = [ownerOf EXCEPT ![w] = n]
      PROVE  /\ ownerOf[ws] \in Names => ownerOf'[ws] = ownerOf[ws]
             /\ MadeWorkspace(ws) => MadeWorkspace(ws)'
  BY <1>1, <1>3 DEF MadeWorkspace
<1>4. ASSUME NEW t \in Clients, CommitAcceptance(t)
      PROVE  /\ ownerOf[ws] \in Names => ownerOf'[ws] = ownerOf[ws]
             /\ MadeWorkspace(ws) => MadeWorkspace(ws)'
  <2>1. call[t].name \in Names
    BY <1>4, CallFields DEF AccountsInv, CommitAcceptance
  <2>2. \E w \in Workspaces : ~MadeWorkspace(w) /\ ownerOf' = [ownerOf EXCEPT ![w] = call[t].name]
    BY <1>4 DEF CommitAcceptance
  <2> QED
    BY <1>3, <2>1, <2>2
<1>5. ASSUME NEW t \in Clients, CommitBootstrap(t)
      PROVE  /\ ownerOf[ws] \in Names => ownerOf'[ws] = ownerOf[ws]
             /\ MadeWorkspace(ws) => MadeWorkspace(ws)'
  <2>1. call[t].name \in Names
    BY <1>5, CallFields DEF AccountsInv, CommitBootstrap
  <2>2. ownerOf'[ws] = IF ownerOf[ws] = Nobody THEN call[t].name ELSE ownerOf[ws]
    BY <1>5 DEF CommitBootstrap
  <2> QED
    BY <1>1, <2>1, <2>2 DEF MadeWorkspace
<1>6. ASSUME NEW n \in Names, NEW w \in Workspaces, CreateWorkspaceOwned(n, w)
      PROVE  /\ ownerOf[ws] \in Names => ownerOf'[ws] = ownerOf[ws]
             /\ MadeWorkspace(ws) => MadeWorkspace(ws)'
  BY <1>3, <1>6 DEF CreateWorkspaceOwned
<1>7. ASSUME NEW t \in Clients,
             \/ BeginCall(t) \/ LockInvitation(t) \/ LockBootstrap(t) \/ CountOwners(t)
             \/ InsertOwner(t) \/ CheckRegistered(t) \/ InsertInvitation(t) \/ Abort(t)
      PROVE  ownerOf' = ownerOf
  BY <1>7 DEF BeginCall, Begin, LockInvitation, LockBootstrap, CountOwners, InsertOwner,
     CheckRegistered, InsertInvitation, Abort, Return, NoWrite
<1>8. ASSUME NEW i \in InviteIds, RevokeInvitation(i) \/ ExpireInvitation(i)
      PROVE  ownerOf' = ownerOf
  BY <1>8 DEF RevokeInvitation, ExpireInvitation
<1>9. UNCHANGED accountVars => ownerOf' = ownerOf
  BY DEF accountVars
<1> QED
  BY <1>2, <1>4, <1>5, <1>6, <1>7, <1>8, <1>9 DEF AccountsNext, CallStep

\* A request makes its workspace for the owner of its key's home: to Accounts
\* that is an owner's own workspace.
LEMMA CreateForKeyIsOwned ==
  ASSUME AllInv, NEW a \in Agents, NEW ws \in Workspaces, CreateWorkspaceForKey(a, ws)
  PROVE  AccountsNext
<1>1. PICK k : k = asks[a].key
  OBVIOUS
<1>2. /\ asks[a].pc = "choose" /\ ~MadeWorkspace(ws)
      /\ ownerOf' = [ownerOf EXCEPT ![ws] = ownerOf[keys[k].home]]
      /\ UNCHANGED <<owners, invitations, inviteLock, bootLock, pc, call>>
  BY <1>1 DEF CreateWorkspaceForKey
<1>3. asks[a] \in Ask /\ AskInv(a) /\ asks[a] # Idle
  BY <1>2 DEF AllInv, KeysInv, KeysTypeOK, Idle
<1>4. k \in KeyIds /\ HasKey(k)
  BY <1>1, <1>3 DEF AskInv, Ask
<1>5. keys[k].home \in Workspaces /\ ownerOf[keys[k].home] \in Names
  BY <1>4 DEF AllInv, KeysInv, KeysTypeOK, KeyInv, HasKey, Home, Key
<1>6. ownerOf[keys[k].home] \in Registered
  BY <1>5 DEF AllInv, AccountsInv, TablesInv
<1>7. CreateWorkspaceOwned(ownerOf[keys[k].home], ws)
  BY <1>2, <1>6 DEF CreateWorkspaceOwned
<1> QED
  BY <1>5, <1>7 DEF AccountsNext

\* Every step of AgentKeys is one of Accounts, or leaves its state alone.
LEMMA KeysStepIsAccountsStep ==
  ASSUME AllInv, [KeysNext]_keyVars
  PROVE  [AccountsNext]_accountVars
<1>1. CASE UNCHANGED keyVars
  BY <1>1 DEF keyVars, accountVars
<1>2. ASSUME NEW k \in KeyIds, RevokeKey(k) PROVE UNCHANGED accountVars
  BY <1>2 DEF RevokeKey
<1>3. ASSUME NEW k, NEW row, NEW extra, IssueKey(k, row, extra) PROVE UNCHANGED accountVars
  BY <1>3 DEF IssueKey
<1>4. GrantHomes => UNCHANGED accountVars
  BY DEF GrantHomes
<1>5. ASSUME NEW a \in Agents,
             \/ \E k \in KeyIds : Authenticate(a, k)
             \/ \E ws \in Workspaces : Choose(a, ws)
             \/ EndAsk(a)
      PROVE  UNCHANGED accountVars
  BY <1>5 DEF Authenticate, Choose, EndAsk
<1>6. ASSUME NEW a \in Agents, NEW ws \in Workspaces, CreateWorkspaceForKey(a, ws)
      PROVE  AccountsNext
  BY <1>6, CreateForKeyIsOwned
<1> QED
  BY <1>1, <1>2, <1>3, <1>4, <1>5, <1>6 DEF KeysNext

\* What an issued key and its grants are.
LEMMA KeyFacts ==
  ASSUME AllInv, NEW k \in KeyIds, HasKey(k)
  PROVE  /\ keys[k] \in Key /\ Home(k) \in Workspaces /\ MadeWorkspace(Home(k))
         /\ ownerOf[Home(k)] \in Names
         /\ \A ws \in grants[k] : ws \in Workspaces /\ ownerOf[ws] = ownerOf[Home(k)]
         /\ keys[k].create => keys[k].write /\ keys[k].mode # "single"
<1>1. keys[k] \in Key
  BY DEF AllInv, KeysInv, KeysTypeOK, HasKey
<1> QED
  BY <1>1 DEF AllInv, KeysInv, KeysTypeOK, KeyInv, HasKey, Home, Key

\* What a request in progress has in hand.
LEMMA AskFacts ==
  ASSUME AllInv, NEW a \in Agents, asks[a] # Idle
  PROVE  /\ asks[a] \in [pc: {"choose"}, key: KeyIds, id: Key, owner: Names \cup {Nobody}, on: SUBSET Workspaces]
         /\ asks[a].key \in KeyIds /\ HasKey(asks[a].key)
         /\ asks[a].id.home = Home(asks[a].key) /\ asks[a].id.mode = keys[asks[a].key].mode
         /\ asks[a].id.create = keys[asks[a].key].create
         /\ asks[a].owner = ownerOf[Home(asks[a].key)]
         /\ asks[a].on \subseteq Workspaces
         /\ \A ws \in asks[a].on : ownerOf[ws] = ownerOf[Home(asks[a].key)]
<1>1. asks[a] \in [pc: {"choose"}, key: KeyIds, id: Key, owner: Names \cup {Nobody}, on: SUBSET Workspaces]
  BY DEF AllInv, KeysInv, KeysTypeOK, Ask
<1>2. AskInv(a)
  BY DEF AllInv, KeysInv
<1> QED
  BY <1>1, <1>2 DEF AskInv

\* What every step must leave of the keys there are, for requests in progress
\* and histories to stay as they are.
LEMMA KeysKept ==
  ASSUME AllInv, AccountsInv',
         \A ws \in Workspaces : ownerOf[ws] \in Names => ownerOf'[ws] = ownerOf[ws],
         \A k \in KeyIds : HasKey(k) =>
            /\ HasKey(k)' /\ keys'[k].home = keys[k].home /\ keys'[k].mode = keys[k].mode
            /\ keys'[k].create = keys[k].create
            /\ grants[k] \subseteq grants'[k]
  PROVE  /\ \A a \in Agents : asks'[a] = asks[a] => AskInv(a)'
         /\ \A ws \in Workspaces : madeBy'[ws] = madeBy[ws] => MadeInv(ws)'
<1>1. ASSUME NEW a \in Agents, asks'[a] = asks[a], asks[a] # Idle PROVE AskInv(a)'
  <2>1. PICK k : k = asks[a].key
    OBVIOUS
  <2>2. /\ k \in KeyIds /\ HasKey(k) /\ asks[a].id.home = Home(k) /\ asks[a].id.mode = keys[k].mode
        /\ asks[a].id.create = keys[k].create /\ asks[a].owner = ownerOf[Home(k)]
        /\ asks[a].on \subseteq Workspaces
        /\ \A ws \in asks[a].on : ownerOf[ws] = ownerOf[Home(k)]
    BY <1>1, <2>1, AskFacts
  <2>3. Home(k) \in Workspaces /\ ownerOf[Home(k)] \in Names
    BY <2>2, KeyFacts
  <2>4. HasKey(k)' /\ keys'[k].home = Home(k) /\ keys'[k].mode = keys[k].mode /\ keys'[k].create = keys[k].create
    BY <2>2 DEF Home
  <2>5. ownerOf'[Home(k)] = ownerOf[Home(k)] /\ \A ws \in asks[a].on : ownerOf'[ws] = ownerOf[Home(k)]
    BY <2>2, <2>3
  <2>6. Home(k)' = Home(k)
    BY <2>4 DEF Home
  <2> QED
    BY <1>1, <2>1, <2>2, <2>4, <2>5, <2>6 DEF AskInv
<1>2. ASSUME NEW ws \in Workspaces, madeBy'[ws] = madeBy[ws], madeBy[ws] # NoRow PROVE MadeInv(ws)'
  <2>1. PICK k : k = madeBy[ws]
    OBVIOUS
  <2>2. k \in KeyIds /\ HasKey(k) /\ keys[k].create /\ ws \in grants[k]
    BY <1>2, <2>1 DEF AllInv, KeysInv, KeysTypeOK, MadeInv
  <2> QED
    BY <1>2, <2>1, <2>2 DEF MadeInv
<1>3. ASSUME NEW a \in Agents, asks'[a] = asks[a], asks[a] = Idle PROVE AskInv(a)'
  BY <1>3 DEF AskInv, Idle
<1>4. ASSUME NEW ws \in Workspaces, madeBy'[ws] = madeBy[ws], madeBy[ws] = NoRow PROVE MadeInv(ws)'
  BY <1>4 DEF MadeInv
<1> QED
  BY <1>1, <1>2, <1>3, <1>4

\* A key as it is after the step: its home goes on existing and being owned, and
\* its grants stay with the owner.
LEMMA KeyStays ==
  ASSUME AllInv, NEW k \in KeyIds, HasKey(k),
         \A ws \in Workspaces :
            /\ ownerOf[ws] \in Names => ownerOf'[ws] = ownerOf[ws]
            /\ MadeWorkspace(ws) => MadeWorkspace(ws)',
         keys'[k] \in Key, keys'[k].home = keys[k].home, keys'[k].mode = keys[k].mode,
         keys'[k].create = keys[k].create, keys'[k].write = keys[k].write,
         \A ws \in grants'[k] : ws \in grants[k] \/ ownerOf'[ws] = ownerOf'[keys[k].home]
  PROVE  KeyInv(k)' /\ MadeWorkspace(keys[k].home)'
<1>1. /\ Home(k) \in Workspaces /\ MadeWorkspace(Home(k)) /\ ownerOf[Home(k)] \in Names
      /\ \A ws \in grants[k] : ws \in Workspaces /\ ownerOf[ws] = ownerOf[Home(k)]
      /\ keys[k].create => keys[k].write /\ keys[k].mode # "single"
  BY KeyFacts
<1>2. keys'[k].home = Home(k) /\ Home(k)' = Home(k)
  BY DEF Home
<1>3. ownerOf'[Home(k)] = ownerOf[Home(k)] /\ MadeWorkspace(Home(k))'
  BY <1>1, <1>2
<1>4. \A ws \in grants'[k] : ownerOf'[ws] = ownerOf'[Home(k)]
  BY <1>1, <1>3 DEF Home
<1>5. keys'[k].create => keys'[k].write /\ keys'[k].mode # "single"
  BY <1>1
<1>6. HasKey(k)'
  BY KeysAssumption DEF HasKey
<1> QED
  BY <1>1, <1>2, <1>3, <1>4, <1>5, <1>6 DEF KeyInv, Home

\* A step that writes no key, no grant and no history.
LEMMA NoKeyWritten ==
  ASSUME AllInv, AccountsInv',
         \A ws \in Workspaces :
            /\ ownerOf[ws] \in Names => ownerOf'[ws] = ownerOf[ws]
            /\ MadeWorkspace(ws) => MadeWorkspace(ws)',
         keys' = keys, grants' = grants, madeBy' = madeBy,
         asks' \in [Agents -> Ask],
         \A a \in Agents : asks'[a] = asks[a] \/ AskInv(a)'
  PROVE  KeysInv'
<1>1. /\ keys \in [KeyIds -> Key \cup {NoRow}] /\ grants \in [KeyIds -> SUBSET Workspaces]
      /\ madeBy \in [Workspaces -> KeyIds \cup {NoRow}] /\ \A k \in KeyIds : KeyInv(k)
  BY DEF AllInv, KeysInv, KeysTypeOK
<1>2. \A k : HasKey(k)' <=> HasKey(k)
  BY DEF HasKey
<1>3. ASSUME NEW k \in KeyIds, HasKey(k) PROVE KeyInv(k)' /\ MadeWorkspace(keys[k].home)'
  <2>1. keys'[k] \in Key
    BY <1>3, KeyFacts
  <2> QED
    BY <1>3, <2>1, KeyStays
<1>4. ASSUME NEW k \in KeyIds, ~HasKey(k) PROVE KeyInv(k)'
  BY <1>1, <1>2, <1>4 DEF KeyInv
<1>5. /\ \A a \in Agents : asks'[a] = asks[a] => AskInv(a)'
      /\ \A ws \in Workspaces : madeBy'[ws] = madeBy[ws] => MadeInv(ws)'
  BY <1>2, KeysKept
<1>6. AccountsTypeOK'
  BY DEF AccountsInv
<1>7. \A k \in KeyIds : keys'[k] # NoRow =>
        MadeWorkspace(keys[k].home)' /\ (keys'[k].create => keys'[k].write /\ keys'[k].mode # "single")
  BY <1>3, KeyFacts DEF HasKey
<1>8. KeysTypeOK'
  BY <1>1, <1>6, <1>7 DEF KeysTypeOK
<1> QED
  BY <1>3, <1>4, <1>5, <1>8 DEF KeysInv

\* A step of the accounts, or none.
LEMMA AccountsOnlyKeeps ==
  ASSUME AllInv, AccountsInv', [AccountsNext]_accountVars, UNCHANGED <<keys, grants, madeBy, asks>>
  PROVE  KeysInv'
<1>1. \A ws \in Workspaces :
        /\ ownerOf[ws] \in Names => ownerOf'[ws] = ownerOf[ws]
        /\ MadeWorkspace(ws) => MadeWorkspace(ws)'
  BY OwnersStay DEF AllInv
<1>2. asks' \in [Agents -> Ask]
  BY DEF AllInv, KeysInv, KeysTypeOK
<1> QED
  BY <1>1, <1>2, NoKeyWritten

\* Without a step of the accounts nothing becomes of the workspaces.
LEMMA OwnersUntouched ==
  ASSUME UNCHANGED accountVars
  PROVE  \A ws \in Workspaces :
           /\ ownerOf[ws] \in Names => ownerOf'[ws] = ownerOf[ws]
           /\ MadeWorkspace(ws) => MadeWorkspace(ws)'
BY DEF accountVars, MadeWorkspace

\* The request has what the key is now.
LEMMA AuthenticateKeeps ==
  ASSUME AllInv, AccountsInv', NEW a \in Agents, NEW k \in KeyIds, Authenticate(a, k)
  PROVE  KeysInv'
<1>1. PICK ask : ask = [pc |-> "choose", key |-> k, id |-> keys[k], owner |-> ownerOf[keys[k].home], on |-> {}]
  OBVIOUS
<1>2. /\ HasKey(k) /\ asks' = [asks EXCEPT ![a] = ask]
      /\ UNCHANGED accountVars /\ keys' = keys /\ grants' = grants /\ madeBy' = madeBy
  BY <1>1 DEF Authenticate
<1>3. keys[k] \in Key /\ Home(k) \in Workspaces /\ ownerOf[Home(k)] \in Names
  BY <1>2, KeyFacts
<1>4. ask \in Ask
  BY <1>1, <1>3 DEF Ask, Home
<1>5. /\ asks' \in [Agents -> Ask] /\ asks'[a] = ask
      /\ \A b \in Agents \ {a} : asks'[b] = asks[b]
  BY <1>2, <1>4 DEF AllInv, KeysInv, KeysTypeOK
<1>6. /\ ask.key = k /\ ask.id = keys[k] /\ ask.owner = ownerOf[Home(k)] /\ ask.on = {}
  BY <1>1 DEF Home
<1>7. ownerOf' = ownerOf
  BY <1>2 DEF accountVars
<1>8. AskInv(a)'
  BY <1>2, <1>5, <1>6, <1>7 DEF AskInv, HasKey, Home
<1> QED
  BY <1>2, <1>5, <1>8, OwnersUntouched, NoKeyWritten

\* A workspace that a request is allowed belongs to the owner of its key's home.
LEMMA AllowedIsOwned ==
  ASSUME AllInv, NEW a \in Agents, asks[a] # Idle, NEW ws \in Allowed(a)
  PROVE  ws \in Workspaces /\ ownerOf[ws] = ownerOf[Home(asks[a].key)]
<1>1. /\ asks[a].id \in Key /\ asks[a].id.home = Home(asks[a].key)
      /\ asks[a].owner = ownerOf[Home(asks[a].key)]
      /\ Home(asks[a].key) \in Workspaces
  BY AskFacts, KeyFacts
<1>2. asks[a].id.mode \in {"single", "selected", "all"}
  BY <1>1 DEF Key, Modes
<1>3. CASE asks[a].id.mode = "all"
  BY <1>1, <1>3 DEF Allowed, OwnedBy
<1>4. CASE asks[a].id.mode = "selected"
  BY <1>1, <1>4 DEF Allowed, OwnedBy
<1>5. CASE asks[a].id.mode = "single"
  BY <1>1, <1>5 DEF Allowed
<1> QED
  BY <1>2, <1>3, <1>4, <1>5

\* The request is allowed one more workspace, or refused.
LEMMA ChooseKeeps ==
  ASSUME AllInv, AccountsInv', NEW a \in Agents, NEW ws \in Workspaces, Choose(a, ws)
  PROVE  KeysInv'
<1>1. /\ asks[a].pc = "choose"
      /\ asks' = [asks EXCEPT ![a] = IF ws \in Allowed(a)
                    THEN [asks[a] EXCEPT !.on = asks[a].on \cup {ws}] ELSE Idle]
      /\ UNCHANGED accountVars /\ keys' = keys /\ grants' = grants /\ madeBy' = madeBy
  BY DEF Choose
<1>2. asks[a] # Idle /\ asks \in [Agents -> Ask]
  BY <1>1 DEF Idle, AllInv, KeysInv, KeysTypeOK
<1>3. ownerOf' = ownerOf
  BY <1>1 DEF accountVars
<1>4. CASE ws \notin Allowed(a)
  <2>1. /\ asks' \in [Agents -> Ask] /\ asks'[a] = Idle
        /\ \A b \in Agents \ {a} : asks'[b] = asks[b]
    BY <1>1, <1>2, <1>4 DEF Ask
  <2>2. AskInv(a)'
    BY <2>1 DEF AskInv, Idle
  <2> QED
    BY <1>1, <2>1, <2>2, OwnersUntouched, NoKeyWritten
<1>5. CASE ws \in Allowed(a)
  <2>1. PICK ask : ask = [asks[a] EXCEPT !.on = asks[a].on \cup {ws}]
    OBVIOUS
  <2>2. PICK k : k = asks[a].key
    OBVIOUS
  <2>3. /\ asks[a] \in [pc: {"choose"}, key: KeyIds, id: Key, owner: Names \cup {Nobody}, on: SUBSET Workspaces]
        /\ k \in KeyIds /\ HasKey(k)
        /\ asks[a].id.home = Home(k) /\ asks[a].id.mode = keys[k].mode
        /\ asks[a].id.create = keys[k].create /\ asks[a].owner = ownerOf[Home(k)]
        /\ \A w \in asks[a].on : ownerOf[w] = ownerOf[Home(k)]
    BY <1>2, <2>2, AskFacts
  <2>4. ask \in [pc: {"choose"}, key: KeyIds, id: Key, owner: Names \cup {Nobody}, on: SUBSET Workspaces]
    BY <2>1, <2>3
  <2>5. /\ ask.key = k /\ ask.id = asks[a].id /\ ask.owner = asks[a].owner
        /\ ask.on = asks[a].on \cup {ws}
    BY <2>1, <2>2, <2>3
  <2>6. ownerOf[ws] = ownerOf[Home(k)]
    BY <1>2, <1>5, <2>2, AllowedIsOwned
  <2>7. /\ asks' \in [Agents -> Ask] /\ asks'[a] = ask
        /\ \A b \in Agents \ {a} : asks'[b] = asks[b]
    BY <1>1, <1>2, <1>5, <2>1, <2>4 DEF Ask
  <2>8. HasKey(k)' /\ Home(k)' = Home(k)
    BY <1>1, <2>3 DEF HasKey, Home
  <2>9. \A w \in ask.on : ownerOf[w] = ownerOf[Home(k)]
    BY <2>3, <2>5, <2>6
  <2>10. AskInv(a)'
    BY <1>1, <1>3, <2>3, <2>5, <2>7, <2>8, <2>9 DEF AskInv
  <2> QED
    BY <1>1, <2>7, <2>10, OwnersUntouched, NoKeyWritten
<1> QED
  BY <1>4, <1>5

\* The request is over.
LEMMA EndAskKeeps ==
  ASSUME AllInv, AccountsInv', NEW a \in Agents, EndAsk(a)
  PROVE  KeysInv'
<1>1. /\ asks' = [asks EXCEPT ![a] = Idle]
      /\ UNCHANGED accountVars /\ keys' = keys /\ grants' = grants /\ madeBy' = madeBy
  BY DEF EndAsk
<1>2. /\ asks' \in [Agents -> Ask] /\ asks'[a] = Idle
      /\ \A b \in Agents \ {a} : asks'[b] = asks[b]
  BY <1>1 DEF AllInv, KeysInv, KeysTypeOK, Ask
<1>3. AskInv(a)'
  BY <1>2 DEF AskInv, Idle
<1> QED
  BY <1>1, <1>2, <1>3, OwnersUntouched, NoKeyWritten

\* A revocation leaves the rest of the key as it was.
LEMMA RevokeKeyKeeps ==
  ASSUME AllInv, AccountsInv', NEW k \in KeyIds, RevokeKey(k)
  PROVE  KeysInv'
<1>1. PICK row : row = [keys[k] EXCEPT !.revoked = TRUE]
  OBVIOUS
<1>2. /\ HasKey(k) /\ keys' = [keys EXCEPT ![k] = row]
      /\ UNCHANGED accountVars /\ grants' = grants /\ madeBy' = madeBy /\ asks' = asks
  BY <1>1 DEF RevokeKey
<1>3. /\ keys \in [KeyIds -> Key \cup {NoRow}] /\ grants \in [KeyIds -> SUBSET Workspaces]
      /\ madeBy \in [Workspaces -> KeyIds \cup {NoRow}] /\ asks \in [Agents -> Ask]
      /\ \A j \in KeyIds : KeyInv(j)
  BY DEF AllInv, KeysInv, KeysTypeOK
<1>4. /\ row \in Key /\ row.home = keys[k].home /\ row.mode = keys[k].mode
      /\ row.create = keys[k].create /\ row.write = keys[k].write
  <2>1. keys[k] \in Key
    BY <1>2, KeyFacts
  <2> QED
    BY <1>1, <2>1 DEF Key
<1>5. keys' \in [KeyIds -> Key \cup {NoRow}] /\ keys'[k] = row /\ \A j \in KeyIds \ {k} : keys'[j] = keys[j]
  BY <1>2, <1>3, <1>4
<1>6. NoRow \notin Key
  BY KeysAssumption
<1>7. \A j \in KeyIds : /\ HasKey(j)' <=> HasKey(j)
                        /\ HasKey(j) => /\ keys'[j] \in Key
                                        /\ keys'[j].home = keys[j].home /\ keys'[j].mode = keys[j].mode
                                        /\ keys'[j].create = keys[j].create
                                        /\ keys'[j].write = keys[j].write
  BY <1>2, <1>3, <1>4, <1>5, <1>6 DEF HasKey
<1>8. \A ws \in Workspaces :
        /\ ownerOf[ws] \in Names => ownerOf'[ws] = ownerOf[ws]
        /\ MadeWorkspace(ws) => MadeWorkspace(ws)'
  BY <1>2, OwnersUntouched
<1>9. ASSUME NEW j \in KeyIds, HasKey(j) PROVE KeyInv(j)' /\ MadeWorkspace(keys[j].home)'
  <2>1. \A ws \in grants'[j] : ws \in grants[j] \/ ownerOf'[ws] = ownerOf'[keys[j].home]
    BY <1>2
  <2> QED
    BY <1>7, <1>8, <1>9, <2>1, KeyStays
<1>10. ASSUME NEW j \in KeyIds, ~HasKey(j) PROVE KeyInv(j)'
  BY <1>2, <1>3, <1>7, <1>10 DEF KeyInv
<1>11. /\ \A a \in Agents : asks'[a] = asks[a] => AskInv(a)'
       /\ \A ws \in Workspaces : madeBy'[ws] = madeBy[ws] => MadeInv(ws)'
  BY <1>2, <1>7, <1>8, KeysKept
<1>12. AccountsTypeOK'
  BY DEF AccountsInv
<1>13. \A j \in KeyIds : keys'[j] # NoRow =>
         MadeWorkspace(keys[j].home)' /\ (keys'[j].create => keys'[j].write /\ keys'[j].mode # "single")
  BY <1>7, <1>9, KeyFacts DEF HasKey
<1>14. KeysTypeOK'
  BY <1>2, <1>3, <1>5, <1>12, <1>13 DEF KeysTypeOK
<1> QED
  BY <1>2, <1>9, <1>10, <1>11, <1>14 DEF KeysInv

\* A new key, with grants among the workspaces of the owner of its home.
LEMMA IssueKeyKeeps ==
  ASSUME AllInv, AccountsInv', NEW n \in Registered, NEW k \in KeyIds, ~HasKey(k),
         NEW row \in NewKey(n), NEW extra \in SUBSET Workspaces, IssueKey(k, row, extra)
  PROVE  KeysInv'
<1>1. PICK g : g = IF row.mode = "selected" THEN extra \cup {row.home} ELSE {}
  OBVIOUS
<1>2. /\ row.create => row.write /\ row.mode # "single"
      /\ extra \subseteq Grantable(row.home)
      /\ keys' = [keys EXCEPT ![k] = row] /\ grants' = [grants EXCEPT ![k] = g]
      /\ UNCHANGED accountVars /\ madeBy' = madeBy /\ asks' = asks
  BY <1>1 DEF IssueKey
<1>3. /\ keys \in [KeyIds -> Key \cup {NoRow}] /\ grants \in [KeyIds -> SUBSET Workspaces]
      /\ madeBy \in [Workspaces -> KeyIds \cup {NoRow}] /\ asks \in [Agents -> Ask]
      /\ \A j \in KeyIds : KeyInv(j)
  BY DEF AllInv, KeysInv, KeysTypeOK
<1>4. row \in Key /\ row.home \in Workspaces /\ ownerOf[row.home] = n /\ n \in Names
  BY DEF NewKey, OwnedBy, Key, Registered
<1>5. NoRow \notin Key /\ NoRow \notin Names
  BY KeysAssumption, AccountsAssumption
<1>6. MadeWorkspace(row.home)
  BY <1>4, <1>5 DEF MadeWorkspace
<1>7. g \subseteq Workspaces /\ \A ws \in g : ownerOf[ws] = ownerOf[row.home]
  BY <1>1, <1>2, <1>4 DEF Grantable
<1>8. /\ keys' \in [KeyIds -> Key \cup {NoRow}] /\ keys'[k] = row
      /\ grants' \in [KeyIds -> SUBSET Workspaces] /\ grants'[k] = g
      /\ \A j \in KeyIds \ {k} : keys'[j] = keys[j] /\ grants'[j] = grants[j]
  BY <1>2, <1>3, <1>4, <1>7
<1>9. \A j \in KeyIds : HasKey(j) => j # k /\ HasKey(j)'
  BY <1>8 DEF HasKey
<1>10. \A ws \in Workspaces :
         /\ ownerOf[ws] \in Names => ownerOf'[ws] = ownerOf[ws]
         /\ MadeWorkspace(ws) => MadeWorkspace(ws)'
  BY <1>2, OwnersUntouched
<1>11. ownerOf' = ownerOf
  BY <1>2 DEF accountVars
<1>12. KeyInv(k)' /\ MadeWorkspace(row.home)'
  BY <1>2, <1>4, <1>5, <1>6, <1>7, <1>8, <1>11 DEF KeyInv, HasKey, Home, MadeWorkspace
<1>13. ASSUME NEW j \in KeyIds, HasKey(j) PROVE KeyInv(j)' /\ MadeWorkspace(keys[j].home)'
  <2>1. keys'[j] \in Key /\ keys'[j] = keys[j] /\ grants'[j] = grants[j]
    BY <1>8, <1>9, <1>13, KeyFacts
  <2> QED
    BY <1>10, <1>13, <2>1, KeyStays
<1>14. ASSUME NEW j \in KeyIds \ {k}, ~HasKey(j) PROVE KeyInv(j)'
  <2>1. ~HasKey(j)' /\ grants'[j] = {}
    BY <1>3, <1>8, <1>14 DEF KeyInv, HasKey
  <2> QED
    BY <2>1 DEF KeyInv
<1>15. /\ \A a \in Agents : asks'[a] = asks[a] => AskInv(a)'
       /\ \A ws \in Workspaces : madeBy'[ws] = madeBy[ws] => MadeInv(ws)'
  BY <1>8, <1>9, <1>10, KeysKept
<1>16. AccountsTypeOK'
  BY DEF AccountsInv
<1>17. ASSUME NEW j \in KeyIds, keys'[j] # NoRow
       PROVE  MadeWorkspace(keys[j].home)' /\ (keys'[j].create => keys'[j].write /\ keys'[j].mode # "single")
  <2>1. CASE j = k
    BY <1>2, <1>8, <1>12, <2>1 DEF MadeWorkspace
  <2>2. CASE j # k
    BY <1>8, <1>13, <1>17, <2>2, KeyFacts DEF HasKey, MadeWorkspace
  <2> QED
    BY <2>1, <2>2
<1>18. KeysTypeOK'
  BY <1>2, <1>3, <1>8, <1>16, <1>17 DEF KeysTypeOK, MadeWorkspace
<1> QED
  BY <1>2, <1>12, <1>13, <1>14, <1>15, <1>18 DEF KeysInv

\* A start of a process grants every key its home, and takes nothing away.
LEMMA GrantHomesKeeps ==
  ASSUME AllInv, AccountsInv', GrantHomes
  PROVE  KeysInv'
<1>1. /\ keys \in [KeyIds -> Key \cup {NoRow}] /\ grants \in [KeyIds -> SUBSET Workspaces]
      /\ madeBy \in [Workspaces -> KeyIds \cup {NoRow}] /\ asks \in [Agents -> Ask]
      /\ \A j \in KeyIds : KeyInv(j)
  BY DEF AllInv, KeysInv, KeysTypeOK
<1>2. /\ grants' = [k \in KeyIds |-> grants[k] \cup {ws \in Workspaces : HasKey(k) /\ keys[k].home = ws}]
      /\ UNCHANGED accountVars /\ keys' = keys /\ madeBy' = madeBy /\ asks' = asks
  BY DEF GrantHomes
<1>3. grants' \in [KeyIds -> SUBSET Workspaces]
  BY <1>1, <1>2
<1>4. \A k : HasKey(k)' <=> HasKey(k)
  BY <1>2 DEF HasKey
<1>5. \A ws \in Workspaces :
        /\ ownerOf[ws] \in Names => ownerOf'[ws] = ownerOf[ws]
        /\ MadeWorkspace(ws) => MadeWorkspace(ws)'
  BY <1>2, OwnersUntouched
<1>6. ASSUME NEW k \in KeyIds, HasKey(k) PROVE KeyInv(k)' /\ MadeWorkspace(keys[k].home)'
  <2>1. keys'[k] \in Key
    BY <1>2, <1>6, KeyFacts
  <2>2. \A ws \in grants'[k] : ws \in grants[k] \/ ownerOf'[ws] = ownerOf'[keys[k].home]
    BY <1>2
  <2> QED
    BY <1>2, <1>5, <1>6, <2>1, <2>2, KeyStays
<1>7. ASSUME NEW k \in KeyIds, ~HasKey(k) PROVE KeyInv(k)'
  <2>1. grants'[k] = {}
    BY <1>1, <1>2, <1>7 DEF KeyInv
  <2> QED
    BY <1>4, <1>7, <2>1 DEF KeyInv
<1>8. /\ \A a \in Agents : asks'[a] = asks[a] => AskInv(a)'
      /\ \A ws \in Workspaces : madeBy'[ws] = madeBy[ws] => MadeInv(ws)'
  <2>1. \A k \in KeyIds : grants[k] \subseteq grants'[k]
    BY <1>2
  <2> QED
    BY <1>2, <1>4, <1>5, <2>1, KeysKept
<1>9. AccountsTypeOK'
  BY DEF AccountsInv
<1>10. \A k \in KeyIds : keys'[k] # NoRow =>
         MadeWorkspace(keys[k].home)' /\ (keys'[k].create => keys'[k].write /\ keys'[k].mode # "single")
  BY <1>2, <1>6, KeyFacts DEF HasKey
<1>11. KeysTypeOK'
  BY <1>1, <1>2, <1>3, <1>9, <1>10 DEF KeysTypeOK
<1> QED
  BY <1>2, <1>6, <1>7, <1>8, <1>11 DEF KeysInv

\* A key makes a workspace: it belongs to the owner of the home, and the grant
\* comes with it.
LEMMA CreateForKeyKeeps ==
  ASSUME AllInv, AccountsInv', NEW a \in Agents, NEW ws \in Workspaces, CreateWorkspaceForKey(a, ws)
  PROVE  KeysInv'
<1>1. PICK k : k = asks[a].key
  OBVIOUS
<1>2. /\ asks[a].pc = "choose" /\ asks[a].id.create /\ ~MadeWorkspace(ws)
      /\ ownerOf' = [ownerOf EXCEPT ![ws] = ownerOf[keys[k].home]]
      /\ madeBy' = [madeBy EXCEPT ![ws] = k]
      /\ grants' = [grants EXCEPT ![k] = grants[k] \cup {ws}]
      /\ asks' = [asks EXCEPT ![a] = Idle]
      /\ keys' = keys
  BY <1>1 DEF CreateWorkspaceForKey
<1>3. /\ keys \in [KeyIds -> Key \cup {NoRow}] /\ grants \in [KeyIds -> SUBSET Workspaces]
      /\ madeBy \in [Workspaces -> KeyIds \cup {NoRow}] /\ asks \in [Agents -> Ask]
      /\ ownerOf \in [Workspaces -> Names \cup {Nobody, NoRow}]
      /\ \A j \in KeyIds : KeyInv(j)
  BY DEF AllInv, KeysInv, KeysTypeOK, AccountsTypeOK
<1>4. asks[a] # Idle
  BY <1>2 DEF Idle
<1>5. k \in KeyIds /\ HasKey(k) /\ keys[k].create
  BY <1>1, <1>2, <1>4, AskFacts
<1>6. Home(k) \in Workspaces /\ ownerOf[Home(k)] \in Names /\ MadeWorkspace(Home(k))
  BY <1>5, KeyFacts
<1>7. \A w \in Workspaces :
        /\ ownerOf[w] \in Names => ownerOf'[w] = ownerOf[w]
        /\ MadeWorkspace(w) => MadeWorkspace(w)'
  <2>1. [AccountsNext]_accountVars
    BY CreateForKeyIsOwned
  <2> QED
    BY <2>1, OwnersStay DEF AllInv
<1>8. ownerOf'[ws] = ownerOf[Home(k)] /\ ownerOf'[Home(k)] = ownerOf[Home(k)]
  BY <1>2, <1>3, <1>6, <1>7 DEF Home
<1>9. /\ grants' \in [KeyIds -> SUBSET Workspaces] /\ grants'[k] = grants[k] \cup {ws}
      /\ \A j \in KeyIds \ {k} : grants'[j] = grants[j]
  BY <1>2, <1>3, <1>5
<1>10. /\ madeBy' \in [Workspaces -> KeyIds \cup {NoRow}] /\ madeBy'[ws] = k
       /\ \A w \in Workspaces \ {ws} : madeBy'[w] = madeBy[w]
  BY <1>2, <1>3, <1>5
<1>11. /\ asks' \in [Agents -> Ask] /\ asks'[a] = Idle
       /\ \A b \in Agents \ {a} : asks'[b] = asks[b]
  BY <1>2, <1>3 DEF Ask
<1>12. \A j : HasKey(j)' <=> HasKey(j)
  BY <1>2 DEF HasKey
<1>13. ASSUME NEW j \in KeyIds, HasKey(j) PROVE KeyInv(j)' /\ MadeWorkspace(keys[j].home)'
  <2>1. keys'[j] \in Key
    BY <1>2, <1>13, KeyFacts
  <2>2. \A w \in grants'[j] : w \in grants[j] \/ ownerOf'[w] = ownerOf'[keys[j].home]
    BY <1>8, <1>9 DEF Home
  <2> QED
    BY <1>2, <1>7, <1>13, <2>1, <2>2, KeyStays
<1>14. ASSUME NEW j \in KeyIds, ~HasKey(j) PROVE KeyInv(j)'
  <2>1. grants'[j] = {}
    BY <1>3, <1>5, <1>9, <1>14 DEF KeyInv
  <2> QED
    BY <1>12, <1>14, <2>1 DEF KeyInv
<1>15. /\ \A b \in Agents : asks'[b] = asks[b] => AskInv(b)'
       /\ \A w \in Workspaces : madeBy'[w] = madeBy[w] => MadeInv(w)'
  <2>1. \A j \in KeyIds : grants[j] \subseteq grants'[j]
    BY <1>9
  <2> QED
    BY <1>2, <1>7, <1>12, <2>1, KeysKept
<1>16. AskInv(a)'
  BY <1>11 DEF AskInv, Idle
<1>17. MadeInv(ws)'
  BY <1>2, <1>5, <1>9, <1>10, <1>12 DEF MadeInv
<1>18. AccountsTypeOK'
  BY DEF AccountsInv
<1>19. \A j \in KeyIds : keys'[j] # NoRow =>
         MadeWorkspace(keys[j].home)' /\ (keys'[j].create => keys'[j].write /\ keys'[j].mode # "single")
  BY <1>2, <1>13, KeyFacts DEF HasKey
<1>20. KeysTypeOK'
  BY <1>2, <1>3, <1>9, <1>10, <1>11, <1>18, <1>19 DEF KeysTypeOK
<1> QED
  BY <1>10, <1>11, <1>13, <1>14, <1>15, <1>16, <1>17, <1>20 DEF KeysInv

\* Every step of AgentKeys keeps both invariants.
LEMMA KeysStep ==
  ASSUME AllInv, [KeysNext]_keyVars
  PROVE  AllInv'
<1>1. [AccountsNext]_accountVars
  BY KeysStepIsAccountsStep
<1>2. AccountsInv'
  BY <1>1, AccountsStep DEF AllInv
<1> SUFFICES KeysInv'
  BY <1>2 DEF AllInv
<1>3. CASE UNCHANGED <<keys, grants, madeBy, asks>>
  BY <1>1, <1>2, <1>3, AccountsOnlyKeeps
<1>4. CASE \E k \in KeyIds : RevokeKey(k)
  BY <1>2, <1>4, RevokeKeyKeeps
<1>5. CASE \E n \in Registered, k \in {x \in KeyIds : ~HasKey(x)} :
             \E row \in NewKey(n), extra \in SUBSET Workspaces : IssueKey(k, row, extra)
  BY <1>2, <1>5, IssueKeyKeeps
<1>6. CASE GrantHomes
  BY <1>2, <1>6, GrantHomesKeeps
<1>7. CASE \E a \in Agents :
             \/ \E k \in KeyIds : Authenticate(a, k)
             \/ \E ws \in Workspaces : Choose(a, ws) \/ CreateWorkspaceForKey(a, ws)
             \/ EndAsk(a)
  BY <1>2, <1>7, AuthenticateKeeps, ChooseKeeps, CreateForKeyKeeps, EndAskKeeps
<1>8. CASE UNCHANGED keyVars
  BY <1>3, <1>8 DEF keyVars
<1> QED
  BY <1>3, <1>4, <1>5, <1>6, <1>7, <1>8 DEF KeysNext

\* At the start there is no key.
LEMMA KeysInitHolds ==
  ASSUME KeysInit
  PROVE  AllInv
<1>1. AccountsInv
  BY AccountsInitHolds DEF KeysInit
<1>2. KeysTypeOK
  BY <1>1 DEF KeysInit, KeysTypeOK, AccountsInv, Ask
<1>3. /\ \A k \in KeyIds : KeyInv(k)
      /\ \A a \in Agents : AskInv(a)
      /\ \A ws \in Workspaces : MadeInv(ws)
  BY DEF KeysInit, KeyInv, HasKey, AskInv, MadeInv
<1> QED
  BY <1>1, <1>2, <1>3 DEF AllInv, KeysInv

\* The invariant of keys, with that of the accounts under them.
THEOREM KeysInvariant == KeysSpec => []AllInv
<1>1. KeysInit => AllInv
  BY KeysInitHolds
<1>2. AllInv /\ [KeysNext]_keyVars => AllInv'
  BY KeysStep
<1> QED
  BY <1>1, <1>2, PTL DEF KeysSpec

\* What is proved of Accounts holds where requests with keys make workspaces too.
THEOREM KeysImplementAccounts == KeysSpec => AccountsSpec
<1>1. KeysInit => AccountsInit
  BY DEF KeysInit
<1>2. AllInv /\ [KeysNext]_keyVars => [AccountsNext]_accountVars
  BY KeysStepIsAccountsStep
<1> QED
  BY <1>1, <1>2, KeysInvariant, PTL DEF KeysSpec, AccountsSpec

-----------------------------------------------------------------------------
\* The owner a request has read is still the owner of everything it was allowed.
LEMMA KeysStayFromInv ==
  ASSUME AllInv
  PROVE  KeysStayWithTheirOwner
BY AskFacts DEF KeysStayWithTheirOwner

\* Grants of a key there is, and of none.
LEMMA GrantsStayFromInv ==
  ASSUME AllInv
  PROVE  GrantsStayWithTheOwner
<1>1. ASSUME NEW k \in KeyIds, HasKey(k), NEW ws \in grants[k] PROVE ownerOf[ws] = ownerOf[keys[k].home]
  BY <1>1, KeyFacts DEF Home
<1>2. ASSUME NEW k \in KeyIds, ~HasKey(k) PROVE grants[k] = {}
  BY <1>2 DEF AllInv, KeysInv, KeyInv
<1> QED
  BY <1>1, <1>2 DEF GrantsStayWithTheOwner

\* A key that may create reaches more than its home.
LEMMA KeysReachFromInv ==
  ASSUME AllInv
  PROVE  KeysReachWhatTheyMake
<1> SUFFICES ASSUME NEW ws \in Workspaces, NEW a \in Agents, asks[a] # Idle, madeBy[ws] = asks[a].key
             PROVE  ws \in Allowed(a)
  BY DEF KeysReachWhatTheyMake
<1>1. PICK k : k = asks[a].key
  OBVIOUS
<1>2. /\ k \in KeyIds /\ HasKey(k) /\ asks[a].id.home = Home(k) /\ asks[a].id.mode = keys[k].mode
      /\ asks[a].owner = ownerOf[Home(k)]
  BY <1>1, AskFacts
<1>3. keys[k].create /\ ws \in grants[k]
  BY <1>1, <1>2, KeysAssumption DEF AllInv, KeysInv, MadeInv
<1>4. keys[k] \in Key /\ keys[k].mode # "single" /\ ownerOf[ws] = ownerOf[Home(k)]
  BY <1>2, <1>3, KeyFacts
<1>5. asks[a].id.mode \in {"selected", "all"}
  BY <1>2, <1>4 DEF Key, Modes
<1>6. ws \in OwnedBy(asks[a].owner)
  BY <1>2, <1>4 DEF OwnedBy
<1>7. CASE asks[a].id.mode = "all"
  BY <1>6, <1>7 DEF Allowed
<1>8. CASE asks[a].id.mode = "selected"
  BY <1>1, <1>3, <1>6, <1>8 DEF Allowed
<1> QED
  BY <1>5, <1>7, <1>8

\* The tables of keys and grants are of their types, and no key may create
\* without writing or for a single workspace.
THEOREM KeysTypes == KeysSpec => []KeysTypeOK
<1>1. AllInv => KeysTypeOK
  BY DEF AllInv, KeysInv
<1> QED
  BY <1>1, KeysInvariant, PTL

\* No request is allowed a workspace of another owner than that of its key.
THEOREM KeysStay == KeysSpec => []KeysStayWithTheirOwner
<1>1. AllInv => KeysStayWithTheirOwner
  BY KeysStayFromInv
<1> QED
  BY <1>1, KeysInvariant, PTL

\* No grant is for a workspace of another owner.
THEOREM GrantsStay == KeysSpec => []GrantsStayWithTheOwner
<1>1. AllInv => GrantsStayWithTheOwner
  BY GrantsStayFromInv
<1> QED
  BY <1>1, KeysInvariant, PTL

\* A key can use what it has made.
THEOREM KeysReach == KeysSpec => []KeysReachWhatTheyMake
<1>1. AllInv => KeysReachWhatTheyMake
  BY KeysReachFromInv
<1> QED
  BY <1>1, KeysInvariant, PTL

\* The promises of Accounts, in the composed system that the run checks.
THEOREM AccountsUnderKeys ==
  KeysSpec => /\ []OneAdministrator /\ []EveryWorkspaceIsOwned /\ []AcceptanceIsAtomic
              /\ RevokedIsNeverSpent
BY KeysImplementAccounts, AdministratorIsOne, WorkspacesAreOwned, AcceptancesAreAtomic, RevocationIsFinal

\* A workspace never changes hands: ownership is given once, at its creation or
\* by the bootstrap command to the administrator, and never taken.
THEOREM WorkspacesStayWithTheirOwner ==
  KeysSpec => [][\A ws \in Workspaces :
                   ownerOf[ws] \in Names => ownerOf'[ws] = ownerOf[ws]]_accountVars
<1>1. AccountsInv /\ [AccountsNext]_accountVars =>
        [\A ws \in Workspaces : ownerOf[ws] \in Names => ownerOf'[ws] = ownerOf[ws]]_accountVars
  BY OwnersStay
<1> QED
  BY <1>1, AccountsInvariant, KeysImplementAccounts, PTL DEF AccountsSpec
=============================================================================
