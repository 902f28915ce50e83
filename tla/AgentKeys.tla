------------------------------ MODULE AgentKeys ------------------------------
(***************************************************************************)
(* Agent keys over Accounts: an MCP request is authenticated (security.go, *)
(* agent), chooses its workspaces (workspacePrincipal, twice for a move)   *)
(* and only then acts, while owners issue and revoke keys and accounts and *)
(* workspaces come into being.                                             *)
(***************************************************************************)
EXTENDS Accounts

CONSTANTS
  KeyIds,
  Agents    \* MCP requests in progress

Modes == {"single", "selected", "all"}
Key == [home: Workspaces, mode: Modes, write: BOOLEAN, create: BOOLEAN, revoked: BOOLEAN]

ASSUME KeysAssumption == NoRow \notin Key \cup KeyIds

VARIABLES
  keys,    \* agent_keys
  grants,  \* agent_key_workspaces
  madeBy,  \* history: the key that created a workspace
  asks     \* what each MCP request has in hand

keyVars == <<owners, invitations, ownerOf, inviteLock, bootLock, pc, call, keys, grants, madeBy, asks>>

\* The identity agent() reads at the start of a request, with the owner of the
\* home workspace, and the workspaces it has been allowed since.
Idle == [pc |-> "idle"]
Ask == [pc: {"choose"}, key: KeyIds, id: Key, owner: Names \cup {Nobody},
        on: SUBSET Workspaces] \cup {Idle}

KeysTypeOK ==
  /\ AccountsTypeOK
  /\ keys \in [KeyIds -> Key \cup {NoRow}]
  /\ grants \in [KeyIds -> SUBSET Workspaces]
  /\ madeBy \in [Workspaces -> KeyIds \cup {NoRow}]
  /\ asks \in [Agents -> Ask]
  /\ \A k \in KeyIds : keys[k] # NoRow =>
       /\ MadeWorkspace(keys[k].home)
       /\ keys[k].create => keys[k].write /\ keys[k].mode # "single"

KeysInit ==
  /\ AccountsInit
  /\ keys = [k \in KeyIds |-> NoRow]
  /\ grants = [k \in KeyIds |-> {}]
  /\ madeBy = [ws \in Workspaces |-> NoRow]
  /\ asks = [a \in Agents |-> Idle]

-----------------------------------------------------------------------------
HasKey(k) == keys[k] # NoRow
OwnedBy(n) == {ws \in Workspaces : ownerOf[ws] = n}

\* What a new key may be granted besides its home.
GrantableAny(home) == {ws \in Workspaces : MadeWorkspace(ws)}   \* mutant: of any owner
Grantable(home) == {ws \in Workspaces : MadeWorkspace(ws) /\ ownerOf[ws] = ownerOf[home]}

NewKey(n) == [home: OwnedBy(n), mode: Modes, write: BOOLEAN, create: BOOLEAN, revoked: {FALSE}]

IssueAny(k, row, extra) ==   \* mutant: the permissions are not checked
  /\ extra \subseteq Grantable(row.home)
  /\ keys' = [keys EXCEPT ![k] = row]
  /\ grants' = [grants EXCEPT ![k] = IF row.mode = "selected" THEN extra \cup {row.home} ELSE {}]
  /\ UNCHANGED <<accountVars, madeBy, asks>>

\* POST .../keys, by the owner of the home workspace.
IssueKey(k, row, extra) ==
  /\ row.create => row.write /\ row.mode # "single"
  /\ extra # {} => row.mode = "selected"
  /\ extra \subseteq Grantable(row.home)
  /\ keys' = [keys EXCEPT ![k] = row]
  /\ grants' = [grants EXCEPT ![k] = IF row.mode = "selected" THEN extra \cup {row.home} ELSE {}]
  /\ UNCHANGED <<accountVars, madeBy, asks>>

RevokeKey(k) ==
  /\ HasKey(k) /\ ~keys[k].revoked
  /\ keys' = [keys EXCEPT ![k].revoked = TRUE]
  /\ UNCHANGED <<accountVars, grants, madeBy, asks>>

\* Every start of a process grants every key its home (Migrate).
GrantHomes ==
  /\ grants' = [k \in KeyIds |-> grants[k] \cup {ws \in Workspaces : HasKey(k) /\ keys[k].home = ws}]
  /\ UNCHANGED <<accountVars, keys, madeBy, asks>>

Authenticate(a, k) ==
  /\ asks[a] = Idle
  /\ HasKey(k) /\ ~keys[k].revoked
  /\ asks' = [asks EXCEPT ![a] =
       [pc |-> "choose", key |-> k, id |-> keys[k], owner |-> ownerOf[keys[k].home], on |-> {}]]
  /\ UNCHANGED <<accountVars, keys, grants, madeBy>>

AllowedUnowned(a) ==   \* mutant: a key for all workspaces is for everybody's
  LET id == asks[a].id IN
  CASE id.mode = "all"      -> {ws \in Workspaces : MadeWorkspace(ws)}
    [] id.mode = "selected" -> grants[asks[a].key] \cap OwnedBy(asks[a].owner)
    [] id.mode = "single"   -> {id.home}

\* What workspacePrincipal lets the request use at this moment.
Allowed(a) ==
  LET id == asks[a].id IN
  CASE id.mode = "all"      -> OwnedBy(asks[a].owner)
    [] id.mode = "selected" -> grants[asks[a].key] \cap OwnedBy(asks[a].owner)
    [] id.mode = "single"   -> {id.home}

Choose(a, ws) ==
  /\ asks[a].pc = "choose"
  /\ Cardinality(asks[a].on) < IF asks[a].id.write THEN 2 ELSE 1   \* two for a move
  /\ asks' = [asks EXCEPT ![a] = IF ws \in Allowed(a) THEN [asks[a] EXCEPT !.on = @ \cup {ws}] ELSE Idle]
  /\ UNCHANGED <<accountVars, keys, grants, madeBy>>

MadeUngranted(a, ws) ==   \* mutant: the new workspace is not granted
  LET k == asks[a].key IN
  /\ asks[a].pc = "choose" /\ asks[a].id.create /\ ~MadeWorkspace(ws)
  /\ ownerOf' = [ownerOf EXCEPT ![ws] = ownerOf[keys[k].home]]
  /\ madeBy' = [madeBy EXCEPT ![ws] = k]
  /\ asks' = [asks EXCEPT ![a] = Idle]
  /\ UNCHANGED <<owners, invitations, inviteLock, bootLock, pc, call, keys, grants>>

\* kasane_workspace_create: the permission is that of the identity, the owner is
\* that of the home workspace; the key is not asked again whether it is revoked.
CreateWorkspaceForKey(a, ws) ==
  LET k == asks[a].key IN
  /\ asks[a].pc = "choose" /\ asks[a].id.create /\ ~MadeWorkspace(ws)
  /\ ownerOf' = [ownerOf EXCEPT ![ws] = ownerOf[keys[k].home]]
  /\ madeBy' = [madeBy EXCEPT ![ws] = k]
  /\ grants' = [grants EXCEPT ![k] = @ \cup {ws}]
  /\ asks' = [asks EXCEPT ![a] = Idle]
  /\ UNCHANGED <<owners, invitations, inviteLock, bootLock, pc, call, keys>>

\* The request has acted, or was refused or cut off.
EndAsk(a) ==
  /\ asks[a] # Idle
  /\ asks' = [asks EXCEPT ![a] = Idle]
  /\ UNCHANGED <<accountVars, keys, grants, madeBy>>

KeysNext ==
  \/ AccountsNext /\ UNCHANGED <<keys, grants, madeBy, asks>>
  \/ \E k \in KeyIds : RevokeKey(k)
  \/ \E n \in Registered, k \in {x \in KeyIds : ~HasKey(x)} :
       \E row \in NewKey(n), extra \in SUBSET Workspaces : IssueKey(k, row, extra)
  \/ GrantHomes
  \/ \E a \in Agents :
       \/ \E k \in KeyIds : Authenticate(a, k)
       \/ \E ws \in Workspaces : Choose(a, ws) \/ CreateWorkspaceForKey(a, ws)
       \/ EndAsk(a)

KeysSpec == KeysInit /\ [][KeysNext]_keyVars

-----------------------------------------------------------------------------
\* No key gives access to another user's workspace: whatever a request has been
\* allowed belongs to the owner of the key's home, for every access mode and
\* for workspaces made since.
KeysStayWithTheirOwner ==
  \A a \in Agents : asks[a] # Idle =>
    \A ws \in asks[a].on : ownerOf[ws] = ownerOf[asks[a].id.home]

\* Every stored grant is for a workspace of the key's owner.
GrantsStayWithTheOwner ==
  \A k \in KeyIds : \A ws \in grants[k] : ownerOf[ws] = ownerOf[keys[k].home]

\* A key that creates a workspace can use it from then on: creation and grant
\* are one step, and a later start takes nothing away.
KeysReachWhatTheyMake ==
  \A ws \in Workspaces, a \in Agents :
    asks[a] # Idle /\ madeBy[ws] = asks[a].key => ws \in Allowed(a)
=============================================================================
