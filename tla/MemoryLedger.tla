---------------------------- MODULE MemoryLedger ----------------------------
(***************************************************************************)
(* What the memory store promises to its callers: every write happens at   *)
(* one instant, on the row the caller named, and leaves the table within   *)
(* its limits.  MemoryStore is the code, statement by statement with its   *)
(* row locks; it implements this module.                                   *)
(*                                                                         *)
(* The authored columns title, content, tags and source are one value, the *)
(* body of a memory; Blank is what Forget leaves of it.  indexed_revision  *)
(* belongs to the indexing pipeline and is kept out of the ledger.         *)
(***************************************************************************)
EXTENDS Naturals, FiniteSets

CONSTANTS
  Workspaces,    \* workspace ids; UUIDs compared as strings, here numbers
  MemIds,        \* ids a memory can get; bounds the number of creates
  Bodies,        \* authored content
  Keys,          \* idempotency keys a client may send
  ProfileKinds,  \* "stack" and "practice", which every statement treats alike
  MaxProfile,    \* stack + practice entries allowed per workspace (100)
  NoRow, NoKey, Blank

Kinds == {"memory"} \cup ProfileKinds

Row == [ws: Workspaces, kind: Kinds, body: Bodies \cup {Blank}, rev: Nat,
        key: Keys \cup {NoKey}, deleted: BOOLEAN]

ASSUME LedgerAssumption ==
  /\ Workspaces \subseteq Nat
  /\ IsFiniteSet(MemIds)
  /\ MaxProfile \in Nat
  /\ ProfileKinds \subseteq {"stack", "practice"}
  /\ NoKey \notin Keys
  /\ NoRow \notin Row

VARIABLE memories   \* the memories table: id -> row

Exists(m) == memories[m] # NoRow
Live(m) == Exists(m) /\ ~memories[m].deleted
LiveIn(m, ws) == Live(m) /\ memories[m].ws = ws

\* The live stack and practice entries of a workspace, and the full profile.
Profile(ws) == {m \in MemIds : LiveIn(m, ws) /\ memories[m].kind \in ProfileKinds}
ProfileFull(ws) == Cardinality(Profile(ws)) >= MaxProfile

\* The UNIQUE(workspace_id, idempotency_key) entry of the table.
HoldsKey(m, ws, key) == Exists(m) /\ memories[m].ws = ws /\ memories[m].key = key

NewRow(ws, kind, body, key) ==
  [ws |-> ws, kind |-> kind, body |-> body, rev |-> 1, key |-> key, deleted |-> FALSE]
Revised(row, kind, body) ==
  [row EXCEPT !.kind = kind, !.body = body, !.rev = @ + 1]
RelocatedWithKey(row, ws) == [row EXCEPT !.ws = ws, !.rev = @ + 1]   \* mutant: keeps the key
RelocatedInPlace(row, ws) == [row EXCEPT !.ws = ws, !.key = NoKey]   \* mutant: same revision
Relocated(row, ws) ==
  [row EXCEPT !.ws = ws, !.key = NoKey, !.rev = @ + 1]
Erased(row) ==
  [row EXCEPT !.body = Blank, !.deleted = TRUE, !.rev = @ + 1]

-----------------------------------------------------------------------------
LedgerInit == memories = [m \in MemIds |-> NoRow]

\* A create takes an id nobody has, a key nobody holds in the workspace and,
\* for a profile entry, a free place in the profile.
Create(m, ws, kind, body, key) ==
  /\ ~Exists(m)
  /\ key # NoKey => \A o \in MemIds : ~HoldsKey(o, ws, key)
  /\ kind \in ProfileKinds => ~ProfileFull(ws)
  /\ memories' = [memories EXCEPT ![m] = NewRow(ws, kind, body, key)]

\* Turning a plain memory into a profile entry takes a place in the profile.
Revise(m, ws, kind, body) ==
  /\ LiveIn(m, ws)
  /\ memories[m].kind = "memory" /\ kind \in ProfileKinds => ~ProfileFull(ws)
  /\ memories' = [memories EXCEPT ![m] = Revised(@, kind, body)]

Relocate(m, from, to) ==
  /\ from # to
  /\ LiveIn(m, from)
  /\ memories[m].kind \in ProfileKinds => ~ProfileFull(to)
  /\ memories' = [memories EXCEPT ![m] = Relocated(@, to)]

Erase(m, ws) ==
  /\ LiveIn(m, ws)
  /\ memories' = [memories EXCEPT ![m] = Erased(@)]

LedgerNext ==
  \E m \in MemIds, ws \in Workspaces :
    \/ \E kind \in Kinds, body \in Bodies, key \in Keys \cup {NoKey} :
         Create(m, ws, kind, body, key)
    \/ \E kind \in Kinds, body \in Bodies : Revise(m, ws, kind, body)
    \/ \E to \in Workspaces : Relocate(m, ws, to)
    \/ Erase(m, ws)

LedgerSpec == LedgerInit /\ [][LedgerNext]_memories

-----------------------------------------------------------------------------
LedgerTypeOK == memories \in [MemIds -> Row \cup {NoRow}]

\* The development profile of a workspace never exceeds its limit, whatever
\* mix of creates, promotions to stack or practice, and moves runs at once
\* (store.go counts before it writes, in separate statements).
ProfileCapped == \A ws \in Workspaces : Cardinality(Profile(ws)) <= MaxProfile

\* Two rows never share a workspace and an idempotency key: a retried create
\* is the first create, not a second memory.
KeysUnique ==
  \A m, o \in MemIds :
    /\ Exists(m) /\ Exists(o)
    /\ memories[m].ws = memories[o].ws
    /\ memories[m].key = memories[o].key /\ memories[m].key # NoKey
    => m = o

\* (id, revision) names one version for ever: a row changes only together
\* with its revision, by one; a forgotten memory stays forgotten.  This is
\* what Rehydrate relies on when it compares the revision of a search hit.
RowKept(m) ==
  Exists(m) =>
    /\ Exists(m)'
    /\ \/ memories'[m] = memories[m]
       \/ ~memories[m].deleted /\ memories'[m].rev = memories[m].rev + 1
RevisionsIdentify == [][\A m \in MemIds : RowKept(m)]_memories
=============================================================================
