------------------------- MODULE MemoryLedgerProofs -------------------------
(***************************************************************************)
(* What every implementation of MemoryLedger inherits: the types, the      *)
(* profile limit and the meaning of a revision.                            *)
(***************************************************************************)
EXTENDS MemoryLedger, FiniteSetTheorems, TLAPS

\* The rows a write leaves are rows.
LEMMA WrittenRows ==
  ASSUME NEW row \in Row
  PROVE  /\ \A kind \in Kinds, body \in Bodies : Revised(row, kind, body) \in Row
         /\ \A ws \in Workspaces : Relocated(row, ws) \in Row
         /\ Erased(row) \in Row
<1>0. row.rev + 1 \in Nat
  BY DEF Row
<1>1. \A kind \in Kinds, body \in Bodies : Revised(row, kind, body) \in Row
  BY <1>0 DEF Revised, Row
<1>2. \A ws \in Workspaces : Relocated(row, ws) \in Row
  BY <1>0 DEF Relocated, Row
<1>3. Erased(row) \in Row
  BY <1>0 DEF Erased, Row
<1> QED BY <1>1, <1>2, <1>3

\* Every row of the table is typed (the columns and CHECKs of schema.sql).
THEOREM LedgerTypes == LedgerSpec => []LedgerTypeOK
<1>1. LedgerInit => LedgerTypeOK
  BY DEF LedgerInit, LedgerTypeOK
<1>2. LedgerTypeOK /\ [LedgerNext]_memories => LedgerTypeOK'
  <2> SUFFICES ASSUME LedgerTypeOK, LedgerNext PROVE LedgerTypeOK'
    BY DEF LedgerTypeOK
  <2> PICK m \in MemIds, ws \in Workspaces :
        \/ \E kind \in Kinds, body \in Bodies, key \in Keys \cup {NoKey} :
             Create(m, ws, kind, body, key)
        \/ \E kind \in Kinds, body \in Bodies : Revise(m, ws, kind, body)
        \/ \E to \in Workspaces : Relocate(m, ws, to)
        \/ Erase(m, ws)
    BY DEF LedgerNext
  <2>0. memories[m] \in Row \cup {NoRow}
    BY DEF LedgerTypeOK
  <2>1. ASSUME NEW kind \in Kinds, NEW body \in Bodies, NEW key \in Keys \cup {NoKey},
               Create(m, ws, kind, body, key)
        PROVE  LedgerTypeOK'
    <3>1. NewRow(ws, kind, body, key) \in Row
      BY DEF NewRow, Row
    <3> QED BY <2>1, <3>1 DEF Create, LedgerTypeOK
  <2>2. ASSUME NEW kind \in Kinds, NEW body \in Bodies, Revise(m, ws, kind, body)
        PROVE  LedgerTypeOK'
    <3>1. Revised(memories[m], kind, body) \in Row
      BY <2>0, <2>2, WrittenRows DEF Revise, LiveIn, Live, Exists
    <3> QED BY <2>2, <3>1 DEF Revise, LedgerTypeOK
  <2>3. ASSUME NEW to \in Workspaces, Relocate(m, ws, to)
        PROVE  LedgerTypeOK'
    <3>1. Relocated(memories[m], to) \in Row
      BY <2>0, <2>3, WrittenRows DEF Relocate, LiveIn, Live, Exists
    <3> QED BY <2>3, <3>1 DEF Relocate, LedgerTypeOK
  <2>4. ASSUME Erase(m, ws) PROVE LedgerTypeOK'
    <3>1. Erased(memories[m]) \in Row
      BY <2>0, <2>4, WrittenRows DEF Erase, LiveIn, Live, Exists
    <3> QED BY <2>4, <3>1 DEF Erase, LedgerTypeOK
  <2> QED BY <2>1, <2>2, <2>3, <2>4
<1> QED BY <1>1, <1>2, PTL DEF LedgerSpec

\* A step that adds at most one entry, and none to a full profile, keeps the
\* profile within its limit.
LEMMA ProfileStep ==
  ASSUME NEW ws \in Workspaces, NEW m \in MemIds,
         Cardinality(Profile(ws)) <= MaxProfile,
         \/ Profile(ws)' \subseteq Profile(ws)
         \/ ~ProfileFull(ws) /\ Profile(ws)' \subseteq Profile(ws) \cup {m}
  PROVE  Cardinality(Profile(ws)') <= MaxProfile
<1>1. IsFiniteSet(Profile(ws))
  BY LedgerAssumption, FS_Subset DEF Profile
<1>2. Cardinality(Profile(ws)) \in Nat
  BY <1>1, FS_CardinalityType
<1>3. CASE Profile(ws)' \subseteq Profile(ws)
  <2>1. Cardinality(Profile(ws)') <= Cardinality(Profile(ws)) /\ Cardinality(Profile(ws)') \in Nat
    BY <1>1, <1>3, FS_Subset, FS_CardinalityType
  <2> QED BY <1>2, <2>1, LedgerAssumption
<1>4. CASE ~ProfileFull(ws) /\ Profile(ws)' \subseteq Profile(ws) \cup {m}
  <2> DEFINE S == Profile(ws) \cup {m}
  <2>1. IsFiniteSet(S) /\ Cardinality(S) \in Nat /\ Cardinality(S) <= Cardinality(Profile(ws)) + 1
    <3>1. IsFiniteSet(S) /\ Cardinality(S) = IF m \in Profile(ws) THEN Cardinality(Profile(ws))
                                              ELSE Cardinality(Profile(ws)) + 1
      BY <1>1, FS_AddElement, Zenon
    <3> QED BY <1>2, <3>1
  <2>2. Cardinality(Profile(ws)') <= Cardinality(S) /\ Cardinality(Profile(ws)') \in Nat
    BY <1>4, <2>1, FS_Subset, FS_CardinalityType
  <2>3. Cardinality(Profile(ws)) < MaxProfile
    BY <1>2, <1>4, LedgerAssumption DEF ProfileFull
  <2> HIDE DEF S
  <2> QED BY <1>2, <2>1, <2>2, <2>3, LedgerAssumption
<1> QED BY <1>3, <1>4

\* The development profile of every workspace stays within MaxProfile entries.
THEOREM ProfilesCapped == LedgerSpec => []ProfileCapped
<1>1. LedgerInit => ProfileCapped
  <2> SUFFICES ASSUME LedgerInit, NEW ws \in Workspaces
               PROVE  Cardinality(Profile(ws)) <= MaxProfile
    BY DEF ProfileCapped
  <2>1. Profile(ws) = {}
    BY DEF LedgerInit, Profile, LiveIn, Live, Exists
  <2> QED BY <2>1, FS_EmptySet, LedgerAssumption
<1>2. LedgerTypeOK /\ ProfileCapped /\ [LedgerNext]_memories => ProfileCapped'
  <2> SUFFICES ASSUME LedgerTypeOK, ProfileCapped, [LedgerNext]_memories, NEW ws \in Workspaces
               PROVE  Cardinality(Profile(ws)') <= MaxProfile
    BY DEF ProfileCapped
  <2>0. Cardinality(Profile(ws)) <= MaxProfile
    BY DEF ProfileCapped
  <2>1. CASE UNCHANGED memories
    BY <2>0, <2>1 DEF Profile, LiveIn, Live, Exists
  <2>2. CASE LedgerNext
    <3> PICK m \in MemIds, v \in Workspaces :
          \/ \E kind \in Kinds, body \in Bodies, key \in Keys \cup {NoKey} :
               Create(m, v, kind, body, key)
          \/ \E kind \in Kinds, body \in Bodies : Revise(m, v, kind, body)
          \/ \E to \in Workspaces : Relocate(m, v, to)
          \/ Erase(m, v)
      BY <2>2 DEF LedgerNext
    <3>0. memories[m] \in Row \cup {NoRow}
      BY DEF LedgerTypeOK
    <3> SUFFICES \/ Profile(ws)' \subseteq Profile(ws)
                 \/ ~ProfileFull(ws) /\ Profile(ws)' \subseteq Profile(ws) \cup {m}
      BY <2>0, ProfileStep
    <3>1. ASSUME NEW kind \in Kinds, NEW body \in Bodies, NEW key \in Keys \cup {NoKey},
                 Create(m, v, kind, body, key)
          PROVE  \/ Profile(ws)' \subseteq Profile(ws)
                 \/ ~ProfileFull(ws) /\ Profile(ws)' \subseteq Profile(ws) \cup {m}
      BY <3>1 DEF Create, NewRow, Profile, LiveIn, Live, Exists, LedgerTypeOK
    <3>2. ASSUME NEW kind \in Kinds, NEW body \in Bodies, Revise(m, v, kind, body)
          PROVE  \/ Profile(ws)' \subseteq Profile(ws)
                 \/ ~ProfileFull(ws) /\ Profile(ws)' \subseteq Profile(ws) \cup {m}
      BY <3>0, <3>2 DEF Revise, Revised, Profile, LiveIn, Live, Exists, LedgerTypeOK, Row, Kinds
    <3>3. ASSUME NEW to \in Workspaces, Relocate(m, v, to)
          PROVE  \/ Profile(ws)' \subseteq Profile(ws)
                 \/ ~ProfileFull(ws) /\ Profile(ws)' \subseteq Profile(ws) \cup {m}
      BY <3>0, <3>3 DEF Relocate, Relocated, Profile, LiveIn, Live, Exists, LedgerTypeOK, Row
    <3>4. ASSUME Erase(m, v)
          PROVE  Profile(ws)' \subseteq Profile(ws)
      BY <3>0, <3>4 DEF Erase, Erased, Profile, LiveIn, Live, Exists, LedgerTypeOK, Row
    <3> QED BY <3>1, <3>2, <3>3, <3>4
  <2> QED BY <2>1, <2>2
<1> QED BY <1>1, <1>2, LedgerTypes, PTL DEF LedgerSpec

\* An id and a revision name one version of a memory for ever: what Rehydrate
\* and every optimistic update rely on.
THEOREM RevisionsNameVersions == LedgerSpec => RevisionsIdentify
<1>1. LedgerTypeOK /\ [LedgerNext]_memories => [\A m \in MemIds : RowKept(m)]_memories
  <2> SUFFICES ASSUME LedgerTypeOK, LedgerNext, NEW o \in MemIds, Exists(o)
               PROVE RowKept(o)
    BY DEF RowKept
  <2> PICK m \in MemIds, ws \in Workspaces :
        \/ \E kind \in Kinds, body \in Bodies, key \in Keys \cup {NoKey} :
             Create(m, ws, kind, body, key)
        \/ \E kind \in Kinds, body \in Bodies : Revise(m, ws, kind, body)
        \/ \E to \in Workspaces : Relocate(m, ws, to)
        \/ Erase(m, ws)
    BY DEF LedgerNext
  <2>0. memories[m] \in Row \cup {NoRow} /\ memories \in [MemIds -> Row \cup {NoRow}]
    BY DEF LedgerTypeOK
  <2>1. CASE \E kind \in Kinds, body \in Bodies, key \in Keys \cup {NoKey} :
               Create(m, ws, kind, body, key)
    BY <2>0, <2>1 DEF Create, Exists, RowKept
  <2>2. ASSUME NEW kind \in Kinds, NEW body \in Bodies, Revise(m, ws, kind, body)
        PROVE  RowKept(o)
    <3>1. /\ Revised(memories[m], kind, body) \in Row
          /\ Revised(memories[m], kind, body).rev = memories[m].rev + 1
      BY <2>0, <2>2, WrittenRows DEF Revise, LiveIn, Live, Exists, Revised, Row
    <3> QED BY <2>0, <2>2, <3>1, LedgerAssumption DEF Revise, LiveIn, Live, Exists, RowKept
  <2>3. ASSUME NEW to \in Workspaces, Relocate(m, ws, to)
        PROVE  RowKept(o)
    <3>1. /\ Relocated(memories[m], to) \in Row
          /\ Relocated(memories[m], to).rev = memories[m].rev + 1
      BY <2>0, <2>3, WrittenRows DEF Relocate, LiveIn, Live, Exists, Relocated, Row
    <3> QED BY <2>0, <2>3, <3>1, LedgerAssumption DEF Relocate, LiveIn, Live, Exists, RowKept
  <2>4. CASE Erase(m, ws)
    <3>1. /\ Erased(memories[m]) \in Row
          /\ Erased(memories[m]).rev = memories[m].rev + 1
      BY <2>0, <2>4, WrittenRows DEF Erase, LiveIn, Live, Exists, Erased, Row
    <3> QED BY <2>0, <2>4, <3>1, LedgerAssumption DEF Erase, LiveIn, Live, Exists, RowKept
  <2> QED BY <2>1, <2>2, <2>3, <2>4
<1> QED BY <1>1, LedgerTypes, PTL DEF LedgerSpec, RevisionsIdentify

\* No two rows share a workspace and an idempotency key: a create is never two
\* memories, and a move brings no key into a workspace.
THEOREM KeysNameRows == LedgerSpec => []KeysUnique
<1>1. LedgerInit => KeysUnique
  BY DEF LedgerInit, KeysUnique, Exists
<1>2. LedgerTypeOK /\ KeysUnique /\ [LedgerNext]_memories => KeysUnique'
  <2> SUFFICES ASSUME LedgerTypeOK, KeysUnique, LedgerNext PROVE KeysUnique'
    BY DEF KeysUnique, Exists
  <2> PICK m \in MemIds, ws \in Workspaces :
        \/ \E kind \in Kinds, body \in Bodies, key \in Keys \cup {NoKey} :
             Create(m, ws, kind, body, key)
        \/ \E kind \in Kinds, body \in Bodies : Revise(m, ws, kind, body)
        \/ \E to \in Workspaces : Relocate(m, ws, to)
        \/ Erase(m, ws)
    BY DEF LedgerNext
  <2>0. memories \in [MemIds -> Row \cup {NoRow}] /\ memories[m] \in Row \cup {NoRow}
    BY DEF LedgerTypeOK
  <2>1. ASSUME NEW kind \in Kinds, NEW body \in Bodies, NEW key \in Keys \cup {NoKey},
               Create(m, ws, kind, body, key)
        PROVE  KeysUnique'
    <3>1. NewRow(ws, kind, body, key).ws = ws /\ NewRow(ws, kind, body, key).key = key
      BY DEF NewRow
    <3>2. memories' = [memories EXCEPT ![m] = NewRow(ws, kind, body, key)]
      BY <2>1 DEF Create
    <3>3. \A o \in MemIds : key # NoKey => ~HoldsKey(o, ws, key)
      BY <2>1 DEF Create
    <3> QED BY <2>0, <3>1, <3>2, <3>3 DEF KeysUnique, HoldsKey, Exists
  \* The other writes change one row, which keeps its workspace and key or loses
  \* the key.
  <2>2. ASSUME NEW row, memories' = [memories EXCEPT ![m] = row], Exists(m),
               row.key = NoKey \/ (row.ws = memories[m].ws /\ row.key = memories[m].key)
        PROVE  KeysUnique'
    BY <2>0, <2>2 DEF KeysUnique, Exists
  <2>3. ASSUME NEW kind \in Kinds, NEW body \in Bodies, Revise(m, ws, kind, body)
        PROVE  KeysUnique'
    <3>1. Exists(m) /\ memories' = [memories EXCEPT ![m] = Revised(memories[m], kind, body)]
      BY <2>3 DEF Revise, LiveIn, Live
    <3>2. /\ Revised(memories[m], kind, body).ws = memories[m].ws
          /\ Revised(memories[m], kind, body).key = memories[m].key
      BY <2>0, <3>1 DEF Revised, Row, Exists
    <3> QED BY <2>2, <3>1, <3>2
  <2>4. ASSUME NEW to \in Workspaces, Relocate(m, ws, to)
        PROVE  KeysUnique'
    <3>1. Exists(m) /\ memories' = [memories EXCEPT ![m] = Relocated(memories[m], to)]
      BY <2>4 DEF Relocate, LiveIn, Live
    <3>2. Relocated(memories[m], to).key = NoKey
      BY <2>0, <3>1 DEF Relocated, Row, Exists
    <3> QED BY <2>2, <3>1, <3>2
  <2>5. ASSUME Erase(m, ws)
        PROVE  KeysUnique'
    <3>1. Exists(m) /\ memories' = [memories EXCEPT ![m] = Erased(memories[m])]
      BY <2>5 DEF Erase, LiveIn, Live
    <3>2. Erased(memories[m]).ws = memories[m].ws /\ Erased(memories[m]).key = memories[m].key
      BY <2>0, <3>1 DEF Erased, Row, Exists
    <3> QED BY <2>2, <3>1, <3>2
  <2> QED BY <2>1, <2>3, <2>4, <2>5
<1> QED BY <1>1, <1>2, LedgerTypes, PTL DEF LedgerSpec
=============================================================================
