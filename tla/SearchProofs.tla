----------------------------- MODULE SearchProofs -----------------------------
(***************************************************************************)
(* What a search finds and what a knowledge map draws, for any number of   *)
(* memories, writers, workers and requests carried out late.               *)
(***************************************************************************)
EXTENDS KnowledgeMap, IndexerProofs

-----------------------------------------------------------------------------
(***************************************************************************)
(* A hit was taken from a point, and a point tells the truth for ever: if  *)
(* the row still has the revision of the hit, the point was made from it.  *)
(***************************************************************************)
Honest(h) ==
  /\ h.id \in MemIds
  /\ \E p \in Point : /\ Truth(h.id, p)
                      /\ p.rev = h.rev /\ p.ws = search.ws /\ p.body = search.query
Fits(f) == ~f.row.deleted /\ f.row.ws = search.ws /\ f.row.body = search.query

SearchTypes ==
  search.pc # "idle" =>
    search \in [pc: {"rehydrate", "list"}, ws: Workspaces, query: Bodies,
                hits: SUBSET [id: MemIds, rev: Nat], found: SUBSET [id: MemIds, row: Row]]

SearchInv ==
  /\ IndexerInv
  /\ SearchTypes
  /\ search.pc # "idle" =>
       (\A h \in search.hits : Honest(h)) /\ (\A f \in search.found : Fits(f))

LEMMA FoundTypes ==
  ASSUME IndexerInv, NEW S \in SUBSET MemIds, \A m \in S : Exists(m)
  PROVE  Found(S) \in SUBSET [id: MemIds, row: Row]
  BY DEF Found, Exists, IndexerInv, StoreInv, StoreTypeOK, LedgerTypeOK

LEMMA SearchTypesKept ==
  ASSUME IndexerInv, SearchTypes, [SearchNext]_searchVars
  PROVE  SearchTypes'
<1>1. CASE UNCHANGED search
  BY <1>1 DEF SearchTypes
<1>2. ASSUME NEW ws \in Workspaces, NEW b \in Bodies, AskIndex(ws, b) \/ IndexFails(ws, b)
      PROVE  SearchTypes'
  <2>1. ASSUME NEW m \in MemIds, points[m] # NoPoint PROVE points[m].rev \in Nat
    BY <2>1 DEF IndexerInv, IndexTypes, Point
  <2>2. {[id |-> m, rev |-> points[m].rev] :
           m \in {x \in MemIds : points[x] # NoPoint /\ points[x].ws = ws /\ points[x].body = b}}
        \in SUBSET [id: MemIds, rev: Nat]
    BY <2>1
  <2>3. PICK step \in {"rehydrate", "list"}, hits \in SUBSET [id: MemIds, rev: Nat] :
          search' = [pc |-> step, ws |-> ws, query |-> b, hits |-> hits, found |-> {}]
    BY <1>2, <2>2 DEF AskIndex, IndexFails, Searching
  <2> QED BY <2>3 DEF SearchTypes
<1>3. CASE RehydrateHit
  <2>1. PICK h \in search.hits :
          search' = [search EXCEPT !.hits = @ \ {h},
                                   !.found = @ \cup Found({m \in {h.id} : CurrentHit(h)})]
    BY <1>3 DEF RehydrateHit
  <2>2. search.pc = "rehydrate" /\ h.id \in MemIds
    BY <1>3 DEF RehydrateHit, SearchTypes
  <2>3. Found({m \in {h.id} : CurrentHit(h)}) \in SUBSET [id: MemIds, row: Row]
    BY <2>2, FoundTypes DEF CurrentHit, LiveIn, Live
  <2> QED BY <2>1, <2>2, <2>3 DEF SearchTypes
<1>4. CASE ListMatching
  <2>1. Found(Matching(search.ws, search.query)) \in SUBSET [id: MemIds, row: Row]
    BY FoundTypes DEF Matching, LiveIn, Live
  <2> QED BY <1>4, <2>1 DEF ListMatching, SearchTypes
<1>5. CASE Answer
  BY <1>5 DEF Answer, NoSearch, SearchTypes
<1> QED BY <1>1, <1>2, <1>3, <1>4, <1>5 DEF SearchNext, SearchStep, searchVars

LEMMA AskedHitsAreHonest ==
  ASSUME IndexerInv, UNCHANGED indexVars, NEW ws \in Workspaces, NEW b \in Bodies,
         AskIndex(ws, b) \/ IndexFails(ws, b)
  PROVE  /\ search'.pc # "idle" /\ search'.found = {}
         /\ \A h \in search'.hits : Honest(h)'
<1>1. CASE AskIndex(ws, b)
  <2>1. /\ search'.pc = "rehydrate" /\ search'.found = {} /\ search'.ws = ws /\ search'.query = b
        /\ search'.hits = {[id |-> m, rev |-> points[m].rev] :
             m \in {x \in MemIds : points[x] # NoPoint /\ points[x].ws = ws /\ points[x].body = b}}
    BY <1>1 DEF AskIndex, Searching
  <2>2. ASSUME NEW h \in search'.hits PROVE Honest(h)'
    <3>1. PICK m \in MemIds : /\ points[m] # NoPoint /\ points[m].ws = ws /\ points[m].body = b
                              /\ h = [id |-> m, rev |-> points[m].rev]
      BY <2>1
    <3>2. points[m] \in Point /\ Truth(m, points[m])
      BY <3>1 DEF IndexerInv, IndexTypes
    <3>3. Truth(m, points[m])'
      BY <3>2 DEF Truth, Exists, indexVars
    <3>4. points'[m] = points[m]
      BY DEF indexVars
    <3> QED BY <2>1, <3>1, <3>2, <3>3, <3>4 DEF Honest, Truth
  <2> QED BY <2>1, <2>2
<1>2. CASE IndexFails(ws, b)
  BY <1>2 DEF IndexFails, Searching
<1> QED BY <1>1, <1>2

\* A hit stays honest while others write, move, forget and index.
LEMMA HonestKept ==
  ASSUME IndexerInv, [IndexerNext]_indexVars, NEW h, Honest(h),
         search'.ws = search.ws, search'.query = search.query
  PROVE  Honest(h)'
<1>1. PICK p \in Point : Truth(h.id, p) /\ p.rev = h.rev /\ p.ws = search.ws /\ p.body = search.query
  BY DEF Honest
<1>2. LedgerTypeOK /\ [LedgerNext]_memories /\ h.id \in MemIds
  BY IndexerImplementsStoreStep, LedgerStepOfStore DEF IndexerInv, StoreInv, StoreTypeOK, Honest
<1>3. Truth(h.id, p)'
  BY <1>1, <1>2, TruthKept
<1> QED BY <1>1, <1>2, <1>3 DEF Honest

\* What a hit is read back as fits the query, or is not read back.
LEMMA CurrentHitFits ==
  ASSUME IndexerInv, NEW h, Honest(h), CurrentHit(h)
  PROVE  Fits([id |-> h.id, row |-> memories[h.id]])
<1>1. PICK p \in Point : Truth(h.id, p) /\ p.rev = h.rev /\ p.ws = search.ws /\ p.body = search.query
  BY DEF Honest
<1>2. Live(h.id) /\ memories[h.id].ws = search.ws /\ p = Target(memories[h.id])
  BY <1>1, IndexerAssumption DEF CurrentHit, LiveIn, Truth
<1>3. memories[h.id].body = p.body
  BY <1>2 DEF Target, Live, Exists
<1> QED BY <1>1, <1>2, <1>3 DEF Fits, Live

LEMMA SearchInvKept ==
  ASSUME SearchInv, [SearchNext]_searchVars
  PROVE  SearchInv'
<1>0. IndexerInv /\ SearchTypes /\ [IndexerNext]_indexVars
  BY DEF SearchInv, SearchNext, searchVars
<1>1. IndexerInv' /\ SearchTypes'
  BY <1>0, IndexerInvKept, SearchTypesKept
<1>2. CASE UNCHANGED search
  <2>1. ASSUME search.pc # "idle", NEW h \in search.hits PROVE Honest(h)'
    BY <1>0, <1>2, <2>1, HonestKept DEF SearchInv
  <2>2. ASSUME search.pc # "idle", NEW f \in search.found PROVE Fits(f)'
    BY <1>2, <2>2 DEF SearchInv, Fits
  <2> QED BY <1>1, <1>2, <2>1, <2>2 DEF SearchInv
<1>3. CASE SearchStep /\ UNCHANGED indexVars
  <2>1. ASSUME NEW ws \in Workspaces, NEW b \in Bodies, AskIndex(ws, b) \/ IndexFails(ws, b)
        PROVE  SearchInv'
    BY <1>0, <1>1, <1>3, <2>1, AskedHitsAreHonest DEF SearchInv
  <2>2. CASE RehydrateHit
    <3>1. PICK h \in search.hits :
            search' = [search EXCEPT !.hits = @ \ {h},
                                     !.found = @ \cup Found({m \in {h.id} : CurrentHit(h)})]
      BY <2>2 DEF RehydrateHit
    <3>2. /\ search.pc = "rehydrate" /\ Honest(h)
          /\ \A g \in search.hits : Honest(g)
          /\ \A f \in search.found : Fits(f)
      BY <2>2 DEF RehydrateHit, SearchInv
    <3>3. ASSUME CurrentHit(h) PROVE Fits([id |-> h.id, row |-> memories[h.id]])
      BY <1>0, <3>2, <3>3, CurrentHitFits
    <3> DEFINE back == Found({m \in {h.id} : CurrentHit(h)})
    <3>4. \A f \in back : Fits(f)
      BY <3>3 DEF Found
    <3>5. /\ search'.ws = search.ws /\ search'.query = search.query
          /\ search.hits # {} => search'.hits \subseteq search.hits
          /\ search'.found \subseteq search.found \cup back
      BY <1>0, <3>1, <3>2 DEF SearchTypes
    <3> HIDE DEF back
    <3>6. ASSUME NEW g \in search'.hits PROVE Honest(g)'
      BY <1>0, <3>2, <3>5, HonestKept
    <3>7. ASSUME NEW f \in search'.found PROVE Fits(f)'
      BY <3>2, <3>4, <3>5 DEF Fits
    <3> QED BY <1>1, <3>6, <3>7 DEF SearchInv
  <2>3. CASE ListMatching
    <3>1. /\ search' = [search EXCEPT !.pc = "rehydrate",
                                      !.found = Found(Matching(search.ws, search.query))]
          /\ \A g \in search.hits : Honest(g)
      BY <2>3 DEF ListMatching, SearchInv
    <3>2. \A f \in Found(Matching(search.ws, search.query)) : Fits(f)
      BY DEF Found, Matching, LiveIn, Live, Fits
    <3>3. /\ search'.ws = search.ws /\ search'.query = search.query
          /\ search'.hits \subseteq search.hits
          /\ search'.found \subseteq Found(Matching(search.ws, search.query)) \cup search.found
      BY <1>0, <2>3, <3>1 DEF ListMatching, SearchTypes
    <3> QED BY <1>0, <1>1, <3>1, <3>2, <3>3, HonestKept DEF SearchInv, Fits
  <2>4. CASE Answer
    BY <1>1, <2>4 DEF Answer, NoSearch, SearchInv
  <2> QED BY <1>3, <2>1, <2>2, <2>3, <2>4 DEF SearchStep
<1> QED BY <1>2, <1>3 DEF SearchNext, searchVars

THEOREM SearchInvariant == SearchSpec => []SearchInv
<1>1. SearchInit => SearchInv
  BY InitIndexerInv DEF SearchInit, SearchInv, SearchTypes, NoSearch
<1> QED BY <1>1, SearchInvKept, PTL DEF SearchSpec

\* A search returns no memory that has been rewritten, moved or forgotten since
\* it was indexed, whatever the collection holds.
THEOREM SearchesFindWhatIsThere == SearchSpec => []FindingsMatch
<1>1. SearchInv => FindingsMatch
  BY DEF SearchInv, Fits, FindingsMatch
<1> QED BY <1>1, SearchInvariant, PTL

-----------------------------------------------------------------------------
(***************************************************************************)
(* Completeness, with an index that is prompt (MaxLate = 0: no request is  *)
(* on its way once it has been given up).  A write queues its memory, so   *)
(* while nothing is queued nothing is written, and every point is the      *)
(* target of its row.                                                      *)
(***************************************************************************)
IdsOf(S) == {x.id : x \in S}

NothingMissed ==
  calm /\ search.pc # "idle" =>
    /\ Settled
    /\ search.pc = "list" => search.hits = {}
    /\ search.pc = "rehydrate" =>
         /\ IdsOf(search.hits) \cup IdsOf(search.found) = Matching(search.ws, search.query)
         /\ \A h \in search.hits : CurrentHit(h)

CompleteInv == SearchInv /\ PromptInv /\ NothingMissed

LEMMA PromptWhenNoneLate ==
  ASSUME MaxLate = 0, IndexerInv, [IndexerNext]_indexVars
  PROVE  [PromptNext]_indexVars
<1>1. late = {}
  <2>1. IsFiniteSet(late) /\ Cardinality(late) <= 0
    BY DEF IndexerInv, IndexTypes
  <2>2. Cardinality(late) = 0
    BY <2>1, FS_CardinalityType
  <2> QED BY <2>1, <2>2, FS_EmptySet
<1> QED BY <1>1 DEF IndexerNext, LateLands

\* A step that leaves the queue empty has written nothing.
LEMMA SettledKeepsMemories ==
  ASSUME IndexerInv, [IndexerNext]_indexVars, Settled', NEW m \in MemIds
  PROVE  memories'[m] = memories[m]
<1>1. StoreInv /\ [StoreNext]_storeVars
  BY IndexerImplementsStoreStep DEF IndexerInv
<1>2. CASE StoreNext
  BY <1>1, <1>2, StoreStepOfMemory DEF Settled, Spared, Queued, Completed
<1>3. CASE UNCHANGED storeVars
  BY <1>3 DEF storeVars
<1> QED BY <1>1, <1>2, <1>3

\* With nothing queued the collection answers with all that match, as they are.
LEMMA SettledIndexAnswers ==
  ASSUME PromptInv, Settled, NEW m \in MemIds, NEW ws \in Workspaces, NEW b \in Bodies
  PROVE  /\ points[m] # NoPoint /\ points[m].ws = ws /\ points[m].body = b <=> m \in Matching(ws, b)
         /\ points[m] # NoPoint => points[m].rev = memories[m].rev
<1>1. points[m] = Target(memories[m]) /\ Authored(m) /\ memories[m] \in Row \cup {NoRow}
  BY DEF PromptInv, IndexerInv, InOrder, Settled, StoreInv, StoreTypeOK, LedgerTypeOK
<1>2. CASE Live(m)
  <2>1. points[m] = [ws |-> memories[m].ws, kind |-> memories[m].kind,
                     body |-> memories[m].body, rev |-> memories[m].rev]
    BY <1>1, <1>2 DEF Target, Live, Exists
  <2>2. points[m] \in Point
    BY <1>1, <1>2, <2>1 DEF Point, Row, Authored, Live, Exists
  <2> QED BY <1>2, <2>1, <2>2, IndexerAssumption DEF Matching, LiveIn
<1>3. CASE ~Live(m)
  BY <1>1, <1>3 DEF Target, Matching, LiveIn, Live, Exists
<1> QED BY <1>2, <1>3

\* Reading a hit back moves its id from the hits to what is found.
LEMMA ReadBack ==
  ASSUME NEW hits, NEW found, NEW h \in hits, NEW f, f.id = h.id
  PROVE  IdsOf(hits \ {h}) \cup IdsOf(found \cup {f})
           = IdsOf(hits) \cup IdsOf(found)
<1> USE DEF IdsOf
<1> DEFINE before == IdsOf(hits) \cup IdsOf(found)
           after == IdsOf(hits \ {h}) \cup IdsOf(found \cup {f})
<1>1. h.id \in before /\ f.id \in after
  OBVIOUS
<1>2. ASSUME NEW g \in hits PROVE g.id \in before /\ g.id \in after
  <2>1. CASE g = h
    BY <1>1, <2>1
  <2>2. CASE g # h
    BY <2>2
  <2> QED BY <2>1, <2>2
<1>3. ASSUME NEW g \in found PROVE g.id \in before /\ g.id \in after
  OBVIOUS
<1>4. after \subseteq before
  BY <1>1, <1>2, <1>3
<1>5. before \subseteq after
  BY <1>2, <1>3
<1> QED BY <1>4, <1>5

LEMMA FoundIds ==
  ASSUME NEW ids
  PROVE  IdsOf(Found(ids)) = ids
<1> USE DEF IdsOf
<1>1. ASSUME NEW f \in Found(ids) PROVE f.id \in ids
  BY DEF Found
<1>2. ASSUME NEW m \in ids PROVE m \in IdsOf(Found(ids))
  <2>1. [id |-> m, row |-> memories[m]] \in Found(ids)
    BY DEF Found
  <2>2. [id |-> m, row |-> memories[m]].id = m
    OBVIOUS
  <2> QED BY <2>1, <2>2
<1>3. IdsOf(Found(ids)) \subseteq ids
  BY <1>1
<1>4. ids \subseteq IdsOf(Found(ids))
  BY <1>2
<1> QED BY <1>3, <1>4

LEMMA NothingMissedKept ==
  ASSUME MaxLate = 0, CompleteInv, [SearchNext]_searchVars
  PROVE  NothingMissed'
<1>0. IndexerInv /\ SearchTypes /\ PromptInv /\ NothingMissed
  BY DEF CompleteInv, SearchInv
<1>1. CASE UNCHANGED searchVars
  <2>1. Settled => Settled'
    BY <1>1 DEF searchVars, indexVars, Settled
  <2>2. Matching(search.ws, search.query)' = Matching(search.ws, search.query)
    BY <1>1 DEF searchVars, indexVars, Matching, LiveIn, Live, Exists
  <2>3. \A h \in search.hits : CurrentHit(h) => CurrentHit(h)'
    BY <1>1 DEF searchVars, indexVars, CurrentHit, LiveIn, Live, Exists
  <2> QED BY <1>0, <1>1, <2>1, <2>2, <2>3 DEF searchVars, NothingMissed
<1>2. CASE SearchNext
  <2> SUFFICES ASSUME calm', search'.pc # "idle"
               PROVE  /\ Settled'
                      /\ search'.pc = "list" => search'.hits = {}
                      /\ search'.pc = "rehydrate" =>
                           /\ IdsOf(search'.hits) \cup IdsOf(search'.found)
                                = Matching(search.ws, search.query)'
                           /\ \A h \in search'.hits : CurrentHit(h)'
    BY DEF NothingMissed
  <2>1. calm /\ Settled' /\ [IndexerNext]_indexVars
    BY <1>2 DEF SearchNext
  <2>2. \A m \in MemIds : memories'[m] = memories[m]
    BY <1>0, <2>1, SettledKeepsMemories
  <2>3. \A ws, b : Matching(ws, b)' = Matching(ws, b)
    BY <2>2 DEF Matching, LiveIn, Live, Exists
  <2>4. \A h : h.id \in MemIds /\ search'.ws = search.ws /\ CurrentHit(h) => CurrentHit(h)'
    BY <2>2 DEF CurrentHit, LiveIn, Live, Exists
  <2>5. CASE UNCHANGED search
    <3>1. \A h \in search.hits : h.id \in MemIds
      BY <1>0, <2>5 DEF SearchTypes
    <3> QED BY <1>0, <2>1, <2>3, <2>4, <2>5, <3>1 DEF NothingMissed
  <2>6. ASSUME UNCHANGED indexVars, NEW ws \in Workspaces, NEW b \in Bodies, AskIndex(ws, b)
        PROVE  /\ IdsOf(search'.hits) \cup IdsOf(search'.found)
                    = Matching(search.ws, search.query)'
               /\ \A h \in search'.hits : CurrentHit(h)'
               /\ search'.pc = "rehydrate"
    <3> DEFINE asked == {x \in MemIds : points[x] # NoPoint /\ points[x].ws = ws /\ points[x].body = b}
    <3>1. /\ search'.pc = "rehydrate" /\ search'.found = {} /\ search'.ws = ws /\ search'.query = b
          /\ search'.hits = {[id |-> m, rev |-> points[m].rev] : m \in asked}
      BY <2>6 DEF AskIndex, Searching
    <3>2. Settled
      BY <2>1, <2>6 DEF indexVars, Settled
    <3>3. /\ asked = Matching(ws, b)
          /\ \A m \in asked : points[m].rev = memories[m].rev
      BY <1>0, <3>2, SettledIndexAnswers DEF Matching
    <3>4. Matching(search.ws, search.query)' = asked
      BY <2>3, <3>1, <3>3 DEF Matching, LiveIn, Live, Exists
    <3>5. ASSUME NEW m \in asked PROVE CurrentHit([id |-> m, rev |-> points[m].rev])'
      <4>1. m \in MemIds /\ LiveIn(m, ws) /\ points[m].rev = memories[m].rev
        BY <3>3 DEF Matching
      <4>2. LiveIn(m, ws)' /\ memories'[m].rev = points[m].rev
        BY <2>2, <4>1 DEF LiveIn, Live, Exists
      <4>3. points'[m] = points[m]
        BY <2>6 DEF indexVars
      <4> QED BY <3>1, <4>2, <4>3 DEF CurrentHit, LiveIn, Live, Exists
    <3>6. points' = points
      BY <2>6 DEF indexVars
    <3>7. IdsOf(search'.hits) = asked
      <4>1. ASSUME NEW m \in asked PROVE m \in IdsOf(search'.hits)
        <5>1. [id |-> m, rev |-> points[m].rev] \in search'.hits
          BY <3>1
        <5> QED BY <5>1 DEF IdsOf
      <4>2. ASSUME NEW h \in search'.hits PROVE h.id \in asked
        BY <3>1
      <4> QED BY <4>1, <4>2 DEF IdsOf
    <3>8. \A h \in search'.hits : CurrentHit(h)'
      BY <3>1, <3>5, <3>6
    <3>9. IdsOf(search'.found) = {}
      BY <3>1 DEF IdsOf
    <3> QED BY <3>1, <3>4, <3>7, <3>8, <3>9
  <2>7. CASE RehydrateHit
    <3>1. PICK h \in search.hits :
            search' = [search EXCEPT !.hits = @ \ {h},
                                     !.found = @ \cup Found({m \in {h.id} : CurrentHit(h)})]
      BY <2>7 DEF RehydrateHit
    <3>2. /\ search.pc = "rehydrate" /\ CurrentHit(h)
          /\ IdsOf(search.hits) \cup IdsOf(search.found) = Matching(search.ws, search.query)
          /\ \A g \in search.hits : CurrentHit(g) /\ g.id \in MemIds
      BY <1>0, <2>1, <2>7 DEF RehydrateHit, NothingMissed, SearchTypes
    <3>3. Found({m \in {h.id} : CurrentHit(h)}) = {[id |-> h.id, row |-> memories[h.id]]}
      BY <3>2 DEF Found
    <3>4. /\ search'.pc = "rehydrate" /\ search'.ws = search.ws /\ search'.query = search.query
          /\ search'.hits = search.hits \ {h}
          /\ search'.found = search.found \cup {[id |-> h.id, row |-> memories[h.id]]}
      BY <1>0, <3>1, <3>2, <3>3 DEF SearchTypes
    <3>5. IdsOf(search'.hits) \cup IdsOf(search'.found)
            = IdsOf(search.hits) \cup IdsOf(search.found)
      <4> DEFINE f == [id |-> h.id, row |-> memories[h.id]]
                 H == search.hits
                 F == search.found
      <4>1. f.id = h.id /\ h \in H
        BY <3>1
      <4>2. search'.hits = H \ {h} /\ search'.found = F \cup {f}
        BY <3>4
      <4>3. IdsOf(H \ {h}) \cup IdsOf(F \cup {f}) = IdsOf(H) \cup IdsOf(F)
        <5> HIDE DEF f, H, F
        <5> QED BY <4>1, ReadBack, Zenon
      <4> QED BY <4>2, <4>3
    <3>6. Matching(search.ws, search.query)' = Matching(search.ws, search.query)
      BY <2>3, <3>4 DEF Matching, LiveIn, Live, Exists
    <3> QED BY <2>1, <2>4, <3>2, <3>4, <3>5, <3>6
  <2>8. CASE ListMatching
    <3>1. /\ search.pc = "list" /\ search.hits = {}
          /\ search' = [search EXCEPT !.pc = "rehydrate",
                                      !.found = Found(Matching(search.ws, search.query))]
      BY <1>0, <2>1, <2>8 DEF ListMatching, NothingMissed
    <3>2. /\ search'.pc = "rehydrate" /\ search'.ws = search.ws /\ search'.query = search.query
          /\ search'.hits = {} /\ search'.found = Found(Matching(search.ws, search.query))
      BY <1>0, <3>1 DEF SearchTypes
    <3>3. IdsOf(Found(Matching(search.ws, search.query))) = Matching(search.ws, search.query)
      BY FoundIds
    <3>4. Matching(search.ws, search.query)' = Matching(search.ws, search.query)
      BY <2>3, <3>2 DEF Matching, LiveIn, Live, Exists
    <3>5. IdsOf({}) = {}
      BY DEF IdsOf
    <3> QED BY <2>1, <3>2, <3>3, <3>4, <3>5
  <2>9. ASSUME NEW ws \in Workspaces, NEW b \in Bodies, IndexFails(ws, b)
        PROVE  search'.pc = "list" /\ search'.hits = {}
    BY <2>9 DEF IndexFails, Searching
  <2>10. ~Answer
    BY DEF Answer, NoSearch
  <2> QED BY <1>2, <2>1, <2>5, <2>6, <2>7, <2>8, <2>9, <2>10 DEF SearchNext, SearchStep
<1> QED BY <1>1, <1>2

\* Once nothing is queued a search misses nothing, if no request can be late.
THEOREM SettledSearchesMissNothing ==
  ASSUME MaxLate = 0
  PROVE  SearchSpec => []SettledSearchIsComplete
<1>1. SearchInit => CompleteInv
  BY InitIndexerInv, InitPromptInv
     DEF SearchInit, CompleteInv, SearchInv, SearchTypes, NothingMissed, NoSearch
<1>2. CompleteInv /\ [SearchNext]_searchVars => CompleteInv'
  <2> SUFFICES ASSUME CompleteInv, [SearchNext]_searchVars PROVE CompleteInv'
    OBVIOUS
  <2>1. IndexerInv /\ [IndexerNext]_indexVars
    BY DEF CompleteInv, SearchInv, SearchNext, searchVars
  <2>2. PromptInv'
    BY <2>1, PromptWhenNoneLate, IndexerInvKept, InOrderKept DEF CompleteInv, PromptInv
  <2> QED BY <2>2, SearchInvKept, NothingMissedKept DEF CompleteInv
<1>3. CompleteInv => SettledSearchIsComplete
  BY DEF CompleteInv, NothingMissed, SettledSearchIsComplete, Done, IdsOf
<1> QED BY <1>1, <1>2, <1>3, PTL DEF SearchSpec

-----------------------------------------------------------------------------
(***************************************************************************)
(* The knowledge map.  The row of a node was read before most of the       *)
(* vectors it is compared with, so Truth, which speaks of the row as it    *)
(* is, does not say enough: a vector, the point it may still be taken      *)
(* from, and a request on its way that may still become that point, agree  *)
(* with the row of the node.                                               *)
(***************************************************************************)
Follows(n) ==
  /\ Exists(n.id) /\ n.row.rev <= memories[n.id].rev
  /\ n.row.rev = memories[n.id].rev => n.row = memories[n.id]

Agrees(n, p) == p # NoPoint /\ p.rev = n.row.rev => p = Target(n.row)

Listed(n) ==
  /\ Follows(n)
  /\ Agrees(n, points[n.id])
  /\ \A r \in late : r.id = n.id => Agrees(n, r.point)
  /\ \A v \in map.vectors : v.id = n.id => Agrees(n, v.point)

MapTypes ==
  map.pc # "idle" =>
    map \in [pc: {"vectors"}, asked: SUBSET MemIds, vectors: SUBSET Vector, nodes: SUBSET Node]

MapInv ==
  /\ IndexerInv
  /\ MapTypes
  /\ map.pc # "idle" => \A n \in map.nodes : Listed(n)

LEMMA TargetRevision ==
  ASSUME NEW row \in Row \cup {NoRow}, Target(row) # NoPoint
  PROVE  row \in Row /\ Target(row).rev = row.rev
  BY DEF Target

\* A row that is replaced has a revision beyond that of the node.
LEMMA FollowsKept ==
  ASSUME LedgerTypeOK, [LedgerNext]_memories, NEW n \in Node, Follows(n)
  PROVE  Follows(n)'
<1>1. n.id \in MemIds /\ n.row \in Row /\ memories[n.id] \in Row
  BY DEF Node, LedgerTypeOK, Follows, Exists
<1>2. n.row.rev \in Nat /\ memories[n.id].rev \in Nat
  BY <1>1 DEF Row
<1>3. CASE memories'[n.id] = memories[n.id]
  BY <1>3 DEF Follows, Exists
<1>4. CASE memories'[n.id] \in Row /\ memories'[n.id].rev = memories[n.id].rev + 1
  <2>1. memories'[n.id] # NoRow /\ n.row.rev < memories'[n.id].rev
    BY <1>2, <1>4, LedgerAssumption DEF Follows
  <2> QED BY <1>2, <1>4, <2>1 DEF Follows, Exists
<1> QED BY <1>1, <1>3, <1>4, RowStep DEF Follows

\* What a worker sends while the row is that of the node is the node's target.
LEMMA SentAgrees ==
  ASSUME IndexerInv, NEW n \in Node, Listed(n), NEW r, r.id = n.id, Sent(r)
  PROVE  Agrees(n, r.point)
<1>1. CASE r \in late
  BY <1>1 DEF Listed
<1>2. CASE r.point = Target(memories[n.id])
  <2>1. memories[n.id] \in Row \cup {NoRow}
    BY DEF IndexerInv, StoreInv, StoreTypeOK, LedgerTypeOK, Node
  <2>2. r.point # NoPoint => r.point.rev = memories[n.id].rev
    BY <1>2, <2>1, TargetRevision
  <2>3. Follows(n)
    BY DEF Listed
  <2> QED BY <1>2, <2>2, <2>3 DEF Agrees, Follows
<1> QED BY <1>1, <1>2 DEF Sent

\* A node stays as it was listed while others write, index and carry out.
LEMMA ListedKept ==
  ASSUME IndexerInv, [IndexerNext]_indexVars, NEW n \in Node, Listed(n),
         \A v \in map'.vectors : v.id = n.id => Agrees(n, v.point)
  PROVE  Listed(n)'
<1>1. LedgerTypeOK /\ [LedgerNext]_memories
  BY IndexerImplementsStoreStep, LedgerStepOfStore DEF IndexerInv, StoreInv, StoreTypeOK
<1>2. Follows(n)'
  BY <1>1, FollowsKept DEF Listed
<1>3. CASE UNCHANGED <<points, late>>
  BY <1>2, <1>3 DEF Listed, Agrees
<1>4. ASSUME NEW r \in [id: MemIds, point: Point \cup {NoPoint}], Sent(r), IndexMoves(r)
      PROVE  Listed(n)'
  <2>1. r.id = n.id => Agrees(n, r.point)
    BY <1>4, SentAgrees
  <2>2. n.id \in MemIds
    BY DEF Node
  <2>3. Agrees(n, points'[n.id])
    BY <1>4, <2>1, <2>2 DEF IndexMoves, Listed
  <2>4. \A s \in late' : s.id = n.id => Agrees(n, s.point)
    BY <1>4, <2>1 DEF IndexMoves, Listed
  <2> QED BY <1>2, <2>3, <2>4 DEF Listed, Agrees
<1>5. UNCHANGED indexVars => UNCHANGED <<points, late>>
  BY DEF indexVars
<1> QED BY <1>3, <1>4, <1>5, IndexerStepMoves

\* A listed memory agrees with the collection as it is, and as it may become.
LEMMA ListNodesLists ==
  ASSUME IndexerInv, UNCHANGED searchVars, NEW wss, ListNodes(wss)
  PROVE  MapTypes' /\ \A n \in map'.nodes : Listed(n)'
<1> DEFINE listed == {x \in MemIds : Live(x) /\ memories[x].ws \in wss}
           nodes == {[id |-> m, row |-> memories[m], indexed |-> indexed[m]] : m \in listed}
<1>1. map' = [pc |-> "vectors", asked |-> {}, vectors |-> {}, nodes |-> nodes]
  BY DEF ListNodes
<1>2. UNCHANGED indexVars
  BY DEF searchVars
<1>3. \A m \in listed : memories[m] \in Row /\ indexed[m] \in Nat
  BY DEF Live, Exists, IndexerInv, StoreInv, StoreTypeOK, LedgerTypeOK
<1>4. nodes \subseteq Node
  BY <1>3 DEF Node
<1>5. MapTypes'
  BY <1>1, <1>4 DEF MapTypes
<1>6. ASSUME NEW n \in nodes PROVE Listed(n)'
  <2>1. PICK m \in listed : n = [id |-> m, row |-> memories[m], indexed |-> indexed[m]]
    OBVIOUS
  <2>2. /\ n.id = m /\ n.row = memories[m] /\ m \in MemIds /\ Exists(m)
        /\ memories[m].rev \in Nat
    BY <1>3, <2>1 DEF Live, Row
  <2>3. Follows(n)
    BY <2>2 DEF Follows
  <2>4. ASSUME NEW p, Truth(m, p) PROVE Agrees(n, p)
    BY <2>2, <2>4 DEF Truth, Agrees
  <2>5. Agrees(n, points[m]) /\ \A r \in late : r.id = m => Agrees(n, r.point)
    BY <2>2, <2>4 DEF IndexerInv
  <2>6. Follows(n)' /\ points' = points /\ late' = late
    BY <1>2, <2>3 DEF indexVars, Follows, Exists
  <2>7. map'.vectors = {}
    BY <1>1
  <2> QED BY <2>2, <2>5, <2>6, <2>7 DEF Listed, Agrees
<1> QED BY <1>1, <1>5, <1>6

LEMMA MapInvKept ==
  ASSUME MapInv, [MapNext]_mapVars
  PROVE  MapInv'
<1>0. IndexerInv /\ MapTypes /\ [IndexerNext]_indexVars
  BY DEF MapInv, MapNext, SearchNext, mapVars, searchVars
<1>1. IndexerInv'
  BY <1>0, IndexerInvKept
<1>2. CASE UNCHANGED map
  <2>1. MapTypes'
    BY <1>0, <1>2 DEF MapTypes
  <2>2. ASSUME map.pc # "idle", NEW n \in map.nodes PROVE Listed(n)'
    <3>1. n \in Node /\ Listed(n)
      BY <1>0, <2>2 DEF MapTypes, MapInv
    <3> QED BY <1>0, <1>2, <3>1, ListedKept DEF Listed
  <2> QED BY <1>1, <1>2, <2>1, <2>2 DEF MapInv
<1>3. CASE MapStep /\ UNCHANGED searchVars
  <2>1. ASSUME NEW wss, ListNodes(wss) PROVE MapInv'
    BY <1>0, <1>1, <1>3, <2>1, ListNodesLists DEF MapInv
  <2>2. ASSUME map.pc = "vectors", NEW batch \in SUBSET Unasked,
               NEW brought \in SUBSET {[id |-> m, point |-> points[m]] :
                                         m \in {x \in batch : points[x] # NoPoint}},
               map' = [map EXCEPT !.asked = @ \cup batch, !.vectors = @ \cup brought]
        PROVE  MapInv'
    <3>1. batch \subseteq MemIds
      BY <1>0, <2>2 DEF MapTypes, Unasked, Node
    <3>2. brought \subseteq Vector
      BY <1>0, <2>2, <3>1 DEF IndexerInv, IndexTypes, Vector
    <3>3. /\ map'.pc = "vectors" /\ map'.nodes = map.nodes
          /\ map'.vectors = map.vectors \cup brought
          /\ MapTypes'
      BY <1>0, <2>2, <3>1, <3>2 DEF MapTypes
    <3>4. ASSUME NEW n \in map.nodes PROVE Listed(n)'
      <4>1. n \in Node /\ Listed(n)
        BY <1>0, <2>2 DEF MapTypes, MapInv
      <4>2. \A v \in brought : v.id = n.id => v.point = points[n.id]
        BY <2>2
      <4>3. \A v \in map'.vectors : v.id = n.id => Agrees(n, v.point)
        BY <3>3, <4>1, <4>2 DEF Listed
      <4> QED BY <1>0, <4>1, <4>3, ListedKept
    <3> QED BY <1>1, <3>3, <3>4 DEF MapInv
  <2>3. CASE FetchBatch
    BY <2>2, <2>3 DEF FetchBatch
  <2>4. CASE BatchFails
    <3>1. PICK batch \in SUBSET Unasked : map' = [map EXCEPT !.asked = @ \cup batch] /\ map.pc = "vectors"
      BY <2>4 DEF BatchFails
    <3>2. map' = [map EXCEPT !.asked = @ \cup batch, !.vectors = @ \cup {}]
      BY <1>0, <3>1 DEF MapTypes
    <3>3. {} \in SUBSET {[id |-> m, point |-> points[m]] : m \in {x \in batch : points[x] # NoPoint}}
      OBVIOUS
    <3> QED BY <2>2, <3>1, <3>2, <3>3
  <2>5. CASE Render
    BY <1>1, <2>5 DEF Render, NoMap, MapInv, MapTypes
  <2> QED BY <1>3, <2>1, <2>3, <2>4, <2>5 DEF MapStep
<1> QED BY <1>2, <1>3 DEF MapNext, mapVars

\* A node is never drawn with the weights of another text than the one it is
\* listed with, however late its vector was asked for or came to be.
THEOREM MapsDrawWhatTheyList == MapSpec => []MapDrawsWhatItLists
<1>1. MapInit => MapInv
  BY InitIndexerInv DEF MapInit, SearchInit, NoMap, MapInv, MapTypes
<1>2. MapInv => MapDrawsWhatItLists
  <2> SUFFICES ASSUME MapInv, Drawn, NEW n \in map.nodes, NEW v \in map.vectors,
                      v.id = n.id, Fitting(n, v.point)
               PROVE  v.point = Target(n.row)
    BY DEF MapDrawsWhatItLists
  <2>1. map.pc = "vectors"
    BY DEF Drawn
  <2>2. v.point # NoPoint
    BY <2>1, IndexerAssumption DEF MapInv, MapTypes, Vector
  <2> QED BY <2>1, <2>2 DEF MapInv, Listed, Agrees, Fitting
<1> QED BY <1>1, <1>2, MapInvKept, PTL DEF MapSpec
=============================================================================
