----------------------------- MODULE ReadsProofs -----------------------------
(***************************************************************************)
(* What the reading requests answer, for any number of memories, practices *)
(* and judgements, and for any answer of the decision service.             *)
(*                                                                         *)
(* A read writes no memory, so whatever is true of every behaviour of the  *)
(* ledger is true of memories here; the proofs take from it the types and  *)
(* that a row changes only to its next revision.                           *)
(***************************************************************************)
EXTENDS Reads, MemoryLedgerProofs

\* Reads and writes are steps of the ledger.
LEMMA ReadsKeepTheLedger ==
  ReadsSpec => LedgerSpec
<1>1. ReadsInit => LedgerInit
  BY DEF ReadsInit
<1>2. [ReadsNext]_readsVars => [LedgerNext]_memories
  BY DEF ReadsNext, Write, readsVars
<1> QED BY <1>1, <1>2, PTL DEF ReadsSpec, LedgerSpec

LEMMA RowsAreKept ==
  ReadsSpec => []LedgerTypeOK /\ [][\A m \in MemIds : RowKept(m)]_memories
  BY ReadsKeepTheLedger, LedgerTypes, RevisionsNameVersions, PTL DEF RevisionsIdentify

\* A live row has the content its author wrote.
Authored == \A m \in MemIds : Live(m) => memories[m].body \in Bodies

LEMMA AuthoredKept ==
  ASSUME LedgerTypeOK, Authored, [LedgerNext]_memories
  PROVE  Authored'
<1>1. CASE UNCHANGED memories
  BY <1>1 DEF Authored, Live, Exists
<1>2. CASE LedgerNext
  <2> PICK m \in MemIds, ws \in Workspaces :
        \/ \E kind \in Kinds, body \in Bodies, key \in Keys \cup {NoKey} :
             Create(m, ws, kind, body, key)
        \/ \E kind \in Kinds, body \in Bodies : Revise(m, ws, kind, body)
        \/ \E to \in Workspaces : Relocate(m, ws, to)
        \/ Erase(m, ws)
    BY <1>2 DEF LedgerNext
  <2>1. ASSUME NEW row, memories' = [memories EXCEPT ![m] = row], ~row.deleted => row.body \in Bodies
        PROVE  Authored'
    BY <2>1 DEF Authored, Live, Exists, LedgerTypeOK
  <2>2. LiveIn(m, ws) => memories[m] \in Row /\ memories[m].body \in Bodies
    BY DEF LiveIn, Live, Exists, LedgerTypeOK, Authored
  <2>3. ASSUME NEW kind \in Kinds, NEW body \in Bodies, NEW key \in Keys \cup {NoKey},
               Create(m, ws, kind, body, key)
        PROVE  Authored'
    BY <2>1, <2>3 DEF Create, NewRow
  <2>4. ASSUME NEW kind \in Kinds, NEW body \in Bodies, Revise(m, ws, kind, body)
        PROVE  Authored'
    <3>1. Revised(memories[m], kind, body).body = body
      BY <2>2, <2>4 DEF Revise, Revised, Row
    <3> QED BY <2>1, <2>4, <3>1 DEF Revise
  <2>5. ASSUME NEW to \in Workspaces, Relocate(m, ws, to)
        PROVE  Authored'
    <3>1. Relocated(memories[m], to).body = memories[m].body
      BY <2>2, <2>5 DEF Relocate, Relocated, Row
    <3> QED BY <2>1, <2>2, <2>5, <3>1 DEF Relocate
  <2>6. CASE Erase(m, ws)
    <3>1. Erased(memories[m]).deleted
      BY <2>2, <2>6 DEF Erase, Erased, Row
    <3> QED BY <2>1, <2>6, <3>1 DEF Erase
  <2> QED BY <2>3, <2>4, <2>5, <2>6
<1> QED BY <1>1, <1>2

-----------------------------------------------------------------------------
(***************************************************************************)
(* The types of a request, and the budget of a context.                    *)
(***************************************************************************)
ReadInv == read \in Read /\ (read.pc = "pack" => read.characters <= read.budget)

LEMMA TextTypes ==
  ASSUME LedgerTypeOK, Authored, NEW m \in MemIds, Live(m)
  PROVE  TextOf(m) \in Text
  BY DEF Authored, TextOf, Text

\* The steps by which texts are found.
LEMMA FindingTypes ==
  ASSUME LedgerTypeOK, Authored, ReadInv,
         (\E ws \in Workspaces : AskContext(ws)) \/ FindNext
  PROVE  ReadInv'
<1>1. ASSUME NEW ws \in Workspaces, AskContext(ws) PROVE ReadInv'
  <2>1. {TextOf(m) : m \in Profile(ws)} \in SUBSET Text
    BY TextTypes DEF Profile, LiveIn
  <2> QED BY <1>1, <2>1 DEF AskContext, ReadInv, Read
<1>2. CASE FindNext
  <2>1. read \in [pc: {"search"}, ws: Workspaces, found: SUBSET Text]
    BY <1>2 DEF FindNext, ReadInv, Read, NoRead
  <2>2. ASSUME NEW m \in MemIds, LiveIn(m, read.ws), read' = [read EXCEPT !.found = @ \cup {TextOf(m)}]
        PROVE  ReadInv'
    <3>1. TextOf(m) \in Text
      BY <2>2, TextTypes DEF LiveIn
    <3>2. read' \in [pc: {"search"}, ws: Workspaces, found: SUBSET Text]
      BY <2>1, <2>2, <3>1
    <3> QED BY <3>2 DEF ReadInv, Read
  <2>3. CASE read' = [pc |-> "found", found |-> read.found]
    BY <2>1, <2>3 DEF ReadInv, Read
  <2> QED BY <1>2, <2>2, <2>3 DEF FindNext
<1> QED BY <1>1, <1>2

\* The steps by which they are packed: what is added never passes the budget.
LEMMA PackingTypes ==
  ASSUME ReadInv,
         \/ \E budget \in Budgets : BeginPacking(budget)
         \/ read.pc = "pack" /\ \E t \in read.found : PackNext(t)
  PROVE  ReadInv'
<1>1. ASSUME NEW budget \in Budgets, BeginPacking(budget) PROVE ReadInv'
  <2>1. read.found \in SUBSET Text
    BY <1>1 DEF BeginPacking, ReadInv, Read, NoRead
  <2>2. read' = [pc |-> "pack", found |-> read.found, budget |-> budget,
                 characters |-> 0, ids |-> {}, truncated |-> FALSE]
    BY <1>1 DEF BeginPacking
  <2>3. budget \in Nat
    BY ReadsAssumption
  <2> QED BY <2>1, <2>2, <2>3 DEF ReadInv, Read
<1>2. ASSUME read.pc = "pack", NEW t \in read.found, PackNext(t) PROVE ReadInv'
  <2> DEFINE PackOf(c, ids, cut) == [pc |-> "pack", found |-> read.found, budget |-> read.budget,
                                     characters |-> c, ids |-> ids, truncated |-> cut]
             room == read.budget - read.characters
  <2>1. /\ read \in [pc: {"pack"}, found: SUBSET Text, budget: Budgets, characters: Nat,
                     ids: SUBSET MemIds, truncated: BOOLEAN]
        /\ read.found \in SUBSET Text /\ read.budget \in Budgets /\ read.characters \in Nat
        /\ read.ids \in SUBSET MemIds /\ read.truncated \in BOOLEAN
        /\ read.characters <= read.budget
    BY <1>2 DEF ReadInv, Read, NoRead
  <2>2. /\ t.id \in MemIds /\ t.body \in Nat /\ Header \in Nat /\ Size(t) = Header + t.body + 2
        /\ read.budget \in Nat /\ read.characters \in Nat
    BY <2>1, ReadsAssumption DEF Text, Size
  <2>3. ASSUME NEW c \in Nat, c <= read.budget, NEW ids \in SUBSET MemIds, NEW cut \in BOOLEAN,
               read' = PackOf(c, ids, cut)
        PROVE  ReadInv'
    BY <2>1, <2>3 DEF ReadInv, Read
  <2>4. CASE room <= Header
    <3>1. read' = [read EXCEPT !.truncated = TRUE]
      BY <1>2, <2>4 DEF PackNext
    <3>2. read' = PackOf(read.characters, read.ids, TRUE)
      BY <2>1, <3>1
    <3> QED BY <2>1, <2>3, <3>2
  <2>5. CASE ~(room <= Header) /\ t.body + 2 > room - Header
    <3>1. read' = [read EXCEPT !.characters = read.budget, !.ids = @ \cup {t.id}, !.truncated = TRUE]
      BY <1>2, <2>5 DEF PackNext
    <3>2. read' = [read EXCEPT !.characters = read.budget, !.ids = read.ids \cup {t.id}, !.truncated = TRUE]
      BY <2>1, <3>1
    <3>3. read' = PackOf(read.budget, read.ids \cup {t.id}, TRUE)
      BY <2>1, <3>2
    <3>4. read.budget <= read.budget /\ read.ids \cup {t.id} \in SUBSET MemIds
      BY <2>1, <2>2
    <3> HIDE DEF PackOf
    <3> QED BY <2>2, <2>3, <3>3, <3>4
  <2>6. CASE ~(room <= Header) /\ ~(t.body + 2 > room - Header)
    <3>1. read' = [read EXCEPT !.characters = @ + Size(t), !.ids = @ \cup {t.id}]
      BY <1>2, <2>6 DEF PackNext
    <3>2. read' = PackOf(read.characters + Size(t), read.ids \cup {t.id}, read.truncated)
      BY <2>1, <3>1
    <3>3. read.characters + Size(t) \in Nat /\ read.characters + Size(t) <= read.budget
      BY <2>2, <2>6
    <3> QED BY <2>1, <2>2, <2>3, <3>2, <3>3
  <2> QED BY <2>4, <2>5, <2>6
<1> QED BY <1>1, <1>2

\* A request that is being packed is no relevance request.
LEMMA PackingGoesOn ==
  ASSUME ReadInv,
         \/ \E budget \in Budgets : BeginPacking(budget)
         \/ read.pc = "pack" /\ \E t \in read.found : PackNext(t)
  PROVE  read'.pc = "pack"
<1>1. ASSUME NEW budget \in Budgets, BeginPacking(budget) PROVE read'.pc = "pack"
  BY <1>1 DEF BeginPacking
<1>2. ASSUME read.pc = "pack", NEW t \in read.found, PackNext(t) PROVE read'.pc = "pack"
  <2>1. read \in [pc: {"pack"}, found: SUBSET Text, budget: Budgets, characters: Nat,
                  ids: SUBSET MemIds, truncated: BOOLEAN]
    BY <1>2 DEF ReadInv, Read, NoRead
  <2>2. \/ read' = [read EXCEPT !.truncated = TRUE]
        \/ read' = [read EXCEPT !.characters = read.budget, !.ids = @ \cup {t.id}, !.truncated = TRUE]
        \/ read' = [read EXCEPT !.characters = @ + Size(t), !.ids = @ \cup {t.id}]
    BY <1>2 DEF PackNext
  <2> QED BY <2>1, <2>2
<1> QED BY <1>1, <1>2

\* The steps of a relevance request.
LEMMA JudgingTypes ==
  ASSUME LedgerTypeOK, ReadInv,
         \/ \E ws \in Workspaces : AskRelevance(ws)
         \/ \E m \in MemIds, written \in Writings, required \in BOOLEAN : ReadRule(m, written, required)
         \/ Send
         \/ \E mode \in {"baseline", "model"}, n \in 0..MaxRefs :
              \E judged \in [1..n -> Judgement] : Judge(mode, judged)
  PROVE  ReadInv'
<1>1. ASSUME NEW ws \in Workspaces, AskRelevance(ws) PROVE ReadInv'
  BY <1>1 DEF AskRelevance, ReadInv, Read
<1>2. ASSUME NEW m \in MemIds, NEW written \in Writings, NEW required \in BOOLEAN,
             ReadRule(m, written, required)
      PROVE  ReadInv'
  <2> DEFINE rule == [id |-> m, written |-> written, required |-> required, row |-> memories[m]]
  <2>1. read \in [pc: {"rules", "sent"}, ws: Workspaces, rules: Seq(Rule)]
    BY <1>2 DEF ReadRule, ReadInv, Read, NoRead
  <2>2. rule \in Rule
    BY <1>2 DEF ReadRule, LiveIn, Live, Exists, LedgerTypeOK, Rule
  <2>3. read' = [read EXCEPT !.rules = Append(read.rules, rule)]
    BY <1>2 DEF ReadRule
  <2>4. Append(read.rules, rule) \in Seq(Rule)
    BY <2>1, <2>2
  <2>5. read' \in [pc: {"rules", "sent"}, ws: Workspaces, rules: Seq(Rule)]
    BY <2>1, <2>3, <2>4
  <2> QED BY <2>5 DEF ReadInv, Read
<1>3. CASE Send
  <2>1. read \in [pc: {"rules", "sent"}, ws: Workspaces, rules: Seq(Rule)]
    BY <1>3 DEF Send, ReadInv, Read, NoRead
  <2>2. read' \in [pc: {"rules", "sent"}, ws: Workspaces, rules: Seq(Rule)]
    BY <1>3, <2>1 DEF Send
  <2> QED BY <2>2 DEF ReadInv, Read
<1>4. ASSUME NEW mode \in {"baseline", "model"}, NEW n \in 0..MaxRefs,
             NEW judged \in [1..n -> Judgement], Judge(mode, judged)
      PROVE  ReadInv'
  <2> DEFINE told == [i \in DOMAIN judged |-> [id |-> judged[i].id, include |-> judged[i].include]]
  <2>1. read.rules \in Seq(Rule)
    BY <1>4 DEF Judge, ReadInv, Read, NoRead
  <2>2. read' = [pc |-> "judged", rules |-> read.rules, judged |-> told]
    BY <1>4 DEF Judge
  <2>3. told \in [1..n -> [id: MemIds, include: BOOLEAN]] /\ n \in Nat
    BY ReadsAssumption DEF Judgement
  <2>4. told \in Seq([id: MemIds, include: BOOLEAN])
    BY <2>3
  <2>5. read' \in [pc: {"judged"}, rules: Seq(Rule), judged: Seq([id: MemIds, include: BOOLEAN])]
    BY <2>1, <2>2, <2>4
  <2> QED BY <2>5 DEF ReadInv, Read
<1> QED BY <1>1, <1>2, <1>3, <1>4

LEMMA ReadInvKept ==
  ASSUME LedgerTypeOK, Authored, ReadInv, [ReadsNext]_readsVars
  PROVE  ReadInv'
<1>1. CASE UNCHANGED read
  BY <1>1 DEF ReadInv
<1>2. CASE read' = NoRead
  BY <1>2 DEF ReadInv, Read, NoRead
<1>3. AnswerContext \/ RefuseRelevance \/ AnswerRelevance => read' = NoRead
  BY DEF AnswerContext, RefuseRelevance, AnswerRelevance
<1>4. (\E i \in DOMAIN late : LateRecord(i)) => UNCHANGED read
  BY DEF LateRecord
<1> QED BY <1>1, <1>2, <1>3, <1>4, FindingTypes, PackingTypes, JudgingTypes
        DEF ReadsNext, ReadsStep, readsVars

LEMMA ReadsAreTyped == ReadsSpec => [](LedgerTypeOK /\ ReadInv)
<1>1. ReadsInit => Authored /\ ReadInv
  BY DEF ReadsInit, LedgerInit, Authored, Live, Exists, ReadInv, Read, NoRead
<1>2. LedgerTypeOK /\ Authored /\ ReadInv /\ [ReadsNext]_readsVars => Authored' /\ ReadInv'
  <2>1. [ReadsNext]_readsVars => [LedgerNext]_memories
    BY DEF ReadsNext, Write, readsVars
  <2> QED BY <2>1, AuthoredKept, ReadInvKept
<1> QED BY <1>1, <1>2, RowsAreKept, PTL DEF ReadsSpec

\* A request has the types of its state at every step (mcp.go, decision.go).
THEOREM ReadsTypeCorrect == ReadsSpec => []ReadsTypeOK
<1>1. LedgerTypeOK /\ ReadInv => ReadsTypeOK
  BY DEF ReadInv, ReadsTypeOK
<1> QED BY <1>1, ReadsAreTyped, PTL

\* PackContext never returns more characters than it was asked for, whatever
\* the texts and however the last one is cut.
THEOREM ContextsKeepTheirBudget ==
  ReadsSpec => [](read.pc = "pack" => read.characters <= read.budget)
<1>1. ReadInv => (read.pc = "pack" => read.characters <= read.budget)
  BY DEF ReadInv
<1> QED BY <1>1, ReadsAreTyped, PTL

-----------------------------------------------------------------------------
(***************************************************************************)
(* The relevance request.  A rule keeps the row it was read with; the row  *)
(* in the table is that one or has a later revision.                       *)
(***************************************************************************)
Follows(rule) ==
  /\ Exists(rule.id) /\ rule.row.rev <= memories[rule.id].rev
  /\ rule.row.rev = memories[rule.id].rev => rule.row = memories[rule.id]

Relevance == read.pc \in {"rules", "sent", "judged"}
RulesFollow == Relevance => \A i \in DOMAIN read.rules : Follows(read.rules[i])

LEMMA FollowsKept ==
  ASSUME LedgerTypeOK, LedgerTypeOK', [\A m \in MemIds : RowKept(m)]_memories,
         NEW rule \in Rule, Follows(rule)
  PROVE  Follows(rule)'
<1>1. rule.id \in MemIds /\ rule.row \in Row /\ memories[rule.id] \in Row
  BY DEF Rule, LedgerTypeOK, Follows, Exists
<1>2. rule.row.rev \in Nat /\ memories[rule.id].rev \in Nat
  BY <1>1 DEF Row
<1>3. CASE memories'[rule.id] = memories[rule.id]
  BY <1>3 DEF Follows, Exists
<1>4. CASE Exists(rule.id)' /\ memories'[rule.id].rev = memories[rule.id].rev + 1
  <2>1. rule.row.rev < memories'[rule.id].rev /\ memories'[rule.id].rev \in Nat
    BY <1>2, <1>4 DEF Follows
  <2> QED BY <1>2, <1>4, <2>1 DEF Follows, Exists
<1> QED BY <1>1, <1>3, <1>4 DEF RowKept, Follows

\* A rule that has just been read is the row.
LEMMA ReadRuleFollows ==
  ASSUME LedgerTypeOK, ReadInv, RulesFollow, UNCHANGED memories,
         NEW m \in MemIds, NEW written \in Writings, NEW required \in BOOLEAN,
         ReadRule(m, written, required)
  PROVE  RulesFollow'
<1> DEFINE rule == [id |-> m, written |-> written, required |-> required, row |-> memories[m]]
<1>1. read.rules \in Seq(Rule) /\ Relevance
  BY DEF ReadRule, ReadInv, Read, NoRead, Relevance
<1>2. memories[m] \in Row /\ Exists(m)
  BY DEF ReadRule, LiveIn, Live, Exists, LedgerTypeOK
<1>3. Follows(rule)
  <2>1. rule.id = m /\ rule.row = memories[m] /\ memories[m].rev \in Nat
    BY <1>2 DEF Row
  <2> QED BY <1>2, <2>1 DEF Follows
<1>4. read'.rules = Append(read.rules, rule)
  BY DEF ReadRule, ReadInv, Read, NoRead
<1>5. \A i \in DOMAIN read'.rules : read'.rules[i] = rule \/ \E j \in DOMAIN read.rules : read'.rules[i] = read.rules[j]
  BY <1>1, <1>4
<1>6. \A r : Follows(r) => Follows(r)'
  BY DEF Follows, Exists
<1> QED BY <1>1, <1>3, <1>5, <1>6 DEF RulesFollow

LEMMA RulesFollowKept ==
  ASSUME LedgerTypeOK, LedgerTypeOK', [\A m \in MemIds : RowKept(m)]_memories,
         ReadInv, RulesFollow, [ReadsNext]_readsVars
  PROVE  RulesFollow'
<1>1. ASSUME Relevance, read'.rules = read.rules PROVE RulesFollow'
  <2>1. read.rules \in Seq(Rule)
    BY <1>1 DEF Relevance, ReadInv, Read, NoRead
  <2>2. \A i \in DOMAIN read.rules : read.rules[i] \in Rule
    BY <2>1
  <2>3. \A i \in DOMAIN read.rules : Follows(read.rules[i])'
    BY <1>1, <2>2, FollowsKept DEF RulesFollow
  <2> QED BY <1>1, <2>3 DEF RulesFollow, Follows, Exists
<1>2. CASE ~Relevance'
  BY <1>2 DEF RulesFollow
<1>3. CASE UNCHANGED read
  BY <1>1, <1>2, <1>3 DEF Relevance
<1>4. CASE ReadsStep /\ UNCHANGED memories
  <2>1. ASSUME NEW ws \in Workspaces, AskRelevance(ws) PROVE RulesFollow'
    BY <2>1 DEF AskRelevance, RulesFollow
  <2>2. ASSUME NEW m \in MemIds, NEW written \in Writings, NEW required \in BOOLEAN,
               ReadRule(m, written, required)
        PROVE  RulesFollow'
    BY <1>4, <2>2, ReadRuleFollows
  <2>3. CASE Send
    BY <1>1, <2>3 DEF Send, ReadInv, Read, NoRead, Relevance
  <2>4. ASSUME NEW mode \in {"baseline", "model"}, NEW n \in 0..MaxRefs,
               NEW judged \in [1..n -> Judgement], Judge(mode, judged)
        PROVE  RulesFollow'
    BY <1>1, <2>4 DEF Judge, Relevance
  <2>5. CASE AnswerContext \/ RefuseRelevance \/ AnswerRelevance
    BY <1>2, <2>5 DEF AnswerContext, RefuseRelevance, AnswerRelevance, NoRead, Relevance
  <2>6. CASE (\E ws \in Workspaces : AskContext(ws)) \/ FindNext
    BY <1>2, <2>6 DEF AskContext, FindNext, ReadInv, Read, NoRead, Relevance
  <2>7. ASSUME \/ \E budget \in Budgets : BeginPacking(budget)
               \/ read.pc = "pack" /\ \E t \in read.found : PackNext(t)
        PROVE  RulesFollow'
    BY <1>2, <2>7, PackingGoesOn DEF Relevance
  <2>8. CASE \E i \in DOMAIN late : LateRecord(i)
    BY <1>3, <2>8 DEF LateRecord
  <2> QED BY <1>4, <2>1, <2>2, <2>3, <2>4, <2>5, <2>6, <2>7, <2>8 DEF ReadsStep
<1> QED BY <1>3, <1>4 DEF ReadsNext, readsVars

\* A caller who reads a practice at the revision of its judgement reads the
\* text that was judged.
THEOREM JudgementsNameTheirText == ReadsSpec => []JudgedIsNamedByRevision
<1>1. ReadsInit => RulesFollow
  BY DEF ReadsInit, NoRead, RulesFollow, Relevance
<1>2. RulesFollow => JudgedIsNamedByRevision
  BY DEF RulesFollow, Relevance, Follows, JudgedIsNamedByRevision
<1> QED BY <1>1, <1>2, RulesFollowKept, ReadsAreTyped, RowsAreKept, PTL DEF ReadsSpec

LEMMA TuplesAreSequences ==
  ASSUME NEW S, NEW n \in Nat, NEW f \in [1..n -> S]
  PROVE  f \in Seq(S) /\ Len(f) = n /\ DOMAIN f = 1..n
OBVIOUS

\* What is sent names no practice twice, and an answer that is accepted judges
\* these practices in their order.
JudgedInv ==
  /\ read.pc = "sent" => Distinct(read.rules)
  /\ EachRuleJudgedOnce

LEMMA JudgedInvKept ==
  ASSUME ReadInv, JudgedInv, [ReadsNext]_readsVars
  PROVE  JudgedInv'
<1>1. CASE UNCHANGED read
  BY <1>1 DEF JudgedInv, EachRuleJudgedOnce
<1>2. CASE read'.pc \notin {"sent", "judged"}
  BY <1>2 DEF JudgedInv, EachRuleJudgedOnce
<1>3. CASE Send
  BY <1>3 DEF Send, ReadInv, Read, NoRead, JudgedInv, EachRuleJudgedOnce
<1>4. ASSUME NEW mode \in {"baseline", "model"}, NEW n \in 0..MaxRefs,
             NEW judged \in [1..n -> Judgement], Judge(mode, judged)
      PROVE  JudgedInv'
  <2> DEFINE told == [i \in DOMAIN judged |-> [id |-> judged[i].id, include |-> judged[i].include]]
  <2>1. /\ read.rules \in Seq(Rule) /\ Distinct(read.rules)
        /\ ValidResponse(mode, judged, read.rules)
    BY <1>4 DEF Judge, ReadInv, Read, NoRead, JudgedInv
  <2>2. read' = [pc |-> "judged", rules |-> read.rules, judged |-> told]
    BY <1>4 DEF Judge, told
  <2> HIDE DEF told
  <2>0. n \in Nat /\ DOMAIN judged = 1..n /\ DOMAIN told = DOMAIN judged
    BY ReadsAssumption DEF told
  <2>3. told \in [1..n -> [id: MemIds, include: BOOLEAN]]
    BY <2>0 DEF Judgement, told
  <2>3a. Len(told) = n /\ DOMAIN told = 1..n /\ Len(judged) = n
    BY <2>0, <2>3, TuplesAreSequences
  <2>4. Len(told) = Len(read.rules) /\ DOMAIN told = DOMAIN read.rules /\ DOMAIN judged = DOMAIN read.rules
    <3>1. Len(judged) = Len(read.rules)
      BY <2>1 DEF ValidResponse
    <3>2. DOMAIN read.rules = 1..Len(read.rules)
      BY <2>1
    <3> QED BY <2>0, <2>3a, <3>1, <3>2
  <2>5. ASSUME NEW i \in DOMAIN read.rules
        PROVE  /\ told[i].id = read.rules[i].id
               /\ read.rules[i].required => told[i].include
    BY <2>1, <2>4 DEF ValidResponse, told
  <2>6. ASSUME NEW i \in DOMAIN read.rules, NEW j \in DOMAIN read.rules, i # j
        PROVE  told[i].id # told[j].id
    <3>1. read.rules[i].id # read.rules[j].id
      BY <2>1, <2>6 DEF Distinct
    <3>2. told[i].id = read.rules[i].id /\ told[j].id = read.rules[j].id
      BY <2>5
    <3> QED BY <3>1, <3>2
  <2> QED BY <2>2, <2>4, <2>5, <2>6 DEF JudgedInv, EachRuleJudgedOnce
<1>5. ASSUME ReadsStep, ~Send,
             ~\E mode \in {"baseline", "model"}, n \in 0..MaxRefs :
                \E judged \in [1..n -> Judgement] : Judge(mode, judged)
      PROVE  UNCHANGED read \/ read'.pc \notin {"sent", "judged"}
  <2>1. CASE AnswerContext \/ RefuseRelevance \/ AnswerRelevance \/ \E ws \in Workspaces : AskRelevance(ws)
    BY <2>1 DEF AnswerContext, RefuseRelevance, AnswerRelevance, NoRead, AskRelevance
  <2>2. CASE (\E ws \in Workspaces : AskContext(ws)) \/ FindNext
    BY <2>2 DEF AskContext, FindNext, ReadInv, Read, NoRead
  <2>3. ASSUME \/ \E budget \in Budgets : BeginPacking(budget)
               \/ read.pc = "pack" /\ \E t \in read.found : PackNext(t)
        PROVE  read'.pc \notin {"sent", "judged"}
    BY <2>3, PackingGoesOn
  <2>4. ASSUME NEW m \in MemIds, NEW written \in Writings, NEW required \in BOOLEAN,
               ReadRule(m, written, required)
        PROVE  read'.pc \notin {"sent", "judged"}
    BY <2>4 DEF ReadRule, ReadInv, Read, NoRead
  <2>5. CASE \E i \in DOMAIN late : LateRecord(i)
    BY <2>5 DEF LateRecord
  <2> QED BY <1>5, <2>1, <2>2, <2>3, <2>4, <2>5 DEF ReadsStep
<1> QED BY <1>1, <1>2, <1>3, <1>4, <1>5 DEF ReadsNext, readsVars

\* Whatever the decision service answers, and however the ids of the request
\* were written, an answer holds one judgement per practice, in order.
THEOREM AnswersJudgeEachRuleOnce == ReadsSpec => []EachRuleJudgedOnce
<1>1. ReadsInit => JudgedInv
  BY DEF ReadsInit, NoRead, JudgedInv, EachRuleJudgedOnce
<1>2. JudgedInv => EachRuleJudgedOnce
  BY DEF JudgedInv
<1> QED BY <1>1, <1>2, JudgedInvKept, ReadsAreTyped, PTL DEF ReadsSpec

-----------------------------------------------------------------------------
(***************************************************************************)
(* The characters of a set of texts: MapThenSumSet is a sum, whatever      *)
(* order it takes the texts in.                                            *)
(***************************************************************************)
Characters(T) == MapThenSumSet(Size, T)
First(T) == CHOOSE t \in T : TRUE

\* f holds the characters of every subset of T.
Counts(f, T) == f = [s \in SUBSET T |-> IF s = {} THEN 0 ELSE Size(First(s)) + f[s \ {First(s)}]]

\* MapThenSumSet takes a set apart text by text.
LEMMA CharactersAreCounted ==
  ASSUME NEW T
  PROVE  Characters(T) = (CHOOSE f : Counts(f, T))[T]
BY DEF Characters, MapThenSumSet, MapThenFoldSet, Counts, First

\* A collection of sets holds every finite set S when it holds any subset of S
\* whose proper subsets it holds.
LEMMA SubsetInduction ==
  ASSUME NEW S, IsFiniteSet(S), NEW G,
         \A T \in SUBSET S : (\A U \in (SUBSET T) \ {T} : U \in G) => T \in G
  PROVE  S \in G
<1> SUFFICES ASSUME S \notin G PROVE FALSE
  OBVIOUS
<1> DEFINE B == {T \in SUBSET S : T \notin G}
<1>1. B \subseteq FiniteSubsetsOf(S) /\ B # {}
  BY FS_FiniteSubsetsOfFinite
<1>2. IsWellFoundedOn(StrictSubsetOrdering(S), FiniteSubsetsOf(S))
  BY FS_StrictSubsetOrderingWellFounded
<1>3. \E T \in B : \A U \in B : <<U, T>> \notin StrictSubsetOrdering(S)
  <2> HIDE DEF B
  <2> QED BY <1>1, <1>2, WFMin
<1>4. PICK T \in B : \A U \in B : <<U, T>> \notin StrictSubsetOrdering(S)
  BY <1>3
<1>5. \A U \in (SUBSET T) \ {T} : U \in G
  BY <1>4 DEF StrictSubsetOrdering
<1> QED BY <1>4, <1>5

\* What CHOOSE takes from a set is one of its elements.
LEMMA FirstIsIn ==
  ASSUME NEW T, T # {}
  PROVE  First(T) \in T /\ T \ {First(T)} \in (SUBSET T) \ {T}
BY DEF First

\* A function that counts a set counts its subsets as well.
LEMMA CountsOfSubset ==
  ASSUME NEW T, NEW f, Counts(f, T), NEW U \in SUBSET T
  PROVE  Counts([s \in SUBSET U |-> f[s]], U)
<1> DEFINE g == [s \in SUBSET U |-> f[s]]
<1>1. ASSUME NEW s \in SUBSET U
      PROVE  g[s] = IF s = {} THEN 0 ELSE Size(First(s)) + g[s \ {First(s)}]
  <2>1. s \in SUBSET T /\ s \ {First(s)} \in SUBSET U
    OBVIOUS
  <2>2. f[s] = IF s = {} THEN 0 ELSE Size(First(s)) + f[s \ {First(s)}]
    BY <2>1 DEF Counts
  <2> QED BY <2>1, <2>2
<1>2. g = [s \in SUBSET U |-> IF s = {} THEN 0 ELSE Size(First(s)) + g[s \ {First(s)}]]
  <2> DEFINE h == [s \in SUBSET U |-> IF s = {} THEN 0 ELSE Size(First(s)) + g[s \ {First(s)}]]
  <2>1. \A s \in SUBSET U : g[s] = h[s]
    BY <1>1
  <2>2. DOMAIN g = SUBSET U /\ DOMAIN h = SUBSET U /\ g = [s \in SUBSET U |-> g[s]] /\ h = [s \in SUBSET U |-> h[s]]
    OBVIOUS
  <2> HIDE DEF g, h
  <2>3. g = h
    BY <2>1, <2>2
  <2> QED BY <2>3 DEF h
<1> QED BY <1>2 DEF Counts

\* Two functions that count a finite set agree on it.
LEMMA CountsOnce ==
  ASSUME NEW T, IsFiniteSet(T), NEW f, Counts(f, T), NEW g, Counts(g, T)
  PROVE  f[T] = g[T]
<1> DEFINE G == {U \in SUBSET T : f[U] = g[U]}
<1>1. ASSUME NEW U \in SUBSET T, \A V \in (SUBSET U) \ {U} : V \in G PROVE U \in G
  <2>1. /\ f[U] = IF U = {} THEN 0 ELSE Size(First(U)) + f[U \ {First(U)}]
        /\ g[U] = IF U = {} THEN 0 ELSE Size(First(U)) + g[U \ {First(U)}]
    BY DEF Counts
  <2>2. U # {} => f[U \ {First(U)}] = g[U \ {First(U)}]
    BY <1>1, FirstIsIn
  <2> QED BY <2>1, <2>2
<1>2. T \in G
  <2> HIDE DEF G
  <2> QED BY <1>1, SubsetInduction
<1> QED BY <1>2

\* A text has a size.
LEMMA SizesAreNumbers == \A t \in Text : Size(t) \in Nat
<1> TAKE t \in Text
<1>1. t.body \in Nat /\ Header \in Nat
  BY ReadsAssumption DEF Text
<1> QED BY <1>1 DEF Size

\* A finite set of texts can be counted.
LEMMA CountsExist ==
  ASSUME NEW T \in SUBSET Text, IsFiniteSet(T)
  PROVE  \E f \in [SUBSET T -> Nat] : Counts(f, T)
<1> DEFINE Counted(U) == \E f \in [SUBSET U -> Nat] : Counts(f, U)
           Total(U) == CHOOSE n \in Nat : \E f \in [SUBSET U -> Nat] : Counts(f, U) /\ f[U] = n
           G == {U \in SUBSET T : Counted(U)}
<1>1. ASSUME NEW U \in SUBSET T, NEW f \in [SUBSET U -> Nat], Counts(f, U), NEW V \in SUBSET U
      PROVE  f[V] = Total(V)
  <2> DEFINE h == [s \in SUBSET V |-> f[s]]
  <2>1. h \in [SUBSET V -> Nat] /\ h[V] = f[V]
    OBVIOUS
  <2>2. Counts(h, V)
    BY <1>1, CountsOfSubset
  <2> HIDE DEF h
  <2>3. PICK g \in [SUBSET V -> Nat] : Counts(g, V) /\ g[V] = Total(V)
    BY <2>1, <2>2
  <2>4. IsFiniteSet(V)
    BY FS_Subset
  <2> QED BY <2>1, <2>2, <2>3, <2>4, CountsOnce
<1> HIDE DEF Total
<1>2. ASSUME NEW U \in SUBSET T, \A V \in (SUBSET U) \ {U} : V \in G PROVE Counted(U)
  <2> DEFINE f == [s \in SUBSET U |-> IF s = {} THEN 0 ELSE Size(First(s)) + Total(s \ {First(s)})]
  <2>1. ASSUME NEW s \in SUBSET U, s # {}
        PROVE  /\ Total(s \ {First(s)}) \in Nat /\ Size(First(s)) \in Nat
               /\ f[s \ {First(s)}] = Total(s \ {First(s)})
    <3> DEFINE r == s \ {First(s)}
    <3>1. First(s) \in Text /\ r \in (SUBSET s) \ {s} /\ r \in (SUBSET U) \ {U}
      BY <2>1, FirstIsIn
    <3>2. Size(First(s)) \in Nat
      BY <3>1, SizesAreNumbers
    <3>3. PICK g \in [SUBSET r -> Nat] : Counts(g, r)
      BY <1>2, <3>1
    <3> HIDE DEF r
    <3>4. r \in SUBSET T /\ r \in SUBSET r
      BY <3>1
    <3>5. g[r] = Total(r)
      BY <1>1, <3>3, <3>4
    <3>6. g[r] = IF r = {} THEN 0 ELSE Size(First(r)) + g[r \ {First(r)}]
      BY <3>3, <3>4 DEF Counts
    <3>7. r # {} => g[r \ {First(r)}] = Total(r \ {First(r)})
      BY <1>1, <3>3, <3>4
    <3>8. f[r] = IF r = {} THEN 0 ELSE Size(First(r)) + Total(r \ {First(r)})
      BY <3>1
    <3>9. f[r] = Total(r)
      BY <3>5, <3>6, <3>7, <3>8
    <3>10. Total(r) \in Nat
      BY <3>3, <3>4, <3>5
    <3> QED BY <3>2, <3>9, <3>10 DEF r
  <2>2. f \in [SUBSET U -> Nat]
    <3>1. ASSUME NEW s \in SUBSET U, s # {} PROVE Size(First(s)) + Total(s \ {First(s)}) \in Nat
      <4> HIDE DEF f
      <4>1. Total(s \ {First(s)}) \in Nat /\ Size(First(s)) \in Nat
        BY <2>1, <3>1
      <4> QED BY <4>1
    <3> QED BY <3>1
  <2>3. ASSUME NEW s \in SUBSET U
        PROVE  f[s] = IF s = {} THEN 0 ELSE Size(First(s)) + f[s \ {First(s)}]
    <3>1. f[s] = IF s = {} THEN 0 ELSE Size(First(s)) + Total(s \ {First(s)})
      OBVIOUS
    <3> HIDE DEF f
    <3> QED BY <2>1, <3>1
  <2> HIDE DEF f
  <2>4. f = [s \in SUBSET U |-> f[s]]
    BY <2>2
  <2>5. Counts(f, U)
    BY <2>3, <2>4 DEF Counts
  <2> QED BY <2>2, <2>5
<1>3. T \in G
  <2> HIDE DEF Counted
  <2>1. \A U \in SUBSET T : (\A V \in (SUBSET U) \ {U} : V \in G) => U \in G
    BY <1>2
  <2> HIDE DEF G
  <2> QED BY <2>1, SubsetInduction
<1> QED BY <1>3

\* The characters of no text, and of a first text and the rest.
LEMMA CharactersStep ==
  ASSUME NEW T \in SUBSET Text, IsFiniteSet(T)
  PROVE  /\ Characters(T) \in Nat
         /\ Characters(T) = IF T = {} THEN 0 ELSE Size(First(T)) + Characters(T \ {First(T)})
<1>1. ASSUME NEW U \in SUBSET T
      PROVE  \E f \in [SUBSET U -> Nat] : Counts(f, U) /\ Characters(U) = f[U]
  <2>1. U \in SUBSET Text /\ IsFiniteSet(U)
    BY FS_Subset
  <2>2. PICK f \in [SUBSET U -> Nat] : Counts(f, U)
    BY <2>1, CountsExist
  <2>3. PICK g : g = CHOOSE h : Counts(h, U)
    OBVIOUS
  <2>4. Counts(g, U) /\ Characters(U) = g[U]
    BY <2>2, <2>3, CharactersAreCounted
  <2> QED BY <2>1, <2>2, <2>4, CountsOnce
<1>2. PICK f \in [SUBSET T -> Nat] : Counts(f, T) /\ Characters(T) = f[T]
  BY <1>1
<1>3. f[T] = IF T = {} THEN 0 ELSE Size(First(T)) + f[T \ {First(T)}]
  BY <1>2 DEF Counts
<1>4. f[T \ {First(T)}] = Characters(T \ {First(T)})
  <2> DEFINE r == T \ {First(T)}
             h == [s \in SUBSET r |-> f[s]]
  <2>1. r \in SUBSET T /\ r \in SUBSET Text /\ IsFiniteSet(r)
    BY FS_Subset
  <2>2. h[r] = f[r]
    OBVIOUS
  <2>3. Counts(h, r)
    BY <1>2, <2>1, CountsOfSubset
  <2> HIDE DEF h, r
  <2>4. PICK g \in [SUBSET r -> Nat] : Counts(g, r) /\ Characters(r) = g[r]
    BY <1>1, <2>1
  <2>5. f[r] = Characters(r)
    BY <2>1, <2>2, <2>3, <2>4, CountsOnce
  <2> QED BY <2>5 DEF r
<1> QED BY <1>2, <1>3, <1>4

\* Whichever text is taken out first.
LEMMA CharactersOfRest ==
  ASSUME NEW T \in SUBSET Text, IsFiniteSet(T), NEW t \in T
  PROVE  Characters(T) = Size(t) + Characters(T \ {t})
<1> DEFINE G == {S \in SUBSET T : \A x \in S : Characters(S) = Size(x) + Characters(S \ {x})}
<1>1. ASSUME NEW S \in SUBSET T, \A U \in (SUBSET S) \ {S} : U \in G, NEW x \in S
      PROVE  Characters(S) = Size(x) + Characters(S \ {x})
  <2>1. PICK p : p = First(S)
    OBVIOUS
  <2>2. /\ p \in S /\ Characters(S) = Size(p) + Characters(S \ {p})
        /\ S \ {p} \in (SUBSET S) \ {S} /\ S \ {x} \in (SUBSET S) \ {S}
        /\ (S \ {p}) \ {x} = (S \ {x}) \ {p}
    <3>1. S \in SUBSET Text /\ IsFiniteSet(S)
      BY FS_Subset
    <3>2. p \in S /\ S # {}
      BY <2>1, FirstIsIn
    <3> QED BY <2>1, <3>1, <3>2, CharactersStep
  <2>3. CASE x = p
    BY <2>2, <2>3
  <2>4. CASE x # p
    <3>1. Characters(S \ {p}) = Size(x) + Characters((S \ {p}) \ {x})
      BY <1>1, <2>2, <2>4
    <3>2. Characters(S \ {x}) = Size(p) + Characters((S \ {x}) \ {p})
      BY <1>1, <2>2, <2>4
    <3>3. (S \ {p}) \ {x} \in SUBSET Text /\ IsFiniteSet((S \ {p}) \ {x}) /\ x \in Text /\ p \in Text
      BY <2>2, FS_Subset
    <3>4. Characters((S \ {p}) \ {x}) \in Nat /\ Size(x) \in Nat /\ Size(p) \in Nat
      BY <3>3, CharactersStep, SizesAreNumbers
    <3>5. Characters(S) = Size(p) + (Size(x) + Characters((S \ {p}) \ {x}))
      BY <2>2, <3>1
    <3>6. Characters(S \ {x}) = Size(p) + Characters((S \ {p}) \ {x})
      BY <2>2, <3>2
    <3> HIDE DEF G
    <3> QED BY <3>4, <3>5, <3>6
  <2> QED BY <2>3, <2>4
<1>2. T \in G
  <2>1. \A S \in SUBSET T : (\A U \in (SUBSET S) \ {S} : U \in G) => S \in G
    BY <1>1
  <2> HIDE DEF G
  <2> QED BY <2>1, SubsetInduction
<1> QED BY <1>2

\* What is missing from a set is missing from its characters.
LEMMA CharactersOfSubset ==
  ASSUME NEW T \in SUBSET Text, IsFiniteSet(T), NEW U \in SUBSET T
  PROVE  /\ Characters(U) <= Characters(T)
         /\ \A t \in T \ U : Characters(U) + Size(t) <= Characters(T)
<1> DEFINE G == {S \in SUBSET T : \A V \in SUBSET S : Characters(V) <= Characters(S)}
<1>0. \A S \in SUBSET T : S \in SUBSET Text /\ IsFiniteSet(S) /\ Characters(S) \in Nat
  BY FS_Subset, CharactersStep
<1>1. ASSUME NEW S \in SUBSET T, \A V \in (SUBSET S) \ {S} : V \in G, NEW V \in SUBSET S
      PROVE  Characters(V) <= Characters(S)
  <2>1. CASE V = S
    BY <1>0, <2>1
  <2>2. CASE V # S
    <3>1. PICK t \in S : t \notin V
      BY <2>2
    <3>2. S \ {t} \in (SUBSET S) \ {S} /\ V \in SUBSET (S \ {t})
      BY <3>1
    <3>3. Characters(V) <= Characters(S \ {t})
      BY <1>1, <3>2
    <3>4. Characters(S) = Size(t) + Characters(S \ {t})
      BY <1>0, CharactersOfRest
    <3>5. /\ Characters(V) \in Nat /\ Characters(S) \in Nat /\ Characters(S \ {t}) \in Nat
          /\ Size(t) \in Nat
      BY <1>0, SizesAreNumbers
    <3> QED BY <3>3, <3>4, <3>5
  <2> QED BY <2>1, <2>2
<1>2. T \in G
  <2>1. \A S \in SUBSET T : (\A V \in (SUBSET S) \ {S} : V \in G) => S \in G
    BY <1>1
  <2> HIDE DEF G
  <2> QED BY <2>1, SubsetInduction
<1>3. ASSUME NEW t \in T \ U PROVE Characters(U) + Size(t) <= Characters(T)
  <2>1. U \cup {t} \in SUBSET T /\ (U \cup {t}) \ {t} = U
    OBVIOUS
  <2>2. Characters(U \cup {t}) = Size(t) + Characters(U)
    BY <1>0, <2>1, CharactersOfRest
  <2>3. Characters(U \cup {t}) <= Characters(T)
    BY <1>2, <2>1
  <2>4. Characters(U) \in Nat /\ Size(t) \in Nat
    BY <1>0, SizesAreNumbers
  <2> QED BY <2>2, <2>3, <2>4
<1> QED BY <1>2, <1>3

-----------------------------------------------------------------------------
(***************************************************************************)
(* A packed context, and what it saved.                                    *)
(***************************************************************************)
Packs == read.pc \in {"search", "found", "pack"}
PackedTexts == {t \in read.found : t.id \in read.ids}

\* What was found has one text per id.  Until it is cut, a context holds the
\* characters of the texts packed so far; once it is cut, less than all.
PackInv ==
  /\ Packs => \A t, u \in read.found : t.id = u.id => t = u
  /\ read.pc = "pack" =>
       /\ ~read.truncated => read.characters = Characters(PackedTexts)
       /\ read.truncated => read.characters < Characters(read.found)

\* What was found is finite: it has at most one text per id.
LEMMA FoundIsFinite ==
  ASSUME ReadInv, PackInv, Packs
  PROVE  read.found \in SUBSET Text /\ IsFiniteSet(read.found)
<1>1. read.found \in SUBSET Text
  BY DEF ReadInv, Read, NoRead, Packs
<1> DEFINE f == [t \in read.found |-> t.id]
<1>2. f \in Injection(read.found, MemIds)
  BY <1>1 DEF PackInv, Injection, IsInjective, Text
<1>3. IsFiniteSet(MemIds)
  BY LedgerAssumption
<1> QED BY <1>1, <1>2, <1>3, FS_Injection

\* What is found has one text per id, and nothing is packed yet.
LEMMA FindingKeepsPackInv ==
  ASSUME ReadInv, PackInv,
         \/ \E ws \in Workspaces : AskContext(ws)
         \/ FindNext
         \/ \E budget \in Budgets : BeginPacking(budget)
  PROVE  PackInv'
<1>1. ASSUME NEW ws \in Workspaces, AskContext(ws) PROVE PackInv'
  BY <1>1 DEF AskContext, PackInv, Packs, TextOf
<1>2. CASE FindNext
  <2>0. PICK r \in [pc: {"search"}, ws: Workspaces, found: SUBSET Text] : r = read
    BY <1>2 DEF FindNext, ReadInv, Read, NoRead
  <2>1. \A t, u \in r.found : t.id = u.id => t = u
    BY <2>0 DEF PackInv, Packs
  <2>2. ASSUME NEW m \in MemIds, \A t \in r.found : t.id # m,
               read' = [r EXCEPT !.found = r.found \cup {TextOf(m)}]
        PROVE  PackInv'
    <3>1. read'.pc = "search" /\ read'.found = r.found \cup {TextOf(m)}
      BY <2>2
    <3>2. TextOf(m).id = m
      BY DEF TextOf
    <3> QED BY <2>1, <2>2, <3>1, <3>2 DEF PackInv
  <2>3. CASE read' = [pc |-> "found", found |-> r.found]
    BY <2>1, <2>3 DEF PackInv
  <2> QED BY <1>2, <2>0, <2>2, <2>3 DEF FindNext
<1>3. ASSUME NEW budget \in Budgets, BeginPacking(budget) PROVE PackInv'
  <2>1. \A t, u \in read.found : t.id = u.id => t = u
    BY <1>3 DEF BeginPacking, PackInv, Packs
  <2>2. read'.pc = "pack" /\ read'.found = read.found /\ read'.characters = 0
        /\ ~read'.truncated /\ PackedTexts' = {}
    BY <1>3 DEF BeginPacking, PackedTexts
  <2>3. Characters({}) = 0
    BY CharactersStep, FS_EmptySet
  <2> QED BY <2>1, <2>2, <2>3 DEF PackInv
<1> QED BY <1>1, <1>2, <1>3

\* A text is packed once, whole while there is room for it.
LEMMA PackingKeepsPackInv ==
  ASSUME ReadInv, PackInv, read.pc = "pack", NEW t \in read.found, PackNext(t)
  PROVE  PackInv'
<1>0. PICK r \in [pc: {"pack"}, found: SUBSET Text, budget: Budgets, characters: Nat,
                  ids: SUBSET MemIds, truncated: BOOLEAN] : r = read
  BY DEF ReadInv, Read, NoRead
<1> DEFINE packed == {u \in r.found : u.id \in r.ids}
           room == r.budget - r.characters
<1>1. /\ r.found \in SUBSET Text /\ IsFiniteSet(r.found) /\ packed \in SUBSET r.found
      /\ \A u, v \in r.found : u.id = v.id => u = v
  BY <1>0, FoundIsFinite DEF PackInv, Packs
<1>2. ~r.truncated /\ t \in r.found /\ t.id \notin r.ids /\ t \notin packed
  BY <1>0 DEF PackNext, Packing
<1>3. r.characters = Characters(packed)
  BY <1>0, <1>2 DEF PackInv, PackedTexts
<1>4. /\ r.characters \in Nat /\ r.budget \in Nat /\ Header \in Nat /\ t.body \in Nat
      /\ Size(t) = Header + t.body + 2 /\ Characters(r.found) \in Nat
  <2>1. t.body \in Nat /\ r.budget \in Nat
    BY <1>1, <1>2, ReadsAssumption DEF Text
  <2> QED BY <1>1, <2>1, ReadsAssumption, CharactersStep DEF Size
<1>5. r.characters + Size(t) <= Characters(r.found)
  BY <1>1, <1>2, <1>3, CharactersOfSubset
<1>6. ASSUME read'.pc = "pack", read'.found = r.found, read'.truncated,
             read'.characters < Characters(r.found)
      PROVE  PackInv'
  BY <1>1, <1>6 DEF PackInv
<1>7. CASE room <= Header
  <2>1. read' = [r EXCEPT !.truncated = TRUE]
    BY <1>0, <1>7 DEF PackNext
  <2>2. r.characters < Characters(r.found)
    BY <1>4, <1>5
  <2> QED BY <1>6, <2>1, <2>2
<1>8. CASE ~(room <= Header) /\ t.body + 2 > room - Header
  <2>1. read' = [read EXCEPT !.characters = read.budget, !.ids = @ \cup {t.id}, !.truncated = TRUE]
    BY <1>0, <1>8 DEF PackNext
  <2>2. read'.pc = "pack" /\ read'.found = r.found /\ read'.truncated /\ read'.characters = r.budget
    BY <1>0, <2>1
  <2>3. r.budget < Characters(r.found)
    BY <1>4, <1>5, <1>8
  <2> QED BY <1>6, <2>2, <2>3
<1>9. CASE ~(room <= Header) /\ ~(t.body + 2 > room - Header)
  <2>1. read' = [read EXCEPT !.characters = @ + Size(t), !.ids = @ \cup {t.id}]
    BY <1>0, <1>9 DEF PackNext
  <2>2. /\ read'.pc = "pack" /\ read'.found = r.found /\ ~read'.truncated
        /\ read'.characters = r.characters + Size(t) /\ read'.ids = r.ids \cup {t.id}
    BY <1>0, <1>2, <2>1
  <2>3. PackedTexts' = packed \cup {t}
    BY <1>1, <1>2, <2>2 DEF PackedTexts
  <2>4. packed \cup {t} \in SUBSET Text /\ IsFiniteSet(packed \cup {t}) /\ (packed \cup {t}) \ {t} = packed
    BY <1>1, <1>2, FS_Subset, FS_AddElement
  <2> HIDE DEF packed
  <2>5. Characters(packed \cup {t}) = Size(t) + r.characters
    BY <1>3, <2>4, CharactersOfRest
  <2>6. read'.characters = Characters(PackedTexts')
    BY <1>4, <2>2, <2>3, <2>5
  <2> QED BY <1>1, <2>2, <2>6 DEF PackInv, Characters
<1> QED BY <1>7, <1>8, <1>9

\* Every step keeps PackInv.
LEMMA PackInvKept ==
  ASSUME ReadInv, PackInv, [ReadsNext]_readsVars
  PROVE  PackInv'
<1>1. CASE UNCHANGED read
  BY <1>1 DEF PackInv, Packs, PackedTexts, Characters
<1>2. CASE ~Packs'
  BY <1>2 DEF PackInv, Packs
<1>3. CASE ReadsStep
  <2>1. CASE AnswerContext \/ RefuseRelevance \/ AnswerRelevance \/ \E ws \in Workspaces : AskRelevance(ws)
    BY <1>2, <2>1 DEF AnswerContext, RefuseRelevance, AnswerRelevance, NoRead, AskRelevance, Packs
  <2>2. CASE Send
    BY <1>2, <2>2 DEF Send, ReadInv, Read, NoRead, Packs
  <2>3. ASSUME NEW m \in MemIds, NEW written \in Writings, NEW required \in BOOLEAN,
               ReadRule(m, written, required)
        PROVE  PackInv'
    BY <1>2, <2>3 DEF ReadRule, ReadInv, Read, NoRead, Packs
  <2>4. ASSUME NEW mode \in {"baseline", "model"}, NEW n \in 0..MaxRefs,
               NEW judged \in [1..n -> Judgement], Judge(mode, judged)
        PROVE  PackInv'
    BY <1>2, <2>4 DEF Judge, Packs
  <2>5. CASE \E i \in DOMAIN late : LateRecord(i)
    BY <1>1, <2>5 DEF LateRecord
  <2> QED BY <1>3, <2>1, <2>2, <2>3, <2>4, <2>5, FindingKeepsPackInv, PackingKeepsPackInv DEF ReadsStep
<1> QED BY <1>1, <1>3 DEF ReadsNext, readsVars

\* PackInv and the types give the property.
LEMMA FitsFromInv ==
  ASSUME ReadInv, PackInv
  PROVE  ContextFits
<1> SUFFICES ASSUME read.pc = "pack" PROVE ContextFits
  BY DEF ContextFits
<1>1. FullContextCharacters = Characters(read.found) /\ Characters(read.found) \in Nat
  BY FoundIsFinite, CharactersStep DEF FullContextCharacters, Characters, Packs
<1>2. read.characters \in Nat /\ read.truncated \in BOOLEAN /\ read.characters <= read.budget
  BY DEF ReadInv, Read, NoRead
<1>3. Packed /\ ~read.truncated => PackedTexts = read.found
  BY DEF Packed, Packing, PackedTexts
<1> HIDE DEF Characters
<1> QED BY <1>1, <1>2, <1>3 DEF ContextFits, PackInv

\* A context that PackContext returns is no longer than what it was asked for
\* and what was found, and says that it is truncated exactly when it is shorter
\* than that, for any texts, any budget and any order of packing.
THEOREM ContextsFit == ReadsSpec => []ContextFits
<1>1. ReadsInit => PackInv
  BY DEF ReadsInit, NoRead, PackInv, Packs
<1> QED BY <1>1, PackInvKept, FitsFromInv, ReadsAreTyped, PTL DEF ReadsSpec

-----------------------------------------------------------------------------
\* What a request costs: the characters of what was found and of what it returns.
Cost == [full: Nat, returned: Nat]

\* The counters are numbers, and saved what the property says.
SavingsInv ==
  /\ usage \in [retrievals: Nat, baseline: Nat, returned: Nat, saved: Nat]
  /\ late \in Seq(Cost) /\ saving \in Int
  /\ SavingsAreTrue

\* A count of tokens is its characters to less than one token.
LEMMA TokensRoundUp ==
  ASSUME NEW c \in Nat
  PROVE  Tokens(c) \in Nat /\ c <= 4 * Tokens(c) /\ 4 * Tokens(c) <= c + 3
BY DEF Tokens

\* Recording a request keeps the account: both counts are rounded up, so the
\* difference is wrong by less than a token.
LEMMA RecordKeepsSavings ==
  ASSUME SavingsInv, NEW cost \in Cost, Record(cost), late' \in Seq(Cost)
  PROVE  SavingsInv'
<1> DEFINE b == Tokens(cost.full)
           r == Tokens(cost.returned)
<1>1. /\ cost.full \in Nat /\ cost.returned \in Nat /\ cost.returned <= cost.full
      /\ b \in Nat /\ cost.full <= 4 * b /\ 4 * b <= cost.full + 3
      /\ r \in Nat /\ cost.returned <= 4 * r /\ 4 * r <= cost.returned + 3
  BY TokensRoundUp DEF Cost, Record
<1>2. r <= b
  BY <1>1
<1>3. /\ usage'.retrievals = usage.retrievals + 1 /\ usage'.baseline = usage.baseline + b
      /\ usage'.returned = usage.returned + r /\ usage'.saved = usage.saved + (b - r)
      /\ saving' = saving + (cost.full - cost.returned)
  BY DEF Record
<1> HIDE DEF b, r
<1>4. /\ usage.retrievals \in Nat /\ usage.baseline \in Nat /\ usage.returned \in Nat
      /\ usage.saved \in Nat /\ saving \in Int
      /\ usage.saved = usage.baseline - usage.returned
      /\ -(3 * usage.retrievals) <= 4 * usage.saved - saving
      /\ 4 * usage.saved - saving <= 3 * usage.retrievals
  BY DEF SavingsInv, SavingsAreTrue
<1>5. PICK n, x, y, z : n = usage.retrievals /\ x = usage.baseline /\ y = usage.returned /\ z = usage.saved
  OBVIOUS
<1>6. /\ usage'.retrievals = n + 1 /\ usage'.baseline = x + b /\ usage'.returned = y + r
      /\ usage'.saved = z + (b - r)
  BY <1>3, <1>5
<1>7. n + 1 \in Nat /\ x + b \in Nat /\ y + r \in Nat /\ z + (b - r) \in Nat
  <2>1. n \in Nat /\ x \in Nat /\ y \in Nat /\ z \in Nat /\ b \in Nat /\ r \in Nat /\ r <= b
    BY <1>1, <1>2, <1>4, <1>5
  <2> QED BY <2>1
<1>8. usage' \in [retrievals: Nat, baseline: Nat, returned: Nat, saved: Nat]
  <2>1. usage' = [retrievals |-> n + 1, baseline |-> x + b, returned |-> y + r, saved |-> z + (b - r)]
    BY <1>5 DEF Record, b, r
  <2> QED BY <1>7, <2>1
<1>9. PICK k, l : k = 4 * usage'.saved - saving' /\ l = 3 * usage'.retrievals
  OBVIOUS
<1>10. /\ saving' \in Int /\ k \in Int /\ l \in Int /\ -l <= k /\ k <= l
       /\ usage'.saved = usage'.baseline - usage'.returned /\ usage'.saved >= 0
  <2>1. PICK p, q : p = cost.full /\ q = cost.returned
    OBVIOUS
  <2>2. saving' = saving + (p - q) /\ k = 4 * (z + (b - r)) - (saving + (p - q)) /\ l = 3 * (n + 1)
    BY <1>3, <1>6, <1>9, <2>1
  <2>3. /\ p \in Nat /\ q \in Nat /\ b \in Nat /\ r \in Nat /\ n \in Nat /\ x \in Nat /\ y \in Nat /\ z \in Nat
        /\ saving \in Int /\ z = x - y /\ -(3 * n) <= 4 * z - saving /\ 4 * z - saving <= 3 * n
        /\ p <= 4 * b /\ 4 * b <= p + 3 /\ q <= 4 * r /\ 4 * r <= q + 3 /\ r <= b
    BY <1>1, <1>2, <1>4, <1>5, <2>1
  <2>4. saving' \in Int /\ k \in Int /\ l \in Int /\ -l <= k /\ k <= l
    BY <2>2, <2>3
  <2> QED BY <1>6, <2>3, <2>4
<1>11. SavingsAreTrue'
  BY <1>9, <1>10 DEF SavingsAreTrue
<1> QED BY <1>8, <1>10, <1>11 DEF SavingsInv

\* Every step keeps SavingsInv, for a request counts once, late or not.
LEMMA SavingsInvKept ==
  ASSUME ReadInv, PackInv, SavingsInv, [ReadsNext]_readsVars
  PROVE  SavingsInv'
<1>1. CASE UNCHANGED accountVars
  BY <1>1 DEF accountVars, SavingsInv, SavingsAreTrue
<1>2. ASSUME UNCHANGED <<usage, saving>>, late' \in Seq(Cost) PROVE SavingsInv'
  BY <1>2 DEF SavingsInv, SavingsAreTrue
<1>3. CASE AnswerContext
  <2> DEFINE cost == [full |-> FullContextCharacters, returned |-> read.characters]
  <2>1. read.pc = "pack" /\ Packs
    BY <1>3 DEF AnswerContext, Packed, Packs
  <2>2. FullContextCharacters \in Nat /\ read.characters \in Nat
    <3>1. FullContextCharacters \in Nat
      BY <2>1, FoundIsFinite, CharactersStep DEF FullContextCharacters, Characters
    <3>2. read.characters \in Nat
      BY <2>1 DEF ReadInv, Read, NoRead
    <3> QED BY <3>1, <3>2
  <2>3. cost \in Cost
    BY <2>2 DEF Cost
  <2>4. \/ Record(cost) /\ UNCHANGED late
        \/ late' = Append(late, cost) /\ UNCHANGED <<usage, saving>>
        \/ UNCHANGED accountVars
    BY <1>3 DEF AnswerContext
  <2> HIDE DEF cost
  <2>5. late \in Seq(Cost) /\ Append(late, cost) \in Seq(Cost)
    BY <2>3 DEF SavingsInv
  <2>6. CASE Record(cost) /\ UNCHANGED late
    BY <2>3, <2>5, <2>6, RecordKeepsSavings
  <2> QED BY <1>1, <1>2, <2>4, <2>5, <2>6
<1>4. ASSUME NEW i \in DOMAIN late, LateRecord(i) PROVE SavingsInv'
  <2>1. late \in Seq(Cost) /\ late[i] \in Cost /\ i \in 1..Len(late)
    BY DEF SavingsInv
  <2>2. SubSeq(late, 1, i - 1) \in Seq(Cost) /\ SubSeq(late, i + 1, Len(late)) \in Seq(Cost)
    BY <2>1
  <2>3. late' \in Seq(Cost)
    BY <1>4, <2>2 DEF LateRecord, RemoveAt
  <2> QED BY <1>2, <1>4, <2>1, <2>3, RecordKeepsSavings DEF LateRecord
<1>5. ASSUME ReadsStep, ~AnswerContext, ~\E i \in DOMAIN late : LateRecord(i)
      PROVE  UNCHANGED accountVars
  BY <1>5 DEF ReadsStep, AskContext, AskRelevance, FindNext, BeginPacking, PackNext, ReadRule,
              RefuseRelevance, Send, Judge, AnswerRelevance
<1> QED BY <1>1, <1>3, <1>4, <1>5 DEF ReadsNext, readsVars, accountVars

\* The counters of workspace_usage_daily say what was really saved, to three
\* characters per request, whichever statements of RecordContextUsage came late,
\* were lost or were refused.
THEOREM SavingsTrue == ReadsSpec => []SavingsAreTrue
<1>1. ReadsInit => PackInv /\ SavingsInv
  BY DEF ReadsInit, NoRead, PackInv, Packs, SavingsInv, SavingsAreTrue
<1>2. SavingsInv => SavingsAreTrue
  BY DEF SavingsInv
<1> QED BY <1>1, <1>2, PackInvKept, SavingsInvKept, ReadsAreTyped, PTL DEF ReadsSpec
=============================================================================
