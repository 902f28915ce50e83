-------------------------- MODULE EvaluationsProofs --------------------------
(***************************************************************************)
(* The safety of Evaluations for any number of requests and evaluations.   *)
(* That candidates need consent holds when the workspace has one spelling  *)
(* only, as it has for the MCP tools; PolicySpelling shows what happens    *)
(* when it has two.                                                        *)
(***************************************************************************)
EXTENDS Evaluations, FiniteSetTheorems, TLAPS

-----------------------------------------------------------------------------
(***************************************************************************)
(* The inductive invariant.                                                *)
(***************************************************************************)
WellFormed(row) ==
  /\ row \in Evaluation
  /\ row.payload = None <=> row.status = "withdrawn"
  /\ row.review # None <=> row.status = "reviewed"

\* A request is at a statement of its own operation, and has an answer of
\* Kaname once it has asked.
CallFits(t) ==
  /\ pc[t] \in Steps
  /\ pc[t] = "idle" => call[t] = NoCall
  /\ pc[t] \in {"look", "ask", "find", "count", "consent", "insert"} => call[t] \in EvaluateCall
  /\ pc[t] = "lock" => call[t] \in EvaluateCall \cup PolicyCall
  /\ pc[t] \in {"read", "review"} => call[t] \in ReviewCall
  /\ pc[t] \in {"sweep", "commit"} => call[t] \in PolicyCall
  /\ pc[t] \in {"fetch", "recheck"} => call[t] \in ExportCall
  /\ pc[t] \in {"lock", "find", "count", "consent", "insert"} /\ call[t].op = "evaluate" =>
       call[t].decision \in Decisions

\* From its first statement on a transaction holds the lock of its workspace.
HoldsQuota(t) ==
  /\ pc[t] \in {"find", "count", "consent", "insert"} => quota[Canonical] = t
  /\ pc[t] \in {"sweep", "commit"} => quota[call[t].ws] = t

\* There is still room for the evaluation t is about to insert.
KeepsRoom(t) == pc[t] \in {"consent", "insert"} => Cardinality(Active) < MaxActive

\* A policy change sweeps rows that are there.
SweepsRows(t) == pc[t] = "commit" => \A e \in call[t].rows : Exists(e)

\* An approved evaluation only expires or is withdrawn while it is exported.
ExportAges(t) ==
  pc[t] = "recheck" =>
    LET e == call[t].id IN
    /\ Exists(e) /\ evaluations[e].status # "unreviewed"
    /\ evaluations[e] = call[t].row \/ evaluations[e].status = "withdrawn" \/ evaluations[e].expired

\* What callers were told of an evaluation is what it holds or has held.
ToldTheSame(e) ==
  /\ ~Exists(e) => told[e] = {}
  /\ HasContent(e) => told[e] \subseteq {evaluations[e].payload}
  /\ told[e] \subseteq Decisions /\ \E d : told[e] \subseteq {d}

Tables ==
  /\ evaluations \in [Ids -> Evaluation \cup {NoRow}]
  /\ \A e \in Ids : Exists(e) => WellFormed(evaluations[e])
  /\ policy \in BOOLEAN
  /\ quota \in [Spellings -> Clients \cup {NoTx}]
  /\ pc \in [Clients -> Steps]
  /\ call \in [Clients -> EvaluateCall \cup ReviewCall \cup PolicyCall \cup ExportCall \cup {NoCall}]
  /\ told \in [Ids -> SUBSET Decisions]

EvaluationsInv ==
  /\ Tables
  /\ \A t \in Clients : CallFits(t) /\ HoldsQuota(t) /\ KeepsRoom(t) /\ SweepsRows(t) /\ ExportAges(t)
  /\ \A e \in Ids : ToldTheSame(e)
  /\ ActiveCapped

-----------------------------------------------------------------------------
(***************************************************************************)
(* What a step does to its request, and leaves to the others.              *)
(***************************************************************************)
StepOf(t) == BeginCall(t) \/ CallStep(t) \/ Abort(t)
Background == (\E e \in Ids : WithdrawEvaluation(e) \/ Expire(e)) \/ Purge

LEMMA StepKinds ==
  ASSUME EvaluationsNext
  PROVE  (\E t \in Clients : StepOf(t)) \/ Background
  BY DEF EvaluationsNext, StepOf, Background

LEMMA BackgroundKeepsCalls ==
  ASSUME Background
  PROVE  UNCHANGED <<policy, quota, pc, call, told>>
  BY DEF Background, WithdrawEvaluation, Expire, Purge

LEMMA LeaveFits ==
  ASSUME EvaluationsInv, NEW t \in Clients, Leave(t)
  PROVE  /\ quota' \in [Spellings -> Clients \cup {NoTx}]
         /\ pc' = [pc EXCEPT ![t] = "idle"] /\ pc' \in [Clients -> Steps]
         /\ call' = [call EXCEPT ![t] = NoCall]
         /\ CallFits(t)' /\ HoldsQuota(t)'
         /\ \A ws \in Spellings : quota[ws] # t => quota'[ws] = quota[ws]
<1>1. /\ pc \in [Clients -> Steps] /\ quota \in [Spellings -> Clients \cup {NoTx}]
      /\ DOMAIN call = Clients
  BY DEF EvaluationsInv, Tables
<1>2. /\ pc' = [pc EXCEPT ![t] = "idle"] /\ call' = [call EXCEPT ![t] = NoCall]
      /\ quota' = [ws \in Spellings |-> IF quota[ws] = t THEN NoTx ELSE quota[ws]]
  BY DEF Leave, Goto
<1>3. pc'[t] = "idle" /\ call'[t] = NoCall
  BY <1>1, <1>2
<1> QED BY <1>1, <1>2, <1>3 DEF CallFits, HoldsQuota, Steps

\* The calls a request may begin with.
BegunAs(c, step) ==
  \/ step = "look" /\ c \in EvaluateCall
  \/ step = "read" /\ c \in ReviewCall
  \/ step = "lock" /\ c \in PolicyCall
  \/ step = "fetch" /\ c \in ExportCall

LEMMA BegunCalls ==
  ASSUME NEW t \in Clients, BeginCall(t)
  PROVE  \E c, step : Begin(t, c, step) /\ BegunAs(c, step)
<1>1. ASSUME NEW e \in Ids, NEW f \in Prints,
             Begin(t, [op |-> "evaluate", id |-> e, print |-> f, decision |-> None, auto |-> FALSE], "look")
      PROVE  \E c, step : Begin(t, c, step) /\ BegunAs(c, step)
  <2>1. [op |-> "evaluate", id |-> e, print |-> f, decision |-> None, auto |-> FALSE] \in EvaluateCall
    BY DEF EvaluateCall
  <2> QED BY <1>1, <2>1, Zenon DEF BegunAs
<1>2. ASSUME NEW e \in Ids, NEW v \in Reviews, Begin(t, [op |-> "review", id |-> e, review |-> v], "read")
      PROVE  \E c, step : Begin(t, c, step) /\ BegunAs(c, step)
  <2>1. [op |-> "review", id |-> e, review |-> v] \in ReviewCall
    BY DEF ReviewCall
  <2> QED BY <1>2, <2>1, Zenon DEF BegunAs
<1>3. ASSUME NEW b \in BOOLEAN, NEW ws \in Spellings,
             Begin(t, [op |-> "policy", ws |-> ws, enabled |-> b, rows |-> {}], "lock")
      PROVE  \E c, step : Begin(t, c, step) /\ BegunAs(c, step)
  <2>1. [op |-> "policy", ws |-> ws, enabled |-> b, rows |-> {}] \in PolicyCall
    BY DEF PolicyCall
  <2> QED BY <1>3, <2>1, Zenon DEF BegunAs
<1>4. ASSUME NEW e \in Ids, Begin(t, [op |-> "export", id |-> e, row |-> NoRow], "fetch")
      PROVE  \E c, step : Begin(t, c, step) /\ BegunAs(c, step)
  <2>1. [op |-> "export", id |-> e, row |-> NoRow] \in ExportCall
    BY DEF ExportCall
  <2> QED BY <1>4, <2>1, Zenon DEF BegunAs
<1> QED BY <1>1, <1>2, <1>3, <1>4 DEF BeginCall

LEMMA BeginFits ==
  ASSUME EvaluationsInv, NEW t \in Clients, BeginCall(t)
  PROVE  /\ CallFits(t)' /\ HoldsQuota(t)'
         /\ pc'[t] \in {"look", "read", "lock", "fetch"}
         /\ \E c \in EvaluateCall \cup ReviewCall \cup PolicyCall \cup ExportCall, step \in Steps :
              call' = [call EXCEPT ![t] = c] /\ pc' = [pc EXCEPT ![t] = step]
         /\ UNCHANGED <<evaluations, policy, quota, told>>
<1>0. pc \in [Clients -> Steps] /\ DOMAIN call = Clients
  BY DEF EvaluationsInv, Tables
<1>1. PICK c, step : Begin(t, c, step) /\ BegunAs(c, step)
  BY BegunCalls
<1>2. /\ call' = [call EXCEPT ![t] = c] /\ pc' = [pc EXCEPT ![t] = step] /\ step \in Steps
      /\ UNCHANGED <<evaluations, policy, quota, told>>
  BY <1>1 DEF BegunAs, Begin, Goto, Stay, Steps
<1>3. call'[t] = c /\ pc'[t] = step
  BY <1>0, <1>2
<1>4. CallFits(t)'
  BY <1>1, <1>2, <1>3 DEF BegunAs, CallFits, PolicyCall
<1>5. HoldsQuota(t)'
  BY <1>1, <1>3 DEF BegunAs, HoldsQuota
<1> QED BY <1>1, <1>2, <1>3, <1>4, <1>5 DEF BegunAs

\* A step of t is a step of nobody else: t is where its operation goes on, the
\* others are where they were, with the locks they had.
Mine(t) ==
  /\ quota' \in [Spellings -> Clients \cup {NoTx}]
  /\ pc' \in [Clients -> Steps]
  /\ call' \in [Clients -> EvaluateCall \cup ReviewCall \cup PolicyCall \cup ExportCall \cup {NoCall}]
  /\ CallFits(t)' /\ HoldsQuota(t)'
  /\ \A u \in Clients \ {t} :
       /\ pc'[u] = pc[u] /\ call'[u] = call[u]
       /\ \A ws \in Spellings : quota[ws] = u => quota'[ws] = u

LEMMA LeaveMine ==
  ASSUME EvaluationsInv, NEW t \in Clients, Leave(t)
  PROVE  Mine(t)
<1>1. /\ pc \in [Clients -> Steps]
      /\ call \in [Clients -> EvaluateCall \cup ReviewCall \cup PolicyCall \cup ExportCall \cup {NoCall}]
  BY DEF EvaluationsInv, Tables
<1>2. call' = [call EXCEPT ![t] = NoCall] /\ pc' = [pc EXCEPT ![t] = "idle"]
  BY LeaveFits
<1>3. \A u \in Clients \ {t} : pc'[u] = pc[u] /\ call'[u] = call[u]
  BY <1>1, <1>2
<1>4. call' \in [Clients -> EvaluateCall \cup ReviewCall \cup PolicyCall \cup ExportCall \cup {NoCall}]
  BY <1>1, <1>2
<1> QED BY <1>3, <1>4, LeaveFits DEF Mine

\* A statement that goes on to another, perhaps with something new in hand and
\* with a lock more.
LEMMA GoOnMine ==
  ASSUME EvaluationsInv, NEW t \in Clients, NEW step \in Steps,
         NEW c \in EvaluateCall \cup ReviewCall \cup PolicyCall \cup ExportCall,
         pc' = [pc EXCEPT ![t] = step], call' = [call EXCEPT ![t] = c],
         quota' = quota \/ \E ws \in Spellings : quota[ws] = NoTx /\ quota' = [quota EXCEPT ![ws] = t],
         pc'[t] = step /\ call'[t] = c => CallFits(t)' /\ HoldsQuota(t)'
  PROVE  Mine(t)
<1>1. /\ pc \in [Clients -> Steps] /\ quota \in [Spellings -> Clients \cup {NoTx}]
      /\ call \in [Clients -> EvaluateCall \cup ReviewCall \cup PolicyCall \cup ExportCall \cup {NoCall}]
  BY DEF EvaluationsInv, Tables
<1>2. pc'[t] = step /\ call'[t] = c
  BY <1>1
<1>3. ASSUME NEW u \in Clients \ {t}
      PROVE  /\ pc'[u] = pc[u] /\ call'[u] = call[u]
             /\ \A ws \in Spellings : quota[ws] = u => quota'[ws] = u
  BY <1>1, EvaluationAssumption
<1>4. /\ pc' \in [Clients -> Steps]
      /\ call' \in [Clients -> EvaluateCall \cup ReviewCall \cup PolicyCall \cup ExportCall \cup {NoCall}]
      /\ quota' \in [Spellings -> Clients \cup {NoTx}]
  BY <1>1
<1> QED BY <1>2, <1>3, <1>4 DEF Mine

LEMMA BeginMine ==
  ASSUME EvaluationsInv, NEW t \in Clients, BeginCall(t)
  PROVE  Mine(t)
<1>1. PICK c \in EvaluateCall \cup ReviewCall \cup PolicyCall \cup ExportCall, step \in Steps :
        call' = [call EXCEPT ![t] = c] /\ pc' = [pc EXCEPT ![t] = step]
  BY BeginFits
<1> QED BY <1>1, BeginFits, GoOnMine

LEMMA CallStepMine ==
  ASSUME EvaluationsInv, NEW t \in Clients, CallStep(t)
  PROVE  Mine(t)
<1> DEFINE c == call[t]
<1>0. /\ CallFits(t) /\ HoldsQuota(t) /\ Tables
      /\ pc \in [Clients -> Steps] /\ quota \in [Spellings -> Clients \cup {NoTx}]
      /\ call \in [Clients -> EvaluateCall \cup ReviewCall \cup PolicyCall \cup ExportCall \cup {NoCall}]
      /\ Canonical \in Spellings
  BY EvaluationAssumption DEF EvaluationsInv, Tables
<1>1. CASE Leave(t)
  BY <1>1, LeaveMine
<1>2. ASSUME NEW step \in Steps, Goto(t, step), UNCHANGED call,
             c \in EvaluateCall \cup ReviewCall \cup PolicyCall \cup ExportCall,
             quota' = quota \/ \E ws \in Spellings : quota[ws] = NoTx /\ quota' = [quota EXCEPT ![ws] = t],
             pc'[t] = step /\ call'[t] = c => CallFits(t)' /\ HoldsQuota(t)'
      PROVE  Mine(t)
  <2>1. call' = [call EXCEPT ![t] = c] /\ pc' = [pc EXCEPT ![t] = step]
    BY <1>0, <1>2 DEF Goto
  <2> QED BY <1>2, <2>1, GoOnMine
<1>3. CASE LookForOld(t) /\ ~Leave(t)
  <2>1. Goto(t, "ask") /\ UNCHANGED <<call, quota>> /\ pc[t] = "look" /\ c \in EvaluateCall
    BY <1>0, <1>3 DEF LookForOld, CallFits
  <2>2. pc'[t] = "ask" /\ call'[t] = c => CallFits(t)' /\ HoldsQuota(t)'
    BY <2>1 DEF CallFits, HoldsQuota, Steps
  <2> QED BY <1>2, <2>1, <2>2 DEF Steps
<1>4. CASE AskKaname(t)
  <2>1. PICK d \in Decisions : call' = [call EXCEPT ![t].decision = d]
    BY <1>4 DEF AskKaname
  <2>2. /\ [c EXCEPT !.decision = d] \in EvaluateCall /\ [c EXCEPT !.decision = d].decision = d
        /\ pc' = [pc EXCEPT ![t] = "lock"] /\ quota' = quota
    BY <1>0, <1>4 DEF AskKaname, CallFits, EvaluateCall, Goto
  <2>3. pc'[t] = "lock" /\ call'[t] = [c EXCEPT !.decision = d] => CallFits(t)' /\ HoldsQuota(t)'
    BY <2>2 DEF CallFits, HoldsQuota, Steps
  <2>4. call' = [call EXCEPT ![t] = [c EXCEPT !.decision = d]]
    BY <2>1
  <2> QED BY <2>2, <2>3, <2>4, GoOnMine DEF Steps
<1>5. CASE LockQuota(t)
  <2> DEFINE ws == QuotaOf(c)
             step == IF c.op = "policy" THEN "sweep" ELSE "find"
  <2>1. /\ pc[t] = "lock" /\ c \in EvaluateCall \cup PolicyCall /\ quota[ws] = NoTx
        /\ quota' = [quota EXCEPT ![ws] = t] /\ Goto(t, step) /\ UNCHANGED call
    BY <1>0, <1>5 DEF LockQuota, CallFits
  <2>2. \/ c \in EvaluateCall /\ c.op = "evaluate" /\ step = "find" /\ ws = Canonical
        \/ c \in PolicyCall /\ c.op = "policy" /\ step = "sweep" /\ ws = c.ws /\ c.ws \in Spellings
    BY <2>1 DEF EvaluateCall, PolicyCall, QuotaOf
  <2>3. ws \in Spellings /\ quota'[ws] = t
    BY <1>0, <2>1, <2>2
  <2>4. pc'[t] = step /\ call'[t] = c => CallFits(t)' /\ HoldsQuota(t)'
    BY <1>0, <2>1, <2>2, <2>3 DEF CallFits, HoldsQuota, Steps
  <2> HIDE DEF ws, step
  <2>5. \E x \in Spellings : quota[x] = NoTx /\ quota' = [quota EXCEPT ![x] = t]
    BY <2>1, <2>3
  <2>6. step \in Steps
    BY <2>2 DEF Steps
  <2> QED BY <1>2, <2>1, <2>4, <2>5, <2>6
<1>6. CASE (FindOld(t) \/ CountActive(t)) /\ ~Leave(t)
  <2>1. PICK step \in {"count", "consent"} : Goto(t, step)
    BY <1>6 DEF FindOld, CountActive, Return
  <2>2. UNCHANGED <<call, quota>> /\ pc[t] \in {"find", "count"} /\ c \in EvaluateCall
    BY <1>0, <1>6 DEF FindOld, CountActive, Return, CallFits
  <2>3. pc'[t] = step /\ call'[t] = c => CallFits(t)' /\ HoldsQuota(t)'
    BY <1>0, <2>1, <2>2 DEF CallFits, HoldsQuota, Steps
  <2> QED BY <1>2, <2>1, <2>2, <2>3 DEF Steps
<1>7. CASE ReadConsent(t)
  <2>1. /\ [c EXCEPT !.auto = policy] \in EvaluateCall
        /\ [c EXCEPT !.auto = policy].decision = c.decision /\ c.op = "evaluate"
        /\ pc' = [pc EXCEPT ![t] = "insert"] /\ quota' = quota /\ pc[t] = "consent"
        /\ call' = [call EXCEPT ![t] = [c EXCEPT !.auto = policy]]
    BY <1>0, <1>7 DEF ReadConsent, CallFits, EvaluateCall, Goto, Tables
  <2>2. pc'[t] = "insert" /\ call'[t] = [c EXCEPT !.auto = policy] => CallFits(t)' /\ HoldsQuota(t)'
    BY <1>0, <2>1 DEF CallFits, HoldsQuota, Steps
  <2> QED BY <2>1, <2>2, GoOnMine DEF Steps
<1>8. CASE InsertEvaluation(t) \/ ReviewEvaluation(t) \/ CommitPolicy(t) \/ RecheckAndSend(t)
  BY <1>1, <1>8 DEF InsertEvaluation, ReviewEvaluation, CommitPolicy, RecheckAndSend, Return
<1>9. CASE ReadForReview(t) /\ ~Leave(t)
  <2>1. Goto(t, "review") /\ UNCHANGED <<call, quota>> /\ c \in ReviewCall
    BY <1>0, <1>9 DEF ReadForReview, Return, CallFits
  <2>2. pc'[t] = "review" /\ call'[t] = c => CallFits(t)' /\ HoldsQuota(t)'
    BY <2>1 DEF CallFits, HoldsQuota, Steps
  <2> QED BY <1>2, <2>1, <2>2 DEF Steps
<1>10. CASE SweepCandidates(t)
  <2>1. PICK rows \in SUBSET Ids : call' = [call EXCEPT ![t].rows = rows]
    BY <1>10 DEF SweepCandidates
  <2>2. /\ [c EXCEPT !.rows = rows] \in PolicyCall /\ [c EXCEPT !.rows = rows].ws = c.ws
        /\ pc' = [pc EXCEPT ![t] = "commit"] /\ quota' = quota /\ pc[t] = "sweep"
        /\ call' = [call EXCEPT ![t] = [c EXCEPT !.rows = rows]]
    BY <1>0, <1>10, <2>1 DEF SweepCandidates, CallFits, PolicyCall, Goto
  <2>3. pc'[t] = "commit" /\ call'[t] = [c EXCEPT !.rows = rows] => CallFits(t)' /\ HoldsQuota(t)'
    BY <1>0, <2>2 DEF CallFits, HoldsQuota, Steps
  <2> QED BY <2>2, <2>3, GoOnMine DEF Steps
<1>11. CASE FetchForExport(t) /\ ~Leave(t)
  <2> DEFINE row == evaluations[c.id]
  <2>1. call' = [call EXCEPT ![t].row = row] /\ Goto(t, "recheck") /\ quota' = quota /\ c \in ExportCall
    BY <1>0, <1>11 DEF FetchForExport, Return, CallFits
  <2>2. row \in Evaluation \cup {NoRow}
    BY <1>0, <2>1 DEF Tables, ExportCall
  <2>3. /\ [c EXCEPT !.row = row] \in ExportCall /\ pc' = [pc EXCEPT ![t] = "recheck"]
        /\ call' = [call EXCEPT ![t] = [c EXCEPT !.row = row]]
    BY <1>0, <2>1, <2>2 DEF ExportCall, Goto
  <2>4. pc'[t] = "recheck" /\ call'[t] = [c EXCEPT !.row = row] => CallFits(t)' /\ HoldsQuota(t)'
    BY <2>3 DEF CallFits, HoldsQuota, Steps
  <2> QED BY <2>1, <2>3, <2>4, GoOnMine DEF Steps
<1> QED BY <1>1, <1>3, <1>4, <1>5, <1>6, <1>7, <1>8, <1>9, <1>10, <1>11 DEF CallStep

LEMMA StepMine ==
  ASSUME EvaluationsInv, NEW t \in Clients, StepOf(t)
  PROVE  Mine(t)
  BY BeginMine, CallStepMine, LeaveMine DEF StepOf, Abort, Return

-----------------------------------------------------------------------------
(***************************************************************************)
(* What a step does to an evaluation: nothing, or one of four things.      *)
(***************************************************************************)
AsItIs(e) == evaluations'[e] = evaluations[e]
IsErased(e) == Exists(e) /\ evaluations'[e] = Erased(evaluations[e])
IsExpired(e) == Exists(e) /\ evaluations'[e] = [evaluations[e] EXCEPT !.expired = TRUE]
IsReviewed(e) ==
  /\ Readable(e) /\ evaluations[e].status = "unreviewed"
  /\ \E v \in Reviews : evaluations'[e] = Reviewed(evaluations[e], v)
IsInserted(e) ==
  /\ ~Exists(e)
  /\ \E t \in Clients : InsertEvaluation(t) /\ call[t].id = e

LEMMA StepOfRow ==
  ASSUME EvaluationsInv, EvaluationsNext, NEW e \in Ids
  PROVE  AsItIs(e) \/ IsErased(e) \/ IsExpired(e) \/ IsReviewed(e) \/ IsInserted(e)
<1>0. evaluations \in [Ids -> Evaluation \cup {NoRow}]
  BY DEF EvaluationsInv, Tables
<1>1. ASSUME NEW t \in Clients, StepOf(t)
      PROVE  AsItIs(e) \/ IsErased(e) \/ IsReviewed(e) \/ IsInserted(e)
  <2>0. CallFits(t) /\ SweepsRows(t)
    BY DEF EvaluationsInv
  <2>1. CASE InsertEvaluation(t)
    BY <1>0, <2>1 DEF InsertEvaluation, IsInserted, AsItIs
  <2>2. CASE ReviewEvaluation(t)
    <3>1. call[t].id \in Ids /\ call[t].review \in Reviews
      BY <2>0, <2>2 DEF ReviewEvaluation, CallFits, ReviewCall
    <3> QED BY <1>0, <2>2, <3>1 DEF ReviewEvaluation, Return, Stay, IsReviewed, AsItIs
  <2>3. CASE CommitPolicy(t)
    BY <1>0, <2>0, <2>3 DEF CommitPolicy, SweepsRows, IsErased, AsItIs
  <2>4. CASE ~InsertEvaluation(t) /\ ~ReviewEvaluation(t) /\ ~CommitPolicy(t)
    <3>1. UNCHANGED evaluations
      BY <1>1, <2>4
         DEF StepOf, BeginCall, Begin, CallStep, Abort, LookForOld, AskKaname, LockQuota, FindOld,
             CountActive, ReadConsent, ReadForReview, SweepCandidates, FetchForExport, RecheckAndSend,
             Return, Stay
    <3> QED BY <3>1 DEF AsItIs
  <2> QED BY <2>1, <2>2, <2>3, <2>4
<1>2. ASSUME NEW o \in Ids, WithdrawEvaluation(o) PROVE IsErased(e) \/ AsItIs(e)
  BY <1>0, <1>2 DEF WithdrawEvaluation, IsErased, AsItIs
<1>3. ASSUME NEW o \in Ids, Expire(o) PROVE IsExpired(e) \/ AsItIs(e)
  BY <1>0, <1>3 DEF Expire, IsExpired, AsItIs
<1>4. CASE Purge
  BY <1>0, <1>4 DEF Purge, Purgeable, HasContent, IsErased, AsItIs
<1> QED BY <1>1, <1>2, <1>3, <1>4, StepKinds DEF Background

\* An evaluation stays well formed; what it was approved for, its fingerprint
\* and a withdrawal stay.
LEMMA RowKeepsForm ==
  ASSUME EvaluationsInv, EvaluationsNext, NEW e \in Ids
  PROVE  /\ evaluations'[e] \in Evaluation \cup {NoRow}
         /\ evaluations'[e] # NoRow => WellFormed(evaluations'[e])
         /\ RowAges(e)
<1>0. /\ Exists(e) => WellFormed(evaluations[e])
      /\ evaluations[e] \in Evaluation \cup {NoRow} /\ None \notin Reviews /\ None \notin Decisions
  BY EvaluationAssumption DEF EvaluationsInv, Tables
<1>1. CASE AsItIs(e)
  BY <1>0, <1>1 DEF AsItIs, RowAges, Exists, HasContent, WellFormed
<1>2. CASE IsErased(e)
  <2>1. WellFormed(evaluations[e]) /\ evaluations'[e] = Erased(evaluations[e])
    BY <1>0, <1>2 DEF IsErased
  <2>2. /\ WellFormed(evaluations'[e]) /\ evaluations'[e].status = "withdrawn"
        /\ evaluations'[e].print = evaluations[e].print /\ evaluations'[e].granted = evaluations[e].granted
    BY <2>1 DEF Erased, WellFormed, Evaluation, Status
  <2> QED BY <1>2, <2>2, EvaluationAssumption DEF IsErased, RowAges, WellFormed, Exists, HasContent
<1>3. CASE IsExpired(e)
  <2>1. WellFormed(evaluations[e]) /\ evaluations'[e] = [evaluations[e] EXCEPT !.expired = TRUE]
    BY <1>0, <1>3 DEF IsExpired
  <2>2. /\ WellFormed(evaluations'[e]) /\ evaluations'[e].status = evaluations[e].status
        /\ evaluations'[e].print = evaluations[e].print /\ evaluations'[e].granted = evaluations[e].granted
        /\ evaluations'[e].review = evaluations[e].review
    BY <2>1 DEF WellFormed, Evaluation
  <2> QED BY <1>3, <2>2, EvaluationAssumption DEF IsExpired, RowAges, WellFormed, Exists, HasContent, Evaluation, Status
<1>4. CASE IsReviewed(e)
  <2>1. PICK v \in Reviews : evaluations'[e] = Reviewed(evaluations[e], v)
    BY <1>4 DEF IsReviewed
  <2>2. /\ WellFormed(evaluations[e]) /\ evaluations[e].status = "unreviewed" /\ Exists(e)
    BY <1>0, <1>4 DEF IsReviewed, Readable, HasContent
  <2>3. /\ WellFormed(evaluations'[e]) /\ evaluations'[e].granted
        /\ evaluations'[e].print = evaluations[e].print
    BY <1>0, <2>1, <2>2 DEF Reviewed, WellFormed, Evaluation, Status
  <2> QED BY <2>2, <2>3, EvaluationAssumption DEF RowAges, WellFormed, Exists
<1>5. CASE IsInserted(e)
  <2>1. PICK t \in Clients : InsertEvaluation(t) /\ call[t].id = e
    BY <1>5 DEF IsInserted
  <2>2. call[t] \in EvaluateCall /\ call[t].decision \in Decisions
    BY <2>1 DEF EvaluationsInv, InsertEvaluation, CallFits, EvaluateCall
  <2>3. evaluations'[e] =
          [print |-> call[t].print, payload |-> call[t].decision, review |-> None, expired |-> FALSE,
           status |-> IF call[t].auto THEN "agent_generated" ELSE "unreviewed", granted |-> call[t].auto]
    BY <2>1, <2>2 DEF InsertEvaluation, EvaluationsInv, Tables, EvaluateCall
  <2>4. WellFormed(evaluations'[e])
    BY <1>0, <2>2, <2>3 DEF WellFormed, Evaluation, Status, EvaluateCall
  <2> QED BY <1>5, <2>4 DEF IsInserted, RowAges, WellFormed, Exists
<1> QED BY <1>1, <1>2, <1>3, <1>4, <1>5, StepOfRow

LEMMA TablesKept ==
  ASSUME EvaluationsInv, EvaluationsNext
  PROVE  Tables'
<1>0. Tables
  BY DEF EvaluationsInv
<1>1. evaluations' \in [Ids -> Evaluation \cup {NoRow}]
  <2>1. evaluations' = [e \in Ids |-> evaluations'[e]]
    <3>1. ASSUME NEW t \in Clients, StepOf(t)
          PROVE  evaluations' = [e \in Ids |-> evaluations'[e]]
      BY <1>0, <3>1
         DEF Tables, StepOf, BeginCall, Begin, CallStep, Abort, LookForOld, AskKaname, LockQuota, FindOld,
             CountActive, ReadConsent, InsertEvaluation, ReadForReview, ReviewEvaluation, SweepCandidates,
             CommitPolicy, FetchForExport, RecheckAndSend, Return, Stay
    <3>2. CASE Background
      BY <1>0, <3>2 DEF Tables, Background, WithdrawEvaluation, Expire, Purge
    <3> QED BY <3>1, <3>2, StepKinds
  <2> QED BY <2>1, RowKeepsForm
<1>2. \A e \in Ids : Exists(e)' => WellFormed(evaluations[e])'
  BY RowKeepsForm DEF Exists, WellFormed
<1>3. /\ policy' \in BOOLEAN /\ told' \in [Ids -> SUBSET Decisions]
  <2>1. ASSUME NEW t \in Clients, StepOf(t)
        PROVE  policy' \in BOOLEAN /\ told' \in [Ids -> SUBSET Decisions]
    <3>0. CallFits(t) /\ policy \in BOOLEAN /\ told \in [Ids -> SUBSET Decisions]
      BY <1>0 DEF EvaluationsInv, Tables
    <3>1. CASE CommitPolicy(t)
      BY <3>0, <3>1 DEF CommitPolicy, CallFits, PolicyCall
    <3>2. CASE LookForOld(t) \/ FindOld(t) \/ InsertEvaluation(t)
      <4>1. call[t] \in EvaluateCall /\ call[t].id \in Ids /\ UNCHANGED policy
        BY <3>0, <3>2 DEF LookForOld, FindOld, InsertEvaluation, CallFits, EvaluateCall, Stay
      <4>2. Readable(call[t].id) => Original(call[t]) \in Decisions
        BY <1>0, <4>1 DEF Readable, HasContent, Exists, Original, Tables, Evaluation
      <4>3. InsertEvaluation(t) => call[t].decision \in Decisions
        BY <3>0 DEF InsertEvaluation, CallFits, EvaluateCall
      <4>4. UNCHANGED told \/ \E d \in Decisions : Receipt(call[t].id, d)
        BY <3>2, <4>2, <4>3 DEF LookForOld, FindOld, InsertEvaluation, Stay
      <4> QED BY <3>0, <4>1, <4>4 DEF Receipt
    <3>3. CASE ~CommitPolicy(t) /\ ~LookForOld(t) /\ ~FindOld(t) /\ ~InsertEvaluation(t)
      BY <2>1, <3>0, <3>3
         DEF StepOf, BeginCall, Begin, CallStep, Abort, AskKaname, LockQuota,
             CountActive, ReadConsent, ReadForReview, ReviewEvaluation, SweepCandidates, FetchForExport,
             RecheckAndSend, Return, Stay
    <3> QED BY <3>1, <3>2, <3>3
  <2> QED BY <1>0, <2>1, BackgroundKeepsCalls, StepKinds DEF Tables
<1>4. /\ quota' \in [Spellings -> Clients \cup {NoTx}]
      /\ pc' \in [Clients -> Steps]
      /\ call' \in [Clients -> EvaluateCall \cup ReviewCall \cup PolicyCall \cup ExportCall \cup {NoCall}]
  BY <1>0, StepKinds, StepMine, BackgroundKeepsCalls DEF Mine, Tables
<1> QED BY <1>1, <1>2, <1>3, <1>4 DEF Tables

-----------------------------------------------------------------------------
(***************************************************************************)
(* The other parts of the invariant.                                       *)
(***************************************************************************)
LEMMA RequestKept ==
  ASSUME EvaluationsInv, EvaluationsNext, NEW u \in Clients
  PROVE  CallFits(u)' /\ HoldsQuota(u)'
<1>0. CallFits(u) /\ HoldsQuota(u) /\ Canonical \in Spellings
  BY EvaluationAssumption DEF EvaluationsInv
<1>1. ASSUME NEW t \in Clients, StepOf(t) PROVE CallFits(u)' /\ HoldsQuota(u)'
  <2>1. CASE t = u
    BY <1>1, <2>1, StepMine DEF Mine
  <2>2. CASE t # u
    <3>1. /\ pc'[u] = pc[u] /\ call'[u] = call[u]
          /\ \A ws \in Spellings : quota[ws] = u => quota'[ws] = u
      BY <1>1, <2>2, StepMine DEF Mine
    <3>2. pc[u] \in {"sweep", "commit"} => call[u].ws \in Spellings
      BY <1>0 DEF CallFits, PolicyCall
    <3> QED BY <1>0, <3>1, <3>2 DEF CallFits, HoldsQuota
  <2> QED BY <2>1, <2>2
<1>2. CASE Background
  BY <1>0, <1>2, BackgroundKeepsCalls DEF CallFits, HoldsQuota
<1> QED BY <1>1, <1>2, StepKinds

\* A request is at its statement already, or has just come to it.
LEMMA ComesTo ==
  ASSUME EvaluationsInv, EvaluationsNext, NEW u \in Clients
  PROVE  \/ pc'[u] = pc[u] /\ call'[u] = call[u]
         \/ StepOf(u)
  BY StepKinds, StepMine, BackgroundKeepsCalls DEF Mine

\* Only the holder of the lock inserts.
LEMMA OneInserts ==
  ASSUME EvaluationsInv, NEW t \in Clients, InsertEvaluation(t),
         NEW u \in Clients, pc[u] \in {"find", "count", "consent", "insert"}
  PROVE  u = t
  BY DEF EvaluationsInv, HoldsQuota, InsertEvaluation

LEMMA ActiveGrows ==
  ASSUME EvaluationsInv, EvaluationsNext, NEW e \in Ids, Readable(e)', ~Readable(e)
  PROVE  \E t \in Clients : InsertEvaluation(t) /\ call[t].id = e
<1>1. Exists(e) => WellFormed(evaluations[e])
  BY DEF EvaluationsInv, Tables
<1>2. ~AsItIs(e)
  BY DEF AsItIs, Readable, HasContent, Exists
<1>3. ~IsErased(e) /\ ~IsExpired(e)
  BY <1>1 DEF IsErased, IsExpired, Erased, Readable, HasContent, Exists, WellFormed, Evaluation
<1>4. ~IsReviewed(e)
  BY DEF IsReviewed
<1> QED BY <1>2, <1>3, <1>4, StepOfRow DEF IsInserted

LEMMA ActiveIsFinite ==
  /\ IsFiniteSet(Active) /\ Cardinality(Active) \in Nat
  /\ IsFiniteSet(Active') /\ Cardinality(Active') \in Nat
<1>1. IsFiniteSet(Active) /\ IsFiniteSet(Active')
  BY EvaluationAssumption, FS_Subset DEF Active
<1> QED BY <1>1, FS_CardinalityType

LEMMA RoomKept ==
  ASSUME EvaluationsInv, EvaluationsNext
  PROVE  ActiveCapped' /\ \A u \in Clients : KeepsRoom(u)'
<1>0. /\ Cardinality(Active) <= MaxActive /\ MaxActive \in Nat
      /\ \A u \in Clients : KeepsRoom(u)
  BY EvaluationAssumption DEF EvaluationsInv, ActiveCapped
<1>1. CASE \E t \in Clients : InsertEvaluation(t)
  <2>1. PICK t \in Clients : InsertEvaluation(t)
    BY <1>1
  <2>2. Active' \subseteq Active \cup {call[t].id}
    <3>1. \A u \in Clients : InsertEvaluation(u) => u = t
      BY <2>1, OneInserts DEF InsertEvaluation
    <3> QED BY <3>1, ActiveGrows DEF Active
  <2>3. Cardinality(Active) < MaxActive
    BY <1>0, <2>1 DEF KeepsRoom, InsertEvaluation
  <2>4. /\ IsFiniteSet(Active \cup {call[t].id})
        /\ Cardinality(Active \cup {call[t].id}) =
             IF call[t].id \in Active THEN Cardinality(Active) ELSE Cardinality(Active) + 1
    BY ActiveIsFinite, FS_AddElement, Zenon
  <2>5. Cardinality(Active') <= Cardinality(Active \cup {call[t].id})
    BY <2>2, <2>4, FS_Subset
  <2>6. Cardinality(Active') <= MaxActive
    BY <1>0, <2>3, <2>4, <2>5, ActiveIsFinite
  <2>7. ASSUME NEW u \in Clients PROVE pc'[u] \notin {"consent", "insert"}
    <3>1. CASE u = t
      BY <2>1, <3>1, LeaveFits DEF InsertEvaluation, EvaluationsInv, Tables
    <3>2. CASE u # t
      <4>1. pc'[u] = pc[u]
        BY <2>1, <3>2, LeaveFits DEF InsertEvaluation, EvaluationsInv, Tables
      <4> QED BY <2>1, <3>2, <4>1, OneInserts
    <3> QED BY <3>1, <3>2
  <2> QED BY <2>6, <2>7 DEF ActiveCapped, KeepsRoom
<1>2. CASE \A t \in Clients : ~InsertEvaluation(t)
  <2>1. Active' \subseteq Active
    BY <1>2, ActiveGrows DEF Active
  <2>2. Cardinality(Active') <= Cardinality(Active)
    BY <2>1, ActiveIsFinite, FS_Subset
  <2>3. ASSUME NEW u \in Clients, pc'[u] \in {"consent", "insert"}
        PROVE  Cardinality(Active) < MaxActive
    <3>1. CASE pc'[u] = pc[u]
      BY <1>0, <2>3, <3>1 DEF KeepsRoom
    <3>2. CASE StepOf(u)
      <4>1. CASE CountActive(u)
        <5>1. pc'[u] = "idle" \/ Cardinality(Active) < MaxActive
          BY <1>0, <4>1, ActiveIsFinite, LeaveFits DEF CountActive, Return, EvaluationsInv, Tables
        <5> QED BY <2>3, <5>1
      <4>2. CASE ReadConsent(u)
        BY <1>0, <4>2 DEF ReadConsent, KeepsRoom
      <4>3. CASE ~CountActive(u) /\ ~ReadConsent(u)
        <5>1. pc'[u] \notin {"consent", "insert"}
          <6>1. CASE BeginCall(u)
            BY <6>1, BeginFits
          <6>2. CASE Leave(u)
            BY <6>2, LeaveFits DEF EvaluationsInv, Tables
          <6>3. CASE ~BeginCall(u) /\ ~Leave(u)
            <7>1. \E step \in {"ask", "lock", "sweep", "find", "count", "review", "commit", "recheck"} :
                    Goto(u, step)
              BY <3>2, <4>3, <6>3
                 DEF StepOf, CallStep, Abort, LookForOld, AskKaname, LockQuota, FindOld, InsertEvaluation,
                     ReadForReview, ReviewEvaluation, SweepCandidates, CommitPolicy, FetchForExport,
                     RecheckAndSend, Return
            <7> QED BY <7>1 DEF Goto, EvaluationsInv, Tables
          <6> QED BY <6>1, <6>2, <6>3
        <5> QED BY <2>3, <5>1
      <4> QED BY <4>1, <4>2, <4>3
    <3> QED BY <3>1, <3>2, ComesTo
  <2>4. Cardinality(Active') <= MaxActive
    BY <1>0, <2>2, ActiveIsFinite
  <2>5. \A u \in Clients : KeepsRoom(u)'
    BY <1>0, <2>2, <2>3, ActiveIsFinite DEF KeepsRoom
  <2> QED BY <2>4, <2>5 DEF ActiveCapped
<1> QED BY <1>1, <1>2

\* A request that comes to a statement with rows in hand has just read them.
LEMMA ArrivesWith ==
  ASSUME EvaluationsInv, NEW u \in Clients, StepOf(u)
  PROVE  /\ pc'[u] = "commit" => SweepCandidates(u)
         /\ pc'[u] = "recheck" => FetchForExport(u) /\ ~Leave(u)
         /\ pc'[u] = "insert" => ReadConsent(u)
<1>0. pc \in [Clients -> Steps]
  BY DEF EvaluationsInv, Tables
<1>1. CASE BeginCall(u)
  BY <1>1, BeginFits
<1>2. CASE Leave(u)
  BY <1>0, <1>2, LeaveFits
<1>3. CASE ~BeginCall(u) /\ ~Leave(u) /\ ~SweepCandidates(u) /\ ~FetchForExport(u) /\ ~ReadConsent(u)
  <2>1. \E step \in {"ask", "lock", "sweep", "find", "count", "consent", "review"} : Goto(u, step)
    BY <1>3
       DEF StepOf, CallStep, Abort, LookForOld, AskKaname, LockQuota, FindOld, CountActive,
           InsertEvaluation, ReadForReview, ReviewEvaluation, CommitPolicy, RecheckAndSend, Return
  <2> QED BY <1>0, <2>1 DEF Goto
<1>4. CASE (SweepCandidates(u) \/ FetchForExport(u) \/ ReadConsent(u)) /\ ~Leave(u)
  BY <1>0, <1>4 DEF SweepCandidates, FetchForExport, ReadConsent, Goto, Return
<1> QED BY <1>1, <1>2, <1>3, <1>4

LEMMA RowsInHandKept ==
  ASSUME EvaluationsInv, EvaluationsNext, NEW u \in Clients
  PROVE  SweepsRows(u)' /\ ExportAges(u)'
<1>0. /\ CallFits(u) /\ SweepsRows(u) /\ ExportAges(u) /\ Tables
      /\ DOMAIN call = Clients
  BY DEF EvaluationsInv, Tables
<1>1. CASE pc'[u] = pc[u] /\ call'[u] = call[u]
  <2>1. pc[u] = "commit" => call[u].rows \subseteq Ids
    BY <1>0 DEF CallFits, PolicyCall
  <2>2. \A e \in Ids : Exists(e) => Exists(e)'
    BY RowKeepsForm DEF RowAges
  <2>3. SweepsRows(u)'
    BY <1>0, <1>1, <2>1, <2>2 DEF SweepsRows, Exists
  <2>4. ExportAges(u)'
    <3> SUFFICES ASSUME pc[u] = "recheck" PROVE ExportAges(u)'
      BY <1>1 DEF ExportAges
    <3>1. PICK e \in Ids :
            /\ e = call[u].id /\ Exists(e) /\ evaluations[e].status # "unreviewed"
            /\ evaluations[e] = call[u].row \/ evaluations[e].status = "withdrawn" \/ evaluations[e].expired
      BY <1>0 DEF CallFits, ExportCall, ExportAges
    <3>2. evaluations[e] \in Evaluation /\ Exists(e)'
      BY <1>0, <2>2, <3>1 DEF Tables, WellFormed
    <3> DEFINE aged(row) == /\ row.status # "unreviewed"
                            /\ row = call[u].row \/ row.status = "withdrawn" \/ row.expired
    <3>0. aged(evaluations'[e]) => ExportAges(u)'
      BY <1>1, <3>1, <3>2 DEF ExportAges, Exists
    <3>3. AsItIs(e) \/ IsErased(e) \/ IsExpired(e)
      BY <3>1, StepOfRow DEF IsReviewed, IsInserted
    <3>4. CASE AsItIs(e)
      BY <3>0, <3>1, <3>4 DEF AsItIs
    <3>5. CASE IsErased(e)
      BY <3>0, <3>2, <3>5 DEF IsErased, Erased, Evaluation
    <3>6. CASE IsExpired(e)
      BY <3>0, <3>1, <3>2, <3>6 DEF IsExpired, Evaluation
    <3> QED BY <3>3, <3>4, <3>5, <3>6
  <2> QED BY <2>3, <2>4
<1>2. CASE StepOf(u)
  <2>1. SweepsRows(u)'
    <3> SUFFICES ASSUME pc'[u] = "commit" PROVE \A e \in call'[u].rows : Exists(e)'
      BY DEF SweepsRows, Exists
    <3>1. SweepCandidates(u)
      BY <1>2, ArrivesWith
    <3>2. call[u] \in PolicyCall /\ UNCHANGED evaluations
      BY <1>0, <3>1 DEF SweepCandidates, CallFits, Stay
    <3>3. call'[u].rows \subseteq {e \in Ids : Exists(e)}
      BY <1>0, <3>1, <3>2 DEF SweepCandidates, PolicyCall
    <3> QED BY <3>2, <3>3 DEF Exists
  <2>2. ExportAges(u)'
    <3> SUFFICES ASSUME pc'[u] = "recheck"
                 PROVE  /\ evaluations'[call'[u].id] # NoRow /\ evaluations'[call'[u].id].status # "unreviewed"
                        /\ evaluations'[call'[u].id] = call'[u].row
      BY DEF ExportAges, Exists
    <3>1. FetchForExport(u) /\ ~Leave(u)
      BY <1>2, ArrivesWith
    <3>2. /\ call[u] \in ExportCall /\ Readable(call[u].id) /\ Approved(evaluations[call[u].id])
          /\ call' = [call EXCEPT ![u].row = evaluations[call[u].id]] /\ UNCHANGED evaluations
      BY <1>0, <3>1 DEF FetchForExport, CallFits, Return, Stay
    <3>3. call'[u].id = call[u].id /\ call'[u].row = evaluations[call[u].id]
      BY <1>0, <3>2 DEF ExportCall
    <3> QED BY <3>2, <3>3 DEF Readable, HasContent, Approved, Exists
  <2> QED BY <2>1, <2>2
<1> QED BY <1>1, <1>2, ComesTo

\* Who is told something is told what the evaluation holds.
LEMMA ToldStep ==
  ASSUME EvaluationsInv, EvaluationsNext, NEW e \in Ids
  PROVE  \/ told'[e] = told[e]
         \/ Readable(e) /\ UNCHANGED evaluations /\ told'[e] = told[e] \cup {evaluations[e].payload}
         \/ \E t \in Clients : /\ InsertEvaluation(t) /\ call[t].id = e
                               /\ told'[e] = told[e] \cup {call[t].decision}
<1>0. told \in [Ids -> SUBSET Decisions]
  BY DEF EvaluationsInv, Tables
<1>1. ASSUME NEW t \in Clients, LookForOld(t) \/ FindOld(t)
      PROVE  \/ told'[e] = told[e]
             \/ Readable(e) /\ UNCHANGED evaluations /\ told'[e] = told[e] \cup {evaluations[e].payload}
  BY <1>0, <1>1 DEF LookForOld, FindOld, Receipt, Original, Stay
<1>2. ASSUME NEW t \in Clients, InsertEvaluation(t)
      PROVE  \/ told'[e] = told[e]
             \/ call[t].id = e /\ told'[e] = told[e] \cup {call[t].decision}
  BY <1>0, <1>2 DEF InsertEvaluation, Receipt
<1>3. ASSUME NEW t \in Clients, StepOf(t), ~LookForOld(t), ~FindOld(t), ~InsertEvaluation(t)
      PROVE  told' = told
  BY <1>3
     DEF StepOf, BeginCall, Begin, CallStep, Abort, AskKaname, LockQuota, CountActive, ReadConsent,
         ReadForReview, ReviewEvaluation, SweepCandidates, CommitPolicy, FetchForExport,
         RecheckAndSend, Return, Stay
<1> QED BY <1>1, <1>2, <1>3, StepKinds, BackgroundKeepsCalls

LEMMA ToldKept ==
  ASSUME EvaluationsInv, EvaluationsNext, NEW e \in Ids
  PROVE  ToldTheSame(e)'
<1>0. /\ ToldTheSame(e) /\ Tables /\ Tables'
      /\ Exists(e) => WellFormed(evaluations[e])
  BY TablesKept DEF EvaluationsInv, Tables
<1>1. told'[e] \subseteq Decisions
  BY <1>0 DEF Tables
<1>2. ASSUME NEW t \in Clients, InsertEvaluation(t), call[t].id = e,
             told'[e] = told[e] \cup {call[t].decision}
      PROVE  ToldTheSame(e)'
  <2>1. ~Exists(e) /\ evaluations'[e].payload = call[t].decision /\ Exists(e)'
    <3>1. evaluations'[e] =
            [print |-> call[t].print, payload |-> call[t].decision, review |-> None, expired |-> FALSE,
             status |-> IF call[t].auto THEN "agent_generated" ELSE "unreviewed", granted |-> call[t].auto]
      BY <1>0, <1>2 DEF InsertEvaluation, Tables
    <3>2. evaluations'[e] \in Evaluation
      <4>1. call[t] \in EvaluateCall /\ call[t].decision \in Decisions
        BY <1>2 DEF EvaluationsInv, InsertEvaluation, CallFits, EvaluateCall
      <4> QED BY <3>1, <4>1 DEF Evaluation, Status, EvaluateCall
    <3>3. ~Exists(e)
      BY <1>2 DEF InsertEvaluation
    <3>4. evaluations'[e].payload = call[t].decision
      BY <3>1
    <3>5. evaluations'[e] # NoRow
      BY <3>2, EvaluationAssumption
    <3> QED BY <3>3, <3>4, <3>5 DEF Exists
  <2>2. told'[e] = {call[t].decision}
    BY <1>0, <1>2, <2>1 DEF ToldTheSame
  <2> QED BY <1>1, <2>1, <2>2 DEF ToldTheSame
<1>3. CASE Readable(e) /\ UNCHANGED evaluations /\ told'[e] = told[e] \cup {evaluations[e].payload}
  <2>1. told'[e] = {evaluations'[e].payload} /\ Exists(e)'
    BY <1>0, <1>3 DEF ToldTheSame, Readable, HasContent, Exists
  <2> QED BY <1>1, <2>1 DEF ToldTheSame
<1>4. CASE told'[e] = told[e] /\ ~IsInserted(e)
  <2>1. Exists(e)' => Exists(e)
    BY <1>4, StepOfRow DEF AsItIs, IsErased, IsExpired, IsReviewed, Readable, HasContent, Exists
  <2>2. HasContent(e)' => HasContent(e) /\ evaluations'[e].payload = evaluations[e].payload
    <3>1. CASE AsItIs(e)
      BY <3>1 DEF AsItIs, HasContent, Exists
    <3>2. CASE IsErased(e)
      BY <1>0, <3>2 DEF IsErased, Erased, HasContent, WellFormed, Evaluation
    <3>3. CASE IsExpired(e)
      BY <1>0, <3>3 DEF IsExpired, HasContent, WellFormed, Evaluation
    <3>4. CASE IsReviewed(e)
      BY <1>0, <3>4 DEF IsReviewed, Reviewed, Readable, HasContent, WellFormed, Evaluation
    <3> QED BY <1>4, <3>1, <3>2, <3>3, <3>4, StepOfRow
  <2>3. Exists(e) => Exists(e)'
    BY RowKeepsForm DEF RowAges
  <2> QED BY <1>0, <1>4, <2>1, <2>2, <2>3 DEF ToldTheSame
<1>5. CASE IsInserted(e)
  <2>1. PICK t \in Clients : InsertEvaluation(t) /\ call[t].id = e
    BY <1>5 DEF IsInserted
  <2>2. told'[e] = told[e] \cup {call[t].decision}
    BY <1>0, <2>1 DEF InsertEvaluation, Receipt, Tables
  <2> QED BY <1>2, <2>1, <2>2
<1> QED BY <1>2, <1>3, <1>4, <1>5, ToldStep

LEMMA EvaluationsInvKept ==
  ASSUME EvaluationsInv, [EvaluationsNext]_evalVars
  PROVE  EvaluationsInv'
<1>1. CASE EvaluationsNext
  BY <1>1, TablesKept, RequestKept, RoomKept, RowsInHandKept, ToldKept DEF EvaluationsInv
<1>2. CASE UNCHANGED evalVars
  <2> USE <1>2 DEF evalVars, EvaluationsInv
  <2>1. Tables'
    BY DEF Tables, Exists, WellFormed
  <2>2. Active' = Active
    BY DEF Active, Readable, HasContent, Exists
  <2>3. ASSUME NEW t \in Clients
        PROVE  CallFits(t)' /\ HoldsQuota(t)' /\ KeepsRoom(t)' /\ SweepsRows(t)' /\ ExportAges(t)'
    BY <2>2 DEF CallFits, HoldsQuota, KeepsRoom, SweepsRows, ExportAges, Exists
  <2>4. ASSUME NEW e \in Ids PROVE ToldTheSame(e)'
    BY DEF ToldTheSame, HasContent, Exists
  <2> QED BY <2>1, <2>2, <2>3, <2>4 DEF ActiveCapped
<1> QED BY <1>1, <1>2

LEMMA InitEvaluationsInv == EvaluationsInit => EvaluationsInv
<1> SUFFICES ASSUME EvaluationsInit PROVE EvaluationsInv
  OBVIOUS
<1>1. Tables /\ \A e \in Ids : ToldTheSame(e) /\ ~Exists(e)
  BY DEF EvaluationsInit, Tables, ToldTheSame, Exists, HasContent, Steps
<1>2. ASSUME NEW t \in Clients
      PROVE  CallFits(t) /\ HoldsQuota(t) /\ KeepsRoom(t) /\ SweepsRows(t) /\ ExportAges(t)
  BY DEF EvaluationsInit, CallFits, HoldsQuota, KeepsRoom, SweepsRows, ExportAges, Steps
<1>3. Active = {}
  BY <1>1 DEF Active, Readable, HasContent
<1>4. ActiveCapped
  BY <1>3, FS_EmptySet, EvaluationAssumption DEF ActiveCapped
<1> QED BY <1>1, <1>2, <1>4 DEF EvaluationsInv

THEOREM EvaluationsInvariant == EvaluationsSpec => []EvaluationsInv
  BY InitEvaluationsInv, EvaluationsInvKept, PTL DEF EvaluationsSpec

\* Every row satisfies the constraints of its table.
THEOREM EvaluationsTypes == EvaluationsSpec => []EvaluationsTypeOK
<1>1. EvaluationsInv => EvaluationsTypeOK
  BY DEF EvaluationsInv, Tables, WellFormed, Exists, EvaluationsTypeOK
<1> QED BY <1>1, EvaluationsInvariant, PTL

\* The quota of readable evaluations holds, however many are submitted at once.
THEOREM QuotaIsKept == EvaluationsSpec => []ActiveCapped
<1>1. EvaluationsInv => ActiveCapped
  BY DEF EvaluationsInv
<1> QED BY <1>1, EvaluationsInvariant, PTL

\* No two decisions are handed out for one evaluation.
THEOREM RetriesAgree == EvaluationsSpec => []OneDecisionPerEvaluation
<1>1. EvaluationsInv => OneDecisionPerEvaluation
  <2> SUFFICES ASSUME EvaluationsInv, NEW e \in Ids PROVE Cardinality(told[e]) <= 1
    BY DEF OneDecisionPerEvaluation
  <2>1. PICK d : told[e] \subseteq {d}
    BY DEF EvaluationsInv, ToldTheSame
  <2>2. told[e] = {} \/ told[e] = {d}
    BY <2>1
  <2>3. Cardinality({}) = 0 /\ Cardinality({d}) = 1
    BY FS_EmptySet, FS_Singleton
  <2> QED BY <2>2, <2>3
<1> QED BY <1>1, EvaluationsInvariant, PTL

\* What an export that passes its recheck sends is the evaluation as it is.
THEOREM ExportsAreCurrent == EvaluationsSpec => []ExportIsCurrent
<1>1. EvaluationsInv => ExportIsCurrent
  <2> SUFFICES ASSUME EvaluationsInv, NEW t \in Clients, pc[t] = "recheck", Passes(call[t].id)
               PROVE  call[t].row = evaluations[call[t].id]
    BY DEF ExportIsCurrent
  <2>1. ExportAges(t)
    BY DEF EvaluationsInv
  <2> QED BY <2>1 DEF ExportAges, Passes, Readable, Approved
<1> QED BY <1>1, EvaluationsInvariant, PTL

\* Withdrawn content never comes back and approvals are neither replaced nor lost.
THEOREM WithdrawnStaysWithdrawn == EvaluationsSpec => WithdrawalIsFinal
<1>1. EvaluationsInv /\ [EvaluationsNext]_evalVars => [\A e \in Ids : RowAges(e)]_evalVars
  BY RowKeepsForm
<1> QED BY <1>1, EvaluationsInvariant, PTL DEF EvaluationsSpec, WithdrawalIsFinal

-----------------------------------------------------------------------------
(***************************************************************************)
(* Consent.  If the workspace is always spelled alike, evaluations and     *)
(* policy changes exclude one another: the consent that was read holds     *)
(* until the INSERT, and the candidates that were swept are all there are. *)
(***************************************************************************)
IsCandidate(e) == Exists(e) /\ evaluations[e].status = "agent_generated"

ConsentHolds(t) == pc[t] = "insert" /\ call[t].auto => policy
SweptAll(t) ==
  pc[t] = "commit" /\ ~call[t].enabled => \A e \in Ids : IsCandidate(e) => e \in call[t].rows

ConsentInv ==
  /\ EvaluationsInv
  /\ \A t \in Clients : ConsentHolds(t) /\ SweptAll(t)
  /\ CandidatesNeedConsent

\* The one lock there is has one holder.
LEMMA OneInTransaction ==
  ASSUME Spellings = {Canonical}, EvaluationsInv, NEW t \in Clients, NEW u \in Clients,
         pc[t] \in {"find", "count", "consent", "insert", "sweep", "commit"},
         pc[u] \in {"find", "count", "consent", "insert", "sweep", "commit"}
  PROVE  t = u
<1>1. ASSUME NEW v \in Clients, pc[v] \in {"find", "count", "consent", "insert", "sweep", "commit"}
      PROVE  quota[Canonical] = v
  <2>1. CallFits(v) /\ HoldsQuota(v)
    BY DEF EvaluationsInv
  <2>2. pc[v] \in {"sweep", "commit"} => call[v].ws = Canonical
    BY <2>1 DEF CallFits, PolicyCall
  <2> QED BY <1>1, <2>1, <2>2 DEF HoldsQuota
<1> QED BY <1>1

\* A new candidate was inserted on the word of the policy.
LEMMA NewCandidate ==
  ASSUME EvaluationsInv, EvaluationsNext, NEW e \in Ids, IsCandidate(e)', ~IsCandidate(e)
  PROVE  \E t \in Clients : InsertEvaluation(t) /\ call[t].auto
<1>0. Tables /\ (Exists(e) => WellFormed(evaluations[e]))
  BY DEF EvaluationsInv, Tables
<1>1. ~AsItIs(e)
  BY DEF AsItIs, IsCandidate, Exists
<1>2. ~IsErased(e) /\ ~IsExpired(e) /\ ~IsReviewed(e)
  BY <1>0 DEF IsErased, IsExpired, IsReviewed, Erased, Reviewed, Readable, HasContent, IsCandidate, Exists,
              WellFormed, Evaluation
<1>3. PICK t \in Clients : InsertEvaluation(t) /\ call[t].id = e
  BY <1>1, <1>2, StepOfRow DEF IsInserted
<1>4. evaluations'[e].status = IF call[t].auto THEN "agent_generated" ELSE "unreviewed"
  BY <1>0, <1>3 DEF InsertEvaluation, Tables
<1> QED BY <1>3, <1>4 DEF IsCandidate

LEMMA PolicyChanges ==
  ASSUME EvaluationsNext, policy' # policy
  PROVE  \E t \in Clients : CommitPolicy(t)
<1>1. ASSUME NEW t \in Clients, StepOf(t), ~CommitPolicy(t) PROVE policy' = policy
  BY <1>1
     DEF StepOf, BeginCall, Begin, CallStep, Abort, LookForOld, AskKaname, LockQuota, FindOld,
         CountActive, ReadConsent, InsertEvaluation, ReadForReview, ReviewEvaluation, SweepCandidates,
         FetchForExport, RecheckAndSend, Return, Stay
<1> QED BY <1>1, StepKinds, BackgroundKeepsCalls

LEMMA ConsentInvKept ==
  ASSUME Spellings = {Canonical}, ConsentInv, [EvaluationsNext]_evalVars
  PROVE  ConsentInv'
<1>0. EvaluationsInv /\ EvaluationsInv' /\ Tables
  BY EvaluationsInvKept DEF ConsentInv, EvaluationsInv
<1>1. CASE UNCHANGED evalVars
  <2> USE <1>1 DEF evalVars, ConsentInv
  <2>1. ASSUME NEW t \in Clients PROVE ConsentHolds(t)' /\ SweptAll(t)'
    BY DEF ConsentHolds, SweptAll, IsCandidate, Exists
  <2> QED BY <1>0, <2>1 DEF CandidatesNeedConsent, Exists
<1>2. CASE EvaluationsNext
  <2>1. ASSUME NEW u \in Clients PROVE ConsentHolds(u)'
    <3> SUFFICES ASSUME pc'[u] = "insert", call'[u].auto PROVE policy'
      BY DEF ConsentHolds
    <3>1. CASE pc'[u] = pc[u] /\ call'[u] = call[u]
      <4>1. policy
        BY <3>1 DEF ConsentInv, ConsentHolds
      <4>2. \A t \in Clients : ~CommitPolicy(t)
        <5> SUFFICES ASSUME NEW t \in Clients, CommitPolicy(t) PROVE FALSE
          OBVIOUS
        <5>1. t = u
          BY <1>0, <3>1, OneInTransaction DEF CommitPolicy
        <5> QED BY <3>1, <5>1 DEF CommitPolicy
      <4> QED BY <1>2, <4>1, <4>2, PolicyChanges
    <3>2. CASE StepOf(u)
      <4>1. ReadConsent(u)
        BY <1>0, <3>2, ArrivesWith
      <4>2. call[u] \in EvaluateCall /\ DOMAIN call = Clients
        BY <1>0, <4>1 DEF EvaluationsInv, ReadConsent, CallFits, Tables
      <4> QED BY <4>1, <4>2 DEF ReadConsent, EvaluateCall, Stay
    <3> QED BY <1>0, <1>2, <3>1, <3>2, ComesTo
  <2>2. ASSUME NEW u \in Clients PROVE SweptAll(u)'
    <3> SUFFICES ASSUME pc'[u] = "commit", ~call'[u].enabled, NEW e \in Ids, IsCandidate(e)'
                 PROVE  e \in call'[u].rows
      BY DEF SweptAll
    <3>1. CASE pc'[u] = pc[u] /\ call'[u] = call[u]
      <4>1. \A t \in Clients : ~InsertEvaluation(t)
        <5> SUFFICES ASSUME NEW t \in Clients, InsertEvaluation(t) PROVE FALSE
          OBVIOUS
        <5>1. t = u
          BY <1>0, <3>1, OneInTransaction DEF InsertEvaluation
        <5> QED BY <3>1, <5>1 DEF InsertEvaluation
      <4>2. IsCandidate(e)
        BY <1>0, <1>2, <4>1, NewCandidate
      <4> QED BY <3>1, <4>2 DEF ConsentInv, SweptAll
    <3>2. CASE StepOf(u)
      <4>1. SweepCandidates(u)
        BY <1>0, <3>2, ArrivesWith
      <4>2. call[u] \in PolicyCall /\ DOMAIN call = Clients
        BY <1>0, <4>1 DEF EvaluationsInv, SweepCandidates, CallFits, Tables
      <4>3. /\ UNCHANGED evaluations /\ call'[u].enabled = call[u].enabled
            /\ call'[u].rows = IF call[u].enabled THEN {}
                               ELSE {o \in Ids : Exists(o) /\ evaluations[o].status = "agent_generated"}
        BY <4>1, <4>2 DEF SweepCandidates, PolicyCall, Stay
      <4> QED BY <4>3 DEF IsCandidate, Exists
    <3> QED BY <1>0, <1>2, <3>1, <3>2, ComesTo
  <2>3. CandidatesNeedConsent'
    <3> SUFFICES ASSUME NEW e \in Ids, IsCandidate(e)' PROVE policy'
      BY DEF CandidatesNeedConsent, IsCandidate, Exists
    <3>1. CASE IsCandidate(e)
      <4>1. policy
        BY <3>1 DEF ConsentInv, CandidatesNeedConsent, IsCandidate
      <4>2. ASSUME NEW t \in Clients, CommitPolicy(t) PROVE policy'
        <5> SUFFICES ASSUME ~call[t].enabled PROVE FALSE
          BY <1>0, <4>2 DEF CommitPolicy, EvaluationsInv, CallFits, PolicyCall
        <5>1. e \in call[t].rows
          BY <3>1, <4>2 DEF ConsentInv, SweptAll, CommitPolicy
        <5>2. evaluations'[e] = Erased(evaluations[e]) /\ WellFormed(evaluations[e])
          BY <1>0, <3>1, <4>2, <5>1 DEF CommitPolicy, Tables, IsCandidate
        <5>3. evaluations'[e].status = "withdrawn"
          BY <5>2 DEF Erased, WellFormed, Evaluation
        <5> QED BY <5>3 DEF IsCandidate
      <4> QED BY <1>2, <4>1, <4>2, PolicyChanges
    <3>2. CASE ~IsCandidate(e)
      <4>1. PICK t \in Clients : InsertEvaluation(t) /\ call[t].auto
        BY <1>0, <1>2, <3>2, NewCandidate
      <4>2. policy /\ UNCHANGED policy
        BY <4>1 DEF ConsentInv, ConsentHolds, InsertEvaluation
      <4> QED BY <4>2
    <3> QED BY <3>1, <3>2
  <2> QED BY <1>0, <2>1, <2>2, <2>3 DEF ConsentInv
<1> QED BY <1>1, <1>2

\* With one spelling of the workspace no candidate exists without consent.
THEOREM CandidatesHaveConsent ==
  ASSUME Spellings = {Canonical}
  PROVE  EvaluationsSpec => []CandidatesNeedConsent
<1>1. EvaluationsInit => ConsentInv
  BY InitEvaluationsInv
     DEF ConsentInv, EvaluationsInit, ConsentHolds, SweptAll, CandidatesNeedConsent, Exists
<1>2. ConsentInv /\ [EvaluationsNext]_evalVars => ConsentInv'
  BY ConsentInvKept
<1>3. ConsentInv => CandidatesNeedConsent
  BY DEF ConsentInv
<1> QED BY <1>1, <1>2, <1>3, PTL DEF EvaluationsSpec

-----------------------------------------------------------------------------
(***************************************************************************)
(* Refinement.  With one spelling of the workspace the consent that was    *)
(* read is the consent at the INSERT, and the candidates that were swept   *)
(* are the candidates at the COMMIT, so every request takes effect at one  *)
(* instant.                                                                *)
(***************************************************************************)
ConsentIsRead(t) == pc[t] = "insert" => call[t].auto = policy
SweptOnly(t) ==
  pc[t] = "commit" => /\ \A e \in call[t].rows : IsCandidate(e)
                      /\ call[t].enabled => call[t].rows = {}

AtomicInv == ConsentInv /\ \A t \in Clients : ConsentIsRead(t) /\ SweptOnly(t)

\* Nobody writes a row that a policy change holds.
LEMMA SweptStays ==
  ASSUME Spellings = {Canonical}, EvaluationsInv, EvaluationsNext, NEW u \in Clients,
         pc[u] = "commit", pc'[u] = "commit", NEW e \in call[u].rows, IsCandidate(e)
  PROVE  IsCandidate(e)'
<1>0. Tables /\ e \in Ids /\ e \in Swept(u) /\ ~RowFree(e) /\ evaluations[e] \in Evaluation
  BY DEF EvaluationsInv, Tables, CallFits, PolicyCall, Swept, RowFree, IsCandidate, Exists
<1>1. ASSUME NEW t \in Clients, StepOf(t) PROVE UNCHANGED evaluations[e]
  <2>1. CASE InsertEvaluation(t)
    <3>1. call[t].id # e
      BY <2>1 DEF InsertEvaluation, IsCandidate
    <3> QED BY <1>0, <2>1, <3>1 DEF InsertEvaluation, Tables
  <2>2. CASE ReviewEvaluation(t)
    BY <1>0, <2>2 DEF ReviewEvaluation, Return, Stay, Tables
  <2>3. CASE CommitPolicy(t)
    <3>1. t = u
      BY <2>3, OneInTransaction DEF CommitPolicy
    <3> QED BY <1>0, <2>3, <3>1 DEF CommitPolicy, Leave, Goto, Tables
  <2>4. CASE ~InsertEvaluation(t) /\ ~ReviewEvaluation(t) /\ ~CommitPolicy(t)
    <3>1. UNCHANGED evaluations
      BY <1>1, <2>4
         DEF StepOf, BeginCall, Begin, CallStep, Abort, LookForOld, AskKaname, LockQuota, FindOld,
             CountActive, ReadConsent, ReadForReview, SweepCandidates, FetchForExport, RecheckAndSend,
             Return, Stay
    <3> QED BY <3>1
  <2> QED BY <2>1, <2>2, <2>3, <2>4
<1>2. ASSUME NEW o \in Ids, WithdrawEvaluation(o) PROVE UNCHANGED evaluations[e]
  BY <1>0, <1>2 DEF WithdrawEvaluation, Tables
<1>3. ASSUME NEW o \in Ids, Expire(o) PROVE IsCandidate(e)'
  <2>1. CASE o = e
    <3>1. evaluations'[e] = [evaluations[e] EXCEPT !.expired = TRUE]
      BY <1>0, <1>3, <2>1 DEF Expire, Tables
    <3>2. evaluations'[e] \in Evaluation /\ evaluations'[e].status = evaluations[e].status
      BY <1>0, <3>1 DEF Evaluation
    <3> QED BY <3>2, EvaluationAssumption DEF IsCandidate, Exists
  <2>2. CASE o # e
    BY <1>0, <1>3, <2>2 DEF Expire, Tables, IsCandidate, Exists
  <2> QED BY <2>1, <2>2
<1>4. CASE Purge
  <2>1. e \notin Purgeable
    BY <1>0, <1>4 DEF Purge
  <2> QED BY <1>0, <1>4, <2>1 DEF Purge, IsCandidate, Exists
<1>5. UNCHANGED evaluations[e] => IsCandidate(e)'
  BY DEF IsCandidate, Exists
<1> QED BY <1>1, <1>2, <1>3, <1>4, <1>5, StepKinds DEF Background

LEMMA AtomicInvKept ==
  ASSUME Spellings = {Canonical}, AtomicInv, [EvaluationsNext]_evalVars
  PROVE  AtomicInv'
<1>0. EvaluationsInv /\ ConsentInv' /\ Tables
  BY ConsentInvKept DEF AtomicInv, ConsentInv, EvaluationsInv
<1>1. CASE UNCHANGED evalVars
  <2>1. ASSUME NEW t \in Clients PROVE ConsentIsRead(t)' /\ SweptOnly(t)'
    BY <1>1 DEF evalVars, AtomicInv, ConsentIsRead, SweptOnly, IsCandidate, Exists
  <2> QED BY <1>0, <2>1 DEF AtomicInv
<1>2. CASE EvaluationsNext
  <2>1. ASSUME NEW u \in Clients PROVE ConsentIsRead(u)'
    <3> SUFFICES ASSUME pc'[u] = "insert" PROVE call'[u].auto = policy'
      BY DEF ConsentIsRead
    <3>1. CASE pc'[u] = pc[u] /\ call'[u] = call[u]
      <4>1. \A t \in Clients : ~CommitPolicy(t)
        <5> SUFFICES ASSUME NEW t \in Clients, CommitPolicy(t) PROVE FALSE
          OBVIOUS
        <5>1. t = u
          BY <1>0, <3>1, OneInTransaction DEF CommitPolicy
        <5> QED BY <3>1, <5>1 DEF CommitPolicy
      <4>2. policy' = policy
        BY <1>2, <4>1, PolicyChanges
      <4> QED BY <3>1, <4>2 DEF AtomicInv, ConsentIsRead
    <3>2. CASE StepOf(u)
      <4>1. ReadConsent(u)
        BY <1>0, <3>2, ArrivesWith
      <4>2. call[u] \in EvaluateCall /\ DOMAIN call = Clients
        BY <1>0, <4>1 DEF EvaluationsInv, ReadConsent, CallFits, Tables
      <4> QED BY <4>1, <4>2 DEF ReadConsent, EvaluateCall, Stay
    <3> QED BY <1>0, <1>2, <3>1, <3>2, ComesTo
  <2>2. ASSUME NEW u \in Clients PROVE SweptOnly(u)'
    <3> SUFFICES ASSUME pc'[u] = "commit"
                 PROVE  /\ \A e \in call'[u].rows : IsCandidate(e)'
                        /\ call'[u].enabled => call'[u].rows = {}
      BY DEF SweptOnly
    <3>1. CASE pc'[u] = pc[u] /\ call'[u] = call[u]
      BY <1>0, <1>2, <3>1, SweptStays DEF AtomicInv, SweptOnly
    <3>2. CASE StepOf(u)
      <4>1. SweepCandidates(u)
        BY <1>0, <3>2, ArrivesWith
      <4>2. call[u] \in PolicyCall /\ DOMAIN call = Clients
        BY <1>0, <4>1 DEF EvaluationsInv, SweepCandidates, CallFits, Tables
      <4>3. /\ UNCHANGED evaluations /\ call'[u].enabled = call[u].enabled
            /\ call'[u].rows = IF call[u].enabled THEN {}
                               ELSE {o \in Ids : Exists(o) /\ evaluations[o].status = "agent_generated"}
        BY <4>1, <4>2 DEF SweepCandidates, PolicyCall, Stay
      <4> QED BY <4>3 DEF IsCandidate, Exists
    <3> QED BY <1>0, <1>2, <3>1, <3>2, ComesTo
  <2> QED BY <1>0, <2>1, <2>2 DEF AtomicInv
<1> QED BY <1>1, <1>2

\* The instance of the ledger counts as this module does.
LEMMA LedgerCardinality ==
  ASSUME NEW S
  PROVE  Ledger!Cardinality(S) = Cardinality(S)
  BY DEF Cardinality, Ledger!Cardinality

\* Every statement is a step of the ledger, or none.
LEMMA StatementsAreAtomic ==
  ASSUME Spellings = {Canonical}, AtomicInv, EvaluationsNext
  PROVE  Ledger!LedgerNext \/ UNCHANGED <<evaluations, policy, told>>
<1>0. /\ EvaluationsInv /\ Tables
      /\ \A e \in Ids : Readable(e) <=> Ledger!Readable(e)
      /\ \A e \in Ids : Exists(e) <=> Ledger!Exists(e)
      /\ Active = Ledger!Active
  BY DEF AtomicInv, ConsentInv, EvaluationsInv, Readable, HasContent, Exists, Active,
         Ledger!Readable, Ledger!Exists, Ledger!Active
<1>1. ASSUME NEW t \in Clients, InsertEvaluation(t) PROVE Ledger!LedgerNext
  <2> DEFINE c == call[t]
  <2>1. c \in EvaluateCall /\ c.decision \in Decisions
    BY <1>0, <1>1 DEF EvaluationsInv, CallFits, InsertEvaluation, EvaluateCall
  <2>2. c.id \in Ids /\ c.print \in Prints /\ c.auto = policy
    BY <1>1, <2>1 DEF EvaluateCall, AtomicInv, ConsentIsRead, InsertEvaluation
  <2>3. ~Ledger!Exists(c.id) /\ Ledger!Cardinality(Ledger!Active) < MaxActive
    BY <1>0, <1>1, <2>2, LedgerCardinality DEF InsertEvaluation, EvaluationsInv, KeepsRoom
  <2>4. Ledger!Submit(c.id, c.print, c.decision)
    BY <1>1, <2>2, <2>3 DEF InsertEvaluation, Receipt, Ledger!Submit
  <2> QED BY <2>1, <2>2, <2>4 DEF Ledger!LedgerNext
<1>2. ASSUME NEW t \in Clients, LookForOld(t) \/ FindOld(t)
      PROVE  Ledger!LedgerNext \/ UNCHANGED <<evaluations, policy, told>>
  <2> DEFINE c == call[t]
  <2>1. c.id \in Ids
    BY <1>0, <1>2 DEF EvaluationsInv, CallFits, LookForOld, FindOld, EvaluateCall
  <2>2. CASE Readable(c.id) /\ Receipt(c.id, Original(c)) /\ UNCHANGED <<evaluations, policy>>
    <3>1. Ledger!Retry(c.id)
      BY <1>0, <2>1, <2>2 DEF Receipt, Original, Ledger!Retry
    <3> QED BY <2>1, <3>1 DEF Ledger!LedgerNext
  <2>3. CASE UNCHANGED <<evaluations, policy, told>>
    BY <2>3
  <2> QED BY <1>2, <2>2, <2>3 DEF LookForOld, FindOld, Stay
<1>3. ASSUME NEW t \in Clients, ReviewEvaluation(t)
      PROVE  Ledger!LedgerNext \/ UNCHANGED <<evaluations, policy, told>>
  <2> DEFINE e == call[t].id
             v == call[t].review
  <2>1. e \in Ids /\ v \in Reviews
    BY <1>0, <1>3 DEF EvaluationsInv, CallFits, ReviewEvaluation, ReviewCall
  <2>2. CASE Return(t)
    BY <2>2 DEF Return, Stay
  <2>3. CASE ~Return(t)
    <3>1. Ledger!Review(e, v)
      BY <1>0, <1>3, <2>1, <2>3 DEF ReviewEvaluation, Reviewed, Ledger!Review
    <3> QED BY <2>1, <3>1 DEF Ledger!LedgerNext
  <2> QED BY <2>2, <2>3
<1>4. ASSUME NEW t \in Clients, CommitPolicy(t) PROVE Ledger!LedgerNext
  <2> DEFINE c == call[t]
  <2>1. c \in PolicyCall /\ c.enabled \in BOOLEAN /\ c.rows \subseteq Ids
    BY <1>0, <1>4 DEF EvaluationsInv, CallFits, CommitPolicy, PolicyCall
  <2>2. c.rows = IF c.enabled THEN {} ELSE Ledger!Candidates
    <3>1. \A e \in Ids : IsCandidate(e) <=> e \in Ledger!Candidates
      BY <1>0 DEF IsCandidate, Ledger!Candidates
    <3>2. Ledger!Candidates \subseteq Ids
      BY DEF Ledger!Candidates
    <3> QED BY <1>4, <2>1, <3>1, <3>2 DEF AtomicInv, ConsentInv, SweptAll, SweptOnly, CommitPolicy
  <2>3. Ledger!SetConsent(c.enabled)
    BY <1>4, <2>2 DEF CommitPolicy, Erased, Ledger!SetConsent, Ledger!Erase
  <2> QED BY <2>1, <2>3 DEF Ledger!LedgerNext
<1>5. ASSUME NEW t \in Clients, StepOf(t), ~InsertEvaluation(t), ~LookForOld(t), ~FindOld(t),
             ~ReviewEvaluation(t), ~CommitPolicy(t)
      PROVE  UNCHANGED <<evaluations, policy, told>>
  BY <1>5
     DEF StepOf, BeginCall, Begin, CallStep, Abort, AskKaname, LockQuota,
         CountActive, ReadConsent, ReadForReview, SweepCandidates, FetchForExport, RecheckAndSend,
         Return, Stay
<1>6. ASSUME NEW e \in Ids, WithdrawEvaluation(e) PROVE Ledger!LedgerNext
  <2>1. Ledger!Withdraw(e)
    <3>1. evaluations' = [o \in Ids |-> IF o \in {e} THEN Erased(evaluations[o]) ELSE evaluations[o]]
      BY <1>0, <1>6 DEF WithdrawEvaluation, Tables
    <3> QED BY <1>0, <1>6, <3>1 DEF WithdrawEvaluation, Erased, Ledger!Withdraw, Ledger!Erase
  <2> QED BY <2>1 DEF Ledger!LedgerNext
<1>7. ASSUME NEW e \in Ids, Expire(e) PROVE Ledger!LedgerNext
  <2>1. Ledger!Expire(e)
    BY <1>0, <1>7 DEF Expire, Ledger!Expire
  <2> QED BY <2>1 DEF Ledger!LedgerNext
<1>8. CASE Purge
  <2>1. Purgeable = Ledger!Outdated
    BY <1>0 DEF Purgeable, HasContent, Exists, Ledger!Outdated, Ledger!Exists
  <2>2. Ledger!Purge
    BY <1>8, <2>1 DEF Purge, Erased, Ledger!Purge, Ledger!Erase
  <2> QED BY <2>2 DEF Ledger!LedgerNext
<1> QED BY <1>1, <1>2, <1>3, <1>4, <1>5, <1>6, <1>7, <1>8, StepKinds DEF Background

\* The code, statement by statement, implements the atomic ledger: quota, consent
\* and candidates cannot change between the look at them and the write.
THEOREM EvaluationsImplementLedger ==
  ASSUME Spellings = {Canonical}
  PROVE  EvaluationsSpec => EvaluationsAreAtomic
<1>1. EvaluationsInit => AtomicInv /\ Ledger!LedgerInit
  BY InitEvaluationsInv
     DEF AtomicInv, ConsentInv, EvaluationsInit, ConsentHolds, SweptAll, ConsentIsRead, SweptOnly,
         CandidatesNeedConsent, Exists, Ledger!LedgerInit
<1>2. AtomicInv /\ [EvaluationsNext]_evalVars => AtomicInv'
  BY AtomicInvKept
<1>3. AtomicInv /\ [EvaluationsNext]_evalVars => [Ledger!LedgerNext]_Ledger!vars
  BY StatementsAreAtomic DEF evalVars, Ledger!vars
<1> QED BY <1>1, <1>2, <1>3, PTL DEF EvaluationsSpec, EvaluationsAreAtomic, Ledger!LedgerSpec
=============================================================================
