---------------------------- MODULE Evaluations ----------------------------
(***************************************************************************)
(* The decision evaluations of one workspace: internal/store/              *)
(* decision_feedback.go under the handlers of internal/server/             *)
(* decision_feedback.go, which look, call Kaname or build an archive, and  *)
(* only then write or answer.                                              *)
(*                                                                         *)
(* As in MemoryStore an action is one statement and what a transaction     *)
(* writes shows at its commit.  Statements outside a transaction are one   *)
(* action with their commit.  A stored evaluation is its fingerprint (the  *)
(* request hash and the key that sent it), the decision it was given, its  *)
(* status and its review; the exact snapshot stands or falls with the      *)
(* decision.                                                               *)
(***************************************************************************)
EXTENDS Naturals, FiniteSets

CONSTANTS
  Ids,        \* evaluation ids, chosen by the callers
  Prints,     \* fingerprints of requests
  Decisions,  \* decision ids Kaname may answer with
  Reviews,    \* judgements an owner may approve
  MaxActive,  \* readable evaluations per workspace (500)
  Clients,
  Spellings,  \* texts that name the workspace: a UUID has upper and lower case
  Canonical,  \* the one MCP tools pass on, in lower case
  NoRow, None, NoTx

Status == {"unreviewed", "agent_generated", "reviewed", "withdrawn"}
Evaluation == [print: Prints, payload: Decisions \cup {None}, status: Status,
               review: Reviews \cup {None}, granted: BOOLEAN, expired: BOOLEAN]

ASSUME EvaluationAssumption ==
  /\ IsFiniteSet(Ids)
  /\ MaxActive \in Nat
  /\ NoTx \notin Clients
  /\ Canonical \in Spellings
  /\ None \notin Decisions \cup Reviews
  /\ NoRow \notin Evaluation

VARIABLES
  evaluations,  \* decision_evaluations
  policy,       \* agent_candidates_enabled
  quota,        \* the advisory locks, by spelling of the workspace: holder or NoTx
  pc, call,     \* what each request executes next, and what it has in hand
  told          \* history: decisions callers were given for an id

evalVars == <<evaluations, policy, quota, pc, call, told>>

EvaluateCall == [op: {"evaluate"}, id: Ids, print: Prints,
                 decision: Decisions \cup {None}, auto: BOOLEAN]
ReviewCall == [op: {"review"}, id: Ids, review: Reviews]
PolicyCall == [op: {"policy"}, ws: Spellings, enabled: BOOLEAN, rows: SUBSET Ids]
ExportCall == [op: {"export"}, id: Ids, row: Evaluation \cup {NoRow}]
NoCall == [op |-> "none"]
Steps == {"idle", "look", "ask", "lock", "find", "count", "consent", "insert",
          "read", "review", "sweep", "commit", "fetch", "recheck"}

EvaluationsTypeOK ==
  /\ evaluations \in [Ids -> Evaluation \cup {NoRow}]
  /\ \A e \in Ids : evaluations[e] # NoRow =>
       /\ evaluations[e].payload = None <=> evaluations[e].status = "withdrawn"
       /\ evaluations[e].review # None <=> evaluations[e].status = "reviewed"
  /\ policy \in BOOLEAN
  /\ quota \in [Spellings -> Clients \cup {NoTx}]
  /\ pc \in [Clients -> Steps]
  /\ call \in [Clients -> EvaluateCall \cup ReviewCall \cup PolicyCall \cup ExportCall \cup {NoCall}]
  /\ told \in [Ids -> SUBSET Decisions]

EvaluationsInit ==
  /\ evaluations = [e \in Ids |-> NoRow]
  /\ policy = FALSE
  /\ quota = [ws \in Spellings |-> NoTx]
  /\ pc = [t \in Clients |-> "idle"]
  /\ call = [t \in Clients |-> NoCall]
  /\ told = [e \in Ids |-> {}]

-----------------------------------------------------------------------------
Exists(e) == evaluations[e] # NoRow
HasContent(e) == Exists(e) /\ evaluations[e].payload # None
Readable(e) == HasContent(e) /\ ~evaluations[e].expired
Approved(row) == row.status \in {"reviewed", "agent_generated"}

\* What withdrawing and purging leave of a row.
Erased(row) == [row EXCEPT !.status = "withdrawn", !.payload = None, !.review = None]

\* Rows a policy change has updated and not yet committed.
Swept(t) == IF pc[t] = "commit" THEN call[t].rows ELSE {}
RowFree(e) == \A t \in Clients : e \notin Swept(t)

Goto(t, step) == pc' = [pc EXCEPT ![t] = step]
Stay == UNCHANGED <<evaluations, policy, told>>

\* The request is answered; its transaction, if it has one, ends.
Leave(t) ==
  /\ Goto(t, "idle")
  /\ call' = [call EXCEPT ![t] = NoCall]
  /\ quota' = [ws \in Spellings |-> IF quota[ws] = t THEN NoTx ELSE quota[ws]]
Return(t) == Leave(t) /\ Stay

Begin(t, c, step) ==
  /\ pc[t] = "idle"
  /\ call' = [call EXCEPT ![t] = c]
  /\ Goto(t, step)
  /\ Stay /\ UNCHANGED quota

Receipt(e, d) == told' = [told EXCEPT ![e] = @ \cup {d}]

\* What a caller is told of an evaluation that is there already.
Fresh(c) == c.decision   \* mutant: the caller's own result
Original(c) == evaluations[c.id].payload

-----------------------------------------------------------------------------
(***************************************************************************)
(* kasane_relevance_evaluate: evaluateForReview, SaveDecisionEvaluation.   *)
(***************************************************************************)
LookForOld(t) ==
  LET c == call[t] IN
  /\ pc[t] = "look"
  /\ IF Readable(c.id)
     THEN /\ IF evaluations[c.id].print = c.print
             THEN Receipt(c.id, Original(c))
             ELSE UNCHANGED told
          /\ Leave(t) /\ UNCHANGED <<evaluations, policy>>
     ELSE Goto(t, "ask") /\ Stay /\ UNCHANGED <<call, quota>>

\* Kaname takes its time and gives every request a decision of its own.
AskKaname(t) ==
  /\ pc[t] = "ask"
  /\ \E d \in Decisions : call' = [call EXCEPT ![t].decision = d]
  /\ Goto(t, "lock")
  /\ Stay /\ UNCHANGED quota

\* mutant: the transaction starts without the advisory lock
StartUnlocked(t) ==
  /\ pc[t] = "lock"
  /\ Goto(t, IF call[t].op = "policy" THEN "sweep" ELSE "find")
  /\ Stay /\ UNCHANGED <<call, quota>>

\* pg_advisory_xact_lock, taken first by SaveDecisionEvaluation and by
\* SetDecisionTrainingPolicy.  It locks the text of the workspace id; that of
\* the policy route is the path of the request, as the owner wrote it.
QuotaOf(c) == IF c.op = "policy" THEN c.ws ELSE Canonical
LockQuota(t) ==
  LET ws == QuotaOf(call[t]) IN
  /\ pc[t] = "lock"
  /\ quota[ws] = NoTx
  /\ quota' = [quota EXCEPT ![ws] = t]
  /\ Goto(t, IF call[t].op = "policy" THEN "sweep" ELSE "find")
  /\ Stay /\ UNCHANGED call

\* A row the id already has answers the retry or refuses the request.
FindOld(t) ==
  LET c == call[t] IN
  /\ pc[t] = "find"
  /\ IF Exists(c.id)
     THEN /\ IF evaluations[c.id].print = c.print /\ Readable(c.id)
             THEN Receipt(c.id, Original(c))
             ELSE UNCHANGED told
          /\ Leave(t) /\ UNCHANGED <<evaluations, policy>>
     ELSE Goto(t, "count") /\ Stay /\ UNCHANGED <<call, quota>>

Active == {e \in Ids : Readable(e)}

CountActive(t) ==
  /\ pc[t] = "count"
  /\ IF Cardinality(Active) >= MaxActive
     THEN Return(t)
     ELSE Goto(t, "consent") /\ Stay /\ UNCHANGED <<call, quota>>

ReadConsent(t) ==
  /\ pc[t] = "consent"
  /\ call' = [call EXCEPT ![t].auto = policy]
  /\ Goto(t, "insert")
  /\ Stay /\ UNCHANGED quota

\* INSERT and COMMIT; the primary key rejects a second row with the id.
InsertEvaluation(t) ==
  LET c == call[t] IN
  /\ pc[t] = "insert"
  /\ ~Exists(c.id)
  /\ evaluations' = [evaluations EXCEPT ![c.id] =
       [print |-> c.print, payload |-> c.decision, review |-> None, expired |-> FALSE,
        status |-> IF c.auto THEN "agent_generated" ELSE "unreviewed", granted |-> c.auto]]
  /\ Receipt(c.id, c.decision)
  /\ Leave(t) /\ UNCHANGED policy

-----------------------------------------------------------------------------
(***************************************************************************)
(* What the owner does: review, withdraw, set the policy, export.          *)
(***************************************************************************)
ReadForReview(t) ==
  /\ pc[t] = "read"
  /\ IF Readable(call[t].id)
     THEN Goto(t, "review") /\ Stay /\ UNCHANGED <<call, quota>>
     ELSE Return(t)

Reviewed(row, v) == [row EXCEPT !.status = "reviewed", !.review = v, !.granted = TRUE]

\* mutant: the UPDATE trusts what the handler has read
ReviewAny(t) ==
  /\ pc[t] = "review" /\ RowFree(call[t].id)
  /\ evaluations' = [evaluations EXCEPT ![call[t].id] = Reviewed(@, call[t].review)]
  /\ Leave(t) /\ UNCHANGED <<policy, told>>

ReviewEvaluation(t) ==
  LET e == call[t].id IN
  /\ pc[t] = "review"
  /\ RowFree(e)
  /\ IF Readable(e) /\ evaluations[e].status = "unreviewed"
     THEN /\ evaluations' = [evaluations EXCEPT ![e] = Reviewed(@, call[t].review)]
          /\ Leave(t) /\ UNCHANGED <<policy, told>>
     ELSE Return(t)

WithdrawEvaluation(e) ==
  /\ Exists(e) /\ RowFree(e)
  /\ evaluations' = [evaluations EXCEPT ![e] = Erased(@)]
  /\ UNCHANGED <<policy, quota, pc, call, told>>

\* The row of the policy, which another change may have locked together with
\* candidates of its own, and then all candidates there are.
SweepCandidates(t) ==
  LET candidates == {e \in Ids : Exists(e) /\ evaluations[e].status = "agent_generated"} IN
  /\ pc[t] = "sweep"
  /\ \A u \in Clients : pc[u] # "commit"
  /\ call' = [call EXCEPT ![t].rows = IF call[t].enabled THEN {} ELSE candidates]
  /\ Goto(t, "commit")
  /\ Stay /\ UNCHANGED quota

CommitPolicy(t) ==
  /\ pc[t] = "commit"
  /\ policy' = call[t].enabled
  /\ evaluations' = [e \in Ids |-> IF e \in call[t].rows THEN Erased(evaluations[e]) ELSE evaluations[e]]
  /\ Leave(t) /\ UNCHANGED told

\* The archive is built from the row read first.
FetchForExport(t) ==
  LET e == call[t].id IN
  /\ pc[t] = "fetch"
  /\ IF Readable(e) /\ Approved(evaluations[e]) /\ evaluations[e].granted
     THEN /\ call' = [call EXCEPT ![t].row = evaluations[e]]
          /\ Goto(t, "recheck")
          /\ Stay /\ UNCHANGED quota
     ELSE Return(t)

\* What the recheck lets through.
Passes(e) == Readable(e) /\ Approved(evaluations[e])

\* Sent or refused, the request is over.
RecheckAndSend(t) == pc[t] = "recheck" /\ Return(t)

-----------------------------------------------------------------------------
Abort(t) == pc[t] # "idle" /\ Return(t)

BeginCall(t) ==
  \/ \E e \in Ids, f \in Prints :
       Begin(t, [op |-> "evaluate", id |-> e, print |-> f, decision |-> None, auto |-> FALSE], "look")
  \/ \E e \in Ids, v \in Reviews : Begin(t, [op |-> "review", id |-> e, review |-> v], "read")
  \/ \E b \in BOOLEAN, ws \in Spellings :
       Begin(t, [op |-> "policy", ws |-> ws, enabled |-> b, rows |-> {}], "lock")
  \/ \E e \in Ids : Begin(t, [op |-> "export", id |-> e, row |-> NoRow], "fetch")

CallStep(t) ==
  \/ LookForOld(t) \/ AskKaname(t) \/ LockQuota(t) \/ FindOld(t)
  \/ CountActive(t) \/ ReadConsent(t) \/ InsertEvaluation(t)
  \/ ReadForReview(t) \/ ReviewEvaluation(t)
  \/ SweepCandidates(t) \/ CommitPolicy(t)
  \/ FetchForExport(t) \/ RecheckAndSend(t)

Expire(e) ==
  /\ Exists(e) /\ ~evaluations[e].expired
  /\ evaluations' = [evaluations EXCEPT ![e].expired = TRUE]
  /\ UNCHANGED <<policy, quota, pc, call, told>>

Purgeable == {e \in Ids : HasContent(e) /\ evaluations[e].expired}

\* mutant: candidates are left to their owner
PurgeReviewed ==
  LET old == {e \in Purgeable : evaluations[e].status = "reviewed"} IN
  /\ old # {}
  /\ \A e \in old : RowFree(e)
  /\ evaluations' = [e \in Ids |-> IF e \in old THEN Erased(evaluations[e]) ELSE evaluations[e]]
  /\ UNCHANGED <<policy, quota, pc, call, told>>

\* The statement RunWorker issues every minute.
Purge ==
  /\ Purgeable # {}
  /\ \A e \in Purgeable : RowFree(e)
  /\ evaluations' = [e \in Ids |-> IF e \in Purgeable THEN Erased(evaluations[e]) ELSE evaluations[e]]
  /\ UNCHANGED <<policy, quota, pc, call, told>>

EvaluationsNext ==
  \/ \E t \in Clients : BeginCall(t) \/ CallStep(t) \/ Abort(t)
  \/ \E e \in Ids : WithdrawEvaluation(e) \/ Expire(e)
  \/ Purge

EvaluationsSpec == EvaluationsInit /\ [][EvaluationsNext]_evalVars

-----------------------------------------------------------------------------
(***************************************************************************)
(* Properties.                                                             *)
(***************************************************************************)

\* There are never more than MaxActive evaluations to read, however many are
\* submitted at once (counted and inserted in separate statements).
ActiveCapped == Cardinality(Active) <= MaxActive

\* Evaluations contributed without a review exist only under the owner's
\* consent: none is saved by a request that read the policy before it was
\* switched off, and none is left by switching it off.
CandidatesNeedConsent ==
  \A e \in Ids : Exists(e) /\ evaluations[e].status = "agent_generated" => policy

\* Retries are told the original decision, whatever Kaname answered them: no
\* two decisions are ever handed out for one evaluation.
OneDecisionPerEvaluation == \A e \in Ids : Cardinality(told[e]) <= 1

\* What an export sends is the evaluation as it is when it was rechecked: the
\* archive built from an earlier read is not of another review or status.
ExportIsCurrent ==
  \A t \in Clients :
    pc[t] = "recheck" /\ Passes(call[t].id) => call[t].row = evaluations[call[t].id]

\* Withdrawn is final, for withdrawals, purges and a policy switched off alike:
\* no retry, review or export in progress brings content or approval back.  A
\* review, once approved, is never replaced, and an approval stays on the
\* register of permissions for ever.
RowAges(e) ==
  Exists(e) =>
    /\ Exists(e)' /\ evaluations'[e].print = evaluations[e].print
    /\ evaluations[e].granted => evaluations'[e].granted
    /\ evaluations[e].status = "withdrawn" =>
         evaluations'[e].status = "withdrawn" /\ ~HasContent(e)'
    /\ evaluations[e].status = "reviewed" =>
         \/ evaluations'[e].status = "withdrawn"
         \/ evaluations'[e].status = "reviewed" /\ evaluations'[e].review = evaluations[e].review
WithdrawalIsFinal == [][\A e \in Ids : RowAges(e)]_evalVars

\* Seen from outside, requests that look, wait for Kaname, count, read the policy
\* and only then write are the atomic ones of EvaluationLedger: quota, consent
\* and candidates are what they were when they were looked at.
Ledger == INSTANCE EvaluationLedger WITH stored <- evaluations, consent <- policy, given <- told
EvaluationsAreAtomic == Ledger!LedgerSpec

\* The worker purges every minute, and PostgreSQL hands it the rows it waits
\* for when they are released; a policy change that has locked rows ends.
EvaluationsFairness ==
  /\ SF_evalVars(Purge)
  /\ \A t \in Clients : WF_evalVars(CommitPolicy(t))
FairEvaluationsSpec == EvaluationsSpec /\ EvaluationsFairness

\* No expired content stays for ever, whatever else goes on in the workspace.
ExpiredIsPurged ==
  \A e \in Ids : Exists(e) /\ evaluations[e].expired ~> Exists(e) /\ ~HasContent(e)
=============================================================================
