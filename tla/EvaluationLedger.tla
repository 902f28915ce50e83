-------------------------- MODULE EvaluationLedger --------------------------
(***************************************************************************)
(* What the decision evaluations of a workspace promise: every request     *)
(* takes effect, or does not, at one instant, on the quota, the consent    *)
(* and the evaluation as they are at that instant.  Evaluations is the     *)
(* code, statement by statement; it implements this module.                *)
(***************************************************************************)
EXTENDS Naturals, FiniteSets

CONSTANTS Ids, Prints, Decisions, Reviews, MaxActive, NoRow, None

VARIABLES
  stored,   \* evaluations
  consent,  \* evaluations are candidates for training without a review
  given     \* decisions callers were given for an id

vars == <<stored, consent, given>>

LedgerInit ==
  /\ stored = [e \in Ids |-> NoRow]
  /\ consent = FALSE
  /\ given = [e \in Ids |-> {}]

Exists(e) == stored[e] # NoRow
Readable(e) == Exists(e) /\ stored[e].payload # None /\ ~stored[e].expired
Active == {e \in Ids : Readable(e)}
Candidates == {e \in Ids : Exists(e) /\ stored[e].status = "agent_generated"}
Outdated == {e \in Ids : Exists(e) /\ stored[e].payload # None /\ stored[e].expired}

Erase(S) ==
  stored' = [e \in Ids |-> IF e \in S
                           THEN [stored[e] EXCEPT !.status = "withdrawn", !.payload = None, !.review = None]
                           ELSE stored[e]]

-----------------------------------------------------------------------------
\* A new evaluation takes a free place of the quota; the consent of this moment
\* decides what it is.
Submit(e, f, d) ==
  /\ ~Exists(e) /\ Cardinality(Active) < MaxActive
  /\ stored' = [stored EXCEPT ![e] =
       [print |-> f, payload |-> d, review |-> None, expired |-> FALSE,
        status |-> IF consent THEN "agent_generated" ELSE "unreviewed", granted |-> consent]]
  /\ given' = [given EXCEPT ![e] = @ \cup {d}]
  /\ UNCHANGED consent

\* A retry of the same request is told the decision that is stored.
Retry(e) ==
  /\ Readable(e)
  /\ given' = [given EXCEPT ![e] = @ \cup {stored[e].payload}]
  /\ UNCHANGED <<stored, consent>>

Review(e, v) ==
  /\ Readable(e) /\ stored[e].status = "unreviewed"
  /\ stored' = [stored EXCEPT ![e] = [@ EXCEPT !.status = "reviewed", !.review = v, !.granted = TRUE]]
  /\ UNCHANGED <<consent, given>>

Withdraw(e) == Exists(e) /\ Erase({e}) /\ UNCHANGED <<consent, given>>

\* Taking the consent back erases every candidate there is.
SetConsent(b) ==
  /\ consent' = b
  /\ Erase(IF b THEN {} ELSE Candidates)
  /\ UNCHANGED given

Expire(e) ==
  /\ Exists(e)
  /\ stored' = [stored EXCEPT ![e] = [@ EXCEPT !.expired = TRUE]]
  /\ UNCHANGED <<consent, given>>

Purge == Erase(Outdated) /\ UNCHANGED <<consent, given>>

LedgerNext ==
  \/ \E e \in Ids : \/ \E f \in Prints, d \in Decisions : Submit(e, f, d)
                    \/ \E v \in Reviews : Review(e, v)
                    \/ Retry(e) \/ Withdraw(e) \/ Expire(e)
  \/ \E b \in BOOLEAN : SetConsent(b)
  \/ Purge

LedgerSpec == LedgerInit /\ [][LedgerNext]_vars
=============================================================================
