-------------------------------- MODULE Reads --------------------------------
(***************************************************************************)
(* The requests that read memories for an agent while others write them:   *)
(* kasane_context and kasane_profile, which pack what they read into a     *)
(* budget of characters and account for what that saved, and the relevance *)
(* request, which lets the decision service judge practices.               *)
(*                                                                         *)
(* A read changes nothing but the usage counters, so one at a time, with   *)
(* the accounting statements of earlier ones still under way, shows what   *)
(* any number of them would.  A body is told by its number of characters,  *)
(* and every header has the same number.  The decision service is          *)
(* external: it may answer anything.                                       *)
(***************************************************************************)
EXTENDS MemoryLedger, Integers, SequencesExt

CONSTANTS
  Header,    \* characters of "[id] title, Source: ..." before a body
  Budgets,   \* what character_budget may be
  MaxRefs,   \* practices in one relevance request (64)
  MaxReads,  \* bound: requests that are accounted for
  MaxRev     \* bound: revisions of a memory

ASSUME ReadsAssumption ==
  /\ Bodies \subseteq Nat /\ Blank \notin Nat
  /\ Header \in Nat /\ Budgets \subseteq Nat \ {0}
  /\ MaxRefs \in Nat /\ MaxReads \in Nat /\ MaxRev \in Nat

VARIABLES
  read,   \* the request in progress
  usage,  \* workspace_usage_daily: one row, all workspaces and days alike
  late,   \* accounting statements given up by their request, perhaps still under way
  saving  \* history: characters that the requests counted did not return

readsVars == <<memories, read, usage, late, saving>>
accountVars == <<usage, late, saving>>

NoRead == [pc |-> "idle"]
Text == [id: MemIds, body: Bodies]

\* One practice of a relevance request, with the row Get returned for it: how its
\* id is written and whether it must be included.
Writings == {"lower", "UPPER"}
Rule == [id: MemIds, written: Writings, required: BOOLEAN, row: Row]

\* What the service says of one practice.
Reasons == {"required", "scope_match", "abstained", "model", "keyword"}
Judgement == [id: MemIds, include: BOOLEAN, reason: Reasons]

Read ==
  {NoRead} \cup [pc: {"search"}, ws: Workspaces, found: SUBSET Text]
  \cup [pc: {"found"}, found: SUBSET Text]
  \cup [pc: {"pack"}, found: SUBSET Text, budget: Budgets, characters: Nat,
         ids: SUBSET MemIds, truncated: BOOLEAN]
  \cup [pc: {"rules", "sent"}, ws: Workspaces, rules: Seq(Rule)]
  \cup [pc: {"judged"}, rules: Seq(Rule), judged: Seq([id: MemIds, include: BOOLEAN])]

ReadsTypeOK == LedgerTypeOK /\ read \in Read

ReadsInit ==
  /\ LedgerInit
  /\ read = NoRead
  /\ usage = [retrievals |-> 0, baseline |-> 0, returned |-> 0, saved |-> 0]
  /\ late = <<>>
  /\ saving = 0

-----------------------------------------------------------------------------
(***************************************************************************)
(* kasane_context and kasane_profile.                                      *)
(***************************************************************************)
TextOf(m) == [id |-> m, body |-> memories[m].body]

\* kasane_context begins to search; kasane_profile has its rows in one statement.
AskContext(ws) ==
  /\ read.pc = "idle" /\ usage.retrievals + Len(late) < MaxReads
  /\ \/ read' = [pc |-> "search", ws |-> ws, found |-> {}]
     \/ read' = [pc |-> "found", found |-> {TextOf(m) : m \in Profile(ws)}]
  /\ UNCHANGED accountVars

\* The search reads its hits one by one (Search).
FindNext ==
  /\ read.pc = "search"
  /\ \/ \E m \in MemIds :
          /\ LiveIn(m, read.ws) /\ \A t \in read.found : t.id # m
          /\ read' = [read EXCEPT !.found = @ \cup {TextOf(m)}]
     \/ read' = [pc |-> "found", found |-> read.found]
  /\ UNCHANGED accountVars

BeginPacking(budget) ==
  /\ read.pc = "found"
  /\ read' = [pc |-> "pack", found |-> read.found, budget |-> budget,
              characters |-> 0, ids |-> {}, truncated |-> FALSE]
  /\ UNCHANGED accountVars

Size(t) == Header + t.body + 2
Packing == read.pc = "pack" /\ ~read.truncated /\ \E t \in read.found : t.id \notin read.ids

\* mutant: the header is not counted when the body is cut
PackBody(t) ==
  LET remaining == read.budget - read.characters IN
  /\ Packing /\ t.id \notin read.ids
  /\ read' = IF remaining <= Header THEN [read EXCEPT !.truncated = TRUE]
             ELSE IF t.body + 2 > remaining
             THEN [read EXCEPT !.characters = @ + Header + remaining, !.ids = @ \cup {t.id}, !.truncated = TRUE]
             ELSE [read EXCEPT !.characters = @ + Size(t), !.ids = @ \cup {t.id}]
  /\ UNCHANGED accountVars

\* One turn of PackContext's loop: no room for more than the header, for a part
\* of the body, or for all of it.
PackNext(t) ==
  LET remaining == read.budget - read.characters IN
  /\ Packing /\ t.id \notin read.ids
  /\ read' = IF remaining <= Header THEN [read EXCEPT !.truncated = TRUE]
             ELSE IF t.body + 2 > remaining - Header
             THEN [read EXCEPT !.characters = read.budget, !.ids = @ \cup {t.id}, !.truncated = TRUE]
             ELSE [read EXCEPT !.characters = @ + Size(t), !.ids = @ \cup {t.id}]
  /\ UNCHANGED accountVars

Packed == read.pc = "pack" /\ ~Packing
FullContextCharacters == MapThenSumSet(Size, read.found)

Tokens(characters) == (characters + 3) \div 4

\* mutant: the baseline is rounded down
RecordDown(cost) ==
  LET baseline == cost.full \div 4
      returned == Tokens(cost.returned) IN
  /\ cost.returned <= cost.full
  /\ usage' = [retrievals |-> usage.retrievals + 1,
               baseline   |-> usage.baseline + baseline,
               returned   |-> usage.returned + returned,
               saved      |-> usage.saved + (baseline - returned)]
  /\ saving' = saving + (cost.full - cost.returned)

\* RecordContextUsage: one statement adds to the row of the day.
Record(cost) ==
  LET baseline == Tokens(cost.full)
      returned == Tokens(cost.returned) IN
  /\ cost.returned <= cost.full
  /\ usage' = [retrievals |-> usage.retrievals + 1,
               baseline   |-> usage.baseline + baseline,
               returned   |-> usage.returned + returned,
               saved      |-> usage.saved + (baseline - returned)]
  /\ saving' = saving + (cost.full - cost.returned)

\* The context is answered once it has been accounted for, or that has failed
\* or taken 100 ms.
AnswerContext ==
  LET cost == [full |-> FullContextCharacters, returned |-> read.characters] IN
  /\ Packed
  /\ read' = NoRead
  /\ \/ Record(cost) /\ UNCHANGED late
     \/ late' = Append(late, cost) /\ UNCHANGED <<usage, saving>>
     \/ UNCHANGED accountVars

\* A statement that was given up is carried out all the same, or never.
LateRecord(i) ==
  /\ late' = RemoveAt(late, i)
  /\ Record(late[i]) \/ UNCHANGED <<usage, saving>>
  /\ UNCHANGED read

-----------------------------------------------------------------------------
(***************************************************************************)
(* The relevance request (server/decision.go, decision/client.go).  Its    *)
(* next practice is chosen when the loop comes to it.                      *)
(***************************************************************************)
\* Bound: it neither reads nor writes the counters, so it comes before the first
\* request that does.
NothingAccounted == usage.retrievals = 0 /\ late = <<>>

AskRelevance(ws) ==
  /\ read.pc = "idle" /\ NothingAccounted
  /\ read' = [pc |-> "rules", ws |-> ws, rules |-> <<>>]
  /\ UNCHANGED accountVars

\* Ids are told apart as they are written; Get finds one however it is written.
\* A request that names another revision is refused.
ReadRule(m, written, required) ==
  LET rule == [id |-> m, written |-> written, required |-> required, row |-> memories[m]] IN
  /\ read.pc = "rules" /\ Len(read.rules) < MaxRefs
  /\ \A i \in DOMAIN read.rules : read.rules[i].id # m \/ read.rules[i].written # written
  /\ LiveIn(m, read.ws) /\ memories[m].kind = "practice"
  /\ read' = [read EXCEPT !.rules = Append(@, rule)]
  /\ UNCHANGED accountVars

\* An id that is not valid or already there, no memory, another revision than
\* the one expected, another kind; an invalid request; no answer in 5 s.
RefuseRelevance ==
  /\ read.pc \in {"rules", "sent"}
  /\ read' = NoRead
  /\ UNCHANGED accountVars

DistinctAsWritten(rules) ==   \* mutant: compares the ids of the request
  \A i, j \in DOMAIN rules : i # j => <<rules[i].id, rules[i].written>> # <<rules[j].id, rules[j].written>>
\* The client's own check, of the ids the rows came with.
Distinct(rules) == \A i, j \in DOMAIN rules : i # j => rules[i].id # rules[j].id

Send ==
  /\ read.pc = "rules" /\ read.rules # <<>>
  /\ Distinct(read.rules)
  /\ read' = [read EXCEPT !.pc = "sent"]
  /\ UNCHANGED accountVars

Unordered(mode, judged, rules) ==   \* mutant: a response about the same rules, in any order
  /\ Len(judged) = Len(rules)
  /\ \A i \in DOMAIN rules : \E j \in DOMAIN judged : judged[j].id = rules[i].id

\* Of the responses whose fields are all there and sound (completeResponse;
\* probabilities, versions, coverage) the service may send any.
ValidResponse(mode, judged, rules) ==
  /\ Len(judged) = Len(rules)
  /\ \A i \in DOMAIN judged :
       /\ judged[i].id = rules[i].id
       /\ rules[i].required => judged[i].include /\ judged[i].reason = "required"
       /\ judged[i].reason \in {"required", "scope_match"} => judged[i].include
       /\ judged[i].reason = "abstained" => ~judged[i].include
       /\ mode = "baseline" => judged[i].reason # "model"

\* The answer holds the rules as they were read and the judgements as they came.
Judge(mode, judged) ==
  /\ read.pc = "sent"
  /\ ValidResponse(mode, judged, read.rules)
  /\ read' = [pc |-> "judged", rules |-> read.rules,
              judged |-> [i \in DOMAIN judged |-> [id |-> judged[i].id, include |-> judged[i].include]]]
  /\ UNCHANGED accountVars

AnswerRelevance == read.pc = "judged" /\ read' = NoRead /\ UNCHANGED accountVars

-----------------------------------------------------------------------------
ReadsStep ==
  \/ \E ws \in Workspaces : AskContext(ws) \/ AskRelevance(ws)
  \/ FindNext \/ AnswerContext
  \/ \E budget \in Budgets : BeginPacking(budget)
  \/ read.pc = "pack" /\ \E t \in read.found : PackNext(t)
  \/ \E i \in DOMAIN late : LateRecord(i)
  \/ \E m \in MemIds, written \in Writings, required \in BOOLEAN :
       ReadRule(m, written, required)
  \/ RefuseRelevance \/ Send \/ AnswerRelevance
  \/ \E mode \in {"baseline", "model"}, n \in 0..MaxRefs :
       \E judged \in [1..n -> Judgement] : Judge(mode, judged)

Write == LedgerNext /\ \A m \in MemIds : Exists(m)' => memories'[m].rev <= MaxRev

ReadsNext ==
  \/ ReadsStep /\ UNCHANGED memories
  \/ Write /\ UNCHANGED <<read, usage, late, saving>>

ReadsSpec == ReadsInit /\ [][ReadsNext]_readsVars

-----------------------------------------------------------------------------
\* A packed context never exceeds its budget nor what was found, and is called
\* truncated exactly when something that was found is missing from it.
ContextFits ==
  read.pc = "pack" =>
    /\ read.characters <= read.budget
    /\ Packed => /\ read.characters <= FullContextCharacters
                 /\ read.truncated <=> read.characters < FullContextCharacters

\* What the counters say was saved is what was saved, to three characters per
\* request and never negative, whichever statements were late, lost or refused.
SavingsAreTrue ==
  /\ usage.saved = usage.baseline - usage.returned /\ usage.saved >= 0
  /\ 4 * usage.saved - saving \in -(3 * usage.retrievals)..(3 * usage.retrievals)

\* An answer judges every rule of the request once, in the order of the rules
\* it is returned with, and includes the required ones, whatever the service
\* sends and however the ids were written.
EachRuleJudgedOnce ==
  read.pc = "judged" =>
    /\ Len(read.judged) = Len(read.rules)
    /\ \A i \in DOMAIN read.rules :
         /\ read.judged[i].id = read.rules[i].id
         /\ read.rules[i].required => read.judged[i].include
    /\ \A i, j \in DOMAIN read.rules : i # j => read.judged[i].id # read.judged[j].id

\* What was judged is what a reader now sees under the same id and revision:
\* the text sent to the service cannot have changed, or moved, silently.
JudgedIsNamedByRevision ==
  read.pc \in {"rules", "sent", "judged"} =>
    \A i \in DOMAIN read.rules :
      LET rule == read.rules[i] IN
      memories[rule.id].rev = rule.row.rev => memories[rule.id] = rule.row
=============================================================================
