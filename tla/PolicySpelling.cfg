CONSTANTS
  Ids = {e1}
  Prints = {f1}
  Decisions = {d1}
  Reviews = {r1}
  MaxActive = 1
  Clients = {c1, c2}
  Spellings = {lower, upper}
  Canonical = lower
  NoRow = NoRow
  None = None
  NoTx = NoTx
SPECIFICATION EvaluationsSpec
INVARIANTS
  CandidatesNeedConsent
CHECK_DEADLOCK FALSE
