CONSTANTS
  Ids = {e1, e2}
  Prints = {f1, f2}
  Decisions = {d1, d2}
  Reviews = {r1, r2}
  MaxActive = 1
  Clients = {c1, c2}
  Spellings = {lower}
  Canonical = lower
  NoRow = NoRow
  None = None
  NoTx = NoTx
SPECIFICATION EvaluationsSpec
SYMMETRY Symmetric
INVARIANTS
  ActiveCapped
  CandidatesNeedConsent
  OneDecisionPerEvaluation
  ExportIsCurrent
PROPERTIES
  WithdrawalIsFinal
  EvaluationsAreAtomic
CHECK_DEADLOCK FALSE
