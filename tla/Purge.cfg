CONSTANTS
  Ids = {e1, e2}
  Prints = {f1}
  Decisions = {d1}
  Reviews = {r1}
  MaxActive = 2
  Clients = {c1, c2}
  Spellings = {lower}
  Canonical = lower
  NoRow = NoRow
  None = None
  NoTx = NoTx
SPECIFICATION FairEvaluationsSpec
PROPERTIES
  ExpiredIsPurged
CHECK_DEADLOCK FALSE
