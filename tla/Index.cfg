CONSTANTS
  Workspaces = {1}
  MemIds = {m1, m2}
  Bodies = {b1, b2}
  Keys = {}
  ProfileKinds = {}
  MaxProfile = 1
  NoRow = NoRow
  NoKey = NoKey
  Blank = Blank
  Clients = {c1}
  Workers = {w1, w2}
  Calls = {"remember", "forget", "reindex"}
  MaxRev = 2
  NoId = NoId
  NoTx = NoTx
  Rejected = {}
  MaxLate = 0
  NoPoint = NoPoint
SPECIFICATION SearchSpec
SYMMETRY Symmetric
INVARIANTS
  CallbackSeesCurrentRow
  PendingIsQueued
  StalePointIsQueued
  IndexedIsFindable
  SettledSearchIsComplete
CHECK_DEADLOCK FALSE
