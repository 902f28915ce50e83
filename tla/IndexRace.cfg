CONSTANTS
  Workspaces = {1}
  MemIds = {m1}
  Bodies = {b1}
  Keys = {}
  ProfileKinds = {}
  MaxProfile = 1
  NoRow = NoRow
  NoKey = NoKey
  Blank = Blank
  Clients = {c1}
  Workers = {w1}
  Calls = {"remember"}
  MaxRev = 2
  NoId = NoId
  NoTx = NoTx
  Rejected = {}
  MaxLate = 1
  NoPoint = NoPoint
SPECIFICATION IndexerSpec
INVARIANTS
  StalePointIsQueued
CHECK_DEADLOCK FALSE
