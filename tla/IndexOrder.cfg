CONSTANTS
  Workspaces = {1}
  MemIds = {m1, m2}
  Bodies = {b1}
  Keys = {}
  ProfileKinds = {}
  MaxProfile = 1
  NoRow = NoRow
  NoKey = NoKey
  Blank = Blank
  Clients = {c1}
  Workers = {w1}
  Calls = {"remember", "forget", "reindex"}
  MaxRev = 2
  NoId = NoId
  NoTx = NoTx
  Rejected = {m2}
  MaxLate = 0
  NoPoint = NoPoint
SPECIFICATION FairOrderSpec
PROPERTIES
  QueueDrains
CHECK_DEADLOCK FALSE
