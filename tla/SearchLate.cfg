CONSTANTS
  Workspaces = {1, 2}
  MemIds = {m1}
  Bodies = {b1, b2}
  Keys = {}
  ProfileKinds = {}
  MaxProfile = 1
  NoRow = NoRow
  NoKey = NoKey
  Blank = Blank
  Clients = {c1}
  Workers = {w1}
  Calls = {"remember", "move", "forget"}
  MaxRev = 3
  NoId = NoId
  NoTx = NoTx
  Rejected = {}
  MaxLate = 1
  NoPoint = NoPoint
SPECIFICATION MapSpec
SYMMETRY Symmetric
INVARIANTS
  FindingsMatch
  PointsTellTheTruth
  MapDrawsWhatItLists
CHECK_DEADLOCK FALSE
