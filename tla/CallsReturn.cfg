CONSTANTS
  Workspaces = {1, 2}
  MemIds = {m1}
  Bodies = {b1}
  Keys = {}
  ProfileKinds = {}
  MaxProfile = 1
  NoRow = NoRow
  NoKey = NoKey
  Blank = Blank
  Clients = {c1, c2}
  Workers = {w1}
  Calls = {"remember", "move", "forget", "reindex"}
  MaxRev = 3
  NoId = NoId
  NoTx = NoTx
SPECIFICATION FairStoreSpec
INVARIANTS
  WriteReplacesWhatItSaw
  OnlyReindexesDeadlock
PROPERTIES
  CallsReturn
CHECK_DEADLOCK FALSE
