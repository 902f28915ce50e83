CONSTANTS
  Workspaces = {1, 2}
  MemIds = {m1, m2}
  Bodies = {b1}
  Keys = {k1}
  ProfileKinds = {"stack"}
  MaxProfile = 1
  NoRow = NoRow
  NoKey = NoKey
  Blank = Blank
  Clients = {c1, c2}
  Workers = {}
  Calls = {"remember", "move", "forget"}
  MaxRev = 2
  NoId = NoId
  NoTx = NoTx
SPECIFICATION StoreSpec
SYMMETRY Symmetric
INVARIANTS
  KeyStaysFree
  KeysUnique
  ProfileCapped
PROPERTIES
  LedgerSpec
  RevisionsIdentify
CHECK_DEADLOCK FALSE
