CONSTANTS
  Workspaces = {1, 2}
  MemIds = {m1, m2}
  Bodies = {1, 4}
  Keys = {}
  ProfileKinds = {"practice"}
  MaxProfile = 2
  NoRow = NoRow
  NoKey = NoKey
  Blank = Blank
  Header = 3
  Budgets = {3, 8, 11, 15}
  MaxRefs = 2
  MaxReads = 2
  MaxRev = 2
SPECIFICATION ReadsSpec
SYMMETRY Symmetric
INVARIANTS
  ContextFits
  SavingsAreTrue
  EachRuleJudgedOnce
  JudgedIsNamedByRevision
CHECK_DEADLOCK FALSE
