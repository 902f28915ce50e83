CONSTANTS
  Procs = {p1, p2}
  Accounts = {u1, u2}
  NoProc = NoProc
SPECIFICATION FairProcessesSpec
INVARIANTS
  InvitedStayUsers
  ServesCompleteSchema
PROPERTIES
  ProcessStops
CHECK_DEADLOCK FALSE
