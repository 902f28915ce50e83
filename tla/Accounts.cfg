CONSTANTS
  Names = {n1, n2, n3}
  Emails = {x1}
  InviteIds = {i1, i2}
  Workspaces = {w1, w2, w3}
  Legacy = {w1}
  Clients = {c1, c2}
  KeyIds = {k1}
  Agents = {a1}
  NoRow = NoRow
  NoEmail = NoEmail
  Nobody = Nobody
  NoTx = NoTx
SPECIFICATION BoundedSpec
SYMMETRY Symmetric
INVARIANTS
  KeysTypeOK
  AcceptanceIsAtomic
  OneAdministrator
  EveryWorkspaceIsOwned
  KeysStayWithTheirOwner
  GrantsStayWithTheOwner
  KeysReachWhatTheyMake
PROPERTIES
  RevokedIsNeverSpent
CHECK_DEADLOCK FALSE
