CONSTANTS
  p1 = p1
  p2 = p2
  Calls = {c1, c2}
  Permits = {p1, p2}
  Texts = {"t1", "t2"}
  Kinds <- MCKinds
  Requests <- ApprovalRequests
  PermitStatuses = {"approved", "closed"}
  MaxCalls = 4
  MaxEdits = 1
  MaxMoves = 4
  MaxClock = 0
SYMMETRY Symmetry
SPECIFICATION Spec
PROPERTIES ApprovalStands
CHECK_DEADLOCK FALSE
