CONSTANTS
  p1 = p1
  p2 = p2
  Calls = {c1, c2}
  Permits = {p1, p2}
  Texts = {"t1", "t2"}
  Kinds <- MCKinds
  Requests <- MCRequests
  PermitStatuses = {"approved", "closed"}
  MaxCalls = 3
  MaxEdits = 2
  MaxMoves = 4
  MaxClock = 1
SYMMETRY Symmetry
SPECIFICATION Spec
INVARIANTS TypeOK WorkedUnderApproval SignedOff
PROPERTIES LaterChangeStands
CHECK_DEADLOCK FALSE
