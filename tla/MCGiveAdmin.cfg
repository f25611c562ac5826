CONSTANTS
  n1 = n1
  n2 = n2
  Servers = {1, 2}
  Names = {n1, n2}
  Windows = {"w1"}
  InitialUsers <- ThreeUsers
  MaxUpdates = 1
  MaxRequests = 0
SPECIFICATION Spec
PROPERTY OneUserChanges
CHECK_DEADLOCK FALSE
