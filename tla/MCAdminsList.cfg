CONSTANTS
  n1 = n1
  n2 = n2
  Servers = {1, 2}
  Names = {n1, n2}
  Windows = {"w1"}
  InitialUsers <- ThreeUsers
  MaxUpdates = 0
  MaxRequests = 1
SPECIFICATION Spec
PROPERTY AdminsAreAdmins
CHECK_DEADLOCK FALSE
