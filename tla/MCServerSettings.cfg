CONSTANTS
  n1 = n1
  n2 = n2
  Servers = {1}
  Names = {n1, n2}
  Windows = {"w1"}
  InitialUsers <- OneServer
  MaxUpdates = 1
  MaxRequests = 1
SPECIFICATION Spec
INVARIANTS TypeOK ExactWhenAlone
CHECK_DEADLOCK FALSE
