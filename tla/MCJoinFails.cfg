CONSTANTS
  a = a
  b = b
  c = c
  p = p
  q = q
  IPs = {a, b, c}
  Ports = {p}
  Channels = {1}
  ServerId = 7
  OtherServerId = 8
  InitialUsers <- OneMember
  UserIdModulus = 65536
  MaxUsers = 3
  MaxMessages = 1
  MaxChannels = 1
  NoAddr = NoAddr
SPECIFICATION Spec
PROPERTY FailedJoinInsertsNothing
