CONSTANTS
  a = a
  b = b
  c = c
  p = p
  q = q
  IPs = {a, b}
  Ports = {p}
  Channels = {1, 2}
  ServerId = 7
  OtherServerId = 8
  InitialUsers <- TwoMembers
  UserIdModulus = 65536
  MaxUsers = 2
  MaxMessages = 2
  MaxChannels = 0
  NoAddr = NoAddr
SPECIFICATION Spec
INVARIANTS TypeOK FeedPersisted FeedInOrder IdleIsWhole Inductive
PROPERTY UpdatesOnlyOnline
