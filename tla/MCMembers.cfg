CONSTANTS
  a = a
  b = b
  c = c
  p = p
  q = q
  IPs = {a, b, c}
  Ports = {p}
  Channels = {2}
  ServerId = 7
  OtherServerId = 8
  InitialUsers <- OneMember
  UserIdModulus = 3
  MaxUsers = 3
  MaxMessages = 2
  MaxChannels = 1
  NoAddr = NoAddr
SPECIFICATION FairSpec
INVARIANTS MembersLoaded SenderAttribution
PROPERTIES StopReturns QueueDrains HandlersReturn
