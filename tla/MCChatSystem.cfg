CONSTANTS
  a = a
  p = p
  q = q
  IPs = {a}
  Ports = {p, q}
  Channels = {1, 2}
  ServerId = 7
  OtherServerId = 8
  InitialUsers <- OneClient
  UserIdModulus = 65536
  MaxUsers = 2
  MaxMessages = 2
  MaxChannels = 0
  NoAddr = NoAddr
  Client = a
  NoPanel = NoPanel
SPECIFICATION SystemSpec
INVARIANTS UpdateShownOnce DuplicatesWerePending ForeignOnlyAfterRace
