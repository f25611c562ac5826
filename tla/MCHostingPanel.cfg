CONSTANTS
  Ids = {7, 513, 65535}
  PublicIp <- Address203
  MaxServers = 4
SPECIFICATION Spec
INVARIANTS TypeOK RowsAreCurrent InvitationsLead ThreadsHaveHandles PacketsFindTheirServer
