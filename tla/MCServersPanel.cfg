CONSTANTS
  Servers <- TwoServers
  MaxJoined = 2
  MaxTimeouts = 1
SPECIFICATION FairSpec
INVARIANTS RowsMatchList JoinedAreListed OnlineIsMember OnlyRefreshLeaks
PROPERTY StoppedIsShown
