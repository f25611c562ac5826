CONSTANTS
  Channels = {1, 2}
  MaxMessages = 3
SPECIFICATION FairSpec
INVARIANTS TypeOK NothingAfterDelete DrawnWhenQuiet HistoryIsShown PanelInv
PROPERTY RowsAreDrawn
CHECK_DEADLOCK FALSE
