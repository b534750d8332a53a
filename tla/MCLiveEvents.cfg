CONSTANTS
  Messages = {1, 2}
  ListLimit = 1
  QueueSize = 1
  MaxChanges = 2
  MaxUpsets = 1
  MaxRefreshes = 2
SPECIFICATION FairSpec
INVARIANTS
  NothingLost
  NoOlderSnapshot
  NoWall
PROPERTIES
  ActivityConverges
  ListConverges
  AnnouncedOrRead
CHECK_DEADLOCK FALSE
