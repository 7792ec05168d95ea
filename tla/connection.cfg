SPECIFICATION FairSpec
CONSTANTS
  ChannelId = {1, 2}
  MaxRequests = 5
CHECK_DEADLOCK FALSE
INVARIANTS OwnReply InSync
PROPERTY StatementEnds
