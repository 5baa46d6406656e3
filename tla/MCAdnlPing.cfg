SPECIFICATION FairSpec
CONSTANTS
  CommandLines <- MCCommandLines
  LocalTags <- MCLocalTags
PROPERTY PingEnds
CHECK_DEADLOCK FALSE
