SPECIFICATION FairSpec
CONSTANTS
  t1 = t1
  t2 = t2
  None = None
  Threads = {t1, t2}
  MaxLogs = 2
  MaxTime = 1
  Header = 1
  EntrySize = 2
  MaxLen = 2
INVARIANT TypeOK
INVARIANT FlushedAtExit
PROPERTY ChannelSpec
PROPERTY OnlyRotationDisturbs
PROPERTY AwakeDrains
CHECK_DEADLOCK FALSE
