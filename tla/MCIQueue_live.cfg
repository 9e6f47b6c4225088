\* Progress without any timeout.
SPECIFICATION FairSpec
CONSTANTS
  Producers = {p1, p2}
  Workers = {w1, w2}
  Entries = {e1, e2}
  NoEntry = NoEntry
  NoThread = NoThread
  BufferSize = 1
  InitialThreads = 2
  QueueCount = 1
  StartModes = {TRUE}
  EnqueueModes = {FALSE}
  Overlap = {TRUE}
  ThreadsMayFail = FALSE
  OtherExceptions = FALSE
  TimeoutsFire = FALSE
  MaxStarts = 2
CHECK_DEADLOCK FALSE
PROPERTIES NothingWaits
