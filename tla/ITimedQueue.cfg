\* Clients with entries due now or later, stops and restarts, a thread that may fail to start.
SPECIFICATION FairSpec
CONSTANTS
  Clients = {c1}
  Entries = {e1, e2}
  NoEntry = NoEntry
  BufferSize = 2
  MaxTime = 2
  MaxStarts = 2
CHECK_DEADLOCK FALSE
INVARIANTS LeavesOnce
PROPERTIES Processed StopReturns
