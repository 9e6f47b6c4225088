\* Calls that wait and calls that drop, stops beside the former, threads that fail to start, foreign exceptions and timeouts.
SPECIFICATION Spec
CONSTANTS
  Producers = {p1, p2, p3}
  Workers = {w1, w2}
  Entries = {e1, e2, e3}
  NoEntry = NoEntry
  NoThread = NoThread
  BufferSize = 2
  InitialThreads = 2
  QueueCount = 1
  StartModes = {TRUE, FALSE}
  EnqueueModes = {TRUE, FALSE}
  Overlap = {TRUE}
  ThreadsMayFail = TRUE
  OtherExceptions = TRUE
  TimeoutsFire = TRUE
  MaxStarts = 2
SYMMETRY Symmetry
CHECK_DEADLOCK FALSE
INVARIANTS TypeOK  WorkerWakeup ProducerWakeup StopIsPrompt
PROPERTIES ImplementsFifo
