\* Two callers with two calls, and a break, an event or a restart.
SPECIFICATION FairSpec
CONSTANTS
  Callers = {t1, t2}
  NoOne = NoOne
  Nothing = Nothing
  QueueSize = 1
  MaxCalls = 2
  MaxOthers = 2
CHECK_DEADLOCK FALSE
 
PROPERTIES CallsAndStopsReturn
