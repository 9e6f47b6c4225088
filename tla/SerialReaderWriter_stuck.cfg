\* A single user closes a device that was lost.
SPECIFICATION FairSpec
CONSTANTS
  MaxHandles = 1
  MaxCalls = 1
  Worlds = {"lost"}
CHECK_DEADLOCK FALSE
PROPERTIES CloseReturns
