\* Three users of a device that is never lost, lost between calls, lost at any time, or fails in every way.
SPECIFICATION FairSpec
CONSTANTS
  MaxHandles = 3
  MaxCalls = 6
  Worlds = {"calm", "apart", "lost", "rough"}
CHECK_DEADLOCK FALSE
INVARIANTS Quiet HandlesMatch
PROPERTIES Reconnects CalmCloseReturns
