\* Two ids, one of them on two channels; the process ends at any moment.
SPECIFICATION Spec
CONSTANTS
  Keys <- SomeKeys
  IdSum <- SomeSums
  MaxValue = 2
  MaxCalls = 4
  MaxEnds = 1
CHECK_DEADLOCK FALSE
INVARIANTS SurvivesRestart NothingReturns FlagsAgree
PROPERTIES RetriesFirst
