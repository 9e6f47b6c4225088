\* One exec() caller and another child, a callback, merged signals, expired statuses, reused ids and a stop.
SPECIFICATION FairSpec
CONSTANTS
  Callers = {t1}
  Pids = {p1, p2}
  NoPid = NoPid
  Callbacks = {b1}
  Throwing = {}
  Statuses = {"exit0", "exit1"}
  MaxChildren = 2
CHECK_DEADLOCK FALSE
INVARIANTS ExecGetsStatus
PROPERTIES ToldExactly EndIsNoticed
