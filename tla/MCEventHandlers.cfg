\* A guarded and an unguarded emitter that copy handlers, two dispatching threads, removals by threads and by callbacks.
SPECIFICATION Spec
CONSTANTS
  o1 = o1
  o2 = o2
  s1 = s1
  s2 = s2
  e1 = e1
  e2 = e2
  d1 = d1
  d2 = d2
  Emitters = {e1, e2}
  Sinks = {s1, s2}
  Owners = {o1, o2}
  SinkOf <- OwnSinks
  Dispatchers = {d1, d2}
  NoSink = NoSink
  NoThread = NoThread
  MaxHandlers = 2
  MaxEvents = 3
  MaxCopies = 1
  Guarded = {e1}
SYMMETRY Threads
CHECK_DEADLOCK FALSE
INVARIANTS  CallsMatch
