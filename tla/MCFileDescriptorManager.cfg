\* Files opened, added and closed in every way by three threads, two numbers.
SPECIFICATION Spec
CONSTANTS
  Threads = {t1, t2, t3}
  Fds = {n1, n2}
  NoFd = NoFd
  MaxFiles = 4
SYMMETRY Symmetry
CHECK_DEADLOCK FALSE
INVARIANTS NoOtherClosed NumbersMatch NoLeak
