\* Two calls of the server and one callback; two processes at a time, each
\* with one thread for calls.  The system may stop when every call is over.
SPECIFICATION FairSpec
CONSTANTS
  Callers = {a, b}
  Nested = {n}
  Processes = {p1, p2}
  PoolThreads = 1
  MaxDepth = 1
INVARIANTS
  RegisteredWhileParked
  NoStaleIndex
  ProcessesKeptApart
PROPERTIES
  EverythingEnds
CHECK_DEADLOCK FALSE
