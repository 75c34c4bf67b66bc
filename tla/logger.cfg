SPECIFICATION Spec
CONSTANTS
  Producers = {p1, p2, p3}
  Nodes = {n0, n1, n2, n3, n4}
  Stub = n0
  Null = null
INVARIANTS NoUseAfterFree
PROPERTIES ImplementsQueue LeavesEmpty LinesWritten
\* The log's thread leaves its loop.
CHECK_DEADLOCK FALSE
