SPECIFICATION Spec
CONSTANTS
  Callers = {p1, p2, p3}
  ThreadCounts = {1, 2, 3}
CHECK_DEADLOCK FALSE
INVARIANTS ReactsOnce PendingProtected
