\* Timeouts, cleared at any moment, and immediate tasks.
CONSTANTS
  Main = main
  NoTask = NoTask
  Pool = {p1, p2, p3}
  Tasks = {t1, t2}
  Coroutines = {}
  MaxThreads = 1
  MaxAllocs = 3
  Calls = {"schedule", "setTimeout", "clearTimeout"}
SPECIFICATION Spec
SYMMETRY Symmetry
INVARIANTS Accounting Exclusive NoDangling RunOnce CancelledNeverRuns ExitClean NoneOutlives
CHECK_DEADLOCK FALSE
