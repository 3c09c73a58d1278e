CONSTANTS
  Main = main
  NoTask = NoTask
  Pool = {p1, p2, p3}
  Tasks = {t1, c}
  Coroutines = {c}
  MaxThreads = 2
  MaxAllocs = 2
  Calls = {"schedule", "setTimeout", "clearTimeout", "yield", "pause"}
SPECIFICATION Spec
SYMMETRY Symmetry
PROPERTY ImplementsTaskPool
CHECK_DEADLOCK FALSE
