CONSTANTS
  Main = main
  NoTask = NoTask
  Pool = {p1, p2, p3}
  Tasks = {t1, t2}
  Coroutines = {}
  MaxThreads = 2
  MaxAllocs = 2
  Calls = {"setTimeout"}
SPECIFICATION FairSpec
PROPERTY GracefulExit
CHECK_DEADLOCK FALSE
