\* Main and another caller, three workers, four tasks, the last one bad.
CONSTANTS
  main = main  c1 = c1
  w1 = w1  w2 = w2  w3 = w3
  Callers = {main, c1}
  Main = main
  Workers = {w1, w2, w3}
  MaxTasks = 4
  Bad = {4}
  NoThread = NoThread
SPECIFICATION FairSpec
INVARIANTS OnePool EachTaskOnce NoLostWakeup
PROPERTIES IsChannel EverythingRuns
\* The process may be aborted.
CHECK_DEADLOCK FALSE
