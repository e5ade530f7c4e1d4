\* processPool with three children and three tasks of two kinds, two servers of
\* the shared memory (the third message is the first of two digits), three
\* threads of the condition variable demo; four arrays of four cells through a
\* pipe of eight, read seven at a time, and words of up to three characters
\* through a named pipe, read two at a time.  The shell's lines are in MCDemos.
CONSTANTS
  N = 3
  TaskCount = 3
  TaskSize = 2
  Lines <- SessionLines
  Dirs = {"home", "d"}
  HomeDir = "home"
  Programs = {"p"}
  Statuses = {0, 768, 139}
  MaxLines = 3
  s1 = s1  s2 = s2
  Servers = {s1, s2}
  Count = 3
  Number <- Numbers
  Rounds = 3
  t1 = t1  t2 = t2  t3 = t3
  Routines = {t1, t2, t3}
  Stock = 2
  MaxSignals = 4
  MaxSpurious = 1
  Width = 4
  Arrays = 2
  MaxRead = 2
  Capacity = 8
  MaxLen = 3
  MaxCells <- CellBounds
  MaxFiles = 2
SPECIFICATION DemosSpec
INVARIANTS PoolSafe ShellSafe PipesSafe MemorySafe CondSafe
PROPERTY ProgramsSettle
\* The programs end.
CHECK_DEADLOCK FALSE
