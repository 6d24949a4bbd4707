SPECIFICATION Spec
CONSTANTS
  i = i  k = k  a = a  b = b  c = c  d = d
  NoTask = NoTask  NoCpu = NoCpu
  Tasks = {i, k, a, b, c, d}
  InitTask = i
  KThreads = {k}
  Callers = {a}
  Spawnable = {c}
  Creator <- LoginCreator
  Group <- LoginGroup
  Session <- OwnSessions
  CPUs = {0}
  Modes = {0, 1, 2}
  Failing = {"kmalloc", "cpumask", "setattr"}
  MaxSaved = 1
  MaxLost = 1
INVARIANT ScanCovers
PROPERTY ReturnsClean
CHECK_DEADLOCK FALSE
