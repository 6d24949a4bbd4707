SPECIFICATION Spec
CONSTANTS
  i = i  k = k  a = a  b = b  c = c  d = d
  NoTask = NoTask  NoCpu = NoCpu
  Tasks = {i, a, b, c}
  InitTask = i
  KThreads = {}
  Callers = {a, b}
  Spawnable = {c}
  Creator <- OwnersCreator
  Group <- Alone
  Session <- OneSession
  CPUs = {0, 1}
  Modes = {1}
  Failing = {"kmalloc", "cpumask", "setattr"}
  MaxSaved = 2
  MaxLost = 1
INVARIANTS TypeOK Serialized OriginalKept ScanCovers
PROPERTY ReturnsClean
CHECK_DEADLOCK FALSE
