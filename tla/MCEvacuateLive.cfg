SPECIFICATION FairSpec
CONSTANTS
  i = i  k = k  a = a  b = b  c = c  d = d
  NoTask = NoTask  NoCpu = NoCpu
  Tasks = {i, a, b}
  InitTask = i
  KThreads = {}
  Callers = {a, b}
  Spawnable = {}
  Creator <- OwnersCreator
  Group <- Alone
  Session <- OneSession
  CPUs = {0, 1}
  Modes = {1}
  Failing = {"cpumask", "setattr"}
  MaxSaved = 2
  MaxLost = 1
PROPERTIES CallsReturn ReleaseRestores
CHECK_DEADLOCK FALSE
