SPECIFICATION Spec
CONSTANTS
  i = i  k = k  a = a  b = b  c = c  d = d
  NoTask = NoTask  NoCpu = NoCpu
  Tasks = {i, a, b, c}
  InitTask = i
  KThreads = {}
  Callers = {a, b}
  Spawnable = {c}
  Creator <- OwnersCreator
  Group <- Alone
  Session <- OneSession
  CPUs = {0, 1}
  Modes = {1}
  Failing = {}
  MaxSaved = 2
  MaxLost = 1
INVARIANT OwnerListed
CHECK_DEADLOCK FALSE
