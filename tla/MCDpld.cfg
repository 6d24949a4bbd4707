SPECIFICATION Spec
CONSTANTS
  p = p  q = q  r = r  x = x  y = y  z = z
  NoProc = NoProc  Dead = Dead  Vmlinux = Vmlinux  NotFound = NotFound  Freed = Freed
  Procs = {p, q, r}
  Modules = {x, y, z}
  Name <- MCName
  Binary <- MCBinary
  Exports <- MCExports
  KernelNames = {"v"}
  Wanted <- MCWanted
  Callbacks = {p, r}
  MaxFaults = 1
INVARIANTS TypeOK Ready OwnTable Backed
PROPERTY Settles
CHECK_DEADLOCK FALSE
