SPECIFICATION Spec
CONSTANTS
  NameLen <- MCNameLen
  Dirs = {"A", "B", "libk"}
  Cwd = "A"
  Paths = {"B", "libk", "gone"}
  Tree <- MCTree
  Objects <- MCObjects
  Specs <- MCSpecs
  Lines <- MCLines
  DirMax = 1
  SymMax = 1
  MaxArgs = 4
  MaxLines = 3
  MaxFaults = 1
INVARIANTS TypeOK Owned KotblRight LibsRight Inside
CHECK_DEADLOCK FALSE
