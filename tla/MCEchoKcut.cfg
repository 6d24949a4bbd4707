SPECIFICATION Spec
CONSTANTS
  c1 = c1  c2 = c2  Listener = Listener  NoFd = NoFd
  Clients = {c1}
  P = 3
  Txns <- MCTxns
  Buf = 1
  Cap = 1
  Cut = "counted"
  KCUT_THRESHOLD = 2
  MaxErrors = 0
  Killable = {}
INVARIANT Conserved
CHECK_DEADLOCK FALSE
