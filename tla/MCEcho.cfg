SPECIFICATION FairSpec
CONSTANTS
  c1 = c1  c2 = c2  Listener = Listener  NoFd = NoFd
  Clients = {c1, c2}
  P = 7
  Txns <- MCTxns
  Buf = 2
  Cap = 3
  Cut = "none"
  KCUT_THRESHOLD = 0
  MaxErrors = 1
  Killable = {c2}
INVARIANTS TypeOK Conserved FailsOnlyWithServer
PROPERTIES Serves ClientsEnd ConnectionsClosed
CHECK_DEADLOCK FALSE
