SPECIFICATION Spec
CONSTANTS
  m1 = m1  m2 = m2  u1 = u1  u2 = u2  c1 = c1  c2 = c2
  p1 = p1  p2 = p2  p3 = p3
  BootIdt = BootIdt  NoPage = NoPage
  Mods = {m1, m2}
  Callers = {u1, u2}
  Mod <- OwnModule
  CPUs = {c1, c2}
  Pages = {p1, p2, p3}
  Vecs = {8, 14, 32}
  PfVecs = {8, 14}
  EfVecs = {14, 32}
  IstVecs = {8}
  ErrVecs = {8, 14}
  DF = 8
  PF = 14
  Serial = TRUE
  Failing = {"stack", "page"}
  MaxCalls = 5
INVARIANTS TypeOK IdtrLive IstBacked ChainEnds Settled
PROPERTY AdaptorsStay
CHECK_DEADLOCK FALSE
