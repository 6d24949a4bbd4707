SPECIFICATION Spec
CONSTANTS
  r1 = r1  r2 = r2
  Signals = {2, 3, 15}
  Reqs = {r1, r2}
INVARIANTS TypeOK ReadsSignal
PROPERTIES RequestsServed SignalEnds
CHECK_DEADLOCK FALSE
