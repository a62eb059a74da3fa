SPECIFICATION Spec
CONSTANTS
  Calls = {c1, c2}
  Tabs = {t1, t2}
  Sends = {c1, c2}
  Hooked = {c1, c2}
  Cancellable = {c1, c2}
  NoCall = NoCall
CHECK_DEADLOCK FALSE
SYMMETRY AllSymmetry
VIEW LiveState
INVARIANTS
  IInv
  HonestOutcome
  ClosedForgets
PROPERTIES
  KeepsPromise
  ShownOnce
