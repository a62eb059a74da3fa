SPECIFICATION MCSpec
CONSTANTS
  s1 = s1
  s2 = s2
  Sends = {s1, s2}
  Clears = {k1}
  Other = Other
  Free = Free
  Nobody = Nobody
  Unset = Unset
  MaxNonce = 1
  MaxLag = 1
  MaxTries = 2
  MaxLooks = 2
VIEW LiveState
CHECK_DEADLOCK FALSE
INVARIANTS
  TypeOK
  AtMostOnce
  TruthfulOutcome
  NoncesInOrder
  ClearedMeansMined
PROPERTIES
  SendsReturn
