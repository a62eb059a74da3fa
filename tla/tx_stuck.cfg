SPECIFICATION Spec
CONSTANTS
  s1 = s1
  s2 = s2
  Sends = {s1, s2}
  Clears = {}
  Other = Other
  Free = Free
  Nobody = Nobody
  Unset = Unset
  MaxNonce = 1
  MaxLag = 1
  MaxTries = 2
  MaxLooks = 2
CHECK_DEADLOCK FALSE
PROPERTIES
  StuckIsRaised
