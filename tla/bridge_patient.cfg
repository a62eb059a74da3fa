SPECIFICATION PatientSpec
CONSTANTS
  Calls = {c1, c2}
  Tabs = {t1}
  Sends = {c1}
  Hooked = {c1}
  Cancellable = {c1}
  NoCall = NoCall
PROPERTY
  EveryRequestReturns
CHECK_DEADLOCK FALSE
