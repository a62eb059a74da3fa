SPECIFICATION Spec
CONSTANTS
  Calls = {c1}
  Tabs = {t1}
  Sends = {c1}
  Hooked = {c1}
  Cancellable = {}
  NoCall = NoCall
INVARIANT
  AnswersAccepted
CHECK_DEADLOCK FALSE
