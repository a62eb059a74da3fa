SPECIFICATION MCSpec
CONSTANTS
  Gets = {g1}
  Mutations = {m1}
  Logins = {l1}
  Logouts = {o1}
  AutoRelogin = TRUE
  NoSession = NoSession
  Nobody = Nobody
VIEW LiveState
CHECK_DEADLOCK FALSE
INVARIANTS
  TypeOK
  CarriedOutOnce
  OneLoginPerBurst
PROPERTIES
  RejectionsHandled
  CallsReturn
