SPECIFICATION Spec
CONSTANTS
  Gets = {g1}
  Mutations = {}
  Logins = {l1}
  Logouts = {}
  AutoRelogin = TRUE
  NoSession = NoSession
  Nobody = Nobody
CHECK_DEADLOCK FALSE
PROPERTIES RejectedIsResent
