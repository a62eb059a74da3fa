SPECIFICATION Spec
CONSTANTS
  Gets = {g1}
  Mutations = {}
  Logins = {}
  Logouts = {o1}
  AutoRelogin = TRUE
  NoSession = NoSession
  Nobody = Nobody
CHECK_DEADLOCK FALSE
INVARIANTS LogoutSticks
