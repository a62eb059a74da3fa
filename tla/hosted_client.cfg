SPECIFICATION MCSpec
CONSTANTS
  c1 = c1
  c2 = c2
  A = A
  B = B
  None = None
  Callers = {c1, c2}
  Tabs = {w1, w2}
  Accounts = {a1, a2}
  MaxRequests = 3
  Symbols = {A, B}
  ListLength = 2
  Ttl = 1
  MaxClock = 1
  MaxRenames = 1
  Scenarios <- MCScenarios
  Chains = {"expected", "local", "other"}
  IsDev = TRUE
  MayHalt = TRUE
SYMMETRY HostedSymmetry
INVARIANTS
  ClientIInv
  AnswerIsOwn
  DeadlineIsClean
  CraftHasNoEffect
  ListsAreExact
  HaltHolds
  WrongChainIsRefused
  LookUpsAreTrue
