SPECIFICATION Spec
CONSTANTS
  Calls = {c1, c2}
  Ids = {1, 2, 3}
  Wallet = Wallet
  Stranger = Stranger
  NoOne = NoOne
  Chains <- MCChains
  Wants <- MCWants
  Floors <- MCFloors
  Shares = {1}
  Prices <- MCPrices
  MaxMoves = 1
SYMMETRY CallsAlike
CHECK_DEADLOCK FALSE
INVARIANTS
  TypeOK
  DoesAsAsked
  PreparedIsAccepted
  ListIsExact
