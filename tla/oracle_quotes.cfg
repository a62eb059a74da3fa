SPECIFICATION Spec
CONSTANTS
  Wad = 100
  Scale = 2
  Sensitivity = 1
  BaseFee = 2
  Bps = 2
  Start <- MCStart
  SharePrices = {50, 100}
  Multipliers <- MCMultipliers
  Mints = {1, 2}
  Budgets = {1, 3}
  Buys = {2}
  Sells = {2, 3}
  Slippages = {0, 1}
  Trades <- MCTrades
  MaxReserve = 6
  MaxMoves = 2
  MaxSupply = 3
CHECK_DEADLOCK FALSE
INVARIANTS
  TypeOK
  BudgetKept
  PromiseInPool
PROPERTIES
  AddQuotesHold
  PositionsHold
  QuoteIsFloor
