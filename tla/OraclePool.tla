----------------------------- MODULE OraclePool -----------------------------
(***************************************************************************)
(* Adding to, removing from and swapping in an oracle-priced pool: what    *)
(* dex/handlers.py computes before it sends a transaction, from reads that *)
(* are not one snapshot, against the pool as it is when the transaction is *)
(* mined.                                                                  *)
(*                                                                         *)
(* Amounts are whole numbers of the smallest units: stock and LP tokens    *)
(* have 18 decimals, dUSD has 6; the pool keeps its dUSD reserve with 18   *)
(* decimals, Scale of them to a unit of dUSD.  A price, a ratio and a fee  *)
(* rate are fractions of Wad.                                              *)
(***************************************************************************)
EXTENDS Integers

CONSTANTS
  Wad,           \* 10^18
  Scale,         \* 10^12
  Sensitivity,   \* getFeeCurve()[0]
  BaseFee,       \* getFeeCurve()[1]
  Start,         \* the pools, feeds and LP balances to begin with
  SharePrices,   \* what signed price updates may say one share costs
  Multipliers,   \* shares per token, as <<numerator, denominator>>
  Mints,         \* LP amounts the user asks a quote for
  Budgets,       \* dUSD amounts the user asks an add quote for
  Buys,          \* dUSD amounts the user sells for stock
  Sells,         \* stock amounts the user sells for dUSD
  Slippages,     \* slippage_bps the user may pick
  Bps,           \* 10000
  Trades,        \* what a trade of somebody else does to the two reserves
  MaxMoves,      \* bound: changes while one call runs
  MaxReserve,    \* bound: the largest reserve the runs consider
  MaxSupply      \* bound: the largest LP supply

Pools == [stock : Nat, stable : Nat, supply : Nat, bounds : BOOLEAN, oneBlock : BOOLEAN]

ASSUME PoolAssumption ==
  /\ Wad \in Nat \ {0} /\ Scale \in Nat \ {0} /\ Bps \in Nat \ {0}
  /\ Sensitivity \in Nat /\ BaseFee \in Nat
  /\ MaxMoves \in Nat /\ MaxReserve \in Nat /\ MaxSupply \in Nat
  /\ SharePrices \subseteq Nat /\ Multipliers \subseteq Nat \X (Nat \ {0})
  /\ Mints \subseteq Nat \ {0} /\ Budgets \subseteq Nat \ {0}
  /\ Buys \subseteq Nat \ {0} /\ Sells \subseteq Nat \ {0}
  /\ Slippages \subseteq 0..Bps
  /\ Trades \subseteq Int \X Int
  /\ \A s \in Start :
       /\ s.pool \in Pools /\ s.mine \in 0..s.pool.supply
       /\ s.share \in Nat /\ s.mult \in Nat \X (Nat \ {0})

VARIABLES
  pool,     \* the pool's reserves and LP supply, whether its calls take bounds,
            \* and whether its supply and reserves are read at one block: by the
            \* multicall contract, or pinned because the client has sent before
  mine,     \* LP tokens of this wallet
  share,    \* the newest signed share price
  mult,     \* the token's multiplier()
  op,       \* "add", "remove", "buy" or "sell": what the user is doing, or "none"
  step,     \* how far that is
  n,        \* the amount the user asked for
  seen,     \* what the reads for it returned
  quote,    \* what the client told the user
  order,    \* the minimum and the signed share price a swap was sent with
  moves,    \* how often what the quote depends on has changed since its first read
  traded    \* somebody traded in the pool since then

vars == <<pool, mine, share, mult, op, step, n, seen, quote, order, moves, traded>>

-----------------------------------------------------------------------------
(* The arithmetic of the client *)

\* A bug the properties must catch: a minus sign lost.
CeilDiv_Sign(a, b) == (-a) \div b

CeilDiv(a, b) == -((-a) \div b)
AtLeast1(a) == IF a = 0 THEN 1 ELSE a
AtMost(a, b) == IF a <= b THEN a ELSE b

\* A bug the properties must catch: only the last division is rounded up.
QuotedStable_Once(lp, s) == CeilDiv((lp * s.stable) \div s.supply, Scale)

\* What minting lp takes, as the client quotes it.
QuotedStock(lp, s) == CeilDiv(lp * s.stock, s.supply)
QuotedStable(lp, s) == CeilDiv(CeilDiv(lp * s.stable, s.supply), Scale)

\* A bug the properties must catch: the LP amount rounded up.
Affordable_Up(budget, s) == CeilDiv(budget * Scale * s.supply, s.stable)

\* The LP amount a dUSD budget is turned into.
Affordable(budget, s) == (budget * Scale * s.supply) \div s.stable

\* A bug the properties must catch: a position rounded up like a mint.
PositionStable_Up(lp, s) ==
  IF s.supply = 0 THEN 0 ELSE CeilDiv(CeilDiv(lp * s.stable, s.supply), Scale)

\* What removing lp pays, as the client shows the position.
PositionStock(lp, s) == IF s.supply = 0 THEN 0 ELSE (lp * s.stock) \div s.supply
PositionStable(lp, s) ==
  IF s.supply = 0 THEN 0 ELSE ((lp * s.stable) \div s.supply) \div Scale

TokenPrice(price, m) == (price * m[1]) \div m[2]

\* The pool's value in dUSD, and the share of it held in stock.
StockValue(price, s) == (s.stock * price) \div Wad
Total(price, s) == StockValue(price, s) + s.stable
StocksRatio(price, s) == (Wad * StockValue(price, s)) \div Total(price, s)

FeeRate(product) ==
  AtMost(BaseFee + (Sensitivity * ((Wad * Wad) \div AtLeast1(product))) \div Wad, Wad)

\* A trade the pool cannot take has no rate; a rate of Wad leaves nothing to pay.
NoRate == Wad + 1

\* A bug the properties must catch: no look at how much stock there is.
BuyFeeRate_NoGuard(out, price, s) ==
  LET before == StocksRatio(price, s)
      delta == (out * price) \div Total(price, s)
  IN  IF Total(price, s) = 0 THEN NoRate ELSE FeeRate((before * (before - delta)) \div Wad)

BuyFeeRate(out, price, s) ==
  LET before == StocksRatio(price, s)
      delta == (out * price) \div Total(price, s)
  IN  IF Total(price, s) = 0 \/ delta >= before THEN NoRate
      ELSE FeeRate((before * (before - delta)) \div Wad)

SellFeeRate(in, price, s) ==
  LET before == StocksRatio(price, s)
      after == before + (in * price) \div Total(price, s)
  IN  IF Total(price, s) = 0 \/ after >= Wad THEN NoRate
      ELSE FeeRate(Wad + (before * after) \div Wad - before - after)

BuyGross(in, price) == (in * Scale * Wad) \div price
SellGross(in, price) == (in * price) \div Wad
Net(gross, rate) == IF rate >= Wad THEN 0 ELSE (gross * (Wad - rate)) \div Wad

\* A bug the properties must catch: the fee of the first unit for the whole trade.
BuyOut_SpotFee(in, price, s) == Net(BuyGross(in, price), BuyFeeRate(0, price, s))

BuyOut(in, price, s) ==
  LET gross == BuyGross(in, price) IN Net(gross, BuyFeeRate(gross, price, s))
SellOut(in, price, s) ==
  Net(SellGross(in, price), SellFeeRate(in, price, s)) \div Scale

\* min_out_from_quote, and int() of it in the swap.
MinOut(out, bps) == (out * (Bps - bps)) \div Bps

-----------------------------------------------------------------------------
NoReads == [stock |-> 0, stable |-> 0, supply |-> 0, lp |-> 0, share |-> 0]
NoOrder == [min |-> 0, share |-> 0]
NoQuote == [lp |-> 0, stock |-> 0, stable |-> 0, out |-> 0, price |-> 0]

Adds == {"mint", "spend"}     \* sized by LP units, sized by a dUSD budget
Swaps == {"buy", "sell"}

TypeOK ==
  /\ pool \in Pools
  /\ mine \in Nat /\ mine <= pool.supply
  /\ share \in Nat /\ mult \in Nat \X (Nat \ {0})
  /\ op \in Adds \cup Swaps \cup {"remove", "none"}
  /\ step \in {"idle", "asked", "read", "quoted", "sent"}
  /\ n \in Nat
  /\ seen \in [stock : Nat, stable : Nat, supply : Nat, lp : Nat, share : Nat]
  /\ quote \in [lp : Nat, stock : Nat, stable : Nat, out : Nat, price : Nat]
  /\ order \in [min : Nat, share : Nat]
  /\ moves \in Nat /\ traded \in BOOLEAN

Init ==
  /\ \E s \in Start :
       pool = s.pool /\ mine = s.mine /\ share = s.share /\ mult = s.mult
  /\ op = "none" /\ step = "idle" /\ n = 0
  /\ seen = NoReads /\ quote = NoQuote /\ order = NoOrder
  /\ moves = 0 /\ traded = FALSE

-----------------------------------------------------------------------------
(* The user's calls: ask for a quote or a position, then send *)

Over ==
  /\ op' = "none" /\ step' = "idle" /\ n' = 0
  /\ seen' = NoReads /\ quote' = NoQuote /\ order' = NoOrder
  /\ moves' = 0 /\ traded' = FALSE

\* add_quote and lp_position read totalSupply (and balanceOf) first, or together
\* with the reserves.
AskPool(o, amount) ==
  /\ step = "idle"
  /\ op' = o /\ n' = amount
  /\ seen' = [NoReads EXCEPT !.supply = pool.supply,
                             !.lp = IF o = "remove" THEN mine ELSE 0,
                             !.stock = IF pool.oneBlock THEN pool.stock ELSE 0,
                             !.stable = IF pool.oneBlock THEN pool.stable ELSE 0]
  /\ step' = IF pool.oneBlock THEN "read" ELSE "asked"
  /\ UNCHANGED <<pool, mine, share, mult, quote, order, moves, traded>>

\* oracle_quote starts from the signed update.
AskSwap(o, amount) ==
  /\ step = "idle"
  /\ op' = o /\ n' = amount /\ step' = "asked"
  /\ seen' = [NoReads EXCEPT !.share = share]
  /\ UNCHANGED <<pool, mine, share, mult, quote, order, moves, traded>>

\* getReserves as a read of its own.
ReadReserves ==
  /\ step = "asked"
  /\ step' = "read"
  /\ seen' = [seen EXCEPT !.stock = pool.stock, !.stable = pool.stable]
  /\ UNCHANGED <<pool, mine, share, mult, op, n, quote, order, moves, traded>>

Told(q) ==
  /\ quote' = q /\ step' = "quoted"
  /\ UNCHANGED <<pool, mine, share, mult, op, n, seen, order, moves, traded>>

Minted == IF op = "mint" THEN n ELSE Affordable(n, seen)
CanAdd == seen.supply > 0 /\ seen.stock > 0 /\ seen.stable > 0

AddQuote ==
  /\ step = "read" /\ op \in Adds
  /\ CanAdd /\ Minted > 0
  /\ Told([NoQuote EXCEPT !.lp = Minted,
                          !.stock = QuotedStock(Minted, seen),
                          !.stable = QuotedStable(Minted, seen)])

Position ==
  /\ step = "read" /\ op = "remove"
  /\ Told([NoQuote EXCEPT !.lp = seen.lp,
                          !.stock = PositionStock(seen.lp, seen),
                          !.stable = PositionStable(seen.lp, seen)])

\* multiplier() is read last; the quote multiplies it with the share price of
\* the update fetched first.
Expected(price) == IF op = "buy" THEN BuyOut(n, price, seen) ELSE SellOut(n, price, seen)

OracleQuote ==
  LET price == TokenPrice(seen.share, mult) IN
  /\ step = "read" /\ op \in Swaps
  /\ price > 0 /\ Expected(price) > 0
  /\ Told([NoQuote EXCEPT !.out = Expected(price), !.price = price])

\* ValueError, or NotEnoughPoolLiquidity.
RefuseQuote ==
  /\ step = "read"
  /\ \/ op \in Adds /\ ~(CanAdd /\ Minted > 0)
     \/ /\ op \in Swaps
        /\ LET price == TokenPrice(seen.share, mult) IN price = 0 \/ Expected(price) = 0
  /\ Over
  /\ UNCHANGED <<pool, mine, share, mult>>

\* The quoted amounts are passed as the maxima, a position's as the minima where
\* the pool takes bounds (elsewhere only minima of 0 are accepted), and
\* min_out_from_quote of a quote as the swap's minimum; the swap fetches a signed
\* update again and carries it.
Send(bps) ==
  /\ step = "quoted" /\ step' = "sent"
  /\ op = "remove" => quote.lp > 0
  /\ op \in Adds => /\ pool.supply + quote.lp <= MaxSupply
                    /\ pool.stock + quote.stock <= MaxReserve
                    /\ pool.stable + quote.stable * Scale <= MaxReserve
  /\ op = "buy" => pool.stable + n * Scale <= MaxReserve
  /\ op = "sell" => pool.stock + n <= MaxReserve
  /\ order' = IF op \in Swaps THEN [min |-> MinOut(quote.out, bps), share |-> share]
              ELSE NoOrder
  /\ UNCHANGED <<pool, mine, share, mult, op, n, seen, quote, moves, traded>>

\* The user does nothing with the quote.
GiveUp == step = "quoted" /\ Over /\ UNCHANGED <<pool, mine, share, mult>>

-----------------------------------------------------------------------------
(* The pool: it rounds a mint up and a burn down, by one unit at most *)

Takes(lp, x, y) ==
  /\ x * pool.supply >= lp * pool.stock
  /\ (x - 1) * pool.supply < lp * pool.stock
  /\ y * Scale * pool.supply >= lp * pool.stable
  /\ (y - 1) * Scale * pool.supply < lp * pool.stable

Pays(lp, x, y) ==
  /\ x * pool.supply <= lp * pool.stock
  /\ (x + 1) * pool.supply > lp * pool.stock
  /\ y * Scale * pool.supply <= lp * pool.stable
  /\ (y + 1) * Scale * pool.supply > lp * pool.stable

PoolAfter(x, y, lp) ==
  [pool EXCEPT !.stock = @ + x, !.stable = @ + y * Scale, !.supply = @ + lp]

Reverts == Over /\ UNCHANGED <<pool, mine, share, mult>>

\* addLiquidity is mined: it takes no more than the maxima, or reverts.
PoolMints ==
  /\ step = "sent" /\ op \in Adds
  /\ IF pool.supply = 0 THEN Reverts
     ELSE \E x, y \in 0..(2 * MaxReserve) :
            /\ Takes(quote.lp, x, y)
            /\ IF x <= quote.stock /\ y <= quote.stable
               THEN /\ pool' = PoolAfter(x, y, quote.lp) /\ mine' = mine + quote.lp
                    /\ Over /\ UNCHANGED <<share, mult>>
               ELSE Reverts

\* removeLiquidity is mined.
PoolBurns ==
  /\ step = "sent" /\ op = "remove"
  /\ \E x \in 0..pool.stock, y \in 0..pool.stable :
       /\ Pays(quote.lp, x, y)
       /\ IF pool.bounds => x >= quote.stock /\ y >= quote.stable
          THEN /\ pool' = PoolAfter(-x, -y, -quote.lp) /\ mine' = mine - quote.lp
               /\ Over /\ UNCHANGED <<share, mult>>
          ELSE Reverts

Fills(out, x, y) ==
  IF out >= order.min /\ out > 0 /\ pool.stock + x >= 0 /\ pool.stable + y * Scale >= 0
  THEN /\ pool' = PoolAfter(x, y, 0)
       /\ Over /\ UNCHANGED <<mine, share, mult>>
  ELSE Reverts

\* A swap is mined.  "Every deployed pool version charges that fee or less":
\* some charge the rate of a part of the trade only.
PoolBuys ==
  LET price == TokenPrice(order.share, mult)
      gross == BuyGross(n, price)
  IN  /\ step = "sent" /\ op = "buy"
      /\ IF price = 0 THEN Reverts
         ELSE \E size \in 0..gross :
                LET out == Net(gross, BuyFeeRate(size, price, pool))
                IN  Fills(out, -out, n)

PoolSells ==
  LET price == TokenPrice(order.share, mult)
  IN  /\ step = "sent" /\ op = "sell"
      /\ IF price = 0 THEN Reverts
         ELSE \E size \in 0..n :
                LET out == Net(SellGross(n, price), SellFeeRate(size, price, pool)) \div Scale
                IN  Fills(out, n, -out)

-----------------------------------------------------------------------------
(* What the others do meanwhile *)

Moved == moves' = moves + 1 /\ moves < MaxMoves

Disturbs(trade) ==
  /\ IF step = "idle" THEN UNCHANGED moves ELSE Moved
  /\ traded' = (traded \/ (trade /\ step # "idle"))
  /\ UNCHANGED <<op, step, n, seen, quote, order>>

OthersAdd(lp) ==
  /\ pool.supply > 0 /\ pool.supply + lp <= MaxSupply
  /\ \E x, y \in 0..MaxReserve :
       /\ Takes(lp, x, y)
       /\ pool.stock + x <= MaxReserve /\ pool.stable + y * Scale <= MaxReserve
       /\ pool' = PoolAfter(x, y, lp)
  /\ Disturbs(FALSE)
  /\ UNCHANGED <<mine, share, mult>>

OthersRemove(lp) ==
  /\ lp <= pool.supply - mine
  /\ \E x \in 0..pool.stock, y \in 0..pool.stable :
       Pays(lp, x, y) /\ pool' = PoolAfter(-x, -y, -lp)
  /\ Disturbs(FALSE)
  /\ UNCHANGED <<mine, share, mult>>

OthersTrade(d) ==
  /\ pool.stock + d[1] \in 0..MaxReserve /\ pool.stable + d[2] \in 0..MaxReserve
  /\ pool' = [pool EXCEPT !.stock = @ + d[1], !.stable = @ + d[2]]
  /\ Disturbs(TRUE)
  /\ UNCHANGED <<mine, share, mult>>

\* The backend signs a new price; a swap already sent carries the old one.
NewPrice(price) ==
  /\ price # share /\ share' = price
  /\ IF step \in {"idle", "sent"} THEN UNCHANGED moves ELSE Moved
  /\ UNCHANGED <<pool, mine, mult, op, step, n, seen, quote, order, traded>>

\* A split changes the token's multiplier.
Split(m) ==
  /\ m # mult /\ mult' = m
  /\ Disturbs(FALSE)
  /\ UNCHANGED <<pool, mine, share>>

-----------------------------------------------------------------------------
Asks ==
  \/ \E lp \in Mints : AskPool("mint", lp)
  \/ \E budget \in Budgets : AskPool("spend", budget)
  \/ AskPool("remove", 0)
  \/ \E in \in Buys : AskSwap("buy", in)
  \/ \E in \in Sells : AskSwap("sell", in)

Client ==
  \/ Asks \/ ReadReserves \/ AddQuote \/ Position \/ OracleQuote \/ RefuseQuote
  \/ (\E bps \in Slippages : Send(bps)) \/ GiveUp

Mined == PoolMints \/ PoolBurns \/ PoolBuys \/ PoolSells

Others ==
  \/ \E lp \in Mints : OthersAdd(lp) \/ OthersRemove(lp)
  \/ \E d \in Trades : OthersTrade(d)
  \/ \E price \in SharePrices : NewPrice(price)
  \/ \E m \in Multipliers : Split(m)

Next == Client \/ Mined \/ Others

Spec == Init /\ [][Next]_vars

-----------------------------------------------------------------------------
(* Properties *)

\* An add quoted for a dUSD budget does not cost more than the budget although
\* both roundings go up, and one more unit of LP would.
BudgetKept ==
  step \in {"quoted", "sent"} /\ op = "spend"
    => quote.stable <= n /\ QuotedStable(quote.lp + 1, seen) > n

\* A swap is never quoted more than the reserve it is paid from, for all that
\* ratios and rates are rounded down: a pool with a fee curve always keeps some.
PromiseInPool ==
  step \in {"quoted", "sent"}
    => /\ op = "buy" => quote.out < seen.stock
       /\ op = "sell" /\ Sensitivity > 0 => quote.out * Scale < seen.stable

MinedAs(o) == step = "sent" /\ op = o /\ step' = "idle"

\* A quote is what the pool does, to the unit, when nothing moved since the first
\* read: the add goes through with the quoted amounts as its maxima.
AddQuotesHold ==
  [][ (MinedAs("mint") \/ MinedAs("spend")) /\ moves = 0
        => pool' = PoolAfter(quote.stock, quote.stable, quote.lp) ]_vars

\* What a position shows is paid unless somebody trades, whatever other LPs add
\* and remove meanwhile.  Where the supply and the reserves may be read at two
\* blocks, it holds only when nothing moved at all.
PositionsHold ==
  [][ MinedAs("remove") /\ ~traded /\ (pool.oneBlock \/ moves = 0)
        => /\ pool'.supply = pool.supply - quote.lp
           /\ pool.stock - pool'.stock >= quote.stock
           /\ pool.stable - pool'.stable >= quote.stable * Scale ]_vars

\* expected_amount_out "is a floor of what the swap pays": when nothing moved the
\* swap is filled, at the quote or better, whichever pool version fills it.  A sell
\* counts on the fee curve for the pool to have enough.
QuoteIsFloor ==
  [][ moves = 0 =>
        /\ MinedAs("buy") => pool.stock - pool'.stock >= quote.out
        /\ MinedAs("sell") /\ Sensitivity > 0
             => pool.stable - pool'.stable >= quote.out * Scale ]_vars
=============================================================================
