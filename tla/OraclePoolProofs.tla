-------------------------- MODULE OraclePoolProofs --------------------------
(* Proofs about OraclePool: its arithmetic, and what follows for the calls. *)
EXTENDS OraclePool, TLAPS

-----------------------------------------------------------------------------
(* Division *)

LEMMA DivLemma ==
  ASSUME NEW a \in Nat, NEW b \in Nat \ {0}
  PROVE  /\ a \div b \in Nat
         /\ (a \div b) * b <= a
         /\ a < (a \div b) * b + b
  BY SMT

LEMMA CeilDivLemma ==
  ASSUME NEW a \in Nat, NEW b \in Nat \ {0}
  PROVE  /\ CeilDiv(a, b) \in Nat
         /\ CeilDiv(a, b) * b >= a
         /\ CeilDiv(a, b) * b - b < a
  BY SMT DEF CeilDiv

LEMMA DivUnique ==
  ASSUME NEW a \in Nat, NEW b \in Nat \ {0}, NEW x \in Nat, x * b <= a, a < (x + 1) * b
  PROVE  a \div b = x
  BY SMT

LEMMA CeilDivUnique ==
  ASSUME NEW a \in Nat, NEW b \in Nat \ {0}, NEW x \in Nat, x * b >= a, (x - 1) * b < a
  PROVE  CeilDiv(a, b) = x
  BY SMT DEF CeilDiv

LEMMA DivMonotone ==
  ASSUME NEW a \in Nat, NEW b \in Nat, a <= b, NEW d \in Nat \ {0}
  PROVE  a \div d <= b \div d
  BY SMT

\* A larger divisor gives a smaller quotient.
LEMMA DivAntitone ==
  ASSUME NEW a \in Nat, NEW d \in Nat \ {0}, NEW e \in Nat \ {0}, d <= e
  PROVE  a \div e <= a \div d
  BY SMT

-----------------------------------------------------------------------------
(* Adds *)

\* Sizing an add by a dUSD budget: handlers.py:710-712.
LEMMA AffordableLemma ==
  ASSUME NEW stable \in Nat \ {0}, NEW supply \in Nat \ {0}, NEW budget \in Nat,
         NEW lp, lp = (budget * Scale * supply) \div stable
  PROVE  /\ lp \in Nat
         /\ CeilDiv(CeilDiv(lp * stable, supply), Scale) <= budget
         /\ CeilDiv(CeilDiv((lp + 1) * stable, supply), Scale) > budget
<1> Scale \in Nat \ {0} /\ budget * Scale \in Nat
  BY PoolAssumption, SMT
<1>1. budget * Scale * supply \in Nat
  BY SMT
<1>2. /\ lp \in Nat /\ lp * stable <= budget * Scale * supply
      /\ budget * Scale * supply < (lp + 1) * stable
  BY <1>1, SMT
<1>3. CeilDiv(lp * stable, supply) \in Nat /\ CeilDiv(lp * stable, supply) <= budget * Scale
  BY <1>2, SMT DEF CeilDiv
<1>4. /\ CeilDiv((lp + 1) * stable, supply) \in Nat
      /\ CeilDiv((lp + 1) * stable, supply) > budget * Scale
  BY <1>2, SMT DEF CeilDiv
<1>5. \A x \in Nat : x <= budget * Scale => CeilDiv(x, Scale) <= budget
  BY SMT DEF CeilDiv
<1>6. \A x \in Nat : x > budget * Scale => CeilDiv(x, Scale) > budget
  BY SMT DEF CeilDiv
<1> QED
  BY <1>2, <1>3, <1>4, <1>5, <1>6

\* Rounding up twice is rounding up once, by Scale times the supply.
LEMMA CeilTwice ==
  ASSUME NEW a \in Nat, NEW b \in Nat \ {0}, NEW c \in Nat \ {0}, NEW y \in Nat,
         y * c * b >= a, (y - 1) * c * b < a
  PROVE  CeilDiv(CeilDiv(a, b), c) = y
<1>1. /\ CeilDiv(a, b) \in Nat /\ CeilDiv(a, b) <= y * c /\ CeilDiv(a, b) > (y - 1) * c
  BY SMT DEF CeilDiv
<1>2. \A x \in Nat : x <= y * c /\ x > (y - 1) * c => CeilDiv(x, c) = y
  BY SMT DEF CeilDiv
<1> QED
  BY <1>1, <1>2

LEMMA DivTwice ==
  ASSUME NEW a \in Nat, NEW b \in Nat \ {0}, NEW c \in Nat \ {0}, NEW y \in Nat,
         y * c * b <= a, (y + 1) * c * b > a
  PROVE  (a \div b) \div c = y
<1>1. a \div b \in Nat /\ a \div b >= y * c /\ a \div b < (y + 1) * c
  BY SMT
<1>2. \A x \in Nat : x >= y * c /\ x < (y + 1) * c => x \div c = y
  BY SMT
<1> QED
  BY <1>1, <1>2

\* What the pool takes and pays is what the client computes.
LEMMA TakesLemma ==
  ASSUME pool \in Pools, pool.supply > 0, NEW lp \in Nat, NEW x \in Nat, NEW y \in Nat,
         Takes(lp, x, y)
  PROVE  x = QuotedStock(lp, pool) /\ y = QuotedStable(lp, pool)
<1> Scale \in Nat \ {0} /\ pool.supply \in Nat \ {0}
  /\ pool.stock \in Nat /\ pool.stable \in Nat
  BY PoolAssumption DEF Pools
<1> lp * pool.stock \in Nat /\ lp * pool.stable \in Nat
  BY SMT
<1>1. x = CeilDiv(lp * pool.stock, pool.supply)
  BY CeilDivUnique DEF Takes
<1>2. y = CeilDiv(CeilDiv(lp * pool.stable, pool.supply), Scale)
  BY CeilTwice DEF Takes
<1> QED
  BY <1>1, <1>2 DEF QuotedStock, QuotedStable

LEMMA PaysLemma ==
  ASSUME pool \in Pools, pool.supply > 0, NEW lp \in Nat, NEW x \in Nat, NEW y \in Nat,
         Pays(lp, x, y)
  PROVE  x = PositionStock(lp, pool) /\ y = PositionStable(lp, pool)
<1> Scale \in Nat \ {0} /\ pool.supply \in Nat \ {0}
  /\ pool.stock \in Nat /\ pool.stable \in Nat
  BY PoolAssumption DEF Pools
<1> lp * pool.stock \in Nat /\ lp * pool.stable \in Nat
  BY SMT
<1>1. x = (lp * pool.stock) \div pool.supply
  BY DivUnique DEF Pays
<1>2. y = ((lp * pool.stable) \div pool.supply) \div Scale
  BY DivTwice DEF Pays
<1> QED
  BY <1>1, <1>2 DEF PositionStock, PositionStable
-----------------------------------------------------------------------------
(* Swaps *)

LEMMA FeeRateLemma ==
  ASSUME NEW p \in Nat
  PROVE  /\ FeeRate(p) \in 0..Wad
         /\ \A q \in Nat : q <= p => FeeRate(p) <= FeeRate(q)
<1> Wad \in Nat \ {0} /\ Sensitivity \in Nat /\ BaseFee \in Nat
  BY PoolAssumption
<1> DEFINE Charge(q) == (Sensitivity * ((Wad * Wad) \div AtLeast1(q))) \div Wad
<1>1. \A q \in Nat : AtLeast1(q) \in Nat \ {0} /\ (Wad * Wad) \div AtLeast1(q) \in Nat
  BY DivLemma, SMT DEF AtLeast1
<1>2. \A q \in Nat : Sensitivity * ((Wad * Wad) \div AtLeast1(q)) \in Nat
  BY <1>1, SMT
<1>3. \A q \in Nat : Charge(q) \in Nat
  BY <1>2, DivLemma
<1>4. ASSUME NEW q \in Nat, q <= p
      PROVE  Charge(p) <= Charge(q)
  <2>1. AtLeast1(q) <= AtLeast1(p)
    BY <1>4, SMT DEF AtLeast1
  <2>2. (Wad * Wad) \div AtLeast1(p) <= (Wad * Wad) \div AtLeast1(q)
    BY <1>1, <2>1, DivAntitone, Wad * Wad \in Nat
  <2>3. Sensitivity * ((Wad * Wad) \div AtLeast1(p))
          <= Sensitivity * ((Wad * Wad) \div AtLeast1(q))
    BY <1>1, <2>2, SMT
  <2> QED
    BY <1>2, <2>3, DivMonotone
<1>5. FeeRate(p) = AtMost(BaseFee + Charge(p), Wad)
  BY DEF FeeRate
<1>6. \A q \in Nat : FeeRate(q) = AtMost(BaseFee + Charge(q), Wad)
  BY DEF FeeRate
<1> HIDE DEF Charge
<1> QED
  BY <1>3, <1>4, <1>5, <1>6, SMT DEF AtMost

LEMMA NetLemma ==
  ASSUME NEW gross \in Nat, NEW rate \in Nat
  PROVE  /\ Net(gross, rate) \in Nat
         /\ Net(gross, rate) <= gross
         /\ \A r \in Nat : r <= rate => Net(gross, rate) <= Net(gross, r)
<1> Wad \in Nat \ {0}
  BY PoolAssumption
<1>1. ASSUME NEW r \in Nat, r < Wad
      PROVE  /\ gross * (Wad - r) \in Nat
             /\ (gross * (Wad - r)) \div Wad \in Nat
             /\ (gross * (Wad - r)) \div Wad <= gross
  BY <1>1, SMT
<1>2. ASSUME NEW r \in Nat, r <= rate, rate < Wad
      PROVE  (gross * (Wad - rate)) \div Wad <= (gross * (Wad - r)) \div Wad
  <2>1. gross * (Wad - rate) <= gross * (Wad - r)
    BY <1>2, SMT
  <2>2. r < Wad
    BY <1>2, SMT
  <2> QED
    BY <1>1, <1>2, <2>1, <2>2, DivMonotone
<1> QED
  BY <1>1, <1>2, SMT DEF Net

LEMMA RatioLemma ==
  ASSUME NEW s, s.stock \in Nat, s.stable \in Nat, NEW price \in Nat, Total(price, s) # 0
  PROVE  /\ StockValue(price, s) \in Nat
         /\ Total(price, s) \in Nat \ {0}
         /\ Total(price, s) = StockValue(price, s) + s.stable
         /\ StocksRatio(price, s) \in Nat
         /\ StocksRatio(price, s) <= Wad
         /\ StocksRatio(price, s) * Total(price, s) <= Wad * StockValue(price, s)
         /\ Wad * StockValue(price, s) < (StocksRatio(price, s) + 1) * Total(price, s)
         /\ StockValue(price, s) * Wad <= s.stock * price
<1> Wad \in Nat \ {0} /\ s.stock * price \in Nat
  BY PoolAssumption, SMT
<1>1. StockValue(price, s) \in Nat /\ StockValue(price, s) * Wad <= s.stock * price
  BY DivLemma DEF StockValue
<1>2. Total(price, s) \in Nat \ {0} /\ Total(price, s) = StockValue(price, s) + s.stable
  BY <1>1, SMT DEF Total
<1>3. Wad * StockValue(price, s) \in Nat
  BY <1>1, SMT
<1>4. /\ StocksRatio(price, s) \in Nat
      /\ StocksRatio(price, s) * Total(price, s) <= Wad * StockValue(price, s)
      /\ Wad * StockValue(price, s) < StocksRatio(price, s) * Total(price, s) + Total(price, s)
  BY <1>2, <1>3, DivLemma DEF StocksRatio
<1>5. Wad * StockValue(price, s) <= Wad * Total(price, s)
  BY <1>1, <1>2, SMT
<1>6. StocksRatio(price, s) <= Wad
  BY <1>2, <1>3, <1>4, <1>5, SMT
<1> QED
  BY <1>1, <1>2, <1>4, <1>6, SMT

\* A buy that has a rate asks for less stock than the pool holds.
LEMMA BuyRoom ==
  ASSUME NEW s, s.stock \in Nat, s.stable \in Nat, NEW price \in Nat \ {0},
         NEW gross \in Nat, BuyFeeRate(gross, price, s) # NoRate
  PROVE  gross < s.stock
<1> DEFINE T == Total(price, s)
           before == StocksRatio(price, s)
<1>1. T # 0 /\ (gross * price) \div T < before
  <2>1. ~ (T = 0 \/ (gross * price) \div T >= before)
    BY DEF BuyFeeRate
  <2>2. T # 0
    BY <2>1
  <2>3. (gross * price) \div T \in Nat /\ before \in Nat
    BY <2>2, RatioLemma, DivLemma, gross * price \in Nat
  <2> QED
    BY <2>1, <2>3, SMT
<1>2. /\ T \in Nat \ {0} /\ before \in Nat
      /\ before * T <= Wad * StockValue(price, s)
      /\ StockValue(price, s) \in Nat /\ StockValue(price, s) * Wad <= s.stock * price
  BY <1>1, RatioLemma
<1> HIDE DEF T, before
<1>3. gross * price \in Nat /\ Wad \in Nat \ {0}
  BY PoolAssumption, SMT
<1>4. gross * price < before * T
  BY <1>1, <1>2, <1>3, SMT
<1>5. gross * price < s.stock * price
  BY <1>2, <1>3, <1>4, SMT
<1> QED
  BY <1>5, SMT

\* The rate grows with the size of a buy.
LEMMA BuyMonotone ==
  ASSUME NEW s, s.stock \in Nat, s.stable \in Nat, NEW price \in Nat \ {0},
         NEW gross \in Nat, BuyFeeRate(gross, price, s) # NoRate,
         NEW size \in 0..gross
  PROVE  /\ BuyFeeRate(size, price, s) \in 0..Wad
         /\ BuyFeeRate(size, price, s) <= BuyFeeRate(gross, price, s)
<1> DEFINE T == Total(price, s)
           before == StocksRatio(price, s)
           delta(x) == (x * price) \div T
<1> Wad \in Nat \ {0}
  BY PoolAssumption
<1>1. T # 0 /\ ~ (delta(gross) >= before)
  BY DEF BuyFeeRate
<1>2. T \in Nat \ {0} /\ before \in Nat
  BY <1>1, RatioLemma
<1>3. /\ size * price \in Nat /\ gross * price \in Nat
      /\ size * price <= gross * price
  BY SMT
<1>4. delta(size) \in Nat /\ delta(gross) \in Nat /\ delta(size) <= delta(gross)
  BY <1>2, <1>3, DivLemma, DivMonotone
<1>5. delta(gross) < before /\ delta(size) < before
  BY <1>1, <1>2, <1>4, SMT
<1>6. /\ BuyFeeRate(size, price, s) = FeeRate((before * (before - delta(size))) \div Wad)
      /\ BuyFeeRate(gross, price, s) = FeeRate((before * (before - delta(gross))) \div Wad)
  BY <1>1, <1>2, <1>4, <1>5, SMT DEF BuyFeeRate
<1> HIDE DEF T, before, delta
<1>7. /\ before * (before - delta(size)) \in Nat /\ before * (before - delta(gross)) \in Nat
      /\ before * (before - delta(gross)) <= before * (before - delta(size))
  BY <1>2, <1>4, <1>5, SMT
<1>8. /\ (before * (before - delta(size))) \div Wad \in Nat
      /\ (before * (before - delta(gross))) \div Wad \in Nat
      /\ (before * (before - delta(gross))) \div Wad <= (before * (before - delta(size))) \div Wad
  BY <1>7, DivLemma, DivMonotone
<1> QED
  BY <1>6, <1>8, FeeRateLemma

\* What is left of the fee's divisor after a sell: never negative, and the smaller
\* the more is sold.
LEMMA RestLemma ==
  ASSUME NEW W \in Nat \ {0}, NEW b \in 0..W, NEW a \in 0..W, NEW c \in 0..a
  PROVE  /\ (b * a) \div W \in Nat /\ (b * c) \div W \in Nat
         /\ W + (b * a) \div W - b - a >= 0
         /\ W + (b * a) \div W - b - a <= W + (b * c) \div W - b - c
<1>1. b * a \in Nat /\ b * c \in Nat
  BY SMT
<1>2. (W - a) * (W - b) >= 0 /\ (W - a) * (W - b) = W * (W - a - b) + b * a
  BY SMT
<1>3. W + (b * a) \div W - b - a >= 0
  BY <1>1, <1>2, SMT
<1>4. b * a <= b * c + W * (a - c)
  <2>1. (W - b) * (a - c) >= 0 /\ (W - b) * (a - c) = W * (a - c) - b * a + b * c
    BY SMT
  <2> QED
    BY <1>1, <2>1, SMT
<1>5. (b * a) \div W <= (b * c) \div W + (a - c)
  BY <1>1, <1>4, SMT
<1> QED
  BY <1>1, <1>3, <1>5, DivLemma, SMT

LEMMA SellMonotone ==
  ASSUME NEW s, s.stock \in Nat, s.stable \in Nat, NEW price \in Nat \ {0},
         NEW in \in Nat, SellFeeRate(in, price, s) # NoRate,
         NEW size \in 0..in
  PROVE  /\ SellFeeRate(size, price, s) \in 0..Wad
         /\ SellFeeRate(size, price, s) <= SellFeeRate(in, price, s)
<1> DEFINE T == Total(price, s)
           b == StocksRatio(price, s)
           after(x) == b + (x * price) \div T
           rest(x) == Wad + (b * after(x)) \div Wad - b - after(x)
<1> Wad \in Nat \ {0}
  BY PoolAssumption
<1>1. T # 0 /\ ~ (after(in) >= Wad)
  BY DEF SellFeeRate
<1>2. T \in Nat \ {0} /\ b \in Nat /\ b <= Wad
  BY <1>1, RatioLemma
<1>3. size * price \in Nat /\ in * price \in Nat /\ size * price <= in * price
  BY SMT
<1>4. /\ (size * price) \div T \in Nat /\ (in * price) \div T \in Nat
      /\ (size * price) \div T <= (in * price) \div T
  BY <1>2, <1>3, DivLemma, DivMonotone
<1>5. after(in) \in 0..Wad /\ after(size) \in 0..after(in) /\ after(size) < Wad
      /\ after(in) < Wad
  BY <1>1, <1>2, <1>4, SMT
<1>6. /\ SellFeeRate(size, price, s) = FeeRate(rest(size))
      /\ SellFeeRate(in, price, s) = FeeRate(rest(in))
  <2>1. ~ (after(in) >= Wad) /\ ~ (after(size) >= Wad)
    BY <1>1, <1>5, SMT
  <2> QED
    BY <1>1, <2>1 DEF SellFeeRate
<1> HIDE DEF T, b, after
<1>7. rest(in) \in Nat /\ rest(size) \in Nat /\ rest(in) <= rest(size)
  <2>1. b \in 0..Wad /\ after(size) \in 0..Wad /\ after(in) \in 0..after(in)
    BY <1>2, <1>5, SMT
  <2>2. /\ (b * after(in)) \div Wad \in Nat /\ (b * after(size)) \div Wad \in Nat
        /\ Wad + (b * after(in)) \div Wad - b - after(in) >= 0
        /\ Wad + (b * after(in)) \div Wad - b - after(in)
             <= Wad + (b * after(size)) \div Wad - b - after(size)
    BY <1>5, <2>1, RestLemma
  <2> DEFINE x == (b * after(in)) \div Wad
             y == (b * after(size)) \div Wad
  <2>3. rest(in) = Wad + x - b - after(in) /\ rest(size) = Wad + y - b - after(size)
    OBVIOUS
  <2> HIDE DEF x, y, rest
  <2> QED
    BY <1>2, <1>5, <2>2, <2>3, SMT DEF x, y
<1> QED
  BY <1>6, <1>7, FeeRateLemma

LEMMA MinusTimes ==
  ASSUME NEW w \in Nat, NEW x \in Nat, NEW y \in Nat
  PROVE  (w - 1 - x) * y = w * y - (x + 1) * y
BY SMT

\* A sell that leaves anything to pay takes less than the pool's stable reserve: a
\* fee curve with any sensitivity charges everything for the last part of it.
LEMMA SellRoom ==
  ASSUME NEW s, s.stock \in Nat, s.stable \in Nat, NEW price \in Nat \ {0},
         NEW in \in Nat, SellFeeRate(in, price, s) < Wad, Sensitivity > 0,
         SellFeeRate(in, price, s) # NoRate
  PROVE  SellGross(in, price) < s.stable
<1> DEFINE T == Total(price, s)
           b == StocksRatio(price, s)
           d == (in * price) \div T
           V == StockValue(price, s)
<1> Wad \in Nat \ {0} /\ Sensitivity \in Nat \ {0} /\ BaseFee \in Nat
  BY PoolAssumption, SMT
<1>1. T # 0 /\ ~ (b + d >= Wad)
  BY DEF SellFeeRate
<1>2. /\ T \in Nat \ {0} /\ b \in Nat /\ b <= Wad /\ V \in Nat
      /\ T = V + s.stable /\ Wad * V < (b + 1) * T
  BY <1>1, RatioLemma
<1>3. in * price \in Nat
  BY SMT
<1>4. d \in Nat /\ in * price < d * T + T
  BY <1>2, <1>3, DivLemma
<1>5. SellFeeRate(in, price, s) = FeeRate(Wad + (b * (b + d)) \div Wad - b - (b + d))
  BY <1>1 DEF SellFeeRate
<1> HIDE DEF T, b, d, V
<1>6. b + d # Wad - 1
  <2> SUFFICES ASSUME b + d = Wad - 1
               PROVE  FALSE
    OBVIOUS
  <2>1. b <= Wad - 1 /\ (b * (Wad - 1)) \div Wad \in Nat /\ (b * (Wad - 1)) \div Wad <= b
    BY <1>2, <1>4, SMT
  <2>2. b > 0 => (b * (Wad - 1)) \div Wad <= b - 1
    BY <1>2, <1>4, SMT
  <2>3. Wad + (b * (b + d)) \div Wad - b - (b + d) \in Int
    BY <1>2, <1>4, <2>1, SMT
  <2>4. Wad + (b * (b + d)) \div Wad - b - (b + d) <= 1
    BY <1>2, <1>4, <2>1, <2>2, SMT
  <2>5. Wad + (b * (b + d)) \div Wad - b - (b + d) >= 0
    <3>1. b \in 0..Wad /\ b + d \in 0..Wad /\ b + d \in 0..(b + d)
      BY <1>2, <1>4, SMT
    <3> QED
      BY <3>1, RestLemma
  <2>6. AtLeast1(Wad + (b * (b + d)) \div Wad - b - (b + d)) = 1
    BY <2>3, <2>4, <2>5, SMT DEF AtLeast1
  <2>7. (Wad * Wad) \div 1 = Wad * Wad /\ (Sensitivity * (Wad * Wad)) \div Wad >= Wad
    BY SMT
  <2>8. SellFeeRate(in, price, s) = AtMost(BaseFee + (Sensitivity * (Wad * Wad)) \div Wad, Wad)
    BY <1>5, <2>6, <2>7 DEF FeeRate
  <2>9. (Sensitivity * (Wad * Wad)) \div Wad \in Int
    BY SMT
  <2> QED
    BY <2>7, <2>8, <2>9, SMT DEF AtMost
<1>7. d + 1 <= Wad - 1 - b
  BY <1>1, <1>2, <1>4, <1>6, SMT
<1>8. in * price < Wad * s.stable
  <2>1. in * price < (d + 1) * T
    BY <1>2, <1>4, SMT
  <2>2. (d + 1) * T <= (Wad - 1 - b) * T
    BY <1>2, <1>4, <1>7, SMT
  <2>3. Wad * s.stable = Wad * T - Wad * V
    BY <1>2, SMT
  <2>4. (Wad - 1 - b) * T = Wad * T - (b + 1) * T
    <3>1. Wad \in Nat /\ b \in Nat /\ T \in Nat
      BY <1>2, SMT
    <3> QED
      BY <3>1, MinusTimes
  <2> QED
    BY <1>2, <1>3, <1>4, <2>1, <2>2, <2>3, <2>4, SMT
<1> QED
  BY <1>3, <1>8, DivLemma, SMT DEF SellGross

-----------------------------------------------------------------------------
(* What the client computes is a number, whatever it has read *)

LEMMA RateType ==
  ASSUME NEW s, s.stock \in Nat, s.stable \in Nat, NEW price \in Nat, NEW x \in Nat
  PROVE  BuyFeeRate(x, price, s) \in Nat /\ SellFeeRate(x, price, s) \in Nat
<1> Wad \in Nat \ {0}
  BY PoolAssumption
<1> DEFINE T == Total(price, s)
           b == StocksRatio(price, s)
           d == (x * price) \div T
<1> SUFFICES ASSUME T # 0
             PROVE  /\ d < b => FeeRate((b * (b - d)) \div Wad) \in Nat
                    /\ b + d < Wad
                         => FeeRate(Wad + (b * (b + d)) \div Wad - b - (b + d)) \in Nat
  <2>1. NoRate \in Nat
    BY SMT DEF NoRate
  <2>2. T # 0 => d \in Nat /\ b \in Nat
    BY RatioLemma, DivLemma, x * price \in Nat
  <2>3. T # 0 => (d < b <=> ~ (d >= b)) /\ (b + d < Wad <=> ~ (b + d >= Wad))
    <3> HIDE DEF d, b
    <3> QED
      BY <2>2, SMT
  <2>4. /\ T = 0 => BuyFeeRate(x, price, s) = NoRate /\ SellFeeRate(x, price, s) = NoRate
        /\ d >= b => BuyFeeRate(x, price, s) = NoRate
        /\ b + d >= Wad => SellFeeRate(x, price, s) = NoRate
        /\ ~ (T = 0 \/ d >= b)
             => BuyFeeRate(x, price, s) = FeeRate((b * (b - d)) \div Wad)
        /\ ~ (T = 0 \/ b + d >= Wad)
             => SellFeeRate(x, price, s) = FeeRate(Wad + (b * (b + d)) \div Wad - b - (b + d))
    BY DEF BuyFeeRate, SellFeeRate
  <2> HIDE DEF T, b, d
  <2> QED
    BY <2>1, <2>3, <2>4
<1>1. T \in Nat \ {0} /\ b \in Nat /\ b <= Wad /\ x * price \in Nat
  BY RatioLemma, x * price \in Nat
<1>2. d \in Nat
  BY <1>1, DivLemma
<1> HIDE DEF T, b, d
<1>3. d < b => (b * (b - d)) \div Wad \in Nat
  <2>1. d < b => b * (b - d) \in Nat
    BY <1>1, <1>2, SMT
  <2> QED
    BY <2>1, DivLemma
<1>4. b + d < Wad => Wad + (b * (b + d)) \div Wad - b - (b + d) \in Nat
  <2> SUFFICES ASSUME b + d < Wad
               PROVE  Wad + (b * (b + d)) \div Wad - b - (b + d) \in Nat
    OBVIOUS
  <2>1. b \in 0..Wad /\ b + d \in 0..Wad /\ b + d \in 0..(b + d)
    BY <1>1, <1>2, SMT
  <2>2. /\ Wad + (b * (b + d)) \div Wad - b - (b + d) >= 0
        /\ (b * (b + d)) \div Wad \in Nat
    BY <2>1, RestLemma
  <2> DEFINE e == (b * (b + d)) \div Wad
  <2> HIDE DEF e
  <2> QED
    BY <2>1, <2>2, <1>1, <1>2, SMT DEF e
<1>5. \A q \in Nat : FeeRate(q) \in Nat
  BY FeeRateLemma, SMT
<1> QED
  BY <1>3, <1>4, <1>5

LEMMA OutType ==
  ASSUME NEW s, s.stock \in Nat, s.stable \in Nat, NEW price \in Nat \ {0}, NEW in \in Nat,
         NEW size \in Nat
  PROVE  /\ BuyGross(in, price) \in Nat /\ SellGross(in, price) \in Nat
         /\ Net(BuyGross(in, price), BuyFeeRate(size, price, s)) \in Nat
         /\ Net(SellGross(in, price), SellFeeRate(size, price, s)) \in Nat
         /\ Net(SellGross(in, price), SellFeeRate(size, price, s)) \div Scale \in Nat
         /\ BuyOut(in, price, s) \in Nat /\ SellOut(in, price, s) \in Nat
<1> Wad \in Nat \ {0} /\ Scale \in Nat \ {0}
  BY PoolAssumption
<1>1. in * Scale * Wad \in Nat /\ in * price \in Nat
  BY SMT
<1>2. BuyGross(in, price) \in Nat /\ SellGross(in, price) \in Nat
  BY <1>1, DivLemma DEF BuyGross, SellGross
<1>3. \A x \in Nat : BuyFeeRate(x, price, s) \in Nat /\ SellFeeRate(x, price, s) \in Nat
  BY RateType
<1> QED
  BY <1>2, <1>3, NetLemma, DivLemma DEF BuyOut, SellOut

LEMMA MinOutLemma ==
  ASSUME NEW out \in Nat, NEW bps \in Slippages
  PROVE  MinOut(out, bps) \in Nat /\ MinOut(out, bps) <= out
<1>1. Bps \in Nat \ {0} /\ bps \in 0..Bps
  BY PoolAssumption
<1>2. out * (Bps - bps) \in Nat /\ out * (Bps - bps) <= out * Bps
  BY <1>1, SMT
<1> QED
  BY <1>1, <1>2, SMT DEF MinOut

-----------------------------------------------------------------------------
(* The inductive invariant *)

\* What was told and sent was computed from what was read.
Computed ==
  /\ op = "remove" /\ step # "idle" => seen.lp = mine
  /\ step \in {"quoted", "sent"} =>
       /\ op \in Adds => /\ CanAdd /\ quote.lp = Minted
                         /\ quote.stock = QuotedStock(quote.lp, seen)
                         /\ quote.stable = QuotedStable(quote.lp, seen)
       /\ op = "remove" => /\ quote.lp = seen.lp
                           /\ quote.stock = PositionStock(quote.lp, seen)
                           /\ quote.stable = PositionStable(quote.lp, seen)
       /\ op \in Swaps => /\ quote.price > 0 /\ quote.out > 0
                          /\ quote.out = Expected(quote.price)
  /\ step = "sent" =>
       /\ op = "remove" => quote.lp > 0
       /\ op \in Swaps => order.min <= quote.out

\* What was read is still so while nothing has moved.
Fresh ==
  moves = 0 =>
    /\ step \in {"read", "quoted", "sent"}
         => seen.stock = pool.stock /\ seen.stable = pool.stable
    /\ step # "idle" /\ op \notin Swaps => seen.supply = pool.supply
    /\ op \in Swaps =>
         /\ step \in {"asked", "read", "quoted"} => seen.share = share
         /\ step \in {"quoted", "sent"} => quote.price = TokenPrice(seen.share, mult)
         /\ step = "sent" => order.share = seen.share

\* A share of the reserves, as read at one block or as long as nothing has moved.
Same == ~traded /\ (pool.oneBlock \/ moves = 0)

\* Other LPs leave each share of the reserves at least what it was.
ShareKept ==
  op = "remove" /\ step \in {"read", "quoted", "sent"} /\ Same =>
    /\ seen.stock * pool.supply <= pool.stock * seen.supply
    /\ seen.stable * pool.supply <= pool.stable * seen.supply

\* What is read at one block is not read one after the other.
OneRead == op = "remove" /\ step = "asked" => ~pool.oneBlock

IInv == TypeOK /\ Computed /\ Fresh /\ ShareKept /\ OneRead

LEMMA InitInv == Init => IInv
<1> SUFFICES ASSUME Init
             PROVE  IInv
  OBVIOUS
<1>1. PICK s \in Start : pool = s.pool /\ mine = s.mine /\ share = s.share /\ mult = s.mult
  BY DEF Init
<1>2. /\ s.pool \in Pools /\ s.mine \in 0..s.pool.supply
      /\ s.share \in Nat /\ s.mult \in Nat \X (Nat \ {0})
  BY PoolAssumption
<1>3. pool.supply \in Nat
  BY <1>1, <1>2 DEF Pools
<1>4. TypeOK
  <2>1. mine \in Nat /\ mine <= pool.supply
    BY <1>1, <1>2, <1>3, SMT
  <2>2. /\ seen \in [stock : Nat, stable : Nat, supply : Nat, lp : Nat, share : Nat]
        /\ quote \in [lp : Nat, stock : Nat, stable : Nat, out : Nat, price : Nat]
        /\ order \in [min : Nat, share : Nat]
    BY SMT DEF Init, NoReads, NoQuote, NoOrder
  <2> QED
    BY <1>1, <1>2, <2>1, <2>2 DEF Init, TypeOK
<1>5. Computed /\ Fresh /\ ShareKept /\ OneRead
  BY DEF Init, Computed, Fresh, ShareKept, OneRead, Swaps
<1> QED
  BY <1>4, <1>5 DEF IInv

-----------------------------------------------------------------------------
(* What every step of the pool leaves of it *)

LEMMA PriceType ==
  ASSUME NEW p \in Nat, NEW m \in Nat \X (Nat \ {0})
  PROVE  TokenPrice(p, m) \in Nat
<1>1. m[1] \in Nat /\ m[2] \in Nat \ {0}
  OBVIOUS
<1>2. p * m[1] \in Nat
  BY <1>1, SMT
<1> QED
  BY <1>1, <1>2, DivLemma DEF TokenPrice

LEMMA PoolAfterType ==
  ASSUME pool \in Pools, NEW x \in Int, NEW y \in Int, NEW lp \in Int,
         pool.stock + x >= 0, pool.stable + y * Scale >= 0, pool.supply + lp >= 0
  PROVE  /\ PoolAfter(x, y, lp) \in Pools
         /\ PoolAfter(x, y, lp).stock = pool.stock + x
         /\ PoolAfter(x, y, lp).stable = pool.stable + y * Scale
         /\ PoolAfter(x, y, lp).supply = pool.supply + lp
         /\ PoolAfter(x, y, lp).oneBlock = pool.oneBlock
<1>1. y * Scale \in Int
  BY PoolAssumption, SMT
<1>2. pool.stock + x \in Nat /\ pool.stable + y * Scale \in Nat /\ pool.supply + lp \in Nat
  BY <1>1, SMT DEF Pools
<1> QED
  BY <1>2 DEF PoolAfter, Pools

\* A burn leaves the pool whole.
LEMMA PaysRoom ==
  ASSUME pool \in Pools, NEW lp \in Nat \ {0}, lp <= pool.supply,
         NEW x \in Nat, NEW y \in Nat, Pays(lp, x, y)
  PROVE  /\ x <= pool.stock /\ y * Scale <= pool.stable
         /\ PoolAfter(-x, -y, -lp) \in Pools
<1>1. /\ Scale \in Nat /\ pool.stock \in Nat /\ pool.stable \in Nat
      /\ pool.supply \in Nat \ {0} /\ y * Scale \in Nat
  BY PoolAssumption, SMT DEF Pools
<1>2. \A c \in Nat, r \in Nat : c * pool.supply <= lp * r => c <= r
  BY <1>1, SMT
<1>3. x <= pool.stock /\ y * Scale <= pool.stable
  BY <1>1, <1>2 DEF Pays
<1>4. -x \in Int /\ -y \in Int /\ -lp \in Int /\ pool.stock + -x >= 0
      /\ pool.stable + (-y) * Scale >= 0 /\ pool.supply + -lp >= 0
  BY <1>1, <1>3, SMT
<1> QED
  BY <1>3, <1>4, PoolAfterType

\* A share does not lose when somebody mints or burns another.
LEMMA MintKeeps ==
  ASSUME NEW r \in Nat, NEW S \in Nat, NEW p \in Nat, NEW P \in Nat \ {0},
         NEW x \in Nat, NEW lp \in Nat, r * P <= p * S, x * P >= lp * p
  PROVE  r * (P + lp) <= (p + x) * S
<1>1. (r * P) * lp <= (p * S) * lp /\ (lp * p) * S <= (x * P) * S
  BY SMT
<1>2. (r * lp) * P <= (x * S) * P
  BY <1>1, SMT
<1>3. r * lp <= x * S
  BY <1>2, SMT
<1> QED
  BY <1>3, SMT

LEMMA BurnKeeps ==
  ASSUME NEW r \in Nat, NEW S \in Nat, NEW p \in Nat, NEW P \in Nat \ {0},
         NEW x \in Nat, NEW lp \in Nat, r * P <= p * S, x * P <= lp * p, lp <= P, x <= p
  PROVE  r * (P - lp) <= (p - x) * S
<1>1. (p - x) * P >= p * (P - lp)
  BY SMT
<1>2. p * (P - lp) >= 0 /\ (r * P) * (P - lp) <= (p * S) * (P - lp)
  BY SMT
<1>3. ((p - x) * P) * S >= (p * (P - lp)) * S
  BY <1>1, SMT
<1>4. (r * (P - lp)) * P <= ((p - x) * S) * P
  BY <1>2, <1>3, SMT
<1> QED
  BY <1>4, SMT

-----------------------------------------------------------------------------
(* The steps that end a call *)

\* A mined transaction leaves pool and balance as they may be, and ends the call.
LEMMA MinedType ==
  ASSUME IInv, Mined
  PROVE  /\ Over
         /\ pool' \in Pools /\ mine' \in Nat /\ mine' <= pool'.supply
         /\ UNCHANGED <<share, mult>>
<1> USE DEF IInv
<1>1. /\ pool \in Pools /\ mine \in Nat /\ pool.supply \in Nat /\ mine <= pool.supply
      /\ pool.stock \in Nat /\ pool.stable \in Nat /\ n \in Nat /\ Scale \in Nat \ {0}
      /\ quote.lp \in Nat /\ order.share \in Nat /\ mult \in Nat \X (Nat \ {0})
      /\ MaxReserve \in Nat
  BY PoolAssumption DEF TypeOK, Pools
<1>2. ASSUME Reverts
      PROVE  /\ Over
             /\ pool' \in Pools /\ mine' \in Nat /\ mine' <= pool'.supply
             /\ UNCHANGED <<share, mult>>
  BY <1>1, <1>2 DEF Reverts
<1>3. ASSUME NEW x \in Int, NEW y \in Int, NEW out, Fills(out, x, y)
      PROVE  /\ Over
             /\ pool' \in Pools /\ mine' \in Nat /\ mine' <= pool'.supply
             /\ UNCHANGED <<share, mult>>
  <2>1. CASE Reverts
    BY <1>2, <2>1
  <2>2. CASE ~Reverts
    <3>1. /\ pool.stock + x >= 0 /\ pool.stable + y * Scale >= 0
          /\ pool' = PoolAfter(x, y, 0) /\ Over /\ UNCHANGED <<mine, share, mult>>
      BY <1>3, <2>2 DEF Fills
    <3>2. pool.supply + 0 = pool.supply /\ pool.supply + 0 >= 0
      BY <1>1, SMT
    <3>3. pool' \in Pools /\ pool'.supply = pool.supply
      BY <1>1, <3>1, <3>2, PoolAfterType
    <3> QED
      BY <1>1, <3>1, <3>3
  <2> QED
    BY <2>1, <2>2
<1>4. CASE PoolMints
  <2>1. CASE Reverts
    BY <1>2, <2>1
  <2>2. CASE ~Reverts
    <3>1. PICK x, y \in 0..(2 * MaxReserve) :
            /\ pool' = PoolAfter(x, y, quote.lp) /\ mine' = mine + quote.lp
            /\ Over /\ UNCHANGED <<share, mult>>
      BY <1>4, <2>2 DEF PoolMints
    <3>2. /\ x \in Int /\ y \in Int /\ pool.stock + x >= 0 /\ pool.stable + y * Scale >= 0
          /\ pool.supply + quote.lp >= 0
      BY <1>1, SMT
    <3>3. pool' \in Pools /\ pool'.supply = pool.supply + quote.lp
      BY <1>1, <3>1, <3>2, PoolAfterType
    <3>4. mine' \in Nat /\ mine' <= pool'.supply
      BY <1>1, <3>1, <3>3, SMT
    <3> QED
      BY <3>1, <3>3, <3>4
  <2> QED
    BY <2>1, <2>2
<1>5. CASE PoolBurns
  <2>1. CASE Reverts
    BY <1>2, <2>1
  <2>2. CASE ~Reverts
    <3>1. PICK x \in 0..pool.stock, y \in 0..pool.stable :
            /\ Pays(quote.lp, x, y)
            /\ pool' = PoolAfter(-x, -y, -quote.lp) /\ mine' = mine - quote.lp
            /\ Over /\ UNCHANGED <<share, mult>>
      BY <1>5, <2>2 DEF PoolBurns
    <3>2. quote.lp > 0 /\ quote.lp = mine
      BY <1>5 DEF PoolBurns, Computed
    <3>3. /\ quote.lp \in Nat \ {0} /\ quote.lp <= pool.supply
          /\ x \in Nat /\ y \in Nat
      BY <1>1, <3>2, SMT
    <3>4. pool' \in Pools /\ x <= pool.stock /\ y * Scale <= pool.stable
      BY <1>1, <3>1, <3>3, PaysRoom
    <3>5. /\ -x \in Int /\ -y \in Int /\ -quote.lp \in Int /\ pool.stock + -x >= 0
          /\ pool.stable + (-y) * Scale >= 0 /\ pool.supply + -quote.lp >= 0
      BY <1>1, <3>3, <3>4, SMT
    <3>6. pool'.supply = pool.supply + -quote.lp
      BY <1>1, <3>1, <3>5, PoolAfterType
    <3>7. mine' \in Nat /\ mine' <= pool'.supply
      BY <1>1, <3>1, <3>2, <3>3, <3>6, SMT
    <3> QED
      BY <3>1, <3>4, <3>7
  <2> QED
    BY <2>1, <2>2
<1>6. CASE PoolBuys
  <2> DEFINE price == TokenPrice(order.share, mult)
             gross == BuyGross(n, price)
  <2>1. CASE price = 0
    BY <1>2, <1>6, <2>1 DEF PoolBuys
  <2>2. CASE price # 0
    <3>1. price \in Nat \ {0}
      BY <1>1, <2>2, PriceType
    <3>2. gross \in Nat
      BY <1>1, <3>1, 0 \in Nat, OutType
    <3>3. PICK size \in 0..gross :
            LET out == Net(gross, BuyFeeRate(size, price, pool)) IN Fills(out, -out, n)
      BY <1>6, <2>2 DEF PoolBuys
    <3>4. size \in Nat
      BY <3>2, SMT
    <3> DEFINE out == Net(gross, BuyFeeRate(size, price, pool))
    <3>5. out \in Nat
      BY <1>1, <3>1, <3>4, OutType
    <3> HIDE DEF price, gross
    <3>6. -out \in Int /\ n \in Int /\ Fills(out, -out, n)
      BY <1>1, <3>3, <3>5
    <3> QED
      BY <1>3, <3>6
  <2> QED
    BY <2>1, <2>2
<1>7. CASE PoolSells
  <2> DEFINE price == TokenPrice(order.share, mult)
  <2>1. CASE price = 0
    BY <1>2, <1>7, <2>1 DEF PoolSells
  <2>2. CASE price # 0
    <3>1. price \in Nat \ {0}
      BY <1>1, <2>2, PriceType
    <3>2. PICK size \in 0..n :
            LET out == Net(SellGross(n, price), SellFeeRate(size, price, pool)) \div Scale
            IN  Fills(out, n, -out)
      BY <1>7, <2>2 DEF PoolSells
    <3>3. size \in Nat
      BY <1>1, SMT
    <3> DEFINE out == Net(SellGross(n, price), SellFeeRate(size, price, pool)) \div Scale
    <3>4. out \in Nat
      BY <1>1, <3>1, <3>3, OutType
    <3> HIDE DEF price
    <3>5. -out \in Int /\ n \in Int /\ Fills(out, n, -out)
      BY <1>1, <3>2, <3>4
    <3> QED
      BY <1>3, <3>5
  <2> QED
    BY <2>1, <2>2
<1> QED
  BY <1>4, <1>5, <1>6, <1>7 DEF Mined

LEMMA OverInv ==
  ASSUME Over, pool' \in Pools, mine' \in Nat, mine' <= pool'.supply,
         share' \in Nat, mult' \in Nat \X (Nat \ {0})
  PROVE  IInv'
<1>1. /\ seen' \in [stock : Nat, stable : Nat, supply : Nat, lp : Nat, share : Nat]
      /\ quote' \in [lp : Nat, stock : Nat, stable : Nat, out : Nat, price : Nat]
      /\ order' \in [min : Nat, share : Nat]
  BY SMT DEF Over, NoReads, NoQuote, NoOrder
<1>2. TypeOK'
  BY <1>1 DEF Over, TypeOK
<1>3. Computed' /\ Fresh' /\ ShareKept' /\ OneRead'
  BY DEF Over, Computed, Fresh, ShareKept, OneRead, Swaps
<1> QED
  BY <1>2, <1>3 DEF IInv

-----------------------------------------------------------------------------
(* The steps of a call *)

LEMMA AskPoolInv ==
  ASSUME IInv, NEW o \in Adds \cup {"remove"}, NEW amount \in Nat, AskPool(o, amount)
  PROVE  IInv'
<1> USE DEF IInv
<1>1. o \notin Swaps /\ o # "none"
  BY DEF Adds, Swaps
<1>2. /\ seen'.supply = pool.supply
      /\ o = "remove" => seen'.lp = mine
      /\ pool.oneBlock => seen'.stock = pool.stock /\ seen'.stable = pool.stable
  BY DEF AskPool, NoReads
<1>3. seen' \in [stock : Nat, stable : Nat, supply : Nat, lp : Nat, share : Nat]
  <2> DEFINE lp == IF o = "remove" THEN mine ELSE 0
             x == IF pool.oneBlock THEN pool.stock ELSE 0
             y == IF pool.oneBlock THEN pool.stable ELSE 0
  <2>1. lp \in Nat /\ x \in Nat /\ y \in Nat /\ pool.supply \in Nat
    BY DEF TypeOK, Pools
  <2>2. seen' = [NoReads EXCEPT !.supply = pool.supply, !.lp = lp, !.stock = x, !.stable = y]
    BY DEF AskPool
  <2> HIDE DEF lp, x, y
  <2> QED
    BY <2>1, <2>2 DEF NoReads
<1>4. TypeOK'
  BY <1>3 DEF AskPool, TypeOK, Pools
<1>5. /\ pool.stock \in Nat /\ pool.stable \in Nat /\ pool.supply \in Nat
      /\ step' \in {"asked", "read"} /\ (step' = "read" <=> pool.oneBlock)
      /\ op' = o /\ UNCHANGED <<pool, mine, moves, traded>>
  BY DEF AskPool, TypeOK, Pools
<1>6. Computed' /\ Fresh' /\ OneRead'
  BY <1>1, <1>2, <1>5 DEF Computed, Fresh, OneRead
<1>7. ShareKept'
  <2>1. \A c \in Nat : c * pool.supply <= c * pool.supply
    BY <1>5, SMT
  <2> QED
    BY <1>2, <1>5, <2>1 DEF ShareKept, Same
<1> QED
  BY <1>4, <1>6, <1>7

LEMMA AskSwapInv ==
  ASSUME IInv, NEW o \in Swaps, NEW amount \in Nat, AskSwap(o, amount)
  PROVE  IInv'
<1> USE DEF IInv
<1>1. /\ o # "remove" /\ o # "none" /\ op' = o /\ step' = "asked" /\ seen'.share = share
      /\ UNCHANGED <<share, moves>>
  BY DEF AskSwap, Swaps, NoReads
<1>2. seen' \in [stock : Nat, stable : Nat, supply : Nat, lp : Nat, share : Nat]
  BY DEF AskSwap, NoReads, TypeOK
<1>3. TypeOK'
  BY <1>2 DEF AskSwap, TypeOK
<1>4. Computed' /\ Fresh' /\ OneRead' /\ ShareKept'
  BY <1>1 DEF Computed, Fresh, OneRead, ShareKept
<1> QED
  BY <1>3, <1>4

LEMMA ReadReservesInv ==
  ASSUME IInv, ReadReserves
  PROVE  IInv'
<1> USE DEF IInv
<1>1. /\ seen'.stock = pool.stock /\ seen'.stable = pool.stable
      /\ seen'.supply = seen.supply /\ seen'.lp = seen.lp /\ seen'.share = seen.share
      /\ seen' \in [stock : Nat, stable : Nat, supply : Nat, lp : Nat, share : Nat]
      /\ step = "asked" /\ step' = "read"
      /\ UNCHANGED <<pool, mine, share, mult, op, n, quote, order, moves, traded>>
  BY DEF ReadReserves, TypeOK, Pools
<1>2. TypeOK'
  BY <1>1 DEF TypeOK
<1>3. Computed' /\ Fresh' /\ OneRead'
  BY <1>1 DEF Computed, Fresh, OneRead
<1>4. ShareKept'
  <2>1. pool.supply \in Nat /\ \A c \in Nat : c * pool.supply <= c * pool.supply
    BY SMT DEF TypeOK, Pools
  <2>2. op = "remove" /\ Same => moves = 0 /\ seen.supply = pool.supply
    BY <1>1 DEF OneRead, Same, Fresh, Swaps
  <2>3. pool.stock \in Nat /\ pool.stable \in Nat
    BY DEF TypeOK, Pools
  <2> QED
    BY <1>1, <2>1, <2>2, <2>3 DEF ShareKept, Same
<1> QED
  BY <1>2, <1>3, <1>4

\* What a step that only tells a quote has to show.
LEMMA ToldInv ==
  ASSUME IInv, NEW q, Told(q), step = "read",
         q \in [lp : Nat, stock : Nat, stable : Nat, out : Nat, price : Nat],
         Computed', op \in Swaps => q.price = TokenPrice(seen.share, mult)
  PROVE  IInv'
<1> USE DEF IInv
<1>1. /\ quote' = q /\ step' = "quoted"
      /\ UNCHANGED <<pool, mine, share, mult, op, n, seen, order, moves, traded>>
  BY DEF Told
<1>2. TypeOK'
  BY <1>1 DEF TypeOK
<1>3. Fresh' /\ OneRead' /\ ShareKept'
  BY <1>1 DEF Fresh, OneRead, ShareKept, Same
<1> QED
  BY <1>2, <1>3

LEMMA AddQuoteInv ==
  ASSUME IInv, AddQuote
  PROVE  IInv'
<1> USE DEF IInv
<1> DEFINE q == [NoQuote EXCEPT !.lp = Minted, !.stock = QuotedStock(Minted, seen),
                                !.stable = QuotedStable(Minted, seen)]
<1>1. /\ step = "read" /\ op \in Adds /\ CanAdd /\ Minted > 0 /\ Told(q)
      /\ n \in Nat /\ seen.supply \in Nat \ {0} /\ seen.stock \in Nat
      /\ seen.stable \in Nat \ {0} /\ Scale \in Nat \ {0}
  BY PoolAssumption DEF AddQuote, TypeOK, CanAdd
<1>2. Minted \in Nat
  <2>1. n * Scale * seen.supply \in Nat
    BY <1>1, SMT
  <2> QED
    BY <1>1, <2>1, DivLemma DEF Minted, Affordable
<1>3. Minted * seen.stock \in Nat /\ Minted * seen.stable \in Nat
  BY <1>1, <1>2, SMT
<1>4. QuotedStock(Minted, seen) \in Nat /\ QuotedStable(Minted, seen) \in Nat
  BY <1>1, <1>3, CeilDivLemma DEF QuotedStock, QuotedStable
<1>5. /\ q \in [lp : Nat, stock : Nat, stable : Nat, out : Nat, price : Nat]
      /\ q.lp = Minted /\ q.stock = QuotedStock(q.lp, seen)
      /\ q.stable = QuotedStable(q.lp, seen)
  BY <1>2, <1>4 DEF NoQuote
<1>6. op # "remove" /\ op \notin Swaps
  BY <1>1 DEF Adds, Swaps
<1> HIDE DEF q
<1>7. Computed'
  BY <1>1, <1>5, <1>6 DEF Told, Computed, CanAdd, Minted
<1> QED
  BY <1>1, <1>5, <1>6, <1>7, ToldInv

LEMMA PositionInv ==
  ASSUME IInv, Position
  PROVE  IInv'
<1> USE DEF IInv
<1> DEFINE q == [NoQuote EXCEPT !.lp = seen.lp, !.stock = PositionStock(seen.lp, seen),
                                !.stable = PositionStable(seen.lp, seen)]
<1>1. /\ step = "read" /\ op = "remove" /\ Told(q) /\ seen.lp = mine
      /\ seen.supply \in Nat /\ seen.stock \in Nat /\ seen.stable \in Nat
      /\ seen.lp \in Nat /\ Scale \in Nat \ {0}
  BY PoolAssumption DEF Position, TypeOK, Computed
<1>2. seen.lp * seen.stock \in Nat /\ seen.lp * seen.stable \in Nat
  BY <1>1, SMT
<1>3. PositionStock(seen.lp, seen) \in Nat /\ PositionStable(seen.lp, seen) \in Nat
  BY <1>1, <1>2, DivLemma DEF PositionStock, PositionStable
<1>4. /\ q \in [lp : Nat, stock : Nat, stable : Nat, out : Nat, price : Nat]
      /\ q.lp = seen.lp /\ q.stock = PositionStock(q.lp, seen)
      /\ q.stable = PositionStable(q.lp, seen)
  BY <1>1, <1>3 DEF NoQuote
<1>5. op \notin Adds /\ op \notin Swaps
  BY <1>1 DEF Adds, Swaps
<1> HIDE DEF q
<1>6. Computed'
  BY <1>1, <1>4, <1>5 DEF Told, Computed
<1> QED
  BY <1>1, <1>4, <1>5, <1>6, ToldInv

LEMMA OracleQuoteInv ==
  ASSUME IInv, OracleQuote
  PROVE  IInv'
<1> USE DEF IInv
<1> DEFINE price == TokenPrice(seen.share, mult)
           q == [NoQuote EXCEPT !.out = Expected(price), !.price = price]
<1>1. /\ step = "read" /\ op \in Swaps /\ price > 0 /\ Expected(price) > 0 /\ Told(q)
      /\ seen.stock \in Nat /\ seen.stable \in Nat /\ n \in Nat
      /\ seen.share \in Nat /\ mult \in Nat \X (Nat \ {0})
  BY DEF OracleQuote, TypeOK
<1>2. price \in Nat \ {0}
  <2>1. price \in Nat
    BY <1>1, PriceType
  <2> HIDE DEF price
  <2> QED
    BY <1>1, <2>1, SMT
<1>3. Expected(price) \in Nat
  BY <1>1, <1>2, 0 \in Nat, OutType DEF Expected
<1> HIDE DEF price
<1>4. /\ q \in [lp : Nat, stock : Nat, stable : Nat, out : Nat, price : Nat]
      /\ q.price = price /\ q.out = Expected(price)
  BY <1>2, <1>3 DEF NoQuote
<1>5. op \notin Adds /\ op # "remove"
  BY <1>1 DEF Adds, Swaps
<1> HIDE DEF q
<1>6. Computed'
  BY <1>1, <1>4, <1>5 DEF Told, Computed, Expected
<1> QED
  BY <1>1, <1>4, <1>6, ToldInv DEF price

LEMMA SendInv ==
  ASSUME IInv, NEW bps \in Slippages, Send(bps)
  PROVE  IInv'
<1> USE DEF IInv
<1>1. /\ step = "quoted" /\ step' = "sent" /\ (op = "remove" => quote.lp > 0)
      /\ order' = IF op \in Swaps THEN [min |-> MinOut(quote.out, bps), share |-> share]
                  ELSE NoOrder
      /\ UNCHANGED <<pool, mine, share, mult, op, n, seen, quote, moves, traded>>
  BY DEF Send
<1>2. MinOut(quote.out, bps) \in Nat /\ MinOut(quote.out, bps) <= quote.out
  BY MinOutLemma DEF TypeOK
<1>3. order' \in [min : Nat, share : Nat]
  BY <1>1, <1>2 DEF TypeOK, NoOrder
<1>4. TypeOK'
  BY <1>1, <1>3 DEF TypeOK
<1>5. Computed'
  BY <1>1, <1>2 DEF Computed, CanAdd, Minted, Expected
<1>6. Fresh' /\ OneRead' /\ ShareKept'
  BY <1>1 DEF Fresh, OneRead, ShareKept, Same
<1> QED
  BY <1>4, <1>5, <1>6

-----------------------------------------------------------------------------
(* What the others do *)

\* What a step that leaves the call alone has to show.
LEMMA OthersInv ==
  ASSUME IInv, UNCHANGED <<op, step, n, seen, quote, order, mine>>,
         moves' \in Nat, step # "idle" => moves' # 0, traded' \in BOOLEAN,
         pool' \in Pools, mine <= pool'.supply, pool'.oneBlock = pool.oneBlock,
         share' \in Nat, mult' \in Nat \X (Nat \ {0}),
         ShareKept'
  PROVE  IInv'
<1> USE DEF IInv
<1>1. TypeOK'
  BY DEF TypeOK
<1>2. Computed' /\ OneRead'
  BY DEF Computed, OneRead, CanAdd, Minted, Expected
<1>3. Fresh'
  BY DEF Fresh
<1> QED
  BY <1>1, <1>2, <1>3

LEMMA DisturbsLemma ==
  ASSUME TypeOK, NEW trade \in BOOLEAN, Disturbs(trade)
  PROVE  /\ UNCHANGED <<op, step, n, seen, quote, order>>
         /\ moves' \in Nat /\ traded' \in BOOLEAN
         /\ step # "idle" => moves' # 0 /\ traded' = (traded \/ trade)
<1>1. moves \in Nat /\ \A m \in Nat : m + 1 \in Nat /\ m + 1 # 0
  BY SMT DEF TypeOK
<1>2. CASE step = "idle"
  BY <1>2 DEF Disturbs, TypeOK
<1>3. CASE step # "idle"
  BY <1>1, <1>3 DEF Disturbs, Moved, TypeOK
<1> QED
  BY <1>2, <1>3

LEMMA OthersAddInv ==
  ASSUME IInv, NEW lp \in Mints, OthersAdd(lp)
  PROVE  IInv'
<1> USE DEF IInv
<1>1. PICK x, y \in 0..MaxReserve : Takes(lp, x, y) /\ pool' = PoolAfter(x, y, lp)
  BY DEF OthersAdd
<1>2. /\ Disturbs(FALSE) /\ UNCHANGED <<mine, share, mult>> /\ pool.supply > 0
  BY DEF OthersAdd
<1>3. /\ pool \in Pools /\ mine \in Nat /\ mine <= pool.supply
      /\ pool.stock \in Nat /\ pool.stable \in Nat /\ pool.supply \in Nat \ {0}
      /\ lp \in Nat /\ x \in Nat /\ y \in Nat /\ Scale \in Nat
  BY <1>2, PoolAssumption, SMT DEF TypeOK, Pools
<1>4. x \in Int /\ y \in Int /\ lp \in Int /\ pool.stock + x >= 0
      /\ pool.stable + y * Scale >= 0 /\ pool.supply + lp >= 0
  BY <1>3, SMT
<1>5. /\ pool' \in Pools /\ pool'.oneBlock = pool.oneBlock
      /\ pool'.stock = pool.stock + x /\ pool'.stable = pool.stable + y * Scale
      /\ pool'.supply = pool.supply + lp
  BY <1>1, <1>3, <1>4, PoolAfterType
<1>6. mine <= pool'.supply
  BY <1>3, <1>5, SMT
<1>7. /\ UNCHANGED <<op, step, n, seen, quote, order>> /\ moves' \in Nat
      /\ traded' \in BOOLEAN /\ (step # "idle" => moves' # 0 /\ traded' = traded)
  BY <1>2, DisturbsLemma DEF TypeOK
<1>8. ShareKept'
  <2>1. seen.stock \in Nat /\ seen.stable \in Nat /\ seen.supply \in Nat /\ y * Scale \in Nat
    BY <1>3, SMT DEF TypeOK
  <2>2. x * pool.supply >= lp * pool.stock /\ (y * Scale) * pool.supply >= lp * pool.stable
    BY <1>1, SMT DEF Takes
  <2>3. /\ seen.stock * pool.supply <= pool.stock * seen.supply
             => seen.stock * (pool.supply + lp) <= (pool.stock + x) * seen.supply
        /\ seen.stable * pool.supply <= pool.stable * seen.supply
             => seen.stable * (pool.supply + lp) <= (pool.stable + y * Scale) * seen.supply
    BY <1>3, <2>1, <2>2, MintKeeps
  <2> QED
    BY <1>5, <1>7, <2>3 DEF ShareKept, Same
<1> QED
  BY <1>2, <1>5, <1>6, <1>7, <1>8, OthersInv DEF TypeOK

LEMMA OthersRemoveInv ==
  ASSUME IInv, NEW lp \in Mints, OthersRemove(lp)
  PROVE  IInv'
<1> USE DEF IInv
<1>1. PICK x \in 0..pool.stock, y \in 0..pool.stable :
        Pays(lp, x, y) /\ pool' = PoolAfter(-x, -y, -lp)
  BY DEF OthersRemove
<1>2. /\ Disturbs(FALSE) /\ UNCHANGED <<mine, share, mult>> /\ lp <= pool.supply - mine
  BY DEF OthersRemove
<1>3. /\ pool \in Pools /\ mine \in Nat /\ mine <= pool.supply
      /\ pool.stock \in Nat /\ pool.stable \in Nat /\ pool.supply \in Nat
      /\ lp \in Nat \ {0} /\ Scale \in Nat
  BY PoolAssumption DEF TypeOK, Pools
<1>4. x \in Nat /\ y \in Nat /\ lp <= pool.supply /\ pool.supply \in Nat \ {0}
  BY <1>2, <1>3, SMT
<1>5. pool' \in Pools /\ x <= pool.stock /\ y * Scale <= pool.stable
  BY <1>1, <1>3, <1>4, PaysRoom
<1>6. /\ -x \in Int /\ -y \in Int /\ -lp \in Int /\ pool.stock + -x >= 0
      /\ pool.stable + (-y) * Scale >= 0 /\ pool.supply + -lp >= 0
      /\ y * Scale \in Nat
  BY <1>3, <1>4, <1>5, SMT
<1>7. /\ pool'.oneBlock = pool.oneBlock
      /\ pool'.stock = pool.stock + -x /\ pool'.stable = pool.stable + (-y) * Scale
      /\ pool'.supply = pool.supply + -lp
  BY <1>1, <1>3, <1>6, PoolAfterType
<1>8. /\ pool'.stock = pool.stock - x /\ pool'.stable = pool.stable - y * Scale
      /\ pool'.supply = pool.supply - lp /\ mine <= pool'.supply
  BY <1>2, <1>3, <1>4, <1>7, SMT
<1>9. /\ UNCHANGED <<op, step, n, seen, quote, order>> /\ moves' \in Nat
      /\ traded' \in BOOLEAN /\ (step # "idle" => moves' # 0 /\ traded' = traded)
  BY <1>2, DisturbsLemma DEF TypeOK
<1>10. ShareKept'
  <2>1. seen.stock \in Nat /\ seen.stable \in Nat /\ seen.supply \in Nat
    BY DEF TypeOK
  <2>2. x * pool.supply <= lp * pool.stock /\ (y * Scale) * pool.supply <= lp * pool.stable
    BY <1>1, SMT DEF Pays
  <2>3. /\ seen.stock * pool.supply <= pool.stock * seen.supply
             => seen.stock * (pool.supply - lp) <= (pool.stock - x) * seen.supply
        /\ seen.stable * pool.supply <= pool.stable * seen.supply
             => seen.stable * (pool.supply - lp) <= (pool.stable - y * Scale) * seen.supply
    BY <1>3, <1>4, <1>5, <1>6, <2>1, <2>2, BurnKeeps
  <2> QED
    BY <1>7, <1>8, <1>9, <2>3 DEF ShareKept, Same
<1> QED
  BY <1>2, <1>5, <1>7, <1>8, <1>9, <1>10, OthersInv DEF TypeOK

LEMMA OthersTradeInv ==
  ASSUME IInv, NEW d \in Trades, OthersTrade(d)
  PROVE  IInv'
<1> USE DEF IInv
<1>1. /\ pool.stock + d[1] \in Nat /\ pool.stable + d[2] \in Nat
      /\ pool' = [pool EXCEPT !.stock = @ + d[1], !.stable = @ + d[2]]
      /\ Disturbs(TRUE) /\ UNCHANGED <<mine, share, mult>>
  <2>1. /\ pool.stock + d[1] \in 0..MaxReserve /\ pool.stable + d[2] \in 0..MaxReserve
        /\ MaxReserve \in Nat
    BY PoolAssumption DEF OthersTrade
  <2>2. \A r : r \in 0..MaxReserve => r \in Nat
    BY <2>1, SMT
  <2> QED
    BY <2>1, <2>2 DEF OthersTrade
<1>2. pool' \in Pools /\ pool'.oneBlock = pool.oneBlock /\ pool'.supply = pool.supply
  BY <1>1 DEF TypeOK, Pools
<1>3. /\ UNCHANGED <<op, step, n, seen, quote, order>> /\ moves' \in Nat
      /\ traded' \in BOOLEAN /\ (step # "idle" => moves' # 0 /\ traded' = TRUE)
  BY <1>1, DisturbsLemma DEF TypeOK
<1>4. ShareKept'
  BY <1>3 DEF ShareKept, Same
<1> QED
  BY <1>1, <1>2, <1>3, <1>4, OthersInv DEF TypeOK

LEMMA NewPriceInv ==
  ASSUME IInv, NEW price \in SharePrices, NewPrice(price)
  PROVE  IInv'
<1> USE DEF IInv
<1>1. /\ share' = price /\ price \in Nat
      /\ UNCHANGED <<pool, mine, mult, op, step, n, seen, quote, order, traded>>
  BY PoolAssumption DEF NewPrice
<1>2. moves' \in Nat /\ (step \notin {"idle", "sent"} => moves' # 0)
      /\ (moves' = 0 => moves = 0)
  <2>1. moves \in Nat /\ \A m \in Nat : m + 1 \in Nat /\ m + 1 # 0
    BY SMT DEF TypeOK
  <2> QED
    BY <2>1 DEF NewPrice, Moved
<1>3. TypeOK'
  BY <1>1, <1>2 DEF TypeOK
<1>4. Computed' /\ OneRead'
  BY <1>1 DEF Computed, OneRead, CanAdd, Minted, Expected
<1>5. Fresh'
  BY <1>1, <1>2 DEF Fresh
<1>6. ShareKept'
  BY <1>1, <1>2 DEF ShareKept, Same
<1> QED
  BY <1>3, <1>4, <1>5, <1>6

LEMMA SplitInv ==
  ASSUME IInv, NEW m \in Multipliers, Split(m)
  PROVE  IInv'
<1> USE DEF IInv
<1>1. mult' = m /\ m \in Nat \X (Nat \ {0}) /\ Disturbs(FALSE) /\ UNCHANGED <<pool, mine, share>>
  BY PoolAssumption DEF Split
<1>2. /\ UNCHANGED <<op, step, n, seen, quote, order>> /\ moves' \in Nat
      /\ traded' \in BOOLEAN /\ (step # "idle" => moves' # 0 /\ traded' = traded)
  BY <1>1, DisturbsLemma DEF TypeOK
<1>3. ShareKept'
  BY <1>1, <1>2 DEF ShareKept, Same
<1> QED
  BY <1>1, <1>2, <1>3, OthersInv DEF TypeOK

LEMMA NextInv ==
  ASSUME IInv, Next
  PROVE  IInv'
<1> Mints \subseteq Nat /\ Budgets \subseteq Nat /\ Buys \subseteq Nat /\ Sells \subseteq Nat
  BY PoolAssumption
<1>1. CASE Asks
  BY <1>1, 0 \in Nat, AskPoolInv, AskSwapInv DEF Asks, Adds, Swaps
<1>2. CASE RefuseQuote \/ GiveUp
  <2>1. Over /\ UNCHANGED <<pool, mine, share, mult>>
    BY <1>2 DEF RefuseQuote, GiveUp
  <2> QED
    BY <2>1, OverInv DEF IInv, TypeOK
<1>3. CASE Mined
  BY <1>3, MinedType, OverInv DEF IInv, TypeOK
<1>4. CASE \E bps \in Slippages : Send(bps)
  BY <1>4, SendInv
<1>5. CASE Others
  BY <1>5, OthersAddInv, OthersRemoveInv, OthersTradeInv, NewPriceInv, SplitInv DEF Others
<1> QED
  BY <1>1, <1>2, <1>3, <1>4, <1>5, ReadReservesInv, AddQuoteInv, PositionInv, OracleQuoteInv
  DEF Next, Client

LEMMA StutterInv == IInv /\ UNCHANGED vars => IInv'
BY DEF IInv, TypeOK, Computed, Fresh, ShareKept, OneRead, Same, vars, CanAdd, Minted, Expected

\* The invariant the theorems rest on.
THEOREM Invariance == Spec => []IInv
<1>1. IInv /\ [Next]_vars => IInv'
  BY NextInv, StutterInv
<1> QED
  BY InitInv, <1>1, PTL DEF Spec

-----------------------------------------------------------------------------
(* The theorems *)

\* The variables hold what handlers.py and the pool keep in them: no reserve, no
\* quote and no minimum is ever negative, and the wallet has no more LP tokens than
\* there are.
THEOREM TypeCorrect == Spec => []TypeOK
BY Invariance, PTL DEF IInv

\* An add sized by a dUSD budget (handlers.py:710-712) costs at most the budget,
\* after two roundings up, and is the largest one that does.
THEOREM AddCostsAtMostBudget == Spec => []BudgetKept
<1>1. IInv => BudgetKept
  <2> SUFFICES ASSUME IInv, step \in {"quoted", "sent"}, op = "spend"
               PROVE  quote.stable <= n /\ QuotedStable(quote.lp + 1, seen) > n
    BY DEF BudgetKept
  <2>1. /\ CanAdd /\ quote.lp = Affordable(n, seen)
        /\ quote.stable = QuotedStable(quote.lp, seen)
    BY DEF IInv, Computed, Adds, Minted
  <2>2. seen.stable \in Nat \ {0} /\ seen.supply \in Nat \ {0} /\ n \in Nat
    BY <2>1 DEF IInv, TypeOK, CanAdd
  <2>3. quote.lp = (n * Scale * seen.supply) \div seen.stable
    BY <2>1 DEF Affordable
  <2> QED
    BY <2>1, <2>2, <2>3, AffordableLemma DEF QuotedStable
<1> QED
  BY Invariance, <1>1, PTL

\* A quoted swap never promises what the reserve it is paid from does not hold
\* (handlers.py:1256-1284 refuses or charges it away), however the ratios round.
THEOREM PromiseIsInPool == Spec => []PromiseInPool
<1>1. IInv => PromiseInPool
  <2> SUFFICES ASSUME IInv, step \in {"quoted", "sent"}
               PROVE  /\ op = "buy" => quote.out < seen.stock
                      /\ op = "sell" /\ Sensitivity > 0 => quote.out * Scale < seen.stable
    BY DEF PromiseInPool
  <2> DEFINE price == quote.price
             b == BuyFeeRate(BuyGross(n, price), price, seen)
             r == SellFeeRate(n, price, seen)
  <2>1. /\ seen.stock \in Nat /\ seen.stable \in Nat /\ n \in Nat /\ quote.out \in Nat
        /\ price \in Nat /\ Wad \in Nat \ {0} /\ Scale \in Nat \ {0}
    BY PoolAssumption DEF IInv, TypeOK
  <2>2. op \in Swaps => price \in Nat \ {0} /\ quote.out > 0 /\ quote.out = Expected(price)
    BY DEF IInv, Computed, TypeOK
  <2>3. CASE op = "buy"
    <3>1. price \in Nat \ {0} /\ quote.out > 0 /\ quote.out = Net(BuyGross(n, price), b)
      BY <2>2, <2>3 DEF Swaps, Expected, BuyOut
    <3>2. BuyGross(n, price) \in Nat /\ b \in Nat
      BY <2>1, <3>1, OutType, RateType
    <3> HIDE DEF price
    <3>3. b # NoRate
      BY <3>1, <2>1, <3>2, SMT DEF NoRate, Net
    <3>4. BuyGross(n, price) < seen.stock
      BY <2>1, <3>1, <3>2, <3>3, BuyRoom
    <3>5. quote.out <= BuyGross(n, price)
      BY <3>1, <3>2, NetLemma
    <3> QED
      BY <2>1, <2>3, <3>2, <3>4, <3>5, SMT
  <2>4. CASE op = "sell" /\ Sensitivity > 0
    <3> DEFINE net == Net(SellGross(n, price), r)
    <3>1. price \in Nat \ {0} /\ quote.out > 0 /\ quote.out = net \div Scale
      BY <2>2, <2>4 DEF Swaps, Expected, SellOut
    <3>2. SellGross(n, price) \in Nat /\ r \in Nat
      BY <2>1, <3>1, 0 \in Nat, OutType, RateType
    <3>3. net \in Nat /\ net <= SellGross(n, price)
      BY <3>2, NetLemma
    <3>4. net = 0 => quote.out = 0
      BY <2>1, <3>1, SMT
    <3>5. r < Wad
      BY <2>1, <3>1, <3>2, <3>4, SMT DEF Net
    <3>6. r # NoRate
      BY <2>1, <3>2, <3>5, SMT DEF NoRate
    <3> HIDE DEF price, r
    <3>7. SellGross(n, price) < seen.stable
      BY <2>1, <2>4, <3>1, <3>5, <3>6, SellRoom DEF r
    <3>8. (net \div Scale) * Scale <= net
      BY <2>1, <3>3, DivLemma
    <3> HIDE DEF net
    <3> QED
      BY <2>1, <2>4, <3>1, <3>2, <3>3, <3>7, <3>8, SMT
  <2> QED
    BY <2>3, <2>4
<1> QED
  BY Invariance, <1>1, PTL

\* A transaction leaves "sent" only by being mined, as what it is.
LEMMA MinedCases ==
  ASSUME IInv, [Next]_vars, NEW o, MinedAs(o)
  PROVE  /\ o \in Adds => PoolMints
         /\ o = "remove" => PoolBurns
         /\ o = "buy" => PoolBuys
         /\ o = "sell" => PoolSells
<1>1. step = "sent" /\ op = o /\ step' = "idle"
  BY DEF MinedAs
<1>2. ~ UNCHANGED vars
  BY <1>1 DEF vars
<1>3. ~ Client
  BY <1>1 DEF Client, Asks, AskPool, AskSwap, ReadReserves, AddQuote, Position, OracleQuote,
              RefuseQuote, Send, GiveUp, Told
<1>4. ~ Others
  BY <1>1 DEF Others, OthersAdd, OthersRemove, OthersTrade, NewPrice, Split, Disturbs
<1>5. Mined
  BY <1>2, <1>3, <1>4 DEF Next
<1> QED
  BY <1>1, <1>5 DEF Mined, PoolMints, PoolBurns, PoolBuys, PoolSells, Adds

\* When nothing moved since its first read an add takes exactly what add_quote told
\* (handlers.py:709-725): the maxima it is sent with never make it revert.
THEOREM AddTakesItsQuote == Spec => AddQuotesHold
<1>1. IInv /\ [Next]_vars
        => ((MinedAs("mint") \/ MinedAs("spend")) /\ moves = 0
              => pool' = PoolAfter(quote.stock, quote.stable, quote.lp))
  <2> SUFFICES ASSUME IInv, [Next]_vars, NEW o \in Adds, MinedAs(o), moves = 0
               PROVE  pool' = PoolAfter(quote.stock, quote.stable, quote.lp)
    BY DEF Adds
  <2>1. PoolMints /\ step = "sent" /\ op = o /\ o \notin Swaps
    BY MinedCases DEF MinedAs, Adds, Swaps
  <2>2. /\ seen.stock = pool.stock /\ seen.stable = pool.stable /\ seen.supply = pool.supply
        /\ CanAdd /\ quote.stock = QuotedStock(quote.lp, seen)
        /\ quote.stable = QuotedStable(quote.lp, seen)
    BY <2>1 DEF IInv, Fresh, Computed
  <2>3. /\ quote.stock = QuotedStock(quote.lp, pool)
        /\ quote.stable = QuotedStable(quote.lp, pool)
    BY <2>2 DEF QuotedStock, QuotedStable
  <2>4. /\ pool \in Pools /\ pool.supply > 0 /\ pool.supply # 0
        /\ quote.lp \in Nat /\ MaxReserve \in Nat /\ quote.stock \in Nat /\ quote.stable \in Nat
    BY <2>2, PoolAssumption, SMT DEF IInv, TypeOK, CanAdd, Pools
  <2>5. PICK x, y \in 0..(2 * MaxReserve) :
          /\ Takes(quote.lp, x, y)
          /\ x <= quote.stock /\ y <= quote.stable
               => pool' = PoolAfter(x, y, quote.lp)
    BY <2>1, <2>4 DEF PoolMints
  <2>6. x \in Nat /\ y \in Nat
    BY <2>4, SMT
  <2>7. x = quote.stock /\ y = quote.stable
    BY <2>3, <2>4, <2>5, <2>6, TakesLemma
  <2>8. quote.stock <= quote.stock /\ quote.stable <= quote.stable
    BY <2>4, SMT
  <2> QED
    BY <2>5, <2>7, <2>8
<1> QED
  BY Invariance, <1>1, PTL DEF Spec, AddQuotesHold

LEMMA ShareRises ==
  ASSUME NEW r \in Nat, NEW S \in Nat \ {0}, NEW p \in Nat, NEW P \in Nat \ {0},
         NEW lp \in Nat, r * P <= p * S
  PROVE  /\ lp * r \in Nat /\ lp * p \in Nat
         /\ (lp * r) \div S <= (lp * p) \div P
<1> DEFINE q == (lp * r) \div S
<1>1. lp * r \in Nat /\ lp * p \in Nat
  BY SMT
<1>2. q \in Nat /\ q * S <= lp * r
  BY <1>1, DivLemma
<1> HIDE DEF q
<1>3. (q * S) * P <= (lp * r) * P /\ lp * (r * P) <= lp * (p * S)
  BY <1>2, SMT
<1>4. (q * P) * S <= (lp * p) * S
  BY <1>2, <1>3, SMT
<1>5. q * P <= lp * p
  BY <1>1, <1>2, <1>4, SMT
<1>6. q <= (lp * p) \div P
  BY <1>1, <1>2, <1>5, SMT
<1> QED
  BY <1>1, <1>6 DEF q

\* What _lp_position (handlers.py:889-909) shows is paid, to the unit at least,
\* whatever other LPs do meanwhile, unless somebody trades; read at two blocks,
\* only when nothing moved.
THEOREM PositionIsPaid == Spec => PositionsHold
<1>1. IInv /\ [Next]_vars
        => (MinedAs("remove") /\ ~traded /\ (pool.oneBlock \/ moves = 0)
              => /\ pool'.supply = pool.supply - quote.lp
                 /\ pool.stock - pool'.stock >= quote.stock
                 /\ pool.stable - pool'.stable >= quote.stable * Scale)
  <2> SUFFICES ASSUME IInv, [Next]_vars, MinedAs("remove"), Same
               PROVE  /\ pool'.supply = pool.supply - quote.lp
                      /\ pool.stock - pool'.stock >= quote.stock
                      /\ pool.stable - pool'.stable >= quote.stable * Scale
    BY DEF Same
  <2>1. PoolBurns /\ step = "sent" /\ op = "remove"
    BY MinedCases DEF MinedAs
  <2>2. /\ quote.lp > 0 /\ quote.lp = seen.lp /\ quote.lp = mine
        /\ quote.stock = PositionStock(quote.lp, seen)
        /\ quote.stable = PositionStable(quote.lp, seen)
    BY <2>1 DEF IInv, Computed
  <2>3. /\ pool \in Pools /\ mine <= pool.supply /\ mine \in Nat
        /\ pool.stock \in Nat /\ pool.stable \in Nat /\ pool.supply \in Nat
        /\ quote.lp \in Nat /\ quote.stock \in Nat /\ quote.stable \in Nat
        /\ seen.stock \in Nat /\ seen.stable \in Nat /\ seen.supply \in Nat
        /\ Scale \in Nat \ {0}
    BY PoolAssumption DEF IInv, TypeOK, Pools
  <2>4. quote.lp \in Nat \ {0} /\ quote.lp <= pool.supply /\ pool.supply \in Nat \ {0}
    BY <2>2, <2>3, SMT
  <2>5. PICK x \in 0..pool.stock, y \in 0..pool.stable :
          /\ Pays(quote.lp, x, y)
          /\ IF pool.bounds => x >= quote.stock /\ y >= quote.stable
             THEN pool' = PoolAfter(-x, -y, -quote.lp) ELSE Reverts
    BY <2>1 DEF PoolBurns
  <2>6. x \in Nat /\ y \in Nat
    BY <2>3, SMT
  <2>7. /\ x = (quote.lp * pool.stock) \div pool.supply
        /\ y = ((quote.lp * pool.stable) \div pool.supply) \div Scale
    <3>1. pool.supply > 0 /\ pool.supply # 0
      BY <2>4, SMT
    <3> QED
      BY <2>3, <2>5, <2>6, <3>1, PaysLemma DEF PositionStock, PositionStable
  <2>8. x >= quote.stock /\ y >= quote.stable
    <3>1. CASE seen.supply = 0
      BY <2>2, <2>6, <3>1, SMT DEF PositionStock, PositionStable
    <3>2. CASE seen.supply # 0
      <4>1. /\ seen.supply \in Nat \ {0}
            /\ seen.stock * pool.supply <= pool.stock * seen.supply
            /\ seen.stable * pool.supply <= pool.stable * seen.supply
        BY <2>1, <2>3, <3>2 DEF IInv, ShareKept
      <4>2. (quote.lp * seen.stock) \div seen.supply <= (quote.lp * pool.stock) \div pool.supply
        BY <2>3, <2>4, <4>1, ShareRises
      <4> DEFINE a == (quote.lp * seen.stable) \div seen.supply
                 b == (quote.lp * pool.stable) \div pool.supply
      <4>3. a <= b
        BY <2>3, <2>4, <4>1, ShareRises
      <4>4. quote.lp * seen.stable \in Nat /\ quote.lp * pool.stable \in Nat
        BY <2>3, <2>4, <4>1, ShareRises
      <4>5. a \in Nat /\ b \in Nat
        BY <2>4, <4>1, <4>4, DivLemma
      <4>6. a \div Scale <= b \div Scale
        BY <2>3, <4>3, <4>5, DivMonotone
      <4>7. /\ quote.stock = (quote.lp * seen.stock) \div seen.supply
            /\ quote.stable = a \div Scale
        BY <2>2, <3>2 DEF PositionStock, PositionStable
      <4>8. x >= quote.stock
        BY <2>7, <4>2, <4>7
      <4>9. y >= quote.stable
        BY <2>7, <4>6, <4>7
      <4> QED
        BY <4>8, <4>9
    <3> QED
      BY <3>1, <3>2
  <2>9. /\ pool' = PoolAfter(-x, -y, -quote.lp)
        /\ x <= pool.stock /\ y * Scale <= pool.stable
    BY <2>3, <2>4, <2>5, <2>6, <2>8, PaysRoom
  <2>10. /\ -x \in Int /\ -y \in Int /\ -quote.lp \in Int /\ pool.stock + -x >= 0
         /\ pool.stable + (-y) * Scale >= 0 /\ pool.supply + -quote.lp >= 0
    BY <2>3, <2>4, <2>6, <2>9, SMT
  <2>11. /\ pool'.stock = pool.stock + -x /\ pool'.stable = pool.stable + (-y) * Scale
         /\ pool'.supply = pool.supply + -quote.lp
    <3> DEFINE a == -x
               b == -y
               c == -quote.lp
    <3>1. /\ pool \in Pools /\ a \in Int /\ b \in Int /\ c \in Int /\ pool.stock + a >= 0
          /\ pool.stable + b * Scale >= 0 /\ pool.supply + c >= 0
      BY <2>3, <2>10
    <3> HIDE DEF a, b, c
    <3>2. /\ PoolAfter(a, b, c).stock = pool.stock + a
          /\ PoolAfter(a, b, c).stable = pool.stable + b * Scale
          /\ PoolAfter(a, b, c).supply = pool.supply + c
      BY <3>1, PoolAfterType
    <3> USE DEF a, b, c
    <3> QED
      BY <2>9, <3>2, Zenon
  <2>12. y * Scale >= quote.stable * Scale
    BY <2>3, <2>6, <2>8, SMT
  <2> QED
    BY <2>3, <2>6, <2>8, <2>11, <2>12, SMT
<1> QED
  BY Invariance, <1>1, PTL DEF Spec, PositionsHold

\* When nothing moved a swap is filled at expected_amount_out or better
\* (handlers.py:1343-1407), by every pool version that charges the whole trade's
\* rate or less.
THEOREM QuoteIsTheFloor == Spec => QuoteIsFloor
<1> DEFINE Bought == MinedAs("buy") => pool.stock - pool'.stock >= quote.out
           Sold == MinedAs("sell") /\ Sensitivity > 0
                     => pool.stable - pool'.stable >= quote.out * Scale
<1>1. IInv /\ [Next]_vars => (moves = 0 => Bought /\ Sold)
  <2> SUFFICES ASSUME IInv, [Next]_vars, moves = 0
               PROVE  Bought /\ Sold
    OBVIOUS
  <2> DEFINE price == quote.price
             gross == BuyGross(n, price)
  <2>1. /\ pool \in Pools /\ pool.stock \in Nat /\ pool.stable \in Nat /\ pool.supply \in Nat
        /\ seen.stock \in Nat /\ seen.stable \in Nat
        /\ n \in Nat /\ quote.out \in Nat /\ order.min \in Nat /\ price \in Nat
        /\ Wad \in Nat \ {0} /\ Scale \in Nat \ {0}
    BY PoolAssumption DEF IInv, TypeOK, Pools
  <2>2. step = "sent" /\ op \in Swaps
          => /\ price \in Nat \ {0} /\ price # 0 /\ quote.out > 0 /\ order.min <= quote.out
             /\ quote.out = Expected(price)
             /\ TokenPrice(order.share, mult) = price
             /\ seen.stock = pool.stock /\ seen.stable = pool.stable
    BY <2>1 DEF IInv, Computed, Fresh
  <2>4. ASSUME seen.stock = pool.stock, seen.stable = pool.stable, NEW x
        PROVE  /\ BuyFeeRate(x, price, seen) = BuyFeeRate(x, price, pool)
               /\ SellFeeRate(x, price, seen) = SellFeeRate(x, price, pool)
    BY <2>4 DEF BuyFeeRate, SellFeeRate, StocksRatio, Total, StockValue
  <2>5. ASSUME MinedAs("buy")
        PROVE  pool.stock - pool'.stock >= quote.out
    <3>1. PoolBuys /\ step = "sent" /\ op = "buy" /\ op \in Swaps
      BY <2>5, MinedCases DEF MinedAs, Swaps
    <3>2. price \in Nat \ {0} /\ gross \in Nat /\ BuyFeeRate(gross, price, pool) \in Nat
      BY <2>1, <2>2, <3>1, 0 \in Nat, OutType, RateType
    <3>3. quote.out = Net(gross, BuyFeeRate(gross, price, pool)) /\ quote.out > 0
      BY <2>2, <2>4, <3>1 DEF Expected, BuyOut
    <3>4. PICK size \in 0..gross :
            LET out == Net(gross, BuyFeeRate(size, price, pool)) IN Fills(out, -out, n)
      BY <2>2, <3>1 DEF PoolBuys
    <3> DEFINE full == BuyFeeRate(gross, price, pool)
               part == BuyFeeRate(size, price, pool)
               out == Net(gross, part)
    <3> HIDE DEF price, gross
    <3>5. full # NoRate
      BY <2>1, <3>2, <3>3, SMT DEF NoRate, Net
    <3>6. gross < pool.stock
      BY <2>1, <3>2, <3>5, BuyRoom
    <3>7. part \in 0..Wad /\ part <= full
      BY <2>1, <3>2, <3>5, BuyMonotone
    <3> HIDE DEF full, part
    <3>8. part \in Nat
      BY <2>1, <3>7, SMT
    <3>9. out \in Nat /\ out <= gross /\ quote.out <= out
      BY <3>2, <3>3, <3>7, <3>8, NetLemma DEF full
    <3> HIDE DEF out
    <3>10. /\ out >= order.min /\ out > 0 /\ pool.stock + -out >= 0 /\ -out \in Int
           /\ pool.stable + n * Scale >= 0 /\ pool.supply + 0 >= 0
      BY <2>1, <2>2, <3>1, <3>2, <3>3, <3>6, <3>9, SMT
    <3>11. pool' = PoolAfter(-out, n, 0)
      BY <3>4, <3>10 DEF Fills, out, part
    <3>12. pool'.stock = pool.stock + -out
      BY <2>1, <3>10, <3>11, PoolAfterType
    <3> QED
      BY <2>1, <3>9, <3>12, SMT
  <2>6. ASSUME MinedAs("sell"), Sensitivity > 0
        PROVE  pool.stable - pool'.stable >= quote.out * Scale
    <3>1. PoolSells /\ step = "sent" /\ op = "sell" /\ op # "buy" /\ op \in Swaps
      BY <2>6, MinedCases DEF MinedAs, Swaps
    <3>2. PICK size \in 0..n :
            LET out == Net(SellGross(n, price), SellFeeRate(size, price, pool)) \div Scale
            IN  Fills(out, n, -out)
      BY <2>2, <3>1 DEF PoolSells
    <3> DEFINE sold == SellGross(n, price)
               full == SellFeeRate(n, price, pool)
               part == SellFeeRate(size, price, pool)
               out == Net(sold, part) \div Scale
    <3>3. price \in Nat \ {0} /\ sold \in Nat /\ full \in Nat
      BY <2>1, <2>2, <3>1, 0 \in Nat, OutType, RateType
    <3>4. quote.out = Net(sold, full) \div Scale /\ quote.out > 0
      BY <2>2, <2>4, <3>1 DEF Expected, SellOut
    <3>5. Net(sold, full) \in Nat
      BY <3>3, NetLemma
    <3>6. full < Wad /\ full # NoRate
      <4>1. Net(sold, full) # 0
        BY <2>1, <3>4, <3>5, SMT
      <4> QED
        BY <2>1, <3>3, <4>1, SMT DEF Net, NoRate
    <3> HIDE DEF price
    <3>7. sold < pool.stable
      BY <2>1, <2>6, <3>3, <3>6, SellRoom
    <3>8. part \in 0..Wad /\ part <= full
      BY <2>1, <3>3, <3>6, SellMonotone
    <3> HIDE DEF full, part, sold
    <3>9. part \in Nat
      BY <2>1, <3>8, SMT
    <3>10. Net(sold, part) \in Nat /\ Net(sold, part) <= sold /\ Net(sold, full) <= Net(sold, part)
      BY <3>3, <3>8, <3>9, NetLemma
    <3>11. /\ out \in Nat /\ quote.out <= out /\ out * Scale <= Net(sold, part)
      BY <2>1, <3>4, <3>5, <3>10, DivLemma, DivMonotone
    <3> HIDE DEF out
    <3>12. out * Scale \in Nat /\ (-out) * Scale = -(out * Scale)
           /\ quote.out * Scale <= out * Scale
      BY <2>1, <3>11, SMT
    <3>13. /\ out >= order.min /\ out > 0 /\ pool.stock + n >= 0 /\ -out \in Int
           /\ pool.stable + (-out) * Scale >= 0 /\ pool.supply + 0 >= 0
      BY <2>1, <2>2, <3>1, <3>3, <3>4, <3>7, <3>10, <3>11, <3>12, SMT
    <3>14. pool' = PoolAfter(n, -out, 0)
      BY <3>2, <3>13 DEF Fills, out, part, sold
    <3>15. pool'.stable = pool.stable + (-out) * Scale
      BY <2>1, <3>13, <3>14, PoolAfterType
    <3> QED
      BY <2>1, <3>12, <3>15, SMT
  <2> QED
    BY <2>5, <2>6
<1> QED
  BY Invariance, <1>1, PTL DEF Spec, QuoteIsFloor
=============================================================================
