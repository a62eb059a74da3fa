--------------------------- MODULE PositionsProofs ---------------------------
(***************************************************************************)
(* Positions for any number of calls, ids, moves of others, and amounts,   *)
(* and for both orders of the tokens: what a call pays and takes is what   *)
(* its caller asked for, what it prepared is accepted, and a list is the   *)
(* wallet's positions.                                                     *)
(***************************************************************************)
EXTENDS Positions, FiniteSetTheorems, WellFoundedInduction, TLAPS

USE PositionsAssumption
USE DEF chainVars, historyVars

-----------------------------------------------------------------------------
(* The inductive invariant                                                 *)

(* Where a call of each kind may be, and what it holds there: the pool's   *)
(* token0 before it computes amounts with it, no ids before it lists them, *)
(* the first of two legs before it approves.                               *)
PlaceOf(c) ==
  /\ told[c] # "none" <=> pc[c] = "done"
  /\ pc[c] = "position" => op[c].kind = "increase"
  /\ pc[c] \in {"allowance", "approve"} => op[c].kind \in {"add", "increase"}
  /\ pc[c] = "preview" => op[c].kind = "preview"
  /\ pc[c] = "list" => op[c].kind = "list"
  /\ pc[c] = "send" => op[c].kind \notin {"preview", "list"}
  /\ \/ pc[c] \in {"allowance", "approve", "preview"}
     \/ pc[c] = "send" /\ op[c].kind # "collect"
     => local[c].first = order[1]
  /\ pc[c] \in {"idle", "begin"} => local[c].ids = <<>>
  /\ pc[c] \in {"idle", "begin", "position"} => local[c].leg = 1
  /\ op[c].kind = "burn" => op[c].floor = Nothing

(* The block before differs from the latest one in nothing else than what  *)
(* is among the changes a call is exposed to.                              *)
Seen(c) == Parts \ ({"allowance"} \union changed[c])
ViewsOf(c) ==
  pc[c] \notin {"idle", "done"} => \A p \in Seen(c) : ~Differs(p, before, chain, op[c].id)

(* What a call has read, or set, is still so unless something changed it:  *)
(* the owner, the liquidity, the allowances, the enumeration.              *)
OwnerOf(c) ==
  op[c].kind = "increase" /\ pc[c] \in {"position", "allowance", "approve", "send"} =>
    chain.owner[op[c].id] = Wallet \/ "owner" \in changed[c]

LiquidityOf(c) ==
  op[c].kind = "burn" /\ pc[c] = "send" =>
    chain.liquidity[op[c].id] = local[c].liquidity \/ "liquidity" \in changed[c]

Covers(c, s) == chain.allowance[s] >= op[c].want[s]
ApprovedOf(c) ==
  op[c].kind \in {"add", "increase"} /\ "allowance" \notin changed[c] =>
    /\ pc[c] = "send" \/ (pc[c] \in {"allowance", "approve"} /\ local[c].leg = 2)
         => Covers(c, order[1])
    /\ pc[c] = "send" => Covers(c, order[2])

HeldOf(c) ==
  op[c].kind = "list" /\ "held" \notin changed[c] /\ (pc[c] = "list" \/ told[c] = "ok") =>
    /\ local[c].count = Len(chain.held)
    /\ Len(local[c].ids) <= Len(chain.held)
    /\ told[c] = "ok" => Len(local[c].ids) = Len(chain.held)
    /\ \A j \in 1..Len(local[c].ids) : local[c].ids[j] = chain.held[j]

(* What a call that has returned did, and why it was refused.              *)
AskedOf(c) ==
  /\ Came(c, {"add", "increase"}) => \A s \in Sides : worth[c][s] <= op[c].want[s]
  /\ Came(c, {"add", "increase", "remove"}) => \A s \in Sides : worth[c][s] >= op[c].floor[s]
  /\ Came(c, {"preview"}) => local[c].answer = worth[c]
  /\ Came(c, {"add", "increase"}) => credited[c] = Wallet \/ "owner" \in changed[c]
AcceptedOf(c) ==
  /\ op[c].kind = "burn" /\ told[c] = "reverted" =>
       chain.owner[op[c].id] # Wallet \/ changed[c] \intersect {"owner", "liquidity"} # {}
  /\ told[c] = "unpaid" => "allowance" \in changed[c]

CallFits(c) ==
  /\ PlaceOf(c) /\ ViewsOf(c)
  /\ OwnerOf(c) /\ LiquidityOf(c) /\ ApprovedOf(c) /\ HeldOf(c)
  /\ AskedOf(c) /\ AcceptedOf(c)

(* Others never touch the wallet's allowances.                             *)
OursFits == ours \/ before.allowance = chain.allowance

IInv ==
  /\ TypeOK /\ Enumerated(chain) /\ OursFits
  /\ \A c \in Calls : CallFits(c)

-----------------------------------------------------------------------------
(* Amounts                                                                 *)

(* There are two sides, and they are the two tokens of the pool.           *)
LEMMA OrderFacts ==
  ASSUME TypeOK
  PROVE  /\ order[1] \in Sides /\ order[2] \in Sides /\ order[1] # order[2]
         /\ \A s \in Sides : s = order[1] \/ s = order[2]
BY DEF TypeOK, Sides

(* In token0 and token1, an amount is the side's that token is.            *)
LEMMA MapFacts ==
  ASSUME TypeOK, NEW a \in Pairs
  PROVE  /\ MapAmounts(order[1], a)[1] = a[order[1]]
         /\ MapAmounts(order[1], a)[2] = a[order[2]]
         /\ \A first \in Sides, j \in 1..2 : MapAmounts(first, a)[j] \in Nat
BY OrderFacts DEF MapAmounts, Sides, Pairs

(* The first leg is token0's, the second token1's.                         *)
LEMMA TokenFacts ==
  ASSUME TypeOK
  PROVE  /\ TokenAt(order[1], 1) = order[1] /\ TokenAt(order[1], 2) = order[2]
         /\ \A first \in Sides, leg \in 1..2 : TokenAt(first, leg) \in Sides
<1>1. ASSUME NEW first \in Sides
      PROVE  (CHOOSE s \in Sides : s # first) \in Sides /\ (CHOOSE s \in Sides : s # first) # first
  <2>1. \E s \in Sides : s # first
    BY DEF Sides
  <2> QED
    BY <2>1
<1> QED
  BY <1>1, OrderFacts DEF TokenAt

(* What some liquidity is worth.                                           *)
LEMMA ValueFacts ==
  ASSUME NEW k \in ChainStates, NEW l \in Nat
  PROVE  /\ Value(k, l) \in Pairs
         /\ \A s \in Sides : Value(k, l)[s] = l * k.price[s]
         /\ Value(k, 0) = Nothing
<1>1. k.price \in Pairs
  BY DEF ChainStates
<1>2. ASSUME NEW s \in Sides PROVE l * k.price[s] \in Nat /\ 0 * k.price[s] = 0
  BY <1>1 DEF Pairs
<1> QED
  BY <1>2 DEF Value, Nothing, Pairs

(* A set of naturals that is not empty has a least element ...             *)
LEMMA LeastNat ==
  ASSUME NEW T \in SUBSET Nat, T # {}
  PROVE  \E x \in T : \A y \in T : x <= y
<1>1. PICK x \in T : \A y \in T : ~(<<y, x>> \in OpToRel(<, Nat))
  BY NatLessThanWellFounded, WFMin
<1>2. \A y \in T : ~(y < x)
  BY <1>1 DEF OpToRel
<1> QED
  BY <1>2

(* ... and so has one that is bounded a greatest.                          *)
LEMMA GreatestNat ==
  ASSUME NEW n \in Nat, NEW T \in SUBSET (0..n), T # {}
  PROVE  \E x \in T : \A y \in T : y <= x
<1> DEFINE R == {m \in 0..n : n - m \in T}
<1>1. R \in SUBSET Nat /\ R # {}
  <2>1. PICK x \in T : TRUE
    OBVIOUS
  <2>2. n - x \in 0..n /\ n - (n - x) = x
    OBVIOUS
  <2>3. n - x \in R /\ R \in SUBSET Nat
    BY <2>1, <2>2
  <2> HIDE DEF R
  <2> QED
    BY <2>3
<1>2. PICK m \in R : \A y \in R : m <= y
  <2> HIDE DEF R
  <2> QED
    BY <1>1, LeastNat
<1>3. ASSUME NEW y \in T PROVE y <= n - m
  <2>1. n - y \in 0..n /\ n - (n - y) = y
    OBVIOUS
  <2>2. n - y \in R /\ m \in 0..n /\ y \in 0..n
    BY <2>1
  <2>3. m <= n - y
    BY <1>2, <2>2
  <2> QED
    BY <2>2, <2>3
<1>4. n - m \in T
  OBVIOUS
<1> QED
  BY <1>3, <1>4

(* The position manager takes no more than it is offered, of either token. *)
LEMMA BoughtFacts ==
  ASSUME TypeOK, NEW k \in ChainStates, NEW amounts, amounts[1] \in Nat, amounts[2] \in Nat
  PROVE  /\ Bought(k, amounts) \in Nat
         /\ \A j \in 1..2 : Value(k, Bought(k, amounts))[order[j]] <= amounts[j]
<1> DEFINE Fits(l) == \A j \in 1..2 : Value(k, l)[order[j]] <= amounts[j]
           fits == {l \in 0..(amounts[1] + amounts[2]) : Fits(l)}
<1>1. 0 \in fits
  BY ValueFacts, OrderFacts DEF Nothing
<1>2. \E l \in fits : \A m \in fits : m <= l
  <2>1. fits \in SUBSET (0..(amounts[1] + amounts[2])) /\ fits # {}
    BY <1>1
  <2>2. amounts[1] + amounts[2] \in Nat
    OBVIOUS
  <2> HIDE DEF fits
  <2> QED
    BY <2>1, <2>2, GreatestNat
<1>3. Bought(k, amounts) = CHOOSE l \in fits : \A m \in fits : m <= l
  BY DEF Bought
<1>4. Bought(k, amounts) \in fits
  <2> HIDE DEF fits
  <2> QED
    BY <1>2, <1>3
<1> QED
  BY <1>4

-----------------------------------------------------------------------------
(* The position manager                                                    *)

(* The fields of a state of the chain.                                     *)
LEMMA ChainFacts ==
  ASSUME NEW k \in ChainStates
  PROVE  /\ k.owner \in [Ids -> Owners] /\ k.held \in Seq(Ids) /\ k.next \in Nat
         /\ k.liquidity \in [Ids -> Nat] /\ k.owed \in [Ids -> Pairs]
         /\ k.allowance \in Pairs /\ k.price \in Prices /\ k.price \in Pairs
BY DEF ChainStates

(* Adding liquidity changes the liquidity and the allowances only.         *)
LEMMA AddedFacts ==
  ASSUME NEW k \in ChainStates, NEW i \in Ids, NEW l \in Nat, NEW a \in Pairs
  PROVE  /\ WithAdded(k, i, l, a) \in ChainStates
         /\ WithAdded(k, i, l, a).owner = k.owner /\ WithAdded(k, i, l, a).held = k.held
         /\ WithAdded(k, i, l, a).next = k.next /\ WithAdded(k, i, l, a).allowance = a
<1> DEFINE new == [k.liquidity EXCEPT ![i] = @ + l]
<1>1. new \in [Ids -> Nat]
  BY ChainFacts
<1>2. WithAdded(k, i, l, a) = [k EXCEPT !.liquidity = new, !.allowance = a]
  BY DEF WithAdded, ChainStates
<1> HIDE DEF new
<1>3. WithAdded(k, i, l, a) \in ChainStates
  BY <1>1, <1>2 DEF ChainStates
<1> QED
  BY <1>2, <1>3 DEF ChainStates

(* The elements of an enumeration, and its length.                         *)
LEMMA HeldFacts ==
  ASSUME NEW k \in ChainStates
  PROVE  /\ Len(k.held) \in Nat /\ DOMAIN k.held = 1..Len(k.held)
         /\ \A j \in 1..Len(k.held) : k.held[j] \in Ids
BY ChainFacts

(* An enumeration has each position of the wallet, once.                   *)
LEMMA EnumerationFacts ==
  ASSUME NEW k \in ChainStates, Enumerated(k)
  PROVE  /\ \A h : (\E j \in 1..Len(k.held) : k.held[j] = h) <=> h \in Ids /\ k.owner[h] = Wallet
         /\ \A j, m \in 1..Len(k.held) : k.held[j] = k.held[m] => j = m
BY HeldFacts DEF Enumerated

(* The last of the enumeration moves to where a position has left it: the  *)
(* others are there once still.                                            *)
LEMMA LeavesFacts ==
  ASSUME NEW k \in ChainStates, Enumerated(k), NEW i \in Ids, k.owner[i] = Wallet
  PROVE  /\ Leaves(k.held, i) \in Seq(Ids)
         /\ \A h : (\E j \in DOMAIN Leaves(k.held, i) : Leaves(k.held, i)[j] = h)
                     <=> h \in Ids /\ k.owner[h] = Wallet /\ h # i
         /\ \A j, m \in DOMAIN Leaves(k.held, i) :
              Leaves(k.held, i)[j] = Leaves(k.held, i)[m] => j = m
<1> DEFINE n == Len(k.held)
           at == CHOOSE j \in 1..n : k.held[j] = i
           new == [j \in 1..(n - 1) |-> IF j = at THEN k.held[n] ELSE k.held[j]]
<1>1. n \in Nat /\ DOMAIN k.held = 1..n /\ \A j \in 1..n : k.held[j] \in Ids
  BY HeldFacts
<1>2. /\ \A h : (\E j \in 1..n : k.held[j] = h) <=> h \in Ids /\ k.owner[h] = Wallet
      /\ \A j, m \in 1..n : k.held[j] = k.held[m] => j = m
  BY EnumerationFacts
<1>3. at \in 1..n /\ k.held[at] = i
  <2>1. \E j \in 1..n : k.held[j] = i
    BY <1>2
  <2> QED
    BY <2>1
<1>4. Leaves(k.held, i) = new
  BY DEF Leaves
<1> HIDE DEF n, at
<1>5. n - 1 \in Nat /\ new \in Seq(Ids) /\ DOMAIN new = 1..(n - 1)
  <2>1. n - 1 \in Nat
    BY <1>1, <1>3
  <2>2. \A j \in 1..(n - 1) : (IF j = at THEN k.held[n] ELSE k.held[j]) \in Ids
    BY <1>1, <1>3
  <2> QED
    BY <2>1, <2>2
<1>6. \A j \in 1..(n - 1) : j # n /\ j \in 1..n /\ new[j] = IF j = at THEN k.held[n] ELSE k.held[j]
  BY <1>1
<1> HIDE DEF new
<1>7. ASSUME NEW j \in 1..(n - 1), NEW m \in 1..(n - 1), new[j] = new[m]
      PROVE  j = m
  BY <1>1, <1>2, <1>3, <1>6, <1>7
<1>8. ASSUME NEW j \in 1..(n - 1)
      PROVE  new[j] \in Ids /\ k.owner[new[j]] = Wallet /\ new[j] # i
  <2>1. \E m \in 1..n : new[j] = k.held[m] /\ m # at
    BY <1>1, <1>3, <1>6
  <2> QED
    BY <1>2, <1>3, <2>1
<1>9. ASSUME NEW h \in Ids, k.owner[h] = Wallet, h # i
      PROVE  \E j \in 1..(n - 1) : new[j] = h
  <2>1. PICK m \in 1..n : k.held[m] = h
    BY <1>2, <1>9
  <2>2. m # at
    BY <2>1, <1>3, <1>9
  <2>3. CASE m = n
    <3>1. at \in 1..(n - 1)
      BY <1>1, <1>3, <2>2, <2>3
    <3> QED
      BY <3>1, <2>1, <2>3, <1>6
  <2>4. CASE m # n
    <3>1. m \in 1..(n - 1)
      BY <1>1, <2>4
    <3> QED
      BY <3>1, <2>1, <2>2, <1>6
  <2> QED
    BY <2>3, <2>4
<1>10. \A h : (\E j \in 1..(n - 1) : new[j] = h) <=> h \in Ids /\ k.owner[h] = Wallet /\ h # i
  BY <1>8, <1>9
<1>11. \A j, m \in 1..(n - 1) : new[j] = new[m] => j = m
  BY <1>7
<1> QED
  BY <1>4, <1>5, <1>10, <1>11

(* A position that leaves the wallet leaves the enumeration.               *)
LEMMA LeavesEnumerated ==
  ASSUME NEW k \in ChainStates, NEW k2 \in ChainStates, Enumerated(k), NEW i \in Ids,
         NEW o \in Owners, k.owner[i] = Wallet, o # Wallet,
         k2.held = Leaves(k.held, i), k2.owner = [k.owner EXCEPT ![i] = o], k2.next = k.next
  PROVE  Enumerated(k2)
<1> DEFINE new == Leaves(k.held, i)
<1>0. /\ \A h : (\E j \in DOMAIN new : new[j] = h) <=> h \in Ids /\ k.owner[h] = Wallet /\ h # i
      /\ \A j, m \in DOMAIN new : new[j] = new[m] => j = m
  BY LeavesFacts
<1>h. k2.held = new
  OBVIOUS
<1> HIDE DEF new
<1>o. \A h \in Ids : k2.owner[h] = Wallet <=> k.owner[h] = Wallet /\ h # i
  BY ChainFacts
<1>1. \A h : (\E j \in DOMAIN k2.held : k2.held[j] = h) <=> h \in Ids /\ k2.owner[h] = Wallet
  BY <1>0, <1>h, <1>o
<1>2. \A j, m \in DOMAIN k2.held : k2.held[j] = k2.held[m] => j = m
  BY <1>0, <1>h
<1>3. \A h \in Ids : h >= k2.next => k2.owner[h] = NoOne
  BY ChainFacts DEF Enumerated
<1> QED
  BY <1>1, <1>2, <1>3 DEF Enumerated

(* A position that comes to the wallet is appended to it.                  *)
LEMMA JoinsEnumerated ==
  ASSUME NEW k \in ChainStates, NEW k2 \in ChainStates, Enumerated(k), NEW i \in Ids,
         k.owner[i] # Wallet, k2.held = Append(k.held, i),
         k2.owner = [k.owner EXCEPT ![i] = Wallet],
         \/ k2.next = k.next /\ k.owner[i] # NoOne
         \/ k2.next = k.next + 1 /\ i = k.next
  PROVE  Enumerated(k2)
<1> DEFINE n == Len(k.held)
<1>1. n \in Nat /\ DOMAIN k.held = 1..n /\ \A j \in 1..n : k.held[j] \in Ids
  BY HeldFacts
<1>2. /\ \A h : (\E j \in 1..n : k.held[j] = h) <=> h \in Ids /\ k.owner[h] = Wallet
      /\ \A j, m \in 1..n : k.held[j] = k.held[m] => j = m
  BY EnumerationFacts
<1>3. /\ DOMAIN k2.held = 1..(n + 1) /\ k2.held[n + 1] = i
      /\ \A j \in 1..n : k2.held[j] = k.held[j]
  BY ChainFacts, <1>1
<1>4. \A j \in 1..(n + 1) : j \in 1..n \/ j = n + 1
  BY <1>1
<1>5. \A j \in 1..n : k.held[j] # i
  BY <1>2
<1> HIDE DEF n
<1>6. ASSUME NEW h
      PROVE  (\E j \in 1..(n + 1) : k2.held[j] = h) <=> h \in Ids /\ k2.owner[h] = Wallet
  <2>2. h \in Ids => (k2.owner[h] = Wallet <=> h = i \/ k.owner[h] = Wallet)
    BY ChainFacts
  <2>3. 1..n \subseteq 1..(n + 1) /\ n + 1 \in 1..(n + 1)
    BY <1>1
  <2> QED
    BY <2>2, <2>3, <1>1, <1>2, <1>3, <1>4
<1>7. \A j, m \in 1..(n + 1) : k2.held[j] = k2.held[m] => j = m
  <2>1. ASSUME NEW j \in 1..(n + 1), NEW m \in 1..(n + 1), k2.held[j] = k2.held[m], j # m
        PROVE  FALSE
    <3>1. CASE j = n + 1
      BY <3>1, <2>1, <1>3, <1>4, <1>5
    <3>2. CASE m = n + 1
      BY <3>2, <2>1, <1>3, <1>4, <1>5
    <3>3. CASE j \in 1..n /\ m \in 1..n
      BY <3>3, <2>1, <1>2, <1>3
    <3> QED
      BY <3>1, <3>2, <3>3, <1>4
  <2> QED
    BY <2>1
<1>8. \A h \in Ids : h >= k2.next => k2.owner[h] = NoOne
  BY ChainFacts DEF Enumerated
<1>9. {k2.held[j] : j \in DOMAIN k2.held} = {h \in Ids : k2.owner[h] = Wallet}
  <2>1. ASSUME NEW h
        PROVE  h \in {k2.held[j] : j \in 1..(n + 1)} <=> h \in {g \in Ids : k2.owner[g] = Wallet}
    <3>1. h \in {k2.held[j] : j \in 1..(n + 1)} <=> \E j \in 1..(n + 1) : k2.held[j] = h
      OBVIOUS
    <3> QED
      BY <1>6, <3>1
  <2> QED
    BY <2>1, <1>3
<1>10. \A j, m \in DOMAIN k2.held : k2.held[j] = k2.held[m] => j = m
  BY <1>3, <1>7
<1> QED
  BY <1>8, <1>9, <1>10 DEF Enumerated

(* The calls of a multicall move liquidity to what is owed, what is owed   *)
(* to the owner, and a burnt position out of the enumeration.              *)
LEMMA AfterFacts ==
  ASSUME NEW k \in ChainStates, Enumerated(k), NEW i \in Ids, NEW l \in Nat, NEW steps,
         NEW floors, Takes(k, i, steps, l, floors)
  PROVE  /\ AfterSteps(k, i, steps, l) \in ChainStates
         /\ Enumerated(AfterSteps(k, i, steps, l))
         /\ AfterSteps(k, i, steps, l).allowance = k.allowance
<1> DEFINE left == IF "decrease" \in steps THEN k.liquidity[i] - l ELSE k.liquidity[i]
           credit == [s \in Sides |-> IF "collect" \in steps THEN 0
                                      ELSE k.owed[i][s] + (k.liquidity[i] - left) * k.price[s]]
           burnt == "burn" \in steps
           liquidity == [k.liquidity EXCEPT ![i] = left]
           owed == [k.owed EXCEPT ![i] = credit]
           owner == [k.owner EXCEPT ![i] = IF burnt THEN NoOne ELSE k.owner[i]]
           held == IF burnt THEN Leaves(k.held, i) ELSE k.held
           after == AfterSteps(k, i, steps, l)
<1>1. k.liquidity[i] \in Nat /\ k.owner[i] = Wallet
  BY ChainFacts DEF Takes
<1>2. left \in Nat /\ k.liquidity[i] - left \in Nat
  <2>1. "decrease" \in steps => l <= k.liquidity[i]
    BY DEF Takes
  <2> QED
    BY <1>1, <2>1
<1>3. after = [k EXCEPT !.liquidity = liquidity, !.owed = owed, !.owner = owner, !.held = held]
  BY DEF AfterSteps, ChainStates
<1> HIDE DEF left
<1>4. credit \in Pairs
  <2>1. ASSUME NEW s \in Sides
        PROVE  k.owed[i][s] \in Nat /\ (k.liquidity[i] - left) * k.price[s] \in Nat
    <3>1. k.owed[i] \in Pairs /\ k.price[s] \in Nat
      BY ChainFacts DEF Pairs
    <3> QED
      BY <3>1, <1>2 DEF Pairs
  <2> QED
    BY <2>1 DEF Pairs
<1> HIDE DEF credit
<1>5. liquidity \in [Ids -> Nat] /\ owed \in [Ids -> Pairs] /\ owner \in [Ids -> Owners]
  BY <1>2, <1>4, ChainFacts DEF Owners
<1>6. held \in Seq(Ids)
  BY <1>1, LeavesFacts, ChainFacts
<1> HIDE DEF liquidity, owed, owner, held, after
<1>7. after \in ChainStates /\ after.allowance = k.allowance
  BY <1>3, <1>5, <1>6 DEF ChainStates
<1>8. after.owner = owner /\ after.held = held /\ after.next = k.next
  BY <1>3 DEF ChainStates
<1>9. Enumerated(after)
  <2>1. CASE burnt
    <3>1. after.owner = [k.owner EXCEPT ![i] = NoOne] /\ after.held = Leaves(k.held, i)
      BY <1>8, <2>1 DEF owner, held
    <3> QED
      BY <3>1, <1>1, <1>7, <1>8, LeavesEnumerated DEF Owners
  <2>2. CASE ~burnt
    <3>1. after.owner = k.owner /\ after.held = k.held
      BY <1>8, <2>2, ChainFacts DEF owner, held
    <3> QED
      BY <3>1, <1>8 DEF Enumerated
  <2> QED
    BY <2>1, <2>2
<1> QED
  BY <1>7, <1>9 DEF after

-----------------------------------------------------------------------------
(* Type correctness                                                        *)

OpType == [kind : Kinds, id : Ids, want : Pairs, floor : Pairs, part : Nat]
Places == {"idle", "begin", "position", "allowance", "approve", "send", "preview", "list", "done"}
Outcomes == {"none", "ok", "refused", "reverted", "unpaid", "failed"}

(* No amount, of either side, is an amount.                                *)
LEMMA NothingFacts == Nothing \in Pairs
BY DEF Nothing, Pairs

(* What a call can be asked to do; a burn has no minimum.                  *)
LEMMA OpsFacts ==
  ASSUME NEW o \in Ops
  PROVE  o \in OpType /\ (o.kind = "burn" => o.floor = Nothing)
BY NothingFacts DEF Ops, Op, OpType, Kinds

(* The fields of a call, and what it makes of them.                        *)
LEMMA CallFacts ==
  ASSUME TypeOK, NEW c \in Calls
  PROVE  /\ op[c].kind \in Kinds /\ op[c].id \in Ids /\ op[c].want \in Pairs
         /\ op[c].floor \in Pairs /\ op[c].part \in Nat
         /\ local[c].first \in Sides /\ local[c].liquidity \in Nat /\ local[c].count \in Nat
         /\ local[c].ids \in Seq(Ids) /\ local[c].leg \in 1..2 /\ local[c].answer \in Pairs
         /\ \A j \in 1..2 : Amounts(c)[j] \in Nat /\ AmountsMin(c)[j] \in Nat
         /\ TokenNow(c) \in Sides /\ Share(c) \in Nat
<1>1. /\ op[c].kind \in Kinds /\ op[c].id \in Ids /\ op[c].want \in Pairs
      /\ op[c].floor \in Pairs /\ op[c].part \in Nat
      /\ local[c].first \in Sides /\ local[c].liquidity \in Nat /\ local[c].count \in Nat
      /\ local[c].ids \in Seq(Ids) /\ local[c].leg \in 1..2 /\ local[c].answer \in Pairs
  BY DEF TypeOK
<1>2. \A j \in 1..2 : Amounts(c)[j] \in Nat /\ AmountsMin(c)[j] \in Nat
  BY <1>1, MapFacts DEF Amounts, AmountsMin
<1>3. TokenNow(c) \in Sides /\ Share(c) \in Nat
  BY <1>1, TokenFacts DEF TokenNow, Leg, Share
<1> QED
  BY <1>1, <1>2, <1>3

(* A read is answered from a state of the chain.                           *)
LEMMA ViewFacts ==
  ASSUME TypeOK
  PROVE  Views \subseteq ChainStates /\ Simulated \subseteq ChainStates
BY DEF TypeOK, Views, Simulated

LocalType == [first : Sides, liquidity : Nat, count : Nat, ids : Seq(Ids), leg : 1..2,
              answer : Pairs]

(* What a step of a call leaves alone, it leaves with its type; what it    *)
(* writes has it again.                                                    *)
LEMMA WriteFacts ==
  ASSUME TypeOK, NEW c \in Calls
  PROVE  /\ \A step \in Places : Goto(c, step) => pc' \in [Calls -> Places]
         /\ \A what \in Outcomes : Return(c, what) =>
              pc' \in [Calls -> Places] /\ told' \in [Calls -> Outcomes]
<1>1. pc \in [Calls -> Places] /\ told \in [Calls -> Outcomes]
  BY DEF TypeOK, Places, Outcomes
<1>2. ASSUME NEW step \in Places, Goto(c, step) PROVE pc' \in [Calls -> Places]
  BY <1>1, <1>2 DEF Goto
<1>3. ASSUME NEW what \in Outcomes, Return(c, what)
      PROVE  pc' \in [Calls -> Places] /\ told' \in [Calls -> Outcomes]
  <2>1. "done" \in Places /\ Goto(c, "done") /\ told' = [told EXCEPT ![c] = what]
    BY <1>3 DEF Return, Places
  <2> QED
    BY <2>1, <1>1, <1>2
<1> QED
  BY <1>2, <1>3

(* What a call learns of the kind its field holds.                         *)
LEMMA LearnFacts ==
  ASSUME TypeOK, NEW c \in Calls
  PROVE  /\ \A v \in Sides : Learn(c, "first", v) => local' \in [Calls -> LocalType]
         /\ \A v \in Nat : Learn(c, "count", v) => local' \in [Calls -> LocalType]
         /\ \A v \in Seq(Ids) : Learn(c, "ids", v) => local' \in [Calls -> LocalType]
         /\ \A v \in 1..2 : Learn(c, "leg", v) => local' \in [Calls -> LocalType]
         /\ \A v \in Pairs : Learn(c, "answer", v) => local' \in [Calls -> LocalType]
<1>1. local \in [Calls -> LocalType] /\ local[c] \in LocalType
  BY DEF TypeOK, LocalType
<1>2. ASSUME NEW field, NEW v, Learn(c, field, v), [local[c] EXCEPT ![field] = v] \in LocalType
      PROVE  local' \in [Calls -> LocalType]
  BY <1>1, <1>2 DEF Learn
<1>3. /\ \A v \in Sides : [local[c] EXCEPT !["first"] = v] \in LocalType
      /\ \A v \in Nat : [local[c] EXCEPT !["count"] = v] \in LocalType
      /\ \A v \in Seq(Ids) : [local[c] EXCEPT !["ids"] = v] \in LocalType
      /\ \A v \in 1..2 : [local[c] EXCEPT !["leg"] = v] \in LocalType
      /\ \A v \in Pairs : [local[c] EXCEPT !["answer"] = v] \in LocalType
  BY <1>1 DEF LocalType
<1> QED
  BY <1>2, <1>3

(* A block that leaves a state of the chain keeps the types.               *)
LEMMA BlockFacts ==
  ASSUME TypeOK, NEW k \in ChainStates, NEW mine \in BOOLEAN, NEW others, Block(k, mine, others)
  PROVE  /\ chain' \in ChainStates /\ before' \in ChainStates /\ ours' \in BOOLEAN
         /\ changed' \in [Calls -> SUBSET Parts]
<1>1. ASSUME NEW c \in Calls
      PROVE  (IF c \in others /\ pc[c] # "idle"
              THEN changed[c] \union {p \in Parts : Differs(p, chain, k, op[c].id)}
              ELSE changed[c]) \in SUBSET Parts
  BY DEF TypeOK
<1> QED
  BY <1>1 DEF TypeOK, Block

(* TypeOK, part by part.                                                   *)
TypesOf ==
  /\ order' \in [1..2 -> Sides] /\ order'[1] # order'[2]
  /\ chain' \in ChainStates /\ before' \in ChainStates /\ ours' \in BOOLEAN
  /\ pc' \in [Calls -> Places] /\ op' \in [Calls -> OpType]
  /\ local' \in [Calls -> LocalType]
  /\ told' \in [Calls -> Outcomes] /\ worth' \in [Calls -> Pairs]
  /\ credited' \in [Calls -> Owners] /\ changed' \in [Calls -> SUBSET Parts]
  /\ moves' \in 0..MaxMoves

(* The parts together are the type invariant in the next state.            *)
LEMMA TypeParts == TypesOf => TypeOK'
BY DEF TypesOf, TypeOK, Places, OpType, Outcomes, LocalType

(* The next leg of an approval.                                            *)
LEMMA OnwardsTypes ==
  ASSUME TypeOK, NEW c \in Calls, Onwards(c)
  PROVE  pc' \in [Calls -> Places] /\ local' \in [Calls -> LocalType]
<1>1. "allowance" \in Places /\ "send" \in Places /\ 2 \in 1..2
  BY DEF Places
<1>2. UNCHANGED local => local' \in [Calls -> LocalType]
  BY DEF TypeOK, LocalType
<1> QED
  BY <1>1, <1>2, WriteFacts, LearnFacts DEF Onwards

(* Every step of a call has the types of its variables again.              *)
LEMMA ReadingTypes ==
  ASSUME TypeOK, NEW c \in Calls, Reading(c)
  PROVE  TypeOK'
<1> USE DEF TypesOf, Places, OpType, Outcomes, LocalType
<1>1. CASE Begin(c)
  <2>1. PICK o \in Ops : op' = [op EXCEPT ![c] = o]
                         /\ changed' = [changed EXCEPT ![c] =
                              {p \in Parts \ {"allowance"} : Differs(p, before, chain, o.id)}]
    BY <1>1 DEF Begin
  <2>2. op' \in [Calls -> OpType]
    BY <2>1, OpsFacts DEF TypeOK
  <2>3. changed' \in [Calls -> SUBSET Parts]
    BY <2>1 DEF TypeOK
  <2> QED
    BY <1>1, <2>2, <2>3, WriteFacts, TypeParts DEF TypeOK, Begin
<1>2. CASE NotMinted(c) \/ NotConfigured(c) \/ NoPool(c)
  BY <1>2, WriteFacts, TypeParts DEF TypeOK, NotMinted, NotConfigured, NoPool, Refused
<1>3. CASE ReadPool(c)
  <2>1. local' \in [Calls -> LocalType]
    BY <1>3, LearnFacts, OrderFacts DEF ReadPool
  <2> QED
    BY <1>3, <2>1, WriteFacts, TypeParts DEF TypeOK, ReadPool
<1>4. CASE ReadOwner(c)
  <2>1. pc' \in [Calls -> Places] /\ told' \in [Calls -> Outcomes]
    BY <1>4, WriteFacts DEF TypeOK, ReadOwner
  <2> QED
    BY <1>4, <2>1, TypeParts DEF TypeOK, ReadOwner
<1>5. CASE ReadPosition(c)
  <2>1. PICK k \in Views :
          IF k.owner[op[c].id] = NoOne
          THEN Return(c, "refused") /\ UNCHANGED local
          ELSE /\ local' = [local EXCEPT ![c] =
                    [@ EXCEPT !.first = order[1], !.liquidity = k.liquidity[op[c].id]]]
               /\ Goto(c, CASE op[c].kind = "increase" -> "allowance"
                            [] op[c].kind = "preview" -> "preview"
                            [] OTHER -> "send")
               /\ UNCHANGED told
    BY <1>5 DEF ReadPosition
  <2>2. k.liquidity[op[c].id] \in Nat
    BY <2>1, ViewFacts, ChainFacts, CallFacts
  <2>3. pc' \in [Calls -> Places] /\ told' \in [Calls -> Outcomes]
    BY <2>1, WriteFacts DEF TypeOK
  <2>4. local' \in [Calls -> LocalType]
    <3>1. local[c] \in LocalType /\ local \in [Calls -> LocalType]
      BY DEF TypeOK
    <3>2. [local[c] EXCEPT !.first = order[1], !.liquidity = k.liquidity[op[c].id]] \in LocalType
      BY <3>1, <2>2, OrderFacts
    <3> HIDE DEF LocalType
    <3> QED
      BY <2>1, <3>1, <3>2
  <2> QED
    BY <1>5, <2>3, <2>4, TypeParts DEF TypeOK, ReadPosition
<1>6. CASE Preview(c)
  <2>1. PICK k \in Views :
          IF k.owner[op[c].id] = Wallet
          THEN /\ Learn(c, "answer", SidesOf(local[c].first,
                          <<k.owed[op[c].id][order[1]], k.owed[op[c].id][order[2]]>>))
               /\ worth' = [worth EXCEPT ![c] = k.owed[op[c].id]]
               /\ Return(c, "ok")
          ELSE Return(c, "reverted") /\ UNCHANGED <<local, worth>>
    BY <1>6 DEF Preview
  <2>2. k.owed[op[c].id] \in Pairs
    BY <2>1, ViewFacts, ChainFacts, CallFacts
  <2>3. SidesOf(local[c].first,
                <<k.owed[op[c].id][order[1]], k.owed[op[c].id][order[2]]>>) \in Pairs
    BY <2>2, CallFacts, OrderFacts DEF SidesOf, Pairs, Sides
  <2>4. pc' \in [Calls -> Places] /\ told' \in [Calls -> Outcomes]
    BY <2>1, WriteFacts DEF TypeOK
  <2>5. local' \in [Calls -> LocalType]
    BY <2>1, <2>3, LearnFacts DEF TypeOK
  <2>6. worth' \in [Calls -> Pairs]
    BY <2>1, <2>2 DEF TypeOK
  <2> QED
    BY <1>6, <2>4, <2>5, <2>6, TypeParts DEF TypeOK, Preview
<1>7. CASE ReadCount(c)
  <2>1. PICK k \in Views : Learn(c, "count", Len(k.held))
    BY <1>7 DEF ReadCount
  <2>2. Len(k.held) \in Nat
    BY <2>1, ViewFacts, HeldFacts
  <2>3. local' \in [Calls -> LocalType]
    BY <2>1, <2>2, LearnFacts DEF TypeOK
  <2> QED
    BY <1>7, <2>3, WriteFacts, TypeParts DEF TypeOK, ReadCount
<1>8. CASE ReadNext(c)
  <2> DEFINE n == Len(local[c].ids) + 1
  <2>1. PICK k \in Views :
          IF n \in DOMAIN k.held
          THEN Learn(c, "ids", Append(local[c].ids, k.held[n])) /\ UNCHANGED <<pc, told>>
          ELSE Return(c, "reverted") /\ UNCHANGED local
    BY <1>8 DEF ReadNext
  <2>2. n \in DOMAIN k.held => Append(local[c].ids, k.held[n]) \in Seq(Ids)
    BY <2>1, ViewFacts, HeldFacts, CallFacts
  <2>3. pc' \in [Calls -> Places] /\ told' \in [Calls -> Outcomes]
    BY <2>1, WriteFacts DEF TypeOK
  <2> HIDE DEF n
  <2>4. local' \in [Calls -> LocalType]
    BY <2>1, <2>2, LearnFacts DEF TypeOK
  <2> QED
    BY <1>8, <2>3, <2>4, TypeParts DEF TypeOK, ReadNext
<1>9. CASE Listed(c)
  BY <1>9, WriteFacts, TypeParts DEF TypeOK, Listed
<1>10. CASE ReadAllowance(c)
  <2>1. /\ pc' \in [Calls -> Places]
        /\ local' \in [Calls -> LocalType]
    BY <1>10, OnwardsTypes, WriteFacts DEF TypeOK, ReadAllowance
  <2> QED
    BY <1>10, <2>1, TypeParts DEF TypeOK, ReadAllowance
<1>11. CASE Collect(c)
  BY <1>11, WriteFacts, TypeParts DEF TypeOK, Collect
<1> QED
  BY <1>1, <1>2, <1>3, <1>4, <1>5, <1>6, <1>7, <1>8, <1>9, <1>10, <1>11 DEF Reading

(* An add or an increase leaves a state of the chain, its positions        *)
(* enumerated, and what both tokens allow less what it took.               *)
LEMMA AddTypes ==
  ASSUME TypeOK, Enumerated(chain), NEW c \in Calls, Add(c)
  PROVE  LET mint == op[c].kind = "add"
             i == IF mint THEN chain.next ELSE op[c].id
             k == WithAdded(chain, i, Bought(chain, Amounts(c)), Spent(chain, Amounts(c)))
             new == IF mint THEN [k EXCEPT !.owner[i] = Wallet, !.held = Append(@, i),
                                           !.next = @ + 1]
                    ELSE k
         IN new \in ChainStates /\ Enumerated(new)
<1> DEFINE mint == op[c].kind = "add"
           i == IF mint THEN chain.next ELSE op[c].id
           l == Bought(chain, Amounts(c))
           spent == Spent(chain, Amounts(c))
           k == WithAdded(chain, i, l, spent)
           minted == [k EXCEPT !.owner[i] = Wallet, !.held = Append(@, i), !.next = @ + 1]
<1>1. i \in Ids /\ Paid(chain, Amounts(c))
  BY CallFacts DEF Add
<1>2. l \in Nat /\ chain \in ChainStates
  BY CallFacts, BoughtFacts DEF TypeOK
<1>3. spent \in Pairs
  <2>1. ASSUME NEW s \in Sides PROVE chain.allowance[s] - Value(chain, l)[s] \in Nat
    <3>1. chain.allowance[s] \in Nat /\ Value(chain, l)[s] \in Nat
      BY <1>2, ChainFacts, ValueFacts DEF Pairs
    <3> QED
      BY <1>1, <3>1 DEF Paid
  <2> QED
    BY <2>1 DEF Spent, Pairs
<1> HIDE DEF l, spent, i
<1>4. /\ k \in ChainStates /\ k.owner = chain.owner /\ k.held = chain.held
      /\ k.next = chain.next /\ k.allowance = spent
  BY <1>1, <1>2, <1>3, AddedFacts
<1>5. Enumerated(k)
  BY <1>4 DEF Enumerated
<1> HIDE DEF k
<1>6. CASE mint
  <2> DEFINE owner == [k.owner EXCEPT ![i] = Wallet]
             held == Append(k.held, i)
             next == k.next + 1
  <2>1. owner \in [Ids -> Owners] /\ held \in Seq(Ids) /\ next \in Nat
    BY <1>1, <1>4, ChainFacts DEF Owners
  <2>2. minted = [k EXCEPT !.owner = owner, !.held = held, !.next = next]
    BY <1>4 DEF ChainStates
  <2> HIDE DEF owner, held, next, minted
  <2>3. minted \in ChainStates
    BY <1>4, <2>1, <2>2 DEF ChainStates
  <2>4. /\ minted.owner = [k.owner EXCEPT ![i] = Wallet] /\ minted.held = Append(k.held, i)
        /\ minted.next = k.next + 1
    BY <1>4, <2>2 DEF ChainStates, owner, held, next
  <2>5. i = k.next /\ k.owner[i] # Wallet
    <3>1. i = k.next
      BY <1>4, <1>6 DEF i
    <3>2. k.owner[i] = NoOne
      BY <3>1, <1>1, <1>4, <1>5, ChainFacts DEF Enumerated
    <3> QED
      BY <3>1, <3>2
  <2>6. Enumerated(minted)
    BY <1>1, <1>4, <1>5, <2>3, <2>4, <2>5, JoinsEnumerated
  <2> QED
    BY <1>6, <2>3, <2>6 DEF minted, k, i, l, spent
<1>7. CASE ~mint
  BY <1>4, <1>5, <1>7 DEF k, i, l, spent
<1> QED
  BY <1>6, <1>7

(* So has every step that approves or sends.                               *)
LEMMA SendingTypes ==
  ASSUME TypeOK, Enumerated(chain), NEW c \in Calls, Sending(c)
  PROVE  TypeOK'
<1> USE DEF TypesOf, Places, OpType, Outcomes, LocalType
<1>1. CASE Approve(c)
  <2> DEFINE k == [chain EXCEPT !.allowance[TokenNow(c)] = Amounts(c)[Leg(c)]]
  <2>1. k \in ChainStates
    <3>1. Amounts(c)[Leg(c)] \in Nat /\ TokenNow(c) \in Sides
      BY CallFacts DEF Leg
    <3> QED
      BY <3>1 DEF TypeOK, ChainStates, Pairs
  <2>2. Block(k, TRUE, Calls \ {c}) /\ Onwards(c)
    BY <1>1 DEF Approve
  <2> HIDE DEF k
  <2>3. pc' \in [Calls -> Places] /\ local' \in [Calls -> LocalType]
    BY <2>2, OnwardsTypes
  <2> QED
    BY <1>1, <2>1, <2>2, <2>3, BlockFacts, TypeParts DEF TypeOK, Approve
<1>2. CASE Fails(c)
  BY <1>2, WriteFacts, TypeParts DEF TypeOK, Fails
<1>3. CASE Add(c)
  <2> DEFINE mint == op[c].kind = "add"
             i == IF mint THEN chain.next ELSE op[c].id
             l == Bought(chain, Amounts(c))
             k == WithAdded(chain, i, l, Spent(chain, Amounts(c)))
             new == IF mint THEN [k EXCEPT !.owner[i] = Wallet, !.held = Append(@, i),
                                           !.next = @ + 1]
                    ELSE k
  <2>1. /\ Block(new, TRUE, Calls \ {c}) /\ worth' = [worth EXCEPT ![c] = Value(chain, l)]
        /\ credited' = [credited EXCEPT ![c] = IF mint THEN Wallet ELSE chain.owner[i]]
        /\ i \in Ids /\ Return(c, "ok") /\ UNCHANGED <<order, op, local, moves>>
    BY <1>3, CallFacts DEF Add
  <2>2. l \in Nat /\ chain \in ChainStates
    BY CallFacts, BoughtFacts DEF TypeOK
  <2>3. new \in ChainStates
    BY <1>3, <2>1, AddTypes
  <2>4. Value(chain, l) \in Pairs
    BY <2>2, ValueFacts
  <2>5. (IF mint THEN Wallet ELSE chain.owner[i]) \in Owners
    BY <2>1, <2>2, ChainFacts DEF Owners
  <2> HIDE DEF new, l, i, mint
  <2>6. worth' \in [Calls -> Pairs] /\ credited' \in [Calls -> Owners]
    BY <2>1, <2>4, <2>5 DEF TypeOK
  <2> QED
    BY <2>1, <2>3, <2>6, BlockFacts, WriteFacts, TypeParts DEF TypeOK
<1>4. CASE AddReverts(c)
  <2>1. pc' \in [Calls -> Places] /\ told' \in [Calls -> Outcomes]
    BY <1>4, WriteFacts DEF AddReverts
  <2> QED
    BY <1>4, <2>1, TypeParts DEF TypeOK, AddReverts
<1>5. CASE Multicall(c)
  <2> DEFINE k == AfterSteps(chain, op[c].id, Steps(c), Share(c))
  <2>1. /\ Takes(chain, op[c].id, Steps(c), Share(c), AmountsMin(c))
        /\ Block(k, TRUE, Calls \ {c}) /\ worth' = [worth EXCEPT ![c] = Value(chain, Share(c))]
        /\ Return(c, "ok") /\ UNCHANGED <<order, op, local, credited, moves>>
    BY <1>5 DEF Multicall
  <2>2. k \in ChainStates
    BY <2>1, AfterFacts, CallFacts DEF TypeOK
  <2>3. Value(chain, Share(c)) \in Pairs
    BY CallFacts, ValueFacts DEF TypeOK
  <2> HIDE DEF k
  <2>4. worth' \in [Calls -> Pairs]
    BY <2>1, <2>3 DEF TypeOK
  <2> QED
    BY <2>1, <2>2, <2>4, BlockFacts, WriteFacts, TypeParts DEF TypeOK
<1>6. CASE MulticallReverts(c)
  BY <1>6, WriteFacts, TypeParts DEF TypeOK, MulticallReverts
<1> QED
  BY <1>1, <1>2, <1>3, <1>4, <1>5, <1>6 DEF Sending

(* What others do keeps the types, the enumeration and the allowances.     *)
LEMMA OthersTypes ==
  ASSUME TypeOK, Enumerated(chain), Others
  PROVE  TypeOK' /\ Enumerated(chain)' /\ chain'.allowance = chain.allowance
<1> USE DEF TypesOf
<1>0. chain \in ChainStates
  BY DEF TypeOK
<1>1. ASSUME NEW k \in ChainStates, Move(k), Enumerated(k), k.allowance = chain.allowance
      PROVE  TypeOK' /\ Enumerated(chain)' /\ chain'.allowance = chain.allowance
  <2>1. moves' \in 0..MaxMoves /\ Block(k, FALSE, Calls) /\ chain' = k
    BY <1>1 DEF Move, TypeOK, Block
  <2>2. TypeOK'
    BY <1>1, <2>1, BlockFacts, TypeParts DEF Move, TypeOK, Places, OpType, Outcomes, LocalType
  <2> QED
    BY <1>1, <2>1, <2>2 DEF Enumerated
<1>2. CASE Trade
  <2>1. PICK p \in Prices, s \in Sides :
          Move([chain EXCEPT !.price = p,
                  !.owed = [i \in Ids |-> [chain.owed[i] EXCEPT ![s] =
                              IF chain.liquidity[i] > 0 THEN @ + 1 ELSE @]]])
    BY <1>2 DEF Trade
  <2> DEFINE owed == [i \in Ids |-> [chain.owed[i] EXCEPT ![s] =
                              IF chain.liquidity[i] > 0 THEN @ + 1 ELSE @]]
             k == [chain EXCEPT !.price = p, !.owed = owed]
  <2>2. ASSUME NEW i \in Ids
        PROVE  [chain.owed[i] EXCEPT ![s] = IF chain.liquidity[i] > 0 THEN @ + 1 ELSE @] \in Pairs
    <3>1. chain.owed[i] \in Pairs
      BY <1>0, ChainFacts
    <3> QED
      BY <3>1 DEF Pairs
  <2>3. owed \in [Ids -> Pairs] /\ Move(k)
    BY <2>1, <2>2
  <2> HIDE DEF owed
  <2>4. k \in ChainStates
    BY <1>0, <2>3 DEF ChainStates
  <2>5. /\ k.owner = chain.owner /\ k.held = chain.held /\ k.next = chain.next
        /\ k.allowance = chain.allowance
    BY <1>0 DEF ChainStates
  <2>6. Enumerated(k)
    BY <2>5 DEF Enumerated
  <2> QED
    BY <1>1, <2>3, <2>4, <2>5, <2>6
<1>3. ASSUME NEW i \in Ids, GiveAway(i)
      PROVE  TypeOK' /\ Enumerated(chain)' /\ chain'.allowance = chain.allowance
  <2> DEFINE k == [chain EXCEPT !.owner[i] = Stranger, !.held = Leaves(@, i)]
  <2>1. chain.owner[i] = Wallet /\ Move(k)
    BY <1>3 DEF GiveAway
  <2>2. Leaves(chain.held, i) \in Seq(Ids)
    BY <1>0, <2>1, LeavesFacts
  <2>3. k \in ChainStates
    BY <1>0, <2>2 DEF ChainStates, Owners
  <2>4. /\ k.owner = [chain.owner EXCEPT ![i] = Stranger] /\ k.held = Leaves(chain.held, i)
        /\ k.next = chain.next /\ k.allowance = chain.allowance
    BY <1>0 DEF ChainStates
  <2> HIDE DEF k
  <2>5. Stranger \in Owners /\ Stranger # Wallet
    BY DEF Owners
  <2>6. Enumerated(k)
    BY <1>0, <2>1, <2>3, <2>4, <2>5, LeavesEnumerated
  <2> QED
    BY <1>1, <2>1, <2>3, <2>4, <2>6
<1>4. ASSUME NEW i \in Ids, Receive(i)
      PROVE  TypeOK' /\ Enumerated(chain)' /\ chain'.allowance = chain.allowance
  <2> DEFINE k == [chain EXCEPT !.owner[i] = Wallet, !.held = Append(@, i)]
  <2>1. chain.owner[i] = Stranger /\ Move(k) /\ chain.owner[i] # Wallet /\ chain.owner[i] # NoOne
    BY <1>4 DEF Receive
  <2>2. /\ Append(chain.held, i) \in Seq(Ids)
        /\ [chain.owner EXCEPT ![i] = Wallet] \in [Ids -> Owners]
    BY <1>0, ChainFacts DEF Owners
  <2>3. k \in ChainStates
    BY <1>0, <2>2 DEF ChainStates
  <2>4. /\ k.owner = [chain.owner EXCEPT ![i] = Wallet] /\ k.held = Append(chain.held, i)
        /\ k.next = chain.next /\ k.allowance = chain.allowance
    BY <1>0 DEF ChainStates
  <2> HIDE DEF k
  <2>5. Enumerated(k)
    BY <1>0, <2>1, <2>3, <2>4, JoinsEnumerated
  <2> QED
    BY <1>1, <2>1, <2>3, <2>4, <2>5
<1>5. ASSUME NEW i \in Ids, StrangerAdds(i)
      PROVE  TypeOK' /\ Enumerated(chain)' /\ chain'.allowance = chain.allowance
  <2> DEFINE k == WithAdded(chain, i, 1, chain.allowance)
  <2>1. Move(k)
    BY <1>5 DEF StrangerAdds
  <2>2. /\ k \in ChainStates /\ k.owner = chain.owner /\ k.held = chain.held
        /\ k.next = chain.next /\ k.allowance = chain.allowance
    BY <1>0, ChainFacts, AddedFacts
  <2> HIDE DEF k
  <2>3. Enumerated(k)
    BY <2>2 DEF Enumerated
  <2> QED
    BY <1>1, <2>1, <2>2, <2>3
<1> QED
  BY <1>2, <1>3, <1>4, <1>5 DEF Others

-----------------------------------------------------------------------------
(* What calls do to each other                                             *)

(* A call that makes no step keeps what is its own.                        *)
Still(d) ==
  /\ pc'[d] = pc[d] /\ op'[d] = op[d] /\ local'[d] = local[d] /\ told'[d] = told[d]
  /\ worth'[d] = worth[d] /\ credited'[d] = credited[d]

(* One call steps at a time; the transactions of one are everybody else's  *)
(* to reckon with.                                                         *)
LEMMA OneAtATime ==
  ASSUME TypeOK, NEW c \in Calls, Reading(c) \/ Sending(c), NEW d \in Calls, d # c
  PROVE  Still(d) /\ order' = order
<1> USE DEF Still, TypeOK, Goto, Return, Learn
<1>1. CASE Begin(c)
  BY <1>1 DEF Begin
<1>2. CASE NotMinted(c) \/ NotConfigured(c) \/ NoPool(c)
  BY <1>2 DEF NotMinted, NotConfigured, NoPool, Refused
<1>3. CASE ReadPool(c)
  BY <1>3 DEF ReadPool
<1>4. CASE ReadOwner(c)
  BY <1>4 DEF ReadOwner
<1>5. CASE ReadPosition(c)
  BY <1>5 DEF ReadPosition
<1>6. CASE Preview(c)
  BY <1>6 DEF Preview
<1>7. CASE ReadCount(c)
  BY <1>7 DEF ReadCount
<1>8. CASE ReadNext(c)
  BY <1>8 DEF ReadNext
<1>9. CASE Listed(c)
  BY <1>9 DEF Listed
<1>10. CASE ReadAllowance(c)
  BY <1>10 DEF ReadAllowance, Onwards
<1>11. CASE Collect(c)
  BY <1>11 DEF Collect
<1>12. CASE Approve(c)
  BY <1>12 DEF Approve, Onwards
<1>13. CASE Fails(c)
  BY <1>13 DEF Fails
<1>14. CASE Add(c)
  BY <1>14 DEF Add
<1>15. CASE AddReverts(c)
  BY <1>15 DEF AddReverts
<1>16. CASE Multicall(c)
  BY <1>16 DEF Multicall
<1>17. CASE MulticallReverts(c)
  BY <1>17 DEF MulticallReverts
<1> QED
  BY <1>1, <1>2, <1>3, <1>4, <1>5, <1>6, <1>7, <1>8, <1>9, <1>10, <1>11, <1>12, <1>13,
     <1>14, <1>15, <1>16, <1>17 DEF Reading, Sending

(* A step that leaves the chain alone disturbs no other call.              *)
LEMMA Undisturbed ==
  ASSUME TypeOK, NEW d \in Calls, CallFits(d), Still(d), UNCHANGED <<order, chain, before>>,
         changed'[d] = changed[d]
  PROVE  CallFits(d)'
<1>1. PlaceOf(d)'
  BY DEF CallFits, PlaceOf, Still
<1>2. ViewsOf(d)'
  BY DEF CallFits, ViewsOf, Seen, Differs, Still
<1>3. OwnerOf(d)' /\ LiquidityOf(d)'
  BY DEF CallFits, OwnerOf, LiquidityOf, Still
<1>4. ApprovedOf(d)'
  BY DEF CallFits, ApprovedOf, Covers, Still
<1>5. HeldOf(d)'
  BY DEF CallFits, HeldOf, Still
<1>6. AskedOf(d)' /\ AcceptedOf(d)'
  BY DEF CallFits, AskedOf, AcceptedOf, Came, Still
<1> QED
  BY <1>1, <1>2, <1>3, <1>4, <1>5, <1>6 DEF CallFits

(* A block changes what another call depends on only if it is among the    *)
(* changes the call is exposed to.                                         *)
LEMMA Overtaken ==
  ASSUME TypeOK, NEW k, NEW mine, NEW others, Block(k, mine, others), NEW d \in Calls,
         d \in others, CallFits(d), Still(d), order' = order
  PROVE  CallFits(d)'
<1> DEFINE new == {p \in Parts : Differs(p, chain, k, op[d].id)}
<1>1. /\ chain' = k /\ before' = chain
      /\ changed'[d] = IF pc[d] # "idle" THEN changed[d] \union new ELSE changed[d]
  BY DEF Block
<1>2. PlaceOf(d)'
  BY DEF CallFits, PlaceOf, Still
<1>3. CASE pc[d] = "idle"
  <2>1. pc'[d] = "idle" /\ told'[d] = "none"
    BY <1>3, <1>2 DEF Still, PlaceOf
  <2> QED
    BY <1>2, <2>1 DEF CallFits, ViewsOf, OwnerOf, LiquidityOf, ApprovedOf, HeldOf, AskedOf,
       AcceptedOf, Came
<1>4. CASE pc[d] # "idle"
  <2>1. /\ changed[d] \subseteq changed'[d]
        /\ \A p \in Parts : p \notin changed'[d] => ~Differs(p, chain, k, op[d].id)
    BY <1>1, <1>4
  <2>2. /\ "owner" \notin changed'[d] => k.owner[op[d].id] = chain.owner[op[d].id]
        /\ "liquidity" \notin changed'[d] => k.liquidity[op[d].id] = chain.liquidity[op[d].id]
        /\ "held" \notin changed'[d] => k.held = chain.held
        /\ "allowance" \notin changed'[d] => k.allowance = chain.allowance
    BY <2>1 DEF Differs, Parts
  <2>3. ViewsOf(d)'
    BY <1>1, <2>1 DEF ViewsOf, Seen, Differs, Still
  <2>4. OwnerOf(d)' /\ LiquidityOf(d)'
    BY <1>1, <2>1, <2>2 DEF CallFits, OwnerOf, LiquidityOf, Still
  <2>5. ApprovedOf(d)'
    BY <1>1, <2>1, <2>2 DEF CallFits, ApprovedOf, Covers, Still
  <2>6. HeldOf(d)'
    BY <1>1, <2>1, <2>2 DEF CallFits, HeldOf, Still
  <2>7. AskedOf(d)' /\ AcceptedOf(d)'
    BY <1>1, <2>1, <2>2 DEF CallFits, AskedOf, AcceptedOf, Came, Still
  <2> QED
    BY <1>2, <2>3, <2>4, <2>5, <2>6, <2>7 DEF CallFits
<1> QED
  BY <1>3, <1>4

-----------------------------------------------------------------------------
(* What a call does itself                                                 *)

(* What it learns becomes the field's, and no other's.                     *)
LEMMA Learnt ==
  ASSUME TypeOK, NEW c \in Calls, NEW v
  PROVE  /\ Learn(c, "first", v) =>
              /\ local'[c].first = v /\ local'[c].ids = local[c].ids
              /\ local'[c].leg = local[c].leg
         /\ Learn(c, "count", v) => local'[c].count = v /\ local'[c].ids = local[c].ids
         /\ Learn(c, "ids", v) => local'[c].ids = v /\ local'[c].count = local[c].count
         /\ Learn(c, "leg", v) =>
              /\ local'[c].first = local[c].first /\ local'[c].ids = local[c].ids
              /\ local'[c].leg = v
         /\ Learn(c, "answer", v) =>
              /\ local'[c].answer = v /\ local'[c].ids = local[c].ids
BY DEF TypeOK, Learn

(* A call that ends without what it was to do.                             *)
LEMMA Returned ==
  ASSUME TypeOK, NEW c \in Calls, CallFits(c),
         NEW what \in {"refused", "reverted", "unpaid", "failed"}, Return(c, what),
         UNCHANGED <<order, op>>,
         what = "unpaid" => "allowance" \in changed'[c],
         what = "reverted" /\ op[c].kind = "burn" =>
           chain'.owner[op[c].id] # Wallet \/ changed'[c] \intersect {"owner", "liquidity"} # {}
  PROVE  CallFits(c)'
<1>1. pc'[c] = "done" /\ told'[c] = what /\ op' = op
  BY DEF TypeOK, Return, Goto
<1>2. PlaceOf(c)'
  BY <1>1 DEF CallFits, PlaceOf
<1>3. AcceptedOf(c)'
  BY <1>1 DEF AcceptedOf
<1> QED
  BY <1>1, <1>2, <1>3 DEF CallFits, ViewsOf, OwnerOf, LiquidityOf, ApprovedOf, HeldOf,
     AskedOf, Came

(* A call on its way has told nobody anything.                             *)
LEMMA UnderWay ==
  ASSUME NEW c \in Calls, told[c] = "none", op[c].kind \notin {"list"} \/ pc[c] # "list"
  PROVE  HeldOf(c) /\ AskedOf(c) /\ AcceptedOf(c)
BY DEF HeldOf, AskedOf, AcceptedOf, Came

(* What a view answers is so in the latest block too, unless it is among   *)
(* the changes the call is exposed to.                                     *)
LEMMA Viewed ==
  ASSUME TypeOK, NEW c \in Calls, ViewsOf(c), pc[c] \notin {"idle", "done"}, NEW k \in Views
  PROVE  /\ "owner" \notin changed[c] => k.owner[op[c].id] = chain.owner[op[c].id]
         /\ "liquidity" \notin changed[c] => k.liquidity[op[c].id] = chain.liquidity[op[c].id]
         /\ "held" \notin changed[c] => k.held = chain.held
BY DEF ViewsOf, Seen, Views, Differs, Parts

(* A call begins with every difference between the two latest blocks among *)
(* the changes it is exposed to.                                           *)
LEMMA BeginFits ==
  ASSUME TypeOK, NEW c \in Calls, CallFits(c), Begin(c)
  PROVE  CallFits(c)'
<1>1. PICK o \in Ops : op' = [op EXCEPT ![c] = o]
                       /\ changed' = [changed EXCEPT ![c] =
                            {p \in Parts \ {"allowance"} : Differs(p, before, chain, o.id)}]
  BY DEF Begin
<1>2. /\ pc[c] = "idle" /\ pc'[c] = "begin" /\ told' = told /\ local' = local
      /\ UNCHANGED <<order, chain, before>>
  BY DEF Begin, Goto, TypeOK
<1>3. /\ op'[c] = o
      /\ changed'[c] = {p \in Parts \ {"allowance"} : Differs(p, before, chain, o.id)}
  BY <1>1 DEF TypeOK
<1>4. PlaceOf(c)'
  BY <1>2, <1>3, OpsFacts DEF CallFits, PlaceOf
<1>5. ViewsOf(c)'
  BY <1>2, <1>3 DEF ViewsOf, Seen, Differs
<1>6. told'[c] = "none"
  BY <1>2 DEF CallFits, PlaceOf
<1> QED
  BY <1>2, <1>4, <1>5, <1>6 DEF CallFits, OwnerOf, LiquidityOf, ApprovedOf, HeldOf, AskedOf,
     AcceptedOf, Came

(* A call that is refused has sent nothing.                                *)
LEMMA RefusedFits ==
  ASSUME TypeOK, NEW c \in Calls, CallFits(c), Refused(c)
  PROVE  CallFits(c)'
BY Returned DEF Refused

(* A step of a call that reads, and goes on to the given step.             *)
LEMMA WentOn ==
  ASSUME TypeOK, NEW c \in Calls, CallFits(c), NEW step, Goto(c, step),
         pc[c] \notin {"idle", "done"}, step \notin {"idle", "done"},
         UNCHANGED <<chainVars, op, told, changed>>
  PROVE  /\ pc'[c] = step /\ told'[c] = "none" /\ ViewsOf(c)'
         /\ UNCHANGED <<order, chain, before, op, told, changed>>
         /\ step # "list" => HeldOf(c)' /\ AskedOf(c)' /\ AcceptedOf(c)'
<1>1. pc'[c] = step /\ told'[c] = "none" /\ UNCHANGED <<order, chain, before, op, told, changed>>
  BY DEF Goto, TypeOK, CallFits, PlaceOf
<1>2. ViewsOf(c)'
  BY <1>1 DEF CallFits, ViewsOf, Seen, Differs
<1>3. step # "list" => HeldOf(c)' /\ AskedOf(c)' /\ AcceptedOf(c)'
  BY <1>1 DEF HeldOf, AskedOf, AcceptedOf, Came
<1> QED
  BY <1>1, <1>2, <1>3

(* add_liquidity() learns token0 of the pool.                              *)
LEMMA ReadPoolFits ==
  ASSUME TypeOK, NEW c \in Calls, CallFits(c), ReadPool(c)
  PROVE  CallFits(c)'
<1>1. /\ pc[c] = "begin" /\ op[c].kind = "add" /\ Learn(c, "first", order[1])
      /\ Goto(c, "allowance") /\ UNCHANGED <<chainVars, op, told, changed>>
  BY DEF ReadPool
<1>2. /\ pc'[c] = "allowance" /\ told'[c] = "none" /\ ViewsOf(c)' /\ HeldOf(c)' /\ AskedOf(c)'
      /\ AcceptedOf(c)' /\ UNCHANGED <<order, chain, before, op, told, changed>>
  BY <1>1, WentOn
<1>3. local'[c].first = order[1] /\ local'[c].leg = 1
  BY <1>1, Learnt DEF CallFits, PlaceOf
<1>4. PlaceOf(c)'
  BY <1>1, <1>2, <1>3 DEF CallFits, PlaceOf
<1>5. OwnerOf(c)' /\ LiquidityOf(c)' /\ ApprovedOf(c)'
  BY <1>1, <1>2, <1>3 DEF OwnerOf, LiquidityOf, ApprovedOf
<1> QED
  BY <1>2, <1>4, <1>5 DEF CallFits

(* increase_liquidity() has seen the wallet own the position.              *)
LEMMA ReadOwnerFits ==
  ASSUME TypeOK, NEW c \in Calls, CallFits(c), ReadOwner(c)
  PROVE  CallFits(c)'
<1>1. /\ pc[c] = "begin" /\ op[c].kind = "increase"
      /\ UNCHANGED <<chainVars, op, local, changed>>
  BY DEF ReadOwner
<1>2. PICK k \in Views : IF k.owner[op[c].id] = Wallet
                         THEN Goto(c, "position") /\ UNCHANGED told
                         ELSE Return(c, "refused")
  BY DEF ReadOwner
<1>3. CASE k.owner[op[c].id] = Wallet
  <2>1. /\ pc'[c] = "position" /\ told'[c] = "none" /\ ViewsOf(c)' /\ HeldOf(c)' /\ AskedOf(c)'
        /\ AcceptedOf(c)' /\ UNCHANGED <<order, chain, before, op, told, changed>>
    BY <1>1, <1>2, <1>3, WentOn
  <2>2. PlaceOf(c)'
    BY <1>1, <2>1 DEF CallFits, PlaceOf
  <2>3. OwnerOf(c)'
    BY <1>1, <1>3, <2>1, Viewed DEF CallFits, OwnerOf
  <2>4. LiquidityOf(c)' /\ ApprovedOf(c)'
    BY <2>1 DEF LiquidityOf, ApprovedOf
  <2> QED
    BY <2>1, <2>2, <2>3, <2>4 DEF CallFits
<1>4. CASE k.owner[op[c].id] # Wallet
  BY <1>1, <1>2, <1>4, Returned
<1> QED
  BY <1>3, <1>4

(* The liquidity read is the position's, unless it changed.                *)
LEMMA ReadPositionFits ==
  ASSUME TypeOK, NEW c \in Calls, CallFits(c), ReadPosition(c)
  PROVE  CallFits(c)'
<1> DEFINE next == CASE op[c].kind = "increase" -> "allowance"
                     [] op[c].kind = "preview" -> "preview"
                     [] OTHER -> "send"
<1>1. /\ \/ pc[c] = "position" /\ op[c].kind = "increase"
         \/ pc[c] = "begin" /\ op[c].kind \in {"remove", "burn", "preview"}
      /\ UNCHANGED <<chainVars, op, changed>> /\ pc[c] \notin {"idle", "done"}
  BY DEF ReadPosition, CallFits, PlaceOf
<1>2. PICK k \in Views :
        IF k.owner[op[c].id] = NoOne
        THEN Return(c, "refused") /\ UNCHANGED local
        ELSE /\ local' = [local EXCEPT ![c] =
                  [@ EXCEPT !.first = order[1], !.liquidity = k.liquidity[op[c].id]]]
             /\ Goto(c, next)
             /\ UNCHANGED told
  BY DEF ReadPosition
<1>3. CASE k.owner[op[c].id] # NoOne
  <2>1. next \in {"allowance", "preview", "send"}
    BY <1>1
  <2>2. /\ pc'[c] = next /\ told'[c] = "none" /\ ViewsOf(c)' /\ HeldOf(c)' /\ AskedOf(c)'
        /\ AcceptedOf(c)' /\ UNCHANGED <<order, chain, before, op, told, changed>>
    <3> HIDE DEF next
    <3> QED
      BY <1>1, <1>2, <1>3, <2>1, WentOn
  <2>3. /\ local'[c].first = order[1] /\ local'[c].liquidity = k.liquidity[op[c].id]
        /\ local'[c].leg = local[c].leg
    <3>1. local'[c] = [local[c] EXCEPT !.first = order[1], !.liquidity = k.liquidity[op[c].id]]
      BY <1>2, <1>3 DEF TypeOK
    <3>2. local[c] \in LocalType
      BY DEF TypeOK, LocalType
    <3> QED
      BY <3>1, <3>2 DEF LocalType
  <2>4. local[c].leg = 1
    BY <1>1 DEF CallFits, PlaceOf
  <2>5. PlaceOf(c)'
    BY <1>1, <2>2, <2>3 DEF CallFits, PlaceOf
  <2>6. OwnerOf(c)'
    BY <1>1, <2>2 DEF CallFits, OwnerOf
  <2>7. LiquidityOf(c)'
    BY <1>1, <2>2, <2>3, Viewed DEF CallFits, LiquidityOf
  <2>8. ApprovedOf(c)'
    BY <1>1, <2>2, <2>3, <2>4 DEF ApprovedOf
  <2> QED
    BY <2>2, <2>5, <2>6, <2>7, <2>8 DEF CallFits
<1>4. CASE k.owner[op[c].id] = NoOne
  BY <1>1, <1>2, <1>4, Returned
<1> QED
  BY <1>3, <1>4

(* A preview is sorted into the sides it was read for.                     *)
LEMMA SidesOfFacts ==
  ASSUME TypeOK, NEW a \in Pairs
  PROVE  SidesOf(order[1], <<a[order[1]], a[order[2]]>>) = a
<1> DEFINE b == SidesOf(order[1], <<a[order[1]], a[order[2]]>>)
<1>1. b \in Pairs
  BY OrderFacts DEF SidesOf, Sides, Pairs
<1>2. b["stock"] = a["stock"] /\ b["stable"] = a["stable"]
  BY OrderFacts DEF SidesOf, Sides
<1> HIDE DEF b
<1>3. \A s \in Sides : b[s] = a[s]
  BY <1>2 DEF Sides
<1>4. b = a
  BY <1>1, <1>3 DEF Pairs
<1> QED
  BY <1>4 DEF b

(* preview_fees() reports what it read, each amount of its own side.       *)
LEMMA PreviewFits ==
  ASSUME TypeOK, NEW c \in Calls, CallFits(c), Preview(c)
  PROVE  CallFits(c)'
<1>1. /\ pc[c] = "preview" /\ op[c].kind = "preview" /\ local[c].first = order[1]
      /\ UNCHANGED <<chainVars, op, credited, changed>>
  BY DEF Preview, CallFits, PlaceOf
<1>2. PICK k \in Views :
        IF k.owner[op[c].id] = Wallet
        THEN /\ Learn(c, "answer", SidesOf(local[c].first,
                        <<k.owed[op[c].id][order[1]], k.owed[op[c].id][order[2]]>>))
             /\ worth' = [worth EXCEPT ![c] = k.owed[op[c].id]]
             /\ Return(c, "ok")
        ELSE Return(c, "reverted") /\ UNCHANGED <<local, worth>>
  BY DEF Preview
<1>3. CASE k.owner[op[c].id] = Wallet
  <2>1. k.owed[op[c].id] \in Pairs
    BY ViewFacts, ChainFacts, CallFacts
  <2>2. Learn(c, "answer", k.owed[op[c].id])
    BY <1>1, <1>2, <1>3, <2>1, SidesOfFacts
  <2>3. /\ local'[c].answer = k.owed[op[c].id] /\ worth'[c] = k.owed[op[c].id]
        /\ pc'[c] = "done" /\ told'[c] = "ok" /\ op' = op /\ order' = order
    BY <1>1, <1>2, <1>3, <2>2, Learnt DEF Return, Goto, TypeOK
  <2>4. PlaceOf(c)'
    BY <1>1, <2>3 DEF CallFits, PlaceOf
  <2>5. AskedOf(c)' /\ AcceptedOf(c)'
    BY <1>1, <2>3 DEF AskedOf, AcceptedOf, Came
  <2> QED
    BY <1>1, <2>3, <2>4, <2>5 DEF CallFits, ViewsOf, OwnerOf, LiquidityOf, ApprovedOf, HeldOf
<1>4. CASE k.owner[op[c].id] # Wallet
  BY <1>1, <1>2, <1>4, Returned
<1> QED
  BY <1>3, <1>4

(* The count is the length of the enumeration, unless that changed.        *)
LEMMA ReadCountFits ==
  ASSUME TypeOK, NEW c \in Calls, CallFits(c), ReadCount(c)
  PROVE  CallFits(c)'
<1>1. /\ pc[c] = "begin" /\ op[c].kind = "list" /\ local[c].ids = <<>>
      /\ Goto(c, "list") /\ UNCHANGED <<chainVars, op, told, changed>>
  BY DEF ReadCount, CallFits, PlaceOf
<1>2. PICK k \in Views : Learn(c, "count", Len(k.held))
  BY DEF ReadCount
<1>3. /\ pc'[c] = "list" /\ told'[c] = "none" /\ ViewsOf(c)'
      /\ UNCHANGED <<order, chain, before, op, told, changed>>
  BY <1>1, WentOn
<1>4. local'[c].count = Len(k.held) /\ local'[c].ids = <<>>
  BY <1>1, <1>2, Learnt
<1>5. PlaceOf(c)'
  BY <1>1, <1>3 DEF CallFits, PlaceOf
<1>6. HeldOf(c)'
  <2>1. Len(chain.held) \in Nat /\ Len(<<>>) = 0
    BY HeldFacts DEF TypeOK
  <2>2. "held" \notin changed[c] => k.held = chain.held
    BY <1>1, Viewed DEF CallFits
  <2> QED
    BY <1>3, <1>4, <2>1, <2>2 DEF HeldOf
<1> QED
  BY <1>1, <1>3, <1>5, <1>6 DEF CallFits, OwnerOf, LiquidityOf, ApprovedOf, AskedOf, AcceptedOf,
     Came

(* The ids read so far are the first of the enumeration, in its order.     *)
LEMMA ReadNextFits ==
  ASSUME TypeOK, NEW c \in Calls, CallFits(c), ReadNext(c)
  PROVE  CallFits(c)'
<1> DEFINE n == Len(local[c].ids) + 1
<1>1. /\ pc[c] = "list" /\ op[c].kind = "list" /\ told[c] = "none"
      /\ Len(local[c].ids) < local[c].count
      /\ UNCHANGED <<chainVars, op, changed>>
  BY DEF ReadNext, CallFits, PlaceOf
<1>2. PICK k \in Views :
        IF n \in DOMAIN k.held
        THEN Learn(c, "ids", Append(local[c].ids, k.held[n])) /\ UNCHANGED <<pc, told>>
        ELSE Return(c, "reverted") /\ UNCHANGED local
  BY DEF ReadNext
<1>3. CASE n \in DOMAIN k.held
  <2>1. local'[c].ids = Append(local[c].ids, k.held[n]) /\ local'[c].count = local[c].count
    BY <1>2, <1>3, Learnt
  <2>2. /\ UNCHANGED <<pc, told, order, chain, before, op, changed>>
    BY <1>1, <1>2, <1>3
  <2>3. PlaceOf(c)' /\ ViewsOf(c)'
    BY <1>1, <2>2 DEF CallFits, PlaceOf, ViewsOf, Seen, Differs
  <2>4. HeldOf(c)'
    <3>1. SUFFICES ASSUME "held" \notin changed[c]
                   PROVE  /\ local'[c].count = Len(chain.held)
                          /\ Len(local'[c].ids) <= Len(chain.held)
                          /\ \A j \in 1..Len(local'[c].ids) : local'[c].ids[j] = chain.held[j]
      BY <1>1, <2>2 DEF HeldOf
    <3>2. k.held = chain.held
      BY <1>1, <3>1, Viewed DEF CallFits
    <3>3. /\ local[c].count = Len(chain.held) /\ Len(chain.held) \in Nat
          /\ \A j \in 1..Len(local[c].ids) : local[c].ids[j] = chain.held[j]
      BY <1>1, <3>1, HeldFacts DEF CallFits, HeldOf, TypeOK
    <3>4. /\ local[c].ids \in Seq(Ids) /\ k.held[n] \in Ids
      BY <1>3, CallFacts, HeldFacts, ViewFacts
    <3>5. /\ Len(local'[c].ids) = n
          /\ \A j \in 1..n : local'[c].ids[j] = IF j = n THEN k.held[n] ELSE local[c].ids[j]
      BY <2>1, <3>4
    <3> QED
      BY <1>1, <2>1, <3>2, <3>3, <3>4, <3>5
  <2> QED
    BY <1>1, <2>2, <2>3, <2>4 DEF CallFits, OwnerOf, LiquidityOf, ApprovedOf, AskedOf,
       AcceptedOf, Came
<1>4. CASE n \notin DOMAIN k.held
  BY <1>1, <1>2, <1>4, Returned
<1> QED
  BY <1>3, <1>4

(* A list is complete when it has as many ids as were counted.             *)
LEMMA ListedFits ==
  ASSUME TypeOK, NEW c \in Calls, CallFits(c), Listed(c)
  PROVE  CallFits(c)'
<1>1. /\ pc[c] = "list" /\ op[c].kind = "list" /\ Len(local[c].ids) = local[c].count
      /\ UNCHANGED <<order, chain, before, op, local, changed>>
      /\ pc'[c] = "done" /\ told'[c] = "ok"
  BY DEF Listed, CallFits, PlaceOf, Return, Goto, TypeOK
<1>2. PlaceOf(c)'
  BY <1>1 DEF CallFits, PlaceOf
<1>3. HeldOf(c)'
  BY <1>1 DEF CallFits, HeldOf
<1> QED
  BY <1>1, <1>2, <1>3 DEF CallFits, ViewsOf, OwnerOf, LiquidityOf, ApprovedOf, AskedOf,
     AcceptedOf, Came

(* collect_fees() goes straight to its transaction.                        *)
LEMMA CollectFits ==
  ASSUME TypeOK, NEW c \in Calls, CallFits(c), Collect(c)
  PROVE  CallFits(c)'
<1>1. /\ pc[c] = "begin" /\ op[c].kind = "collect" /\ UNCHANGED <<order, op, local>>
      /\ pc'[c] = "send" /\ told'[c] = "none" /\ ViewsOf(c)' /\ HeldOf(c)' /\ AskedOf(c)'
      /\ AcceptedOf(c)'
  BY WentOn DEF Collect
<1>2. PlaceOf(c)'
  BY <1>1 DEF CallFits, PlaceOf
<1> QED
  BY <1>1, <1>2 DEF CallFits, OwnerOf, LiquidityOf, ApprovedOf

(* The next leg, or the transaction, when this leg's token is allowed.     *)
LEMMA OnwardsFits ==
  ASSUME TypeOK, NEW c \in Calls, CallFits(c), pc[c] \in {"allowance", "approve"}, Onwards(c),
         UNCHANGED <<order, op, told>>, changed'[c] = changed[c], ViewsOf(c)', OwnerOf(c)',
         "allowance" \notin changed[c] =>
           /\ chain'.allowance[order[Leg(c)]] >= op[c].want[order[Leg(c)]]
           /\ Leg(c) = 2 => chain'.allowance[order[1]] >= op[c].want[order[1]]
  PROVE  CallFits(c)'
<1>1. /\ op[c].kind \in {"add", "increase"} /\ told'[c] = "none" /\ local[c].first = order[1]
      /\ Leg(c) \in 1..2
  BY CallFacts DEF CallFits, PlaceOf, Leg
<1>2. CASE Leg(c) = 1
  <2>1. /\ pc'[c] = "allowance" /\ local'[c].first = order[1] /\ local'[c].leg = 2
    BY <1>1, <1>2, Learnt DEF Onwards, Goto, TypeOK
  <2>2. PlaceOf(c)'
    BY <1>1, <2>1 DEF CallFits, PlaceOf
  <2>3. ApprovedOf(c)'
    BY <1>1, <1>2, <2>1 DEF ApprovedOf, Covers
  <2> QED
    BY <1>1, <2>1, <2>2, <2>3 DEF CallFits, LiquidityOf, HeldOf, AskedOf, AcceptedOf, Came
<1>3. CASE Leg(c) # 1
  <2>1. /\ pc'[c] = "send" /\ local' = local /\ Leg(c) = 2
    BY <1>1, <1>3 DEF Onwards, Goto, TypeOK
  <2>2. PlaceOf(c)'
    BY <1>1, <2>1 DEF CallFits, PlaceOf
  <2>3. ApprovedOf(c)'
    BY <1>1, <2>1 DEF ApprovedOf, Covers
  <2> QED
    BY <1>1, <2>1, <2>2, <2>3 DEF CallFits, LiquidityOf, HeldOf, AskedOf, AcceptedOf, Came
<1> QED
  BY <1>2, <1>3

(* The amount of a leg is the user's of the side its token is.             *)
LEMMA LegFacts ==
  ASSUME TypeOK, NEW c \in Calls, local[c].first = order[1]
  PROVE  /\ TokenNow(c) = order[Leg(c)] /\ Leg(c) \in 1..2
         /\ Amounts(c)[Leg(c)] = op[c].want[order[Leg(c)]]
         /\ \A j \in 1..2 : Amounts(c)[j] = op[c].want[order[j]]
         /\ \A j \in 1..2 : AmountsMin(c)[j] = op[c].floor[order[j]]
<1>1. Leg(c) = 1 \/ Leg(c) = 2
  BY CallFacts DEF Leg
<1>2. TokenNow(c) = order[Leg(c)]
  BY <1>1, TokenFacts DEF TokenNow
<1>3. /\ \A j \in 1..2 : Amounts(c)[j] = op[c].want[order[j]]
      /\ \A j \in 1..2 : AmountsMin(c)[j] = op[c].floor[order[j]]
  BY CallFacts, MapFacts DEF Amounts, AmountsMin
<1> QED
  BY <1>1, <1>2, <1>3

(* A leg is skipped when enough of its token is allowed.                   *)
LEMMA ReadAllowanceFits ==
  ASSUME TypeOK, NEW c \in Calls, CallFits(c), ReadAllowance(c)
  PROVE  CallFits(c)'
<1>1. /\ pc[c] = "allowance" /\ local[c].first = order[1] /\ op[c].kind \in {"add", "increase"}
      /\ told[c] = "none" /\ UNCHANGED <<order, chain, before, op, told, changed>>
  BY DEF ReadAllowance, CallFits, PlaceOf
<1>2. CASE chain.allowance[TokenNow(c)] >= Amounts(c)[Leg(c)]
  <2>1. Onwards(c)
    BY <1>2 DEF ReadAllowance
  <2>2. pc'[c] \notin {"idle", "done"} /\ pc'[c] \in {"allowance", "send"}
    BY <2>1 DEF Onwards, Goto, TypeOK
  <2>3. ViewsOf(c)' /\ OwnerOf(c)'
    BY <1>1, <2>2 DEF CallFits, ViewsOf, OwnerOf, Seen, Differs
  <2>4. "allowance" \notin changed[c] =>
          /\ chain'.allowance[order[Leg(c)]] >= op[c].want[order[Leg(c)]]
          /\ Leg(c) = 2 => chain'.allowance[order[1]] >= op[c].want[order[1]]
    BY <1>1, <1>2, LegFacts DEF CallFits, ApprovedOf, Covers, Leg
  <2> QED
    BY <1>1, <2>1, <2>3, <2>4, OnwardsFits
<1>3. CASE ~(chain.allowance[TokenNow(c)] >= Amounts(c)[Leg(c)])
  <2>1. pc'[c] = "approve" /\ local' = local
    BY <1>3 DEF ReadAllowance, Goto, TypeOK
  <2>2. PlaceOf(c)'
    BY <1>1, <2>1 DEF CallFits, PlaceOf
  <2>3. ViewsOf(c)' /\ OwnerOf(c)' /\ ApprovedOf(c)'
    BY <1>1, <2>1 DEF CallFits, ViewsOf, OwnerOf, ApprovedOf, Covers, Seen, Differs
  <2> QED
    BY <1>1, <2>1, <2>2, <2>3 DEF CallFits, LiquidityOf, HeldOf, AskedOf, AcceptedOf, Came
<1> QED
  BY <1>2, <1>3

(* An approval covers its own leg and leaves the other's as it was.        *)
LEMMA ApproveFits ==
  ASSUME TypeOK, NEW c \in Calls, CallFits(c), Approve(c)
  PROVE  CallFits(c)'
<1> DEFINE amount == Amounts(c)[Leg(c)]
           k == [chain EXCEPT !.allowance[TokenNow(c)] = amount]
<1>1. /\ pc[c] = "approve" /\ local[c].first = order[1] /\ op[c].kind \in {"add", "increase"}
      /\ told[c] = "none" /\ UNCHANGED <<order, op, told>> /\ Onwards(c)
      /\ Block(k, TRUE, Calls \ {c})
  BY DEF Approve, CallFits, PlaceOf
<1>2. chain' = k /\ before' = chain /\ changed'[c] = changed[c]
  BY <1>1 DEF Block
<1>3. /\ amount = op[c].want[order[Leg(c)]] /\ TokenNow(c) = order[Leg(c)] /\ Leg(c) \in 1..2
      /\ amount \in Nat
  BY <1>1, LegFacts, CallFacts
<1>4. /\ k.owner = chain.owner /\ k.liquidity = chain.liquidity /\ k.owed = chain.owed
      /\ k.held = chain.held /\ k.allowance = [chain.allowance EXCEPT ![order[Leg(c)]] = amount]
  BY <1>3 DEF TypeOK, ChainStates
<1> HIDE DEF k, amount
<1>5. pc'[c] \in {"allowance", "send"}
  BY <1>1 DEF Onwards, Goto, TypeOK
<1>6. ViewsOf(c)'
  BY <1>1, <1>2, <1>4 DEF ViewsOf, Seen, Differs, Parts
<1>7. OwnerOf(c)'
  BY <1>1, <1>2, <1>4, <1>5 DEF CallFits, OwnerOf
<1>8. "allowance" \notin changed[c] =>
        /\ chain'.allowance[order[Leg(c)]] >= op[c].want[order[Leg(c)]]
        /\ Leg(c) = 2 => chain'.allowance[order[1]] >= op[c].want[order[1]]
  <2>1. chain.allowance \in Pairs
    BY ChainFacts DEF TypeOK
  <2>2. chain'.allowance[order[Leg(c)]] = amount
    BY <1>2, <1>3, <1>4, <2>1, OrderFacts DEF Pairs
  <2>3. Leg(c) = 2 => chain'.allowance[order[1]] = chain.allowance[order[1]]
    BY <1>2, <1>4, <2>1, OrderFacts DEF Pairs
  <2>4. Leg(c) = 2 /\ "allowance" \notin changed[c] =>
          chain.allowance[order[1]] >= op[c].want[order[1]]
    BY <1>1 DEF CallFits, ApprovedOf, Covers, Leg
  <2> QED
    BY <1>3, <2>2, <2>3, <2>4
<1> QED
  BY <1>1, <1>2, <1>6, <1>7, <1>8, OnwardsFits

(* A send that fails has moved nothing.                                    *)
LEMMA FailsFits ==
  ASSUME TypeOK, NEW c \in Calls, CallFits(c), Fails(c)
  PROVE  CallFits(c)'
BY Returned DEF Fails

(* A call that came through.                                               *)
LEMMA CameThrough ==
  ASSUME TypeOK, NEW c \in Calls, CallFits(c), Return(c, "ok"), UNCHANGED <<order, op>>,
         op[c].kind # "list", AskedOf(c)'
  PROVE  CallFits(c)'
<1>1. pc'[c] = "done" /\ told'[c] = "ok" /\ op' = op
  BY DEF TypeOK, Return, Goto
<1>2. PlaceOf(c)'
  BY <1>1 DEF CallFits, PlaceOf
<1>3. AcceptedOf(c)' /\ HeldOf(c)'
  BY <1>1 DEF AcceptedOf, HeldOf
<1> QED
  BY <1>1, <1>2, <1>3 DEF CallFits, ViewsOf, OwnerOf, LiquidityOf, ApprovedOf

(* What is paid in fits what was desired and the minimum, of each side.    *)
LEMMA AddFits ==
  ASSUME TypeOK, NEW c \in Calls, CallFits(c), Add(c)
  PROVE  CallFits(c)'
<1> DEFINE mint == op[c].kind = "add"
           i == IF mint THEN chain.next ELSE op[c].id
           l == Bought(chain, Amounts(c))
<1>1. /\ pc[c] = "send" /\ op[c].kind \in {"add", "increase"} /\ local[c].first = order[1]
      /\ Adds(chain, Amounts(c), AmountsMin(c)) /\ Return(c, "ok") /\ UNCHANGED <<order, op>>
      /\ worth' = [worth EXCEPT ![c] = Value(chain, l)]
      /\ credited' = [credited EXCEPT ![c] = IF mint THEN Wallet ELSE chain.owner[i]]
      /\ changed'[c] = changed[c]
  BY DEF Add, CallFits, PlaceOf, Block
<1>2. worth'[c] = Value(chain, l) /\ credited'[c] = IF mint THEN Wallet ELSE chain.owner[op[c].id]
  BY <1>1 DEF TypeOK
<1>3. ASSUME NEW s \in Sides
      PROVE  Value(chain, l)[s] <= op[c].want[s] /\ Value(chain, l)[s] >= op[c].floor[s]
  <2>1. PICK j \in 1..2 : s = order[j]
    BY OrderFacts
  <2>2. Value(chain, l)[order[j]] <= Amounts(c)[j]
    <3>1. chain \in ChainStates
      BY DEF TypeOK
    <3> QED
      BY <3>1, BoughtFacts, CallFacts
  <2>3. Value(chain, l)[order[j]] >= AmountsMin(c)[j]
    BY <1>1 DEF Adds
  <2>4. Amounts(c)[j] = op[c].want[order[j]] /\ AmountsMin(c)[j] = op[c].floor[order[j]]
    BY <1>1, LegFacts
  <2> QED
    BY <2>1, <2>2, <2>3, <2>4
<1>4. credited'[c] = Wallet \/ "owner" \in changed'[c]
  BY <1>1, <1>2 DEF CallFits, OwnerOf
<1> HIDE DEF l
<1>5. AskedOf(c)'
  BY <1>1, <1>2, <1>3, <1>4 DEF AskedOf, Came
<1> QED
  BY <1>1, <1>5, CameThrough

(* A simulation finds what the latest block holds, unless it is among the  *)
(* changes the call is exposed to; the allowances it finds always.         *)
LEMMA SimulatedFacts ==
  ASSUME TypeOK, OursFits, NEW c \in Calls, ViewsOf(c), pc[c] \notin {"idle", "done"},
         NEW k \in Simulated
  PROVE  /\ "owner" \notin changed[c] => k.owner[op[c].id] = chain.owner[op[c].id]
         /\ "liquidity" \notin changed[c] => k.liquidity[op[c].id] = chain.liquidity[op[c].id]
         /\ k.allowance = chain.allowance
<1>1. k \in Views
  BY DEF Simulated, Views
<1>2. k.allowance = chain.allowance
  BY DEF Simulated, OursFits
<1> QED
  BY <1>1, <1>2, Viewed

(* An add is refused for want of an allowance only if another used or set  *)
(* one: what a position takes is at most what was approved for it.         *)
LEMMA AddRevertsFits ==
  ASSUME TypeOK, OursFits, NEW c \in Calls, CallFits(c), AddReverts(c)
  PROVE  CallFits(c)'
<1>1. /\ pc[c] = "send" /\ op[c].kind \in {"add", "increase"} /\ local[c].first = order[1]
      /\ UNCHANGED <<order, op, changed>>
  BY DEF AddReverts, CallFits, PlaceOf
<1>2. CASE Return(c, "reverted")
  BY <1>1, <1>2, Returned
<1>3. CASE Return(c, "unpaid")
  <2>1. PICK k \in Simulated : ~Paid(k, Amounts(c))
    BY <1>3 DEF AddReverts, Return, TypeOK
  <2>2. "allowance" \in changed[c]
    <3>1. SUFFICES ASSUME "allowance" \notin changed[c] PROVE Paid(k, Amounts(c))
      BY <2>1
    <3>2. k.allowance = chain.allowance /\ k \in ChainStates
      BY <1>1, SimulatedFacts, ViewFacts DEF CallFits
    <3>3. \A j \in 1..2 : chain.allowance[order[j]] >= op[c].want[order[j]]
      BY <1>1, <3>1 DEF CallFits, ApprovedOf, Covers
    <3>4. ASSUME NEW s \in Sides
          PROVE  Value(k, Bought(k, Amounts(c)))[s] <= k.allowance[s]
      <4>1. PICK j \in 1..2 : s = order[j]
        BY OrderFacts
      <4>2. /\ Value(k, Bought(k, Amounts(c)))[order[j]] <= Amounts(c)[j]
            /\ Value(k, Bought(k, Amounts(c))) \in Pairs
        BY <3>2, BoughtFacts, ValueFacts, CallFacts
      <4>3. /\ Amounts(c)[j] = op[c].want[order[j]] /\ Amounts(c)[j] \in Nat
            /\ chain.allowance[order[j]] \in Nat
        <5>1. chain.allowance \in Pairs /\ order[j] \in Sides
          BY ChainFacts, OrderFacts DEF TypeOK
        <5> QED
          BY <1>1, <5>1, LegFacts, CallFacts DEF Pairs
      <4>4. Value(k, Bought(k, Amounts(c)))[order[j]] \in Nat
        BY <4>1, <4>2 DEF Pairs
      <4> QED
        BY <3>2, <3>3, <4>1, <4>2, <4>3, <4>4
    <3> QED
      BY <3>4 DEF Paid
  <2> QED
    BY <1>1, <1>3, <2>2, Returned
<1> QED
  BY <1>2, <1>3 DEF AddReverts

(* What is taken out is at least the minimum of each side.                 *)
LEMMA MulticallFits ==
  ASSUME TypeOK, NEW c \in Calls, CallFits(c), Multicall(c)
  PROVE  CallFits(c)'
<1>1. /\ pc[c] = "send" /\ op[c].kind \in {"remove", "collect", "burn"}
      /\ op[c].kind # "collect" => local[c].first = order[1]
      /\ Takes(chain, op[c].id, Steps(c), Share(c), AmountsMin(c))
      /\ Return(c, "ok") /\ UNCHANGED <<order, op>>
      /\ worth' = [worth EXCEPT ![c] = Value(chain, Share(c))]
  BY DEF Multicall, CallFits, PlaceOf
<1>2. worth'[c] = Value(chain, Share(c))
  BY <1>1 DEF TypeOK
<1>3. ASSUME op[c].kind = "remove", NEW s \in Sides
      PROVE  Value(chain, Share(c))[s] >= op[c].floor[s]
  <2>1. PICK j \in 1..2 : s = order[j]
    BY OrderFacts
  <2>2. "decrease" \in Steps(c)
    BY <1>3 DEF Steps, StepsOf
  <2>3. Value(chain, Share(c))[order[j]] >= AmountsMin(c)[j]
    BY <1>1, <2>2 DEF Takes
  <2>4. AmountsMin(c)[j] = op[c].floor[order[j]]
    BY <1>1, <1>3, LegFacts
  <2> QED
    BY <2>1, <2>3, <2>4
<1>4. AskedOf(c)'
  BY <1>1, <1>2, <1>3 DEF AskedOf, Came
<1> QED
  BY <1>1, <1>4, CameThrough

(* A burn takes all the liquidity there is, asks for no minimum and        *)
(* collects before it burns: only another owner or other liquidity make it *)
(* revert.                                                                 *)
LEMMA MulticallRevertsFits ==
  ASSUME TypeOK, OursFits, NEW c \in Calls, CallFits(c), MulticallReverts(c)
  PROVE  CallFits(c)'
<1> DEFINE i == op[c].id
<1>1. /\ pc[c] = "send" /\ op[c].kind \in {"remove", "collect", "burn"}
      /\ Return(c, "reverted") /\ UNCHANGED <<order, op, chain, changed>>
  BY DEF MulticallReverts
<1>2. PICK k \in Simulated : ~Takes(k, i, Steps(c), Share(c), AmountsMin(c))
  BY DEF MulticallReverts
<1>3. ASSUME op[c].kind = "burn", "owner" \notin changed[c], "liquidity" \notin changed[c],
             chain.owner[i] = Wallet
      PROVE  FALSE
  <2>1. k.owner[i] = Wallet /\ k.liquidity[i] = local[c].liquidity /\ k \in ChainStates
    BY <1>1, <1>3, SimulatedFacts, ViewFacts DEF CallFits, LiquidityOf
  <2>2. /\ Share(c) = local[c].liquidity /\ local[c].liquidity \in Nat
        /\ "collect" \in Steps(c)
        /\ "decrease" \in Steps(c) <=> local[c].liquidity > 0
    BY <1>3, CallFacts DEF Share, Steps, StepsOf
  <2>3. \A j \in 1..2 : Value(k, Share(c))[order[j]] >= AmountsMin(c)[j]
    <3>1. ASSUME NEW j \in 1..2 PROVE Value(k, Share(c))[order[j]] >= AmountsMin(c)[j]
      <4>1. order[j] \in Sides
        BY OrderFacts
      <4>2. AmountsMin(c)[j] = 0
        BY <1>1, <1>3, <4>1, LegFacts DEF CallFits, PlaceOf, Nothing
      <4>3. Value(k, Share(c))[order[j]] \in Nat
        BY <2>1, <2>2, <4>1, ValueFacts DEF Pairs
      <4> QED
        BY <4>2, <4>3
    <3> QED
      BY <3>1
  <2>4. Takes(k, i, Steps(c), Share(c), AmountsMin(c))
    BY <2>1, <2>2, <2>3 DEF Takes
  <2> QED
    BY <1>2, <2>4
<1> QED
  BY <1>1, <1>3, Returned

-----------------------------------------------------------------------------
(* The invariant                                                           *)

(* Every step of a call keeps what the invariant says of the call.         *)
LEMMA OwnStep ==
  ASSUME IInv, NEW c \in Calls, Reading(c) \/ Sending(c)
  PROVE  CallFits(c)'
<1>1. TypeOK /\ OursFits /\ CallFits(c)
  BY DEF IInv
<1> QED
  BY <1>1, BeginFits, RefusedFits, ReadPoolFits, ReadOwnerFits, ReadPositionFits, PreviewFits,
     ReadCountFits, ReadNextFits, ListedFits, CollectFits, ReadAllowanceFits, ApproveFits,
     FailsFits, AddFits, AddRevertsFits, MulticallFits, MulticallRevertsFits
     DEF Reading, Sending, NotMinted, NotConfigured, NoPool

(* A read changes nothing but the call's own.                              *)
LEMMA ReadingLeaves ==
  ASSUME TypeOK, NEW c \in Calls, Reading(c)
  PROVE  UNCHANGED chainVars /\ \A d \in Calls \ {c} : changed'[d] = changed[d]
<1>1. CASE Begin(c)
  BY <1>1 DEF Begin, TypeOK
<1>2. CASE ~Begin(c)
  BY <1>2 DEF Reading, NotMinted, NotConfigured, NoPool, Refused, ReadPool, ReadOwner,
     ReadPosition, Preview, ReadCount, ReadNext, Listed, ReadAllowance, Collect
<1> QED
  BY <1>1, <1>2

(* A step that sends is a block of the wallet's, or changes nothing.       *)
LEMMA SendingLeaves ==
  ASSUME TypeOK, Enumerated(chain), NEW c \in Calls, Sending(c)
  PROVE  \/ UNCHANGED <<chainVars, changed>>
         \/ \E k \in ChainStates : Block(k, TRUE, Calls \ {c}) /\ Enumerated(k)
<1>0. chain \in ChainStates
  BY DEF TypeOK
<1>1. CASE Approve(c)
  <2> DEFINE k == [chain EXCEPT !.allowance[TokenNow(c)] = Amounts(c)[Leg(c)]]
  <2>1. Amounts(c)[Leg(c)] \in Nat /\ TokenNow(c) \in Sides
    BY CallFacts DEF Leg
  <2>2. k \in ChainStates
    BY <1>0, <2>1 DEF ChainStates, Pairs
  <2>3. k.owner = chain.owner /\ k.held = chain.held /\ k.next = chain.next
    BY <1>0 DEF ChainStates
  <2>4. Block(k, TRUE, Calls \ {c})
    BY <1>1 DEF Approve
  <2> HIDE DEF k
  <2>5. Enumerated(k)
    BY <2>3 DEF Enumerated
  <2> QED
    BY <2>2, <2>4, <2>5
<1>2. CASE Add(c)
  <2> DEFINE mint == op[c].kind = "add"
             i == IF mint THEN chain.next ELSE op[c].id
             k == WithAdded(chain, i, Bought(chain, Amounts(c)), Spent(chain, Amounts(c)))
             new == IF mint THEN [k EXCEPT !.owner[i] = Wallet, !.held = Append(@, i),
                                           !.next = @ + 1]
                    ELSE k
  <2>1. new \in ChainStates /\ Enumerated(new)
    BY <1>2, AddTypes
  <2>2. Block(new, TRUE, Calls \ {c})
    BY <1>2 DEF Add
  <2> HIDE DEF new
  <2> QED
    BY <2>1, <2>2
<1>3. CASE Multicall(c)
  <2> DEFINE k == AfterSteps(chain, op[c].id, Steps(c), Share(c))
  <2>1. Takes(chain, op[c].id, Steps(c), Share(c), AmountsMin(c)) /\ Block(k, TRUE, Calls \ {c})
    BY <1>3 DEF Multicall
  <2>2. k \in ChainStates /\ Enumerated(k)
    BY <1>0, <2>1, AfterFacts, CallFacts
  <2> HIDE DEF k
  <2> QED
    BY <2>1, <2>2
<1>4. CASE Fails(c) \/ AddReverts(c) \/ MulticallReverts(c)
  BY <1>4 DEF Fails, AddReverts, MulticallReverts
<1> QED
  BY <1>1, <1>2, <1>3, <1>4 DEF Sending

(* Every step of a call keeps the invariant, of the others too.            *)
LEMMA CallSteps ==
  ASSUME IInv, NEW c \in Calls, Reading(c) \/ Sending(c)
  PROVE  IInv'
<1>1. TypeOK /\ Enumerated(chain) /\ OursFits /\ \A d \in Calls : CallFits(d)
  BY DEF IInv
<1>2. TypeOK'
  BY <1>1, ReadingTypes, SendingTypes
<1>3. CallFits(c)'
  BY OwnStep
<1>4. \A d \in Calls \ {c} : Still(d) /\ order' = order
  BY <1>1, OneAtATime
<1>5. CASE UNCHANGED chainVars /\ \A d \in Calls \ {c} : changed'[d] = changed[d]
  <2>1. ASSUME NEW d \in Calls, d # c PROVE CallFits(d)'
    BY <1>1, <1>4, <1>5, <2>1, Undisturbed
  <2>2. Enumerated(chain)' /\ OursFits'
    BY <1>1, <1>5 DEF Enumerated, OursFits
  <2> QED
    BY <1>2, <1>3, <2>1, <2>2 DEF IInv
<1>6. ASSUME NEW k \in ChainStates, Block(k, TRUE, Calls \ {c}), Enumerated(k)
      PROVE  IInv'
  <2>1. ASSUME NEW d \in Calls, d # c PROVE CallFits(d)'
    <3>1. d \in Calls \ {c} /\ CallFits(d) /\ Still(d) /\ order' = order /\ TypeOK
      BY <1>1, <1>4, <2>1
    <3> HIDE DEF IInv
    <3> QED
      BY <1>6, <3>1, Overtaken
  <2>2. Enumerated(chain)' /\ OursFits'
    BY <1>6 DEF Block, Enumerated, OursFits
  <2> QED
    BY <1>2, <1>3, <2>1, <2>2 DEF IInv
<1>7. CASE Reading(c)
  BY <1>1, <1>5, <1>7, ReadingLeaves
<1>8. CASE Sending(c)
  BY <1>1, <1>5, <1>6, <1>8, SendingLeaves
<1> QED
  BY <1>7, <1>8

(* So does whatever others do.                                             *)
LEMMA OthersSteps ==
  ASSUME IInv, Others
  PROVE  IInv'
<1>1. TypeOK /\ Enumerated(chain) /\ \A d \in Calls : CallFits(d)
  BY DEF IInv
<1>2. TypeOK' /\ Enumerated(chain)' /\ chain'.allowance = chain.allowance
  BY <1>1, OthersTypes
<1>3. PICK k : Move(k)
  BY DEF Others, Trade, GiveAway, Receive, StrangerAdds
<1>4. Block(k, FALSE, Calls) /\ \A d \in Calls : Still(d) /\ order' = order
  BY <1>3 DEF Move, Still
<1>5. ASSUME NEW d \in Calls PROVE CallFits(d)'
  BY <1>1, <1>4, Overtaken
<1>6. OursFits'
  BY <1>2, <1>4 DEF Block, OursFits
<1> QED
  BY <1>2, <1>5, <1>6 DEF IInv

(* The invariant is inductive.                                             *)
LEMMA StepInvariant == IInv /\ [Next]_vars => IInv'
<1> SUFFICES ASSUME IInv, [Next]_vars PROVE IInv'
  OBVIOUS
<1>1. CASE UNCHANGED vars
  <2>1. TypeOK' /\ Enumerated(chain)' /\ OursFits'
    BY <1>1 DEF vars, IInv, TypeOK, Enumerated, OursFits
  <2>2. ASSUME NEW d \in Calls PROVE CallFits(d)'
    BY <1>1, Undisturbed DEF vars, IInv, Still
  <2> QED
    BY <2>1, <2>2 DEF IInv
<1>2. CASE Next
  BY <1>2, CallSteps, OthersSteps DEF Next
<1> QED
  BY <1>1, <1>2

(* It holds to begin with.                                                 *)
LEMMA InitInvariant == Init => IInv
<1> SUFFICES ASSUME Init PROVE IInv
  OBVIOUS
<1>1. chain \in ChainStates /\ Enumerated(chain) /\ before = chain
  BY DEF Init
<1>2. Op("list", 1, Nothing, Nothing, 0) \in OpType
  BY NothingFacts DEF Op, OpType, Kinds
<1>3. Fresh \in LocalType /\ Len(<<>>) = 0
  BY NothingFacts DEF Fresh, LocalType, Sides
<1>4. TypeOK
  <2>1. order \in [1..2 -> Sides] /\ order[1] # order[2]
    BY DEF Init, Sides
  <2>2. /\ pc \in [Calls -> Places] /\ told \in [Calls -> Outcomes] /\ op \in [Calls -> OpType]
        /\ local \in [Calls -> LocalType] /\ worth \in [Calls -> Pairs]
        /\ credited \in [Calls -> Owners] /\ changed \in [Calls -> SUBSET Parts]
    BY <1>2, <1>3, NothingFacts DEF Init, Places, Outcomes, Owners
  <2>3. ours \in BOOLEAN
    BY DEF Init
  <2>4. moves \in 0..MaxMoves
    BY DEF Init
  <2> QED
    BY <1>1, <2>1, <2>2, <2>3, <2>4 DEF TypeOK, Places, Outcomes, OpType, LocalType
<1>5. ASSUME NEW c \in Calls PROVE CallFits(c)
  BY <1>1 DEF Init, Op, Fresh, CallFits, PlaceOf, ViewsOf, OwnerOf, LiquidityOf, ApprovedOf,
     HeldOf, AskedOf, AcceptedOf, Came
<1> QED
  BY <1>1, <1>4, <1>5 DEF IInv, OursFits

(* The invariant holds, for every constant.                                *)
THEOREM Invariant == Spec => []IInv
BY InitInvariant, StepInvariant, PTL DEF Spec

-----------------------------------------------------------------------------
(* The theorems                                                            *)

(* Every variable has its type, whatever the amounts; the chain too, whose *)
(* allowances and liquidity are never overdrawn.                           *)
THEOREM TypeCorrect == Spec => []TypeOK
BY Invariant, PTL DEF IInv

(* The positions of the wallet are enumerated, each once, through every    *)
(* mint, burn and transfer: what lp_positions() relies on when it reads an *)
(* index at a time.                                                        *)
THEOREM AlwaysEnumerated == Spec => []Enumerated(chain)
<1>1. IInv => Enumerated(chain)
  BY DEF IInv
<1> QED
  BY <1>1, Invariant, PTL

(* What a call that came through paid, took and reported is what its       *)
(* caller asked for, side by side, whichever token the pool has first, and *)
(* what it paid for is the wallet's.                                       *)
THEOREM AsAsked == Spec => []DoesAsAsked
<1>1. IInv => DoesAsAsked
  BY DEF IInv, CallFits, AskedOf, DoesAsAsked, SidesKept, AddsToOwn
<1> QED
  BY <1>1, Invariant, PTL

(* What a call prepared is accepted unless what it prepared it from        *)
(* changed.                                                                *)
THEOREM Accepted == Spec => []PreparedIsAccepted
<1>1. IInv => PreparedIsAccepted
  BY DEF IInv, CallFits, AcceptedOf, PreparedIsAccepted
<1> QED
  BY <1>1, Invariant, PTL

(* A list read an index at a time is the wallet's positions, each once,    *)
(* unless one came or went meanwhile.                                      *)
THEOREM ExactList == Spec => []ListIsExact
<1>1. IInv => ListIsExact
  <2> SUFFICES ASSUME IInv, NEW c \in Calls, Came(c, {"list"}), "held" \notin changed[c]
               PROVE  /\ {local[c].ids[j] : j \in DOMAIN local[c].ids} =
                           {i \in Ids : chain.owner[i] = Wallet}
                      /\ Len(local[c].ids) = Cardinality({i \in Ids : chain.owner[i] = Wallet})
    BY DEF ListIsExact
  <2> DEFINE ids == local[c].ids
             n == Len(chain.held)
             mine == {i \in Ids : chain.owner[i] = Wallet}
  <2>1. /\ Len(ids) = n /\ \A j \in 1..Len(ids) : ids[j] = chain.held[j]
    BY DEF IInv, CallFits, HeldOf, Came
  <2>2. ids \in Seq(Ids) /\ chain.held \in Seq(Ids) /\ n \in Nat
    BY CallFacts, ChainFacts, HeldFacts DEF IInv, TypeOK
  <2>3. ids = chain.held /\ DOMAIN chain.held = 1..n
    BY <2>1, <2>2
  <2>4. /\ {chain.held[j] : j \in 1..n} = mine
        /\ \A j, m \in 1..n : chain.held[j] = chain.held[m] => j = m
    BY <2>3 DEF IInv, Enumerated
  <2>5. chain.held \in Bijection(1..n, mine)
    <3>1. chain.held \in [1..n -> mine]
      BY <2>2, <2>4
    <3>2. \A t \in mine : \E s \in 1..n : chain.held[s] = t
      BY <2>4
    <3> QED
      <4>1. chain.held \in Injection(1..n, mine)
        BY <2>4, <3>1 DEF Injection, IsInjective
      <4>2. chain.held \in Surjection(1..n, mine)
        BY <3>1, <3>2 DEF Surjection
      <4> QED
        BY <4>1, <4>2 DEF Bijection
  <2>6. Cardinality(mine) = n
    BY <2>2, <2>5, FS_CountingElements DEF ExistsBijection
  <2> QED
    BY <2>1, <2>3, <2>4, <2>6
<1> QED
  BY <1>1, Invariant, PTL
=============================================================================
