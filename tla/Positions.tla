----------------------------- MODULE Positions -----------------------------
(***************************************************************************)
(* Oracle-free positions: the calls of dex/handlers.py _AMMPoolHandler and *)
(* the listing in primedelta.py, each a few reads and up to three          *)
(* transactions, against a position manager that other wallets, other      *)
(* threads and the market change in between.                               *)
(*                                                                         *)
(* A position is an NFT with some liquidity and the tokens it is owed.     *)
(* The client thinks in stock and dUSD, the contracts in token0 and        *)
(* token1.  What becomes of a transaction on its way is TxSender's matter: *)
(* here it is mined at once, reverts, or is not sent.                      *)
(***************************************************************************)
EXTENDS Naturals, Sequences, FiniteSets

CONSTANTS
  Calls,        \* calls of the client's methods
  Ids,          \* bound: the position ids there can be
  Chains,       \* what the chain may look like to begin with
  Wants,        \* amounts desired, of each side
  Floors,       \* minimum amounts, of each side
  Shares,       \* liquidity the user asks to remove
  Prices,       \* what a unit of liquidity may be worth, of each side
  Wallet,       \* the client's account
  Stranger,     \* any other account
  NoOne,        \* the owner of an id that is not minted, or burnt
  MaxMoves      \* bound: what others do

Sides == {"stock", "stable"}
Pairs == [Sides -> Nat]
Owners == {Wallet, Stranger, NoOne}

(* The position manager, the pool and the two tokens: whose each position  *)
(* is, the order in which the wallet's are enumerated, the next id, the    *)
(* liquidity and the fees, what the manager may take of the wallet's       *)
(* tokens, the price.                                                      *)
ChainStates ==
  [owner : [Ids -> Owners], held : Seq(Ids), next : Nat, liquidity : [Ids -> Nat],
   owed : [Ids -> Pairs], allowance : Pairs, price : Prices]

(* The positions of the wallet are enumerated, each once, and an id that   *)
(* has not been given out yet is nobody's.                                 *)
Enumerated(k) ==
  /\ {k.held[j] : j \in DOMAIN k.held} = {i \in Ids : k.owner[i] = Wallet}
  /\ \A j, m \in DOMAIN k.held : k.held[j] = k.held[m] => j = m
  /\ \A i \in Ids : i >= k.next => k.owner[i] = NoOne

ASSUME PositionsAssumption ==
  /\ Wallet # Stranger /\ NoOne \notin {Wallet, Stranger}
  /\ Chains \subseteq ChainStates
  /\ \A k \in Chains : Enumerated(k)
  /\ Ids \subseteq Nat /\ 1 \in Ids /\ Shares \subseteq Nat
  /\ Wants \subseteq Pairs /\ Floors \subseteq Pairs /\ Prices \subseteq Pairs
  /\ \A p \in Prices : \E s \in Sides : p[s] > 0
  /\ MaxMoves \in Nat

VARIABLES
  order,      \* token0 and token1 of the pool
  chain,      \* the latest block
  before,     \* the block before it: a replica may still answer from it
  ours,       \* whether the wallet sent the last transaction
  pc,         \* per call: its next step
  op,         \* per call: the method called, and its arguments
  local,      \* per call: token0, the liquidity, the count and the ids it has read,
              \* which token it is about to approve, and what a preview returns
  told,       \* per call: what its caller got
  worth,      \* history, per call: what its transaction moved, or what a preview read
  credited,   \* history, per call: who got the liquidity it added
  changed,    \* history, per call: what it depends on and something else changed
  moves       \* how often others did something

vars == <<order, chain, before, ours, pc, op, local, told, worth, credited, changed, moves>>
chainVars == <<order, chain, before, ours, moves>>
historyVars == <<worth, credited, changed>>

Kinds == {"add", "increase", "remove", "collect", "burn", "preview", "list"}
Nothing == [s \in Sides |-> 0]
Fresh == [first |-> "stock", liquidity |-> 0, count |-> 0, ids |-> <<>>, leg |-> 1,
          answer |-> Nothing]
Parts == {"owner", "liquidity", "owed", "held", "allowance"}

TypeOK ==
  /\ order \in [1..2 -> Sides] /\ order[1] # order[2]
  /\ chain \in ChainStates /\ before \in ChainStates
  /\ ours \in BOOLEAN
  /\ pc \in [Calls -> {"idle", "begin", "position", "allowance", "approve", "send",
                       "preview", "list", "done"}]
  /\ op \in [Calls -> [kind : Kinds, id : Ids, want : Pairs, floor : Pairs, part : Nat]]
  /\ local \in [Calls -> [first : Sides, liquidity : Nat, count : Nat, ids : Seq(Ids),
                      leg : 1..2, answer : Pairs]]
  /\ told \in [Calls -> {"none", "ok", "refused", "reverted", "unpaid", "failed"}]
  /\ worth \in [Calls -> Pairs]
  /\ credited \in [Calls -> Owners]
  /\ changed \in [Calls -> SUBSET Parts]
  /\ moves \in 0..MaxMoves

-----------------------------------------------------------------------------
(* The client's side and order of amounts.                                 *)

MapAmounts_AsGiven(first, a) == <<a["stock"], a["stable"]>>
MapAmounts(first, a) ==
  IF first = "stock" THEN <<a["stock"], a["stable"]>> ELSE <<a["stable"], a["stock"]>>

(* The same for what a preview returns.                                    *)
SidesOf(first, amounts) ==
  IF first = "stable" THEN [stable |-> amounts[1], stock |-> amounts[2]]
  ELSE [stock |-> amounts[1], stable |-> amounts[2]]

(* The tokens in the client's order.                                       *)
TokenAt(first, leg) ==
  IF leg = 1 THEN first ELSE CHOOSE s \in Sides : s # first

(* The calls a transaction of the client makes of the position manager,    *)
(* all or none of them.                                                    *)
StepsOf_NoCollect(kind, liquidity) ==
  CASE kind = "remove" -> {"decrease", "collect"}
    [] kind = "collect" -> {"collect"}
    [] kind = "burn" -> {"burn"} \union (IF liquidity > 0 THEN {"decrease"} ELSE {})
StepsOf(kind, liquidity) ==
  CASE kind = "remove" -> {"decrease", "collect"}
    [] kind = "collect" -> {"collect"}
    [] kind = "burn" -> {"collect", "burn"} \union (IF liquidity > 0 THEN {"decrease"} ELSE {})

-----------------------------------------------------------------------------
(* The contracts.                                                          *)

Value(k, liquidity) == [s \in Sides |-> liquidity * k.price[s]]

(* The most liquidity the amounts, given as token0 and token1, buy.        *)
Bought(k, amounts) ==
  LET fits == {l \in 0..(amounts[1] + amounts[2]) :
                 \A j \in 1..2 : Value(k, l)[order[j]] <= amounts[j]}
  IN CHOOSE l \in fits : \A m \in fits : m <= l

Adds(k, amounts, floors) ==
  /\ Bought(k, amounts) > 0
  /\ \A j \in 1..2 : Value(k, Bought(k, amounts))[order[j]] >= floors[j]

Paid(k, amounts) ==
  \A s \in Sides : Value(k, Bought(k, amounts))[s] <= k.allowance[s]

(* The state k with l more liquidity in position i.                        *)
WithAdded(k, i, l, allowance) ==
  [k EXCEPT !.liquidity[i] = @ + l, !.allowance = allowance]

Spent(k, amounts) ==
  [s \in Sides |-> k.allowance[s] - Value(k, Bought(k, amounts))[s]]

(* An owner's multicall of the given steps.                                *)
Takes(k, i, steps, l, floors) ==
  /\ k.owner[i] = Wallet
  /\ "decrease" \in steps =>
       /\ 0 < l /\ l <= k.liquidity[i]
       /\ \A j \in 1..2 : Value(k, l)[order[j]] >= floors[j]
  /\ "burn" \in steps =>
       /\ k.liquidity[i] = IF "decrease" \in steps THEN l ELSE 0
       /\ "collect" \in steps \/ (k.owed[i] = Nothing /\ "decrease" \notin steps)

(* Enumerable: the last of an owner's tokens takes the place of one that   *)
(* leaves.                                                                 *)
Leaves(held, i) ==
  LET n == Len(held)
      at == CHOOSE j \in 1..n : held[j] = i
  IN [j \in 1..(n - 1) |-> IF j = at THEN held[n] ELSE held[j]]

AfterSteps(k, i, steps, l) ==
  LET left == IF "decrease" \in steps THEN k.liquidity[i] - l ELSE k.liquidity[i]
      credit == [s \in Sides |-> IF "collect" \in steps THEN 0
                                 ELSE k.owed[i][s] + (k.liquidity[i] - left) * k.price[s]]
      burnt == "burn" \in steps
  IN [k EXCEPT !.liquidity[i] = left,
               !.owed[i] = credit,
               !.owner[i] = IF burnt THEN NoOne ELSE @,
               !.held = IF burnt THEN Leaves(@, i) ELSE @]

-----------------------------------------------------------------------------
(* What a call is asked to do; the arguments a method lacks are 0.         *)

Op(kind, i, want, floor, part) ==
  [kind |-> kind, id |-> i, want |-> want, floor |-> floor, part |-> part]

Ops ==
  {Op("add", 1, w, f, 0) : w \in Wants, f \in Floors}
  \union {Op("increase", i, w, f, 0) : i \in Ids, w \in Wants, f \in Floors}
  \union {Op("remove", i, Nothing, f, l) : i \in Ids, f \in Floors, l \in Shares}
  \union {Op(kind, i, Nothing, Nothing, 0) : kind \in {"collect", "burn", "preview"}, i \in Ids}
  \union {Op("list", 1, Nothing, Nothing, 0)}

Amounts(c) == MapAmounts(local[c].first, op[c].want)
AmountsMin(c) == MapAmounts(local[c].first, op[c].floor)
Steps(c) == StepsOf(op[c].kind, local[c].liquidity)

(* How much a multicall takes out: what the user said, or all there was    *)
(* when a burn read the position.                                          *)
Share(c) == IF op[c].kind = "remove" THEN op[c].part ELSE local[c].liquidity

(* A read goes to any replica, unpinned; a simulation is pinned to the     *)
(* wallet's own last transaction.                                          *)
Views == {chain, before}
Simulated == IF ours THEN {chain} ELSE {chain, before}

Differs(part, k1, k2, i) ==
  IF part \in {"owner", "liquidity", "owed"} THEN k1[part][i] # k2[part][i]
  ELSE k1[part] # k2[part]

(* A transaction mined: the chain becomes k, which concerns the calls that *)
(* have begun, except the one that sent it.                                *)
Block(k, mine, others) ==
  /\ chain' = k
  /\ before' = chain
  /\ ours' = mine
  /\ changed' = [c \in Calls |->
       IF c \in others /\ pc[c] # "idle"
       THEN changed[c] \union {p \in Parts : Differs(p, chain, k, op[c].id)}
       ELSE changed[c]]

Goto(c, step) == pc' = [pc EXCEPT ![c] = step]
Return(c, what) == Goto(c, "done") /\ told' = [told EXCEPT ![c] = what]
Learn(c, field, value) == local' = [local EXCEPT ![c] = [@ EXCEPT ![field] = value]]

-----------------------------------------------------------------------------
(* Reads.                                                                  *)

Begin(c) ==
  /\ pc[c] = "idle"
  /\ \E o \in Ops :
       /\ op' = [op EXCEPT ![c] = o]
       /\ changed' = [changed EXCEPT ![c] =
            {p \in Parts \ {"allowance"} : Differs(p, before, chain, o.id)}]
  /\ Goto(c, "begin")
  /\ UNCHANGED <<chainVars, local, told, worth, credited>>

Refused(c) ==
  /\ pc[c] = "begin"
  /\ Return(c, "refused")
  /\ UNCHANGED <<chainVars, op, local, historyVars>>

(* Whatever pays in or out asks for a digital identity first, except       *)
(* remove_liquidity().                                                     *)
NotMinted(c) == op[c].kind \in {"add", "increase", "collect", "burn"} /\ Refused(c)
NotConfigured(c) == Refused(c)
NoPool(c) == op[c].kind = "add" /\ Refused(c)

ReadPool(c) ==
  /\ pc[c] = "begin" /\ op[c].kind = "add"
  /\ Learn(c, "first", order[1])
  /\ Goto(c, "allowance")
  /\ UNCHANGED <<chainVars, op, told, historyVars>>

(* A foreign position is refused, one that does not exist reverts.         *)
ReadOwner(c) ==
  /\ pc[c] = "begin" /\ op[c].kind = "increase"
  /\ \E k \in Views :
       IF k.owner[op[c].id] = Wallet
       THEN Goto(c, "position") /\ UNCHANGED told
       ELSE Return(c, "refused")
  /\ UNCHANGED <<chainVars, op, local, historyVars>>

(* token0 and, for a burn, the liquidity.                                  *)
ReadPosition(c) ==
  /\ \/ pc[c] = "position"
     \/ pc[c] = "begin" /\ op[c].kind \in {"remove", "burn", "preview"}
  /\ \E k \in Views :
       IF k.owner[op[c].id] = NoOne
       THEN Return(c, "refused") /\ UNCHANGED local
       ELSE /\ local' = [local EXCEPT ![c] =
                 [@ EXCEPT !.first = order[1], !.liquidity = k.liquidity[op[c].id]]]
            /\ Goto(c, CASE op[c].kind = "increase" -> "allowance"
                         [] op[c].kind = "preview" -> "preview"
                         [] OTHER -> "send")
            /\ UNCHANGED told
  /\ UNCHANGED <<chainVars, op, historyVars>>

(* A static collect from the wallet's address: only its owner may.         *)
Preview(c) ==
  /\ pc[c] = "preview"
  /\ \E k \in Views :
       LET i == op[c].id IN
       IF k.owner[i] = Wallet
       THEN /\ Learn(c, "answer",
                     SidesOf(local[c].first, <<k.owed[i][order[1]], k.owed[i][order[2]]>>))
            /\ worth' = [worth EXCEPT ![c] = k.owed[i]]
            /\ Return(c, "ok")
       ELSE Return(c, "reverted") /\ UNCHANGED <<local, worth>>
  /\ UNCHANGED <<chainVars, op, credited, changed>>

(* lp_positions(): a count, then one read for each index below it.         *)
ReadCount_Short(c) ==
  /\ pc[c] = "begin" /\ op[c].kind = "list"
  /\ \E k \in Views : Learn(c, "count", IF Len(k.held) > 1 THEN Len(k.held) - 1 ELSE 0)
  /\ Goto(c, "list")
  /\ UNCHANGED <<chainVars, op, told, historyVars>>
ReadCount(c) ==
  /\ pc[c] = "begin" /\ op[c].kind = "list"
  /\ \E k \in Views : Learn(c, "count", Len(k.held))
  /\ Goto(c, "list")
  /\ UNCHANGED <<chainVars, op, told, historyVars>>

ReadNext(c) ==
  /\ pc[c] = "list" /\ Len(local[c].ids) < local[c].count
  /\ \E k \in Views :
       LET n == Len(local[c].ids) + 1 IN
       IF n \in DOMAIN k.held
       THEN Learn(c, "ids", Append(local[c].ids, k.held[n])) /\ UNCHANGED <<pc, told>>
       ELSE Return(c, "reverted") /\ UNCHANGED local
  /\ UNCHANGED <<chainVars, op, historyVars>>

Listed(c) ==
  /\ pc[c] = "list" /\ Len(local[c].ids) = local[c].count
  /\ Return(c, "ok")
  /\ UNCHANGED <<chainVars, op, local, historyVars>>

-----------------------------------------------------------------------------
(* Approvals, of token0 and then of token1, and transactions.              *)

Leg(c) == local[c].leg
TokenNow(c) == TokenAt(local[c].first, Leg(c))

Onwards_NoEnd(c) ==
  Learn(c, "leg", Leg(c) + 1) /\ Goto(c, IF Leg(c) = 1 THEN "allowance" ELSE "send")
Onwards(c) ==
  IF Leg(c) = 1 THEN Learn(c, "leg", 2) /\ Goto(c, "allowance")
  ELSE UNCHANGED local /\ Goto(c, "send")

ReadAllowance(c) ==
  /\ pc[c] = "allowance"
  /\ IF chain.allowance[TokenNow(c)] >= Amounts(c)[Leg(c)] THEN Onwards(c)
     ELSE UNCHANGED local /\ Goto(c, "approve")
  /\ UNCHANGED <<chainVars, op, told, historyVars>>

Approve(c) ==
  /\ pc[c] = "approve"
  /\ Block([chain EXCEPT !.allowance[TokenNow(c)] = Amounts(c)[Leg(c)]],
           TRUE, Calls \ {c})
  /\ Onwards(c)
  /\ UNCHANGED <<order, op, told, worth, credited, moves>>

(* halt(), a deadline that has passed, and whatever else a send can fail of. *)
Fails(c) ==
  /\ pc[c] \in {"approve", "send"}
  /\ Return(c, "failed")
  /\ UNCHANGED <<chainVars, op, local, historyVars>>

(* mint, to the wallet, or increaseLiquidity, of whoever's position it is. *)
Add(c) ==
  /\ pc[c] = "send" /\ op[c].kind \in {"add", "increase"}
  /\ \/ op[c].kind = "add" /\ chain.next \in Ids
     \/ op[c].kind = "increase" /\ chain.owner[op[c].id] # NoOne
  /\ Adds(chain, Amounts(c), AmountsMin(c)) /\ Paid(chain, Amounts(c))
  /\ LET mint == op[c].kind = "add"
         i == IF mint THEN chain.next ELSE op[c].id
         l == Bought(chain, Amounts(c))
         k == WithAdded(chain, i, l, Spent(chain, Amounts(c)))
     IN /\ Block(IF mint
                 THEN [k EXCEPT !.owner[i] = Wallet, !.held = Append(@, i),
                                !.next = @ + 1]
                 ELSE k, TRUE, Calls \ {c})
        /\ worth' = [worth EXCEPT ![c] = Value(chain, l)]
        /\ credited' = [credited EXCEPT ![c] = IF mint THEN Wallet ELSE chain.owner[i]]
  /\ Return(c, "ok")
  /\ UNCHANGED <<order, op, local, moves>>

(* The simulation or the transaction reverts.                              *)
AddReverts(c) ==
  /\ pc[c] = "send" /\ op[c].kind \in {"add", "increase"}
  /\ \E k \in Simulated :
       \/ /\ op[c].kind = "increase" /\ k.owner[op[c].id] = NoOne
          /\ Return(c, "reverted")
       \/ ~Adds(k, Amounts(c), AmountsMin(c)) /\ Return(c, "reverted")
       \/ /\ Adds(k, Amounts(c), AmountsMin(c)) /\ ~Paid(k, Amounts(c))
          /\ Return(c, "unpaid")
  /\ UNCHANGED <<chainVars, op, local, historyVars>>

(* collect_fees() reads nothing.                                           *)
Collect(c) ==
  /\ pc[c] = "begin" /\ op[c].kind = "collect"
  /\ Goto(c, "send")
  /\ UNCHANGED <<chainVars, op, local, told, historyVars>>

(* All the steps, or none.                                                 *)
Multicall(c) ==
  /\ pc[c] = "send" /\ op[c].kind \in {"remove", "collect", "burn"}
  /\ Takes(chain, op[c].id, Steps(c), Share(c), AmountsMin(c))
  /\ Block(AfterSteps(chain, op[c].id, Steps(c), Share(c)), TRUE, Calls \ {c})
  /\ worth' = [worth EXCEPT ![c] = Value(chain, Share(c))]
  /\ Return(c, "ok")
  /\ UNCHANGED <<order, op, local, credited, moves>>

MulticallReverts(c) ==
  /\ pc[c] = "send" /\ op[c].kind \in {"remove", "collect", "burn"}
  /\ \E k \in Simulated : ~Takes(k, op[c].id, Steps(c), Share(c), AmountsMin(c))
  /\ Return(c, "reverted")
  /\ UNCHANGED <<chainVars, op, local, historyVars>>

-----------------------------------------------------------------------------
(* Everybody else.                                                         *)

Move(k) ==
  /\ moves < MaxMoves
  /\ moves' = moves + 1
  /\ Block(k, FALSE, Calls)
  /\ UNCHANGED <<order, pc, op, local, told, worth, credited>>

(* A trade moves the price and leaves a fee to every position that is in.  *)
Trade ==
  \E p \in Prices, s \in Sides :
    Move([chain EXCEPT !.price = p,
            !.owed = [i \in Ids |-> [chain.owed[i] EXCEPT ![s] =
                        IF chain.liquidity[i] > 0 THEN @ + 1 ELSE @]]])

(* The NFT of a position changes hands.                                    *)
GiveAway(i) ==
  /\ chain.owner[i] = Wallet
  /\ Move([chain EXCEPT !.owner[i] = Stranger, !.held = Leaves(@, i)])

Receive(i) ==
  /\ chain.owner[i] = Stranger
  /\ Move([chain EXCEPT !.owner[i] = Wallet, !.held = Append(@, i)])

(* Anybody may add to any position.                                        *)
StrangerAdds(i) ==
  /\ chain.owner[i] # NoOne
  /\ Move(WithAdded(chain, i, 1, chain.allowance))

Init ==
  /\ order \in {<<"stock", "stable">>, <<"stable", "stock">>}
  /\ chain \in Chains
  /\ before = chain
  /\ ours = FALSE
  /\ pc = [c \in Calls |-> "idle"]
  /\ op = [c \in Calls |-> Op("list", 1, Nothing, Nothing, 0)]
  /\ local = [c \in Calls |-> Fresh]
  /\ told = [c \in Calls |-> "none"]
  /\ worth = [c \in Calls |-> Nothing]
  /\ credited = [c \in Calls |-> NoOne]
  /\ changed = [c \in Calls |-> {}]
  /\ moves = 0

Reading(c) ==
  \/ Begin(c) \/ NotMinted(c) \/ NotConfigured(c) \/ NoPool(c)
  \/ ReadPool(c) \/ ReadOwner(c) \/ ReadPosition(c) \/ Preview(c)
  \/ ReadCount(c) \/ ReadNext(c) \/ Listed(c) \/ ReadAllowance(c) \/ Collect(c)

Sending(c) ==
  \/ Approve(c) \/ Fails(c) \/ Add(c) \/ AddReverts(c) \/ Multicall(c) \/ MulticallReverts(c)

Others == Trade \/ \E i \in Ids : GiveAway(i) \/ Receive(i) \/ StrangerAdds(i)

Next == (\E c \in Calls : Reading(c) \/ Sending(c)) \/ Others

Spec == Init /\ [][Next]_vars

-----------------------------------------------------------------------------
(* Properties.                                                             *)

(* A call of one of these methods came through.                            *)
Came(c, kinds) == told[c] = "ok" /\ op[c].kind \in kinds

(* Whichever token comes first in the pool, what is paid in is no more     *)
(* than the user desired of that side, what is bought or taken out is no   *)
(* less than the user's minimum of that side, and what preview_fees()      *)
(* reports of a side is what the position is owed of it: _map_amounts() and *)
(* the comparisons with token0 in remove_liquidity() and preview_fees().   *)
SidesKept ==
  \A c \in Calls :
    /\ Came(c, {"add", "increase"}) => \A s \in Sides : worth[c][s] <= op[c].want[s]
    /\ Came(c, {"add", "increase", "remove"}) => \A s \in Sides : worth[c][s] >= op[c].floor[s]
    /\ Came(c, {"preview"}) => local[c].answer = worth[c]

(* Liquidity the wallet pays for is the wallet's: increase_liquidity()     *)
(* refuses a position of another wallet (CHANGELOG.md 180-182), unless the *)
(* position left the wallet while the call was on its way.                 *)
AddsToOwn ==
  \A c \in Calls : Came(c, {"add", "increase"}) => credited[c] = Wallet \/ "owner" \in changed[c]

(* What a call that came through paid, took and reported is what its       *)
(* caller asked for: the sides, and whose position it is.                  *)
DoesAsAsked == SidesKept /\ AddsToOwn

(* What a call prepared is accepted unless what it prepared it from        *)
(* changed: a burn, which takes out all that there was when it read the    *)
(* position, comes through whatever the price does and whatever fees come  *)
(* in meanwhile, as long as the position keeps its owner and its           *)
(* liquidity; an add, which approves both tokens, each for its own amount, *)
(* is not refused for want of an allowance unless another call of the      *)
(* wallet used or set one.                                                 *)
PreparedIsAccepted ==
  \A c \in Calls :
    /\ op[c].kind = "burn" /\ told[c] = "reverted" =>
         chain.owner[op[c].id] # Wallet \/ changed[c] \intersect {"owner", "liquidity"} # {}
    /\ told[c] = "unpaid" => "allowance" \in changed[c]

(* lp_positions() is the wallet's positions, each once, when none came or  *)
(* went while it was read: one at a time, from blocks that may differ.     *)
ListIsExact ==
  \A c \in Calls :
    Came(c, {"list"}) /\ "held" \notin changed[c] =>
      /\ {local[c].ids[j] : j \in DOMAIN local[c].ids} = {i \in Ids : chain.owner[i] = Wallet}
      /\ Len(local[c].ids) = Cardinality({i \in Ids : chain.owner[i] = Wallet})
=============================================================================
