----------------------------- MODULE Approvals -----------------------------
(***************************************************************************)
(* Reads that reflect the client's own writes, and the flows that depend   *)
(* on them: read an allowance, approve if need be, then let a contract     *)
(* spend it (src/primedelta/dex/handlers.py: _approve_if_insufficient,     *)
(* _set_allowance and the swaps and liquidity calls; primedelta.py:        *)
(* _note_write, _fresh_block, _read_at_block, approve, revoke_approval).   *)
(*                                                                         *)
(* One token and one spender of one client are modelled: the router (and,  *)
(* alike, the position manager), or an oracle pool with or without bounds  *)
(* on its own liquidity calls.  A block is a transaction of the client     *)
(* that went through; the send path is that of TxSender, cut down to what  *)
(* becomes of a transaction and when its sender hears of it.               *)
(***************************************************************************)
EXTENDS Naturals, Sequences, SequencesExt

CONSTANTS
  Uses,        (* swaps, or calls that add liquidity                         *)
  Approvals,   (* calls of approve() and revoke_approval()                   *)
  MaxAmount,   (* bound: the largest amount                                  *)
  MaxLag,      (* bound: blocks a replica may be behind                      *)
  Nobody       (* no thread holds _tx_lock                                   *)

Calls   == Uses \union Approvals
Amounts == 0..MaxAmount

ASSUME ApprovalsAssumption ==
  /\ Uses \intersect Approvals = {}
  /\ MaxAmount \in Nat /\ MaxLag \in Nat
  /\ Nobody \notin Calls

VARIABLES
  \* What the calls are about.
  spender,     (* "router", "pool" or "boundedPool"                          *)
  amount,      (* what each call may spend, or approves                      *)
  \* The node.
  allowance,   (* the spender's allowance after each block                   *)
  flight,      (* the calls with an unmined transaction, in nonce order      *)
  receipt,     (* what became of each call's last transaction                *)
  block,       (* the block each call's last transaction is in               *)
  \* The client.
  lastWrite,   (* _last_write_block                                          *)
  lock,        (* the holder of _tx_lock                                     *)
  \* The threads.
  pc,          (* where each call is                                         *)
  step,        (* the transaction it sends next                              *)
  pin,         (* _fresh_block() of its read, 0 for "latest"                 *)
  outcome,     (* what it returned or raised                                 *)
  \* History.
  saw,         (* the block its read was served from                         *)
  heard,       (* the last block of ours a call had heard of when it pinned  *)
  acked,       (* the last block of ours any call has heard of               *)
  stale,       (* calls whose read missed a transaction of ours              *)
  raced,       (* calls with a transaction of another mined since they read  *)
  taken,       (* what the spender took in each call                         *)
  refused      (* calls whose spender was refused the token                  *)

nodeVars    == <<allowance, flight, receipt, block>>
clientVars  == <<lastWrite, lock>>
threadVars  == <<pc, step, pin, outcome>>
historyVars == <<saw, heard, acked, stale, raced, taken, refused>>
fixedVars   == <<spender, amount>>
vars        == <<fixedVars, nodeVars, clientVars, threadVars, historyVars>>

Tip    == Len(allowance)
Blocks == 1..Tip

TypeOK ==
  /\ spender \in {"router", "pool", "boundedPool"}
  /\ amount \in [Calls -> Amounts]
  /\ allowance \in Seq(Amounts) /\ Tip > 0
  /\ flight \in Seq(Calls)
  /\ receipt \in [Calls -> {"none", "failed", "ok"}]
  /\ block \in [Calls -> Blocks \union {0}]
  /\ lastWrite \in Blocks \union {0}
  /\ lock \in Calls \union {Nobody}
  /\ pc \in [Calls -> {"idle", "pinned", "ready", "sending", "waiting", "returned"}]
  /\ step \in [Calls -> {"approve", "use"}]
  /\ pin \in [Calls -> Blocks \union {0}]
  /\ outcome \in [Calls -> {"none", "ok", "reverted", "pending", "stuck"}]
  /\ saw \in [Calls -> Blocks] /\ heard \in [Calls -> Blocks] /\ acked \in Blocks
  /\ stale \subseteq Uses /\ raced \subseteq Calls /\ refused \subseteq Uses
  /\ taken \in [Calls -> Amounts]

-----------------------------------------------------------------------------
(* Helpers.                                                                *)

Goto(c, where) == pc' = [pc EXCEPT ![c] = where]

Return(c, what) ==
  /\ Goto(c, "returned")
  /\ outcome' = [outcome EXCEPT ![c] = what]

Larger(m, n) == IF m >= n THEN m ELSE n

(* The blocks the replica that answers may call "latest".                  *)
Heads == {b \in Blocks : Tip <= b + MaxLag}

(* _fresh_block(): "latest" until something was sent, then the last write  *)
(* or what the replica calls its head, if it answers at all.               *)
FreshBlock_Head == {b \in Heads : lastWrite # 0} \union {0}
FreshBlock ==
  IF lastWrite = 0 THEN {0} ELSE {Larger(lastWrite, b) : b \in Heads \union {0}}

(* _read_at_block: the block asked for, or "latest" in the end.            *)
Served(b) == IF b = 0 THEN Heads ELSE {b} \union Heads

(* _note_write, after each receipt of a success.                           *)
NoteWrite_Never(b) == lastWrite
NoteWrite(b) == Larger(lastWrite, b)

(* The allowance read makes an approve unnecessary: the router needs at    *)
(* least the amount, a pool exactly the cap.                               *)
Suffices_Cap(c, value) == value >= amount[c]
Suffices_Any(c, value) == value > 0
Suffices(c, value) ==
  IF spender = "router" THEN value >= amount[c] ELSE value = amount[c]

(* What the spender may ask for: whatever its reserves say if it is a pool *)
(* that is not told the caller's bounds, at most the amount otherwise.     *)
Bounded(c) == 0..amount[c]
Asks(c) == IF spender = "pool" THEN Amounts ELSE Bounded(c)

-----------------------------------------------------------------------------
(* Reading.                                                                *)

(* A flow that spends starts by pinning its read; approve() and            *)
(* revoke_approval() do not read.                                          *)
Pin(c) ==
  /\ c \in Uses
  /\ pc[c] = "idle"
  /\ \E b \in FreshBlock : pin' = [pin EXCEPT ![c] = b]
  /\ heard' = [heard EXCEPT ![c] = acked]
  /\ Goto(c, "pinned")
  /\ UNCHANGED <<fixedVars, nodeVars, clientVars, step, outcome, saw, acked, stale, raced,
                 taken, refused>>

(* The allowance, and whether an approve comes first.                      *)
ReadAllowance(c) ==
  /\ pc[c] = "pinned"
  /\ \E b \in Served(pin[c]) :
       /\ saw' = [saw EXCEPT ![c] = b]
       /\ stale' = IF b = Tip THEN stale ELSE stale \union {c}
       /\ step' = [step EXCEPT ![c] = IF Suffices(c, allowance[b]) THEN "use" ELSE "approve"]
  /\ Goto(c, "ready")
  /\ UNCHANGED <<fixedVars, nodeVars, clientVars, pin, outcome, heard, acked, raced, taken,
                 refused>>

Approve(c) ==
  /\ c \in Approvals
  /\ pc[c] = "idle"
  /\ Goto(c, "ready")
  /\ UNCHANGED <<fixedVars, nodeVars, clientVars, step, pin, outcome, historyVars>>

-----------------------------------------------------------------------------
(* Sending one transaction.                                                *)

(* _tx_lock.                                                               *)
BeginSend(c) ==
  /\ pc[c] = "ready"
  /\ lock = Nobody
  /\ lock' = c
  /\ Goto(c, "sending")
  /\ UNCHANGED <<fixedVars, nodeVars, lastWrite, step, pin, outcome, historyVars>>

(* A transaction of ours that timed out is in the way; one whose broadcast *)
(* or poll failed is queued behind, and so need not be.                    *)
FindStuck(c) ==
  /\ pc[c] = "sending"
  /\ flight # <<>>
  /\ Return(c, "stuck")
  /\ lock' = Nobody
  /\ UNCHANGED <<fixedVars, nodeVars, lastWrite, step, pin, historyVars>>

(* The simulation passes at the block it is pinned to.                     *)
Broadcast(c) ==
  /\ pc[c] = "sending"
  /\ step[c] = "use" =>
       \E b \in FreshBlock : \E v \in Served(b) : \E n \in Asks(c) : n <= allowance[v]
  /\ flight' = Append(flight, c)
  /\ receipt' = [receipt EXCEPT ![c] = "none"]
  /\ Goto(c, "waiting")
  /\ UNCHANGED <<fixedVars, allowance, block, clientVars, step, pin, outcome, historyVars>>

(* It reverts, for want of an allowance or for another reason.             *)
EstimateReverts(c) ==
  /\ pc[c] = "sending"
  /\ Return(c, "reverted")
  /\ lock' = Nobody
  /\ UNCHANGED <<fixedVars, nodeVars, lastWrite, step, pin, historyVars>>

(* The receipt: the write is noted, and a flow goes on to its own call.    *)
Receipt(c) ==
  /\ pc[c] = "waiting"
  /\ receipt[c] # "none"
  /\ lock' = Nobody
  /\ IF receipt[c] = "ok"
     THEN /\ lastWrite' = NoteWrite(block[c])
          /\ acked' = Larger(acked, block[c])
          /\ IF c \in Uses /\ step[c] = "approve"
             THEN /\ step' = [step EXCEPT ![c] = "use"]
                  /\ Goto(c, "ready")
                  /\ UNCHANGED outcome
             ELSE Return(c, "ok") /\ UNCHANGED step
     ELSE /\ Return(c, "reverted")
          /\ UNCHANGED <<lastWrite, acked, step>>
  /\ UNCHANGED <<fixedVars, nodeVars, pin, saw, heard, stale, raced, taken, refused>>

(* The wait times out, or the broadcast's answer is lost: the transaction  *)
(* may be mined, or mine later, and no receipt is looked at.               *)
GiveUp(c) ==
  /\ pc[c] = "waiting"
  /\ Return(c, "pending")
  /\ lock' = Nobody
  /\ UNCHANGED <<fixedVars, nodeVars, lastWrite, step, pin, historyVars>>

-----------------------------------------------------------------------------
(* The chain.                                                              *)

(* The next transaction goes through and leaves the allowance at value.    *)
Mined(c, value) ==
  /\ flight' = Tail(flight)
  /\ receipt' = [receipt EXCEPT ![c] = "ok"]
  /\ allowance' = Append(allowance, value)
  /\ block' = [block EXCEPT ![c] = Tip + 1]
  /\ raced' = raced \union Range(flight')
                    \union ({d \in Calls : pc[d] \in {"ready", "sending", "waiting"}} \ {c})

MineApprove(c) ==
  /\ flight # <<>> /\ Head(flight) = c
  /\ step[c] = "approve"
  /\ Mined(c, amount[c])
  /\ UNCHANGED <<fixedVars, clientVars, threadVars, saw, heard, acked, stale, taken, refused>>

(* A spender that asks for more than it is allowed is refused.             *)
MineUse(c) ==
  /\ flight # <<>> /\ Head(flight) = c
  /\ step[c] = "use"
  /\ \E n \in Asks(c) :
       \/ /\ n <= allowance[Tip]
          /\ Mined(c, allowance[Tip] - n)
          /\ taken' = [taken EXCEPT ![c] = n]
          /\ UNCHANGED refused
       \/ /\ n > allowance[Tip]
          /\ flight' = Tail(flight)
          /\ receipt' = [receipt EXCEPT ![c] = "failed"]
          /\ refused' = refused \union {c}
          /\ UNCHANGED <<allowance, block, raced, taken>>
  /\ UNCHANGED <<fixedVars, clientVars, threadVars, saw, heard, acked, stale>>

(* The node forgets a transaction nobody waits for any more; what was      *)
(* queued behind it mines once its nonce is taken again.                   *)
Drop ==
  /\ \E i \in DOMAIN flight :
       /\ pc[flight[i]] = "returned"
       /\ flight' = RemoveAt(flight, i)
  /\ UNCHANGED <<fixedVars, allowance, receipt, block, clientVars, threadVars, historyVars>>

-----------------------------------------------------------------------------
Init ==
  /\ spender \in {"router", "pool", "boundedPool"}
  /\ amount \in [Calls -> Amounts]
  /\ \A c \in Uses : amount[c] > 0
  /\ \E first \in Amounts : allowance = <<first>>
  /\ flight = <<>>
  /\ receipt = [c \in Calls |-> "none"] /\ block = [c \in Calls |-> 0]
  /\ lastWrite = 0 /\ lock = Nobody
  /\ pc = [c \in Calls |-> "idle"]
  /\ step = [c \in Calls |-> "approve"]
  /\ pin = [c \in Calls |-> 0]
  /\ outcome = [c \in Calls |-> "none"]
  /\ saw = [c \in Calls |-> 1] /\ heard = [c \in Calls |-> 1] /\ acked = 1
  /\ stale = {} /\ raced = {} /\ refused = {}
  /\ taken = [c \in Calls |-> 0]

Thread(c) ==
  \/ Pin(c) \/ ReadAllowance(c) \/ Approve(c) \/ BeginSend(c) \/ FindStuck(c)
  \/ Broadcast(c) \/ EstimateReverts(c) \/ Receipt(c) \/ GiveUp(c)

Next ==
  \/ \E c \in Calls : Thread(c) \/ MineApprove(c) \/ MineUse(c)
  \/ Drop

Spec == Init /\ [][Next]_vars

-----------------------------------------------------------------------------
(* Properties.                                                             *)

(* A read served from the block it was pinned to, or a later one, reflects *)
(* every transaction of the client whose receipt any call had seen.        *)
ReadsHeardWrites ==
  \A c \in Uses :
    pc[c] \notin {"idle", "pinned"} /\ saw[c] >= pin[c] => saw[c] >= heard[c]

(* A pool that enforces no bounds takes no more than the cap its caller    *)
(* gave, as long as the read missed nothing of ours and no other call of   *)
(* the client came between.                                                *)
CapKept ==
  \A c \in Uses \ (stale \union raced) : taken[c] <= amount[c]

(* Under the same conditions a swap, and an add to a pool with bounds, is  *)
(* not refused its tokens: no approve that was needed has been skipped.    *)
NeededApproveSent ==
  spender # "pool" => refused \subseteq stale \union raced

-----------------------------------------------------------------------------
(* The inductive invariant behind them.                                    *)

(* approve() and revoke_approval() only approve.                           *)
OnlyFlowsSpend == \A c \in Approvals : pc[c] # "pinned" /\ step[c] = "approve"

(* _last_write_block is as late as any write a call has heard of, and so   *)
(* is the block a read is pinned to.                                       *)
AckNoted  == acked = 1 \/ acked <= lastWrite
PinCovers == \A c \in Uses : pc[c] # "idle" => heard[c] = 1 \/ heard[c] <= pin[c]

(* What is unmined is of calls that wait or gave up, one for each.         *)
FlightSound ==
  /\ \A i, j \in DOMAIN flight : flight[i] = flight[j] => i = j
  /\ \A i \in DOMAIN flight :
       pc[flight[i]] \in {"waiting", "returned"} /\ receipt[flight[i]] = "none"

(* A flow is about to spend, spends, or has just had its approve mined.    *)
OnTheWay(c) ==
  \/ step[c] = "use" /\ pc[c] \in {"ready", "sending"}
  \/ step[c] = "use" /\ \E i \in DOMAIN flight : flight[i] = c
  \/ step[c] = "approve" /\ pc[c] = "waiting" /\ receipt[c] = "ok"

(* Until it has spent, the allowance of a flow that nothing disturbed is   *)
(* the one it wants.                                                       *)
FitsUntilUsed ==
  \A c \in Uses \ (stale \union raced) : OnTheWay(c) => Suffices(c, allowance[Tip])

(* Inductive.                                                              *)
IInv ==
  TypeOK /\ OnlyFlowsSpend /\ AckNoted /\ PinCovers /\ FlightSound
  /\ FitsUntilUsed /\ CapKept /\ NeededApproveSent
=============================================================================
