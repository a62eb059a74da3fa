------------------------------ MODULE TxSender ------------------------------
(***************************************************************************)
(* The on-chain send path of PrimeDelta (src/primedelta/primedelta.py)     *)
(* with a signer that leaves gas and nonce to the client (a key or KMS     *)
(* signer): _sending, _send_with_nonce_retry, the two ..._once senders,    *)
(* the nonce bookkeeping in _next_nonce and _sent_nonces, and              *)
(* clear_stuck_transactions.                                               *)
(*                                                                         *)
(* Threads of one client send, or clear, one at a time under _tx_lock; the *)
(* chain mines, drops and replaces, another application may use the same   *)
(* key, and each RPC read may be served by a replica that lags behind.     *)
(***************************************************************************)
EXTENDS Naturals, Sequences, FiniteSets

CONSTANTS
  Sends,      (* calls of the send methods, each one transaction to send     *)
  Clears,     (* calls of clear_stuck_transactions()                         *)
  Other,      (* the owner of transactions another application sends         *)
  Free,       (* "no transaction holds this nonce"                           *)
  Nobody,     (* "no thread holds _tx_lock"                                  *)
  Unset,      (* _next_nonce is None                                         *)
  MaxNonce,   (* bound: the last nonce of the account                        *)
  MaxLag,     (* bound: transactions of the account a replica may be behind  *)
  MaxTries,   (* sends of _send_with_nonce_retry's loop (5)                  *)
  MaxLooks    (* nonce reads of _pending_nonce_unless_stuck (5)              *)

Calls  == Sends \union Clears
Nonces == 0..MaxNonce
Owners == Calls \union {Other}

ASSUME SenderAssumption ==
  /\ Sends \intersect Clears = {}
  /\ Other \notin Calls
  /\ Free \notin Owners
  /\ Nobody \notin Calls
  /\ Unset \notin Nat
  /\ MaxNonce \in Nat /\ MaxLag \in Nat
  /\ MaxTries \in Nat \ {0} /\ MaxLooks \in Nat \ {0}

VARIABLES
  \* The node.
  chain,      (* the account's mined transactions, nonce n at n+1            *)
  pool,       (* the transaction the node holds unmined at each nonce        *)
  \* The client.
  halted,     (* _halted                                                     *)
  lock,       (* the holder of _tx_lock                                      *)
  next,       (* _next_nonce: the last nonce reserved, or Unset              *)
  sent,       (* _sent_nonces                                                *)
  \* The threads.
  pc,         (* where each call is                                          *)
  latest,     (* the latest nonce it read                                    *)
  nonce,      (* the pending nonce it read, then the nonce it uses           *)
  ours,       (* already_ours of its _submit                                 *)
  looks,      (* nonce reads so far in this attempt                          *)
  tries,      (* attempts so far                                             *)
  span,       (* the nonces a clear found unmined                            *)
  swapped,    (* the nonces a clear broadcast a replacement for              *)
  outcome,    (* what the call returned or raised                            *)
  \* History.
  evicted,    (* nonces the node dropped, and took nothing at since          *)
  unwatched,  (* nonces of ours whose receipt nobody waits for any more      *)
  foreign     (* nonces of _sent_nonces another application's transaction    *)
              (* has                                                         *)

nodeVars    == <<chain, pool>>
clientVars  == <<halted, lock, next, sent>>
threadVars  == <<pc, latest, nonce, ours, looks, tries, span, swapped, outcome>>
historyVars == <<evicted, unwatched, foreign>>
vars        == <<nodeVars, clientVars, threadVars, historyVars>>

(* "unsent" stands for StuckTransaction and NotEnoughGas, "noEstimate" for *)
(* a gas estimate that failed: their messages say that nothing was sent;   *)
(* "reverted" for a TransactionFailed with or without a hash; "tooLow" and *)
(* "refused" for the node's refusal of the broadcast, "pending" for        *)
(* TransactionPending, "unknown" for a transport error.                    *)
Outcomes == {"none", "halted", "unsent", "noEstimate", "reverted", "tooLow", "refused",
             "pending", "unknown", "ok", "nothingStuck", "cleared", "stuckMined", "failed"}

Steps == {"idle", "queued", "reading", "latestRead", "pendingRead", "signing",
          "broadcast", "waiting", "replacing", "settling", "returned"}

TypeOK ==
  /\ chain \in Seq([by : Owners, ok : BOOLEAN])
  /\ pool \in [Nonces -> Owners \union {Free}]
  /\ halted \in BOOLEAN
  /\ lock \in Calls \union {Nobody}
  /\ next \in Nat \union {Unset}
  /\ sent \subseteq Nonces
  /\ pc \in [Calls -> Steps]
  /\ latest \in [Calls -> Nat]
  /\ nonce \in [Calls -> Nat]
  /\ ours \in [Calls -> BOOLEAN]
  /\ looks \in [Calls -> 0..MaxLooks]
  /\ tries \in [Calls -> 0..MaxTries]
  /\ span \in [Calls -> SUBSET Nonces]
  /\ swapped \in [Calls -> SUBSET Nonces]
  /\ outcome \in [Calls -> Outcomes]
  /\ evicted \subseteq Nonces
  /\ unwatched \subseteq Nonces
  /\ foreign \subseteq Nonces

-----------------------------------------------------------------------------
(* The node, as its replicas answer.                                       *)

Mined == Len(chain)

(* eth_getTransactionCount at a block: at most the truth.  Pinning to      *)
(* _fresh_block does not bound it from below, since a replica that never   *)
(* reaches the block is asked for "latest" in the end.                     *)
LatestView(n) == n <= Mined /\ Mined <= n + MaxLag

(* eth_getTransactionCount at "pending": past what is mined, only over     *)
(* transactions the node holds; a replica may know fewer of them.          *)
PendingView(n) ==
  /\ Mined <= n + MaxLag
  /\ \A m \in Mined..(n-1) : m \in Nonces /\ pool[m] # Free

MinedAs(n, owner) == n < Mined /\ chain[n+1].by = owner

(* The node takes a transaction at a nonce it has not mined, also in place *)
(* of one that pays less.                                                  *)
Takes(n) == Mined <= n /\ n <= MaxNonce

-----------------------------------------------------------------------------
(* Helpers.                                                                *)

Goto(c, step) == pc' = [pc EXCEPT ![c] = step]

(* Leaving "with self._sending()".                                         *)
Return_LockKept(c, what) ==
  /\ Goto(c, "returned")
  /\ outcome' = [outcome EXCEPT ![c] = what]
  /\ UNCHANGED lock
Return(c, what) ==
  /\ Goto(c, "returned")
  /\ outcome' = [outcome EXCEPT ![c] = what]
  /\ lock' = Nobody

(* _reserve_nonce: the pending nonce, or one past our last.                *)
NonceToUse(pending) == IF next # Unset /\ pending <= next THEN next + 1 ELSE pending

(* _sent_nonces explains every nonce from the latest to the pending one.   *)
Explained_Never(from, to) == TRUE
Explained(from, to) == (from..(to-1)) \subseteq sent

(* What is left of _sent_nonces once a transaction timed out: it is no     *)
(* longer in flight.                                                       *)
AfterTimeout(n) == sent \ {n}

(* _next_nonce after a transaction that may never mine.                    *)
NextAfterDoubt == Unset

(* A gap nothing explains is looked at again after a delay.                *)
LooksAgain_Forever(c) == TRUE
LooksAgain(c) == looks[c] + 1 < MaxLooks

(* What a caller hears of a broadcast whose fate is unknown.               *)
BroadcastError_Refused(c) == "refused"
BroadcastError(c) == IF c \in Sends THEN "unknown" ELSE "failed"

(* The TransactionFailed errors whose reason quotes the node or the        *)
(* contract, and so may say "nonce too low".                               *)
Quotes_All(what) == TRUE
Quotes(what) == what \in {"reverted", "noEstimate"}

(* A TransactionFailed reaches _send_with_nonce_retry, with the            *)
(* _next_nonce its cause left.  When its reason says "nonce too low" it    *)
(* starts over, with _next_nonce pinned one below the nonce the reason     *)
(* names, or forgotten; the last attempt's error is raised.                *)
Raise(c, what, after) ==
  \/ /\ Return(c, what)
     /\ next' = after
     /\ UNCHANGED <<looks, tries>>
  \/ /\ Quotes(what)
     /\ next' \in {Unset} \union {n \in Nonces : n < Mined}
     /\ \/ /\ tries[c] + 1 < MaxTries
           /\ tries' = [tries EXCEPT ![c] = @ + 1]
           /\ looks' = [looks EXCEPT ![c] = 0]
           /\ Goto(c, "reading")
           /\ UNCHANGED <<lock, outcome>>
        \/ /\ tries[c] + 1 = MaxTries
           /\ Return(c, what)
           /\ UNCHANGED <<tries, looks>>

(* A replacement's receipt is there, or the nonce was taken before it.     *)
Settled_AtOnce(c) == TRUE
Settled(c) == nonce[c] \in swapped[c] => MinedAs(nonce[c], c)

(* The node now holds c's transaction at nonce n.                          *)
Held(n, c) ==
  /\ Takes(n)
  /\ pool' = [pool EXCEPT ![n] = c]
  /\ evicted' = evicted \ {n}
  /\ foreign' = foreign \ {n}

(* c's broadcast did not reach the node, which holds at n what it held.    *)
NotHeld(n) ==
  /\ foreign' = foreign \union {m \in {n} : pool[m] = Other}
  /\ UNCHANGED <<pool, evicted>>

(* c leaves with its transactions at ns under way.                         *)
Abandon(c, ns) == unwatched' = unwatched \union ns \union swapped[c]

-----------------------------------------------------------------------------
(* Entering and leaving.                                                   *)

(* _sending() before it takes the lock.                                    *)
Enter(c) ==
  /\ pc[c] = "idle"
  /\ IF halted
     THEN /\ Goto(c, "returned")
          /\ outcome' = [outcome EXCEPT ![c] = "halted"]
     ELSE Goto(c, "queued") /\ UNCHANGED outcome
  /\ UNCHANGED <<nodeVars, clientVars, latest, nonce, ours, looks, tries, span, swapped,
                 historyVars>>

Acquire(c) ==
  /\ pc[c] = "queued"
  /\ lock = Nobody
  /\ lock' = c
  /\ Goto(c, "reading")
  /\ UNCHANGED <<nodeVars, halted, next, sent, latest, nonce, ours, looks, tries, span,
                 swapped, outcome, historyVars>>

Halt ==
  /\ ~halted
  /\ halted' = TRUE
  /\ UNCHANGED <<nodeVars, lock, next, sent, threadVars, historyVars>>

Resume ==
  /\ halted
  /\ halted' = FALSE
  /\ UNCHANGED <<nodeVars, lock, next, sent, threadVars, historyVars>>

(* Any RPC read of the path may raise.                                     *)
ReadFails(c) ==
  /\ pc[c] \in {"reading", "latestRead", "pendingRead"}
  /\ Return(c, "unknown")
  /\ UNCHANGED <<nodeVars, halted, next, sent, latest, nonce, ours, looks, tries, span,
                 swapped, historyVars>>

-----------------------------------------------------------------------------
(* Sending one transaction.                                                *)

(* _pending_nonce_unless_stuck and clear_stuck_transactions: the latest    *)
(* nonce, then the pending one.                                            *)
ReadLatest(c) ==
  /\ pc[c] = "reading"
  /\ \E n \in 0..(MaxNonce+1) : LatestView(n) /\ latest' = [latest EXCEPT ![c] = n]
  /\ Goto(c, "latestRead")
  /\ UNCHANGED <<nodeVars, clientVars, nonce, ours, looks, tries, span, swapped, outcome,
                 historyVars>>

(* A gap that our own transactions do not explain is looked at again, and  *)
(* in the end raises StuckTransaction.  Mined nonces are forgotten.        *)
ReadPending(c) ==
  /\ c \in Sends
  /\ pc[c] = "latestRead"
  /\ sent' = {n \in sent : n >= latest[c]}
  /\ \E n \in 0..(MaxNonce+1) :
       /\ PendingView(n)
       /\ \/ /\ Explained(latest[c], n)
             /\ nonce' = [nonce EXCEPT ![c] = n]
             /\ Goto(c, "pendingRead")
             /\ UNCHANGED <<looks, lock, outcome>>
          \/ /\ ~Explained(latest[c], n)
             /\ LooksAgain(c)
             /\ looks' = [looks EXCEPT ![c] = @ + 1]
             /\ Goto(c, "reading")
             /\ UNCHANGED <<nonce, lock, outcome>>
          \/ /\ ~Explained(latest[c], n)
             /\ ~LooksAgain(c)
             /\ Return(c, "unsent")
             /\ UNCHANGED <<nonce, looks>>
  /\ UNCHANGED <<nodeVars, halted, next, latest, ours, tries, span, swapped, historyVars>>

(* _gas_limit: not enough DEL.                                             *)
CannotPay(c) ==
  /\ c \in Sends
  /\ pc[c] = "pendingRead"
  /\ Return(c, "unsent")
  /\ UNCHANGED <<nodeVars, halted, next, sent, latest, nonce, ours, looks, tries, span,
                 swapped, historyVars>>

(* _gas_limit: the simulation reverts, or the node cannot run it.          *)
EstimateFails(c) ==
  /\ c \in Sends
  /\ pc[c] = "pendingRead"
  /\ Raise(c, "reverted", Unset) \/ Raise(c, "noEstimate", next)
  /\ UNCHANGED <<nodeVars, halted, sent, latest, nonce, ours, span, swapped, historyVars>>

Reserve(c) ==
  /\ c \in Sends
  /\ pc[c] = "pendingRead"
  /\ NonceToUse(nonce[c]) <= MaxNonce
  /\ nonce' = [nonce EXCEPT ![c] = NonceToUse(nonce[c])]
  /\ next' = NonceToUse(nonce[c])
  /\ Goto(c, "signing")
  /\ UNCHANGED <<nodeVars, halted, lock, sent, latest, ours, looks, tries, span, swapped,
                 outcome, historyVars>>

(* _submit before it calls the signer: the nonce is ours from here on.     *)
Submit(c) ==
  /\ pc[c] = "signing"
  /\ ours' = [ours EXCEPT ![c] = nonce[c] \in sent]
  /\ sent' = sent \union {nonce[c]}
  /\ Goto(c, "broadcast")
  /\ UNCHANGED <<nodeVars, halted, lock, next, latest, nonce, looks, tries, span, swapped,
                 outcome, historyVars>>

(* The node accepts the broadcast and answers.                             *)
Accepted(c) ==
  /\ pc[c] = "broadcast"
  /\ Held(nonce[c], c)
  /\ unwatched' = unwatched \ {nonce[c]}
  /\ IF c \in Sends
     THEN Goto(c, "waiting") /\ UNCHANGED <<nonce, swapped>>
     ELSE /\ Goto(c, "replacing")
          /\ swapped' = [swapped EXCEPT ![c] = @ \union {nonce[c]}]
          /\ nonce' = [nonce EXCEPT ![c] = @ + 1]
  /\ UNCHANGED <<chain, clientVars, latest, ours, looks, tries, span, outcome>>

(* _submit's except clause, for a broadcast whose fate is unknown (it may  *)
(* or may not have reached the node) and for one the node refused.         *)
BroadcastFails(c) ==
  /\ pc[c] = "broadcast"
  /\ Return(c, BroadcastError(c))
  /\ next' = NextAfterDoubt
  /\ Held(nonce[c], c) \/ NotHeld(nonce[c])
  /\ Abandon(c, {nonce[c]})
  /\ UNCHANGED <<chain, halted, sent, latest, nonce, ours, looks, tries, span, swapped>>

(* Refused: whatever holds the nonce is not ours, unless an earlier        *)
(* transaction of ours does.  A clear goes on after "nonce too low".       *)
Refused(c) ==
  /\ pc[c] = "broadcast"
  /\ next' = NextAfterDoubt
  /\ sent' = IF ours[c] THEN sent ELSE sent \ {nonce[c]}
  /\ \/ /\ nonce[c] < Mined
        /\ IF c \in Sends
           THEN Return(c, "tooLow") /\ UNCHANGED nonce
           ELSE /\ Goto(c, "replacing")
                /\ nonce' = [nonce EXCEPT ![c] = @ + 1]
                /\ UNCHANGED <<lock, outcome>>
        /\ UNCHANGED unwatched
     \/ /\ nonce[c] >= Mined
        /\ Return(c, IF c \in Sends THEN "refused" ELSE "failed")
        /\ Abandon(c, {})
        /\ UNCHANGED nonce
  /\ UNCHANGED <<nodeVars, halted, latest, ours, looks, tries, span, swapped, evicted, foreign>>

(* _wait_for_receipt: the receipt, and what the sender makes of it.        *)
Receipt(c) ==
  /\ c \in Sends
  /\ pc[c] = "waiting"
  /\ MinedAs(nonce[c], c)
  /\ IF chain[nonce[c]+1].ok
     THEN Return(c, "ok") /\ UNCHANGED <<next, looks, tries>>
     ELSE Raise(c, "reverted", next)
  /\ UNCHANGED <<nodeVars, halted, sent, latest, nonce, ours, span, swapped, historyVars>>

(* TimeExhausted.                                                          *)
TimesOut(c) ==
  /\ c \in Sends
  /\ pc[c] = "waiting"
  /\ sent' = AfterTimeout(nonce[c])
  /\ Raise(c, "pending", NextAfterDoubt)
  /\ UNCHANGED <<nodeVars, halted, latest, nonce, ours, span, swapped, historyVars>>

(* Polling for a receipt raises something else: nothing is put right.      *)
PollFails(c) ==
  /\ pc[c] = "waiting" \/ (pc[c] = "settling" /\ nonce[c] \in swapped[c])
  /\ Return(c, "unknown")
  /\ Abandon(c, {nonce[c]})
  /\ UNCHANGED <<nodeVars, halted, next, sent, latest, nonce, ours, looks, tries, span,
                 swapped, evicted, foreign>>

-----------------------------------------------------------------------------
(* clear_stuck_transactions().                                             *)

(* The nonces to replace, nothing to do, or not enough DEL for it.         *)
FindStuck(c) ==
  /\ c \in Clears
  /\ pc[c] = "latestRead"
  /\ \E n \in 0..(MaxNonce+1) :
       /\ PendingView(n)
       /\ \/ /\ n <= latest[c]
             /\ Return(c, "nothingStuck")
             /\ UNCHANGED <<nonce, span>>
          \/ /\ n > latest[c]
             /\ Return(c, "unsent")
             /\ UNCHANGED <<nonce, span>>
          \/ /\ n > latest[c]
             /\ span' = [span EXCEPT ![c] = latest[c]..(n-1)]
             /\ nonce' = [nonce EXCEPT ![c] = latest[c]]
             /\ Goto(c, "replacing")
             /\ UNCHANGED <<lock, outcome>>
  /\ UNCHANGED <<nodeVars, halted, next, sent, latest, ours, looks, tries, swapped,
                 historyVars>>

(* The loop that broadcasts, and the start of the one that waits.          *)
Replace(c) ==
  /\ pc[c] = "replacing"
  /\ IF nonce[c] \in span[c]
     THEN Goto(c, "signing") /\ UNCHANGED nonce
     ELSE Goto(c, "settling") /\ nonce' = [nonce EXCEPT ![c] = latest[c]]
  /\ UNCHANGED <<nodeVars, clientVars, latest, ours, looks, tries, span, swapped, outcome,
                 historyVars>>

(* One replacement's receipt; a nonce the node said was taken is skipped.  *)
Settle(c) ==
  /\ pc[c] = "settling"
  /\ nonce[c] \in span[c]
  /\ Settled(c)
  /\ nonce' = [nonce EXCEPT ![c] = @ + 1]
  /\ UNCHANGED <<nodeVars, clientVars, pc, latest, ours, looks, tries, span, swapped,
                 outcome, historyVars>>

(* TimeExhausted: the nonce is still open, or it was taken by another, or  *)
(* the receipt is there after all.                                         *)
SettleTimesOut(c) ==
  /\ pc[c] = "settling"
  /\ nonce[c] \in span[c] \intersect swapped[c]
  /\ sent' = AfterTimeout(nonce[c])
  /\ next' = NextAfterDoubt
  /\ \E n \in 0..(MaxNonce+1) :
       /\ LatestView(n)
       /\ \/ /\ n <= nonce[c]
             /\ Return(c, "pending") \/ Return(c, "unknown")
             /\ Abandon(c, {})
             /\ UNCHANGED <<nonce, swapped>>
          \/ /\ n > nonce[c]
             /\ MinedAs(nonce[c], c)
             /\ nonce' = [nonce EXCEPT ![c] = @ + 1]
             /\ UNCHANGED <<pc, lock, outcome, swapped, unwatched>>
          \/ /\ n > nonce[c]
             /\ swapped' = [swapped EXCEPT ![c] = @ \ {nonce[c]}]
             /\ nonce' = [nonce EXCEPT ![c] = @ + 1]
             /\ UNCHANGED <<pc, lock, outcome, unwatched>>
  /\ UNCHANGED <<nodeVars, halted, latest, ours, looks, tries, span, evicted, foreign>>

(* swapped is now the nonces whose replacements mined.                     *)
Cleared(c) ==
  /\ pc[c] = "settling"
  /\ nonce[c] \notin span[c]
  /\ next' = Unset
  /\ Return(c, IF swapped[c] = span[c] THEN "cleared" ELSE "stuckMined")
  /\ UNCHANGED <<nodeVars, halted, sent, latest, nonce, ours, looks, tries, span, swapped,
                 historyVars>>

-----------------------------------------------------------------------------
(* The chain and the other application.                                    *)

(* A replacement is a plain transfer to the account itself: it succeeds.   *)
Mine ==
  /\ Mined <= MaxNonce
  /\ pool[Mined] # Free
  /\ \E ok \in BOOLEAN :
       /\ pool[Mined] \in Clears => ok
       /\ chain' = Append(chain, [by |-> pool[Mined], ok |-> ok])
  /\ pool' = [pool EXCEPT ![Mined] = Free]
  /\ UNCHANGED <<clientVars, threadVars, historyVars>>

Drop(n) ==
  /\ pool[n] # Free
  /\ pool' = [pool EXCEPT ![n] = Free]
  /\ evicted' = evicted \union {n}
  /\ UNCHANGED <<chain, clientVars, threadVars, unwatched, foreign>>

(* The other application appends a transaction, or replaces one: its node  *)
(* knows nothing of _sent_nonces, where n may be.                          *)
OtherSends(n) ==
  /\ Takes(n)
  /\ \A m \in Mined..(n-1) : pool[m] # Free
  /\ pool[n] # Other
  /\ pool' = [pool EXCEPT ![n] = Other]
  /\ evicted' = evicted \ {n}
  /\ foreign' = foreign \union (sent \intersect {n})
  /\ UNCHANGED <<chain, clientVars, threadVars, unwatched>>

-----------------------------------------------------------------------------
Init ==
  /\ chain = <<>>
  /\ pool = [n \in Nonces |-> Free]
  /\ halted = FALSE /\ lock = Nobody
  /\ next = Unset /\ sent = {}
  /\ pc = [c \in Calls |-> "idle"]
  /\ latest = [c \in Calls |-> 0]
  /\ nonce = [c \in Calls |-> 0]
  /\ ours = [c \in Calls |-> FALSE]
  /\ looks = [c \in Calls |-> 0]
  /\ tries = [c \in Calls |-> 0]
  /\ span = [c \in Calls |-> {}]
  /\ swapped = [c \in Calls |-> {}]
  /\ outcome = [c \in Calls |-> "none"]
  /\ evicted = {} /\ unwatched = {} /\ foreign = {}

Sending(c) ==
  \/ Acquire(c) \/ ReadFails(c) \/ ReadLatest(c) \/ ReadPending(c) \/ CannotPay(c)
  \/ EstimateFails(c) \/ Reserve(c) \/ Submit(c) \/ Accepted(c)
  \/ BroadcastFails(c) \/ Refused(c) \/ Receipt(c) \/ TimesOut(c) \/ PollFails(c)

Clearing(c) ==
  FindStuck(c) \/ Replace(c) \/ Settle(c) \/ SettleTimesOut(c) \/ Cleared(c)

Node == Mine \/ \E n \in Nonces : Drop(n) \/ OtherSends(n)

Next ==
  \/ \E c \in Calls : Enter(c) \/ Sending(c) \/ Clearing(c)
  \/ Halt \/ Resume
  \/ Node

Spec == Init /\ [][Next]_vars

(* A thread inside the send path goes on; the receipt wait has a deadline. *)
Fairness == \A c \in Calls : WF_vars(Sending(c) \/ Clearing(c))
FairSpec == Spec /\ Fairness

-----------------------------------------------------------------------------
(* Properties.                                                             *)

(* Where a call's transaction can still take effect, or has.               *)
Live(c) == {n \in Nonces : pool[n] = c \/ (MinedAs(n, c) /\ chain[n+1].ok)}

(* However often a send starts over, it takes effect at most once.         *)
AtMostOnce == \A c \in Sends : \A m, n \in Live(c) : m = n

(* What a send tells its caller is true, then and for ever: a returned     *)
(* hash is of a transaction that succeeded, and an error that says that    *)
(* nothing was sent, that it was refused or that it reverted, leaves       *)
(* nothing behind that could still run.                                    *)
TruthfulOutcome ==
  \A c \in Sends :
    /\ outcome[c] = "ok" => \E n \in Live(c) : n < Mined
    /\ outcome[c] \in {"halted", "unsent", "noEstimate", "reverted", "tooLow", "refused"} =>
         Live(c) = {}

(* A clear that comes through, with or without StuckTransactionMined, has  *)
(* unblocked the account: every nonce it found stuck is mined, and the     *)
(* hashes it names are replacements that mined.                            *)
ClearedMeansMined ==
  \A c \in Clears :
    outcome[c] \in {"cleared", "stuckMined"} =>
      /\ \A n \in span[c] : n < Mined
      /\ \A n \in swapped[c] : MinedAs(n, c)
      /\ outcome[c] = "cleared" => swapped[c] = span[c]

(* Below the nonce being signed only nonces the client sent at are unmined, *)
(* whose fate no call learned: none that timed out or was refused, nor one  *)
(* whose receipt another call waits for.  Another application's transaction *)
(* is there only when it took a nonce that the client had recorded as its   *)
(* own, before or while its broadcast got lost (StuckIsRaised is refuted).  *)
QueuesBehindOwn ==
  \A c \in Sends :
    pc[c] = "signing" => \A m \in Mined..(nonce[c] - 1) :
      /\ m \in sent \intersect unwatched
      /\ pool[m] = Other => m \in foreign

(* What _pending_nonce_unless_stuck says: a send only gets past the check   *)
(* when no transaction the client did not send is unmined below the pending *)
(* nonce (primedelta.py:2301-2304).  It tells whose a transaction is by its *)
(* nonce.                                                                   *)
StuckIsRaised ==
  [][\A c \in Sends :
       pc[c] = "latestRead" /\ pc'[c] = "pendingRead" =>
         \A m \in Mined..(nonce'[c] - 1) : pool[m] # Other]_vars

(* No nonce is skipped: below the one being signed there is nothing but    *)
(* mined and unmined transactions, and holes the node made itself, when it *)
(* dropped what it had taken.                                              *)
SkipsNone ==
  \A c \in Calls :
    pc[c] = "signing" =>
      \A m \in Mined..(nonce[c] - 1) : m \in Nonces /\ (pool[m] # Free \/ m \in evicted)

(* The nonce being signed is in its place: above nonces the client sent at *)
(* alone, and above none that was left out.                                *)
NoncesInOrder == QueuesBehindOwn /\ SkipsNone

(* Whoever is let in comes out, with an answer or an error: in the end no  *)
(* call waits for _tx_lock or holds it.                                    *)
SendsReturn == <>[](\A c \in Calls : pc[c] \in {"idle", "returned"})
=============================================================================
