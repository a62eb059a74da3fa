--------------------------- MODULE TxSenderProofs ---------------------------
(***************************************************************************)
(* TxSender for any number of sends and clears, any lag of the replicas    *)
(* and any number of tries: what the client says of a transaction is true, *)
(* a send takes effect at most once, no nonce is skipped or queued behind  *)
(* one the client did not send at, and what is cleared is mined.           *)
(***************************************************************************)
EXTENDS TxSender, SequenceTheorems, TLAPS

USE SenderAssumption
USE DEF nodeVars, clientVars, threadVars, historyVars

-----------------------------------------------------------------------------
(* The inductive invariant                                                 *)

(* Where a call is between _tx_lock being taken and released.              *)
Inside == {"reading", "latestRead", "pendingRead", "signing", "broadcast", "waiting",
           "replacing", "settling"}

(* _tx_lock is held by the one call that is inside.                        *)
LockHeld == \A c \in Calls : pc[c] \in Inside <=> lock = c

(* A nonce in use is one of the account's; only a clear has a span, and    *)
(* works on a nonce of it; a call has an outcome when it has returned.     *)
PlacesFit ==
  \A c \in Calls :
    /\ pc[c] \in {"pendingRead", "waiting"} => c \in Sends
    /\ pc[c] \in {"replacing", "settling"} => c \in Clears
    /\ pc[c] \in {"signing", "broadcast", "waiting"} => nonce[c] \in Nonces
    /\ swapped[c] \subseteq span[c]
    /\ c \in Sends \/ pc[c] \in {"idle", "queued", "reading", "latestRead"} => span[c] = {}
    /\ c \in Clears /\ pc[c] \in {"signing", "broadcast"} => nonce[c] \in span[c]
    /\ outcome[c] # "none" <=> pc[c] = "returned"

(* The node mines in order, and holds nothing at a mined nonce.            *)
PoolFits ==
  /\ Mined <= MaxNonce + 1
  /\ \A n \in Nonces : n < Mined => pool[n] = Free

(* What a send has under way: nothing until it broadcasts, then one        *)
(* transaction, of which its outcome tells the truth.                      *)
NothingLeft == {"halted", "unsent", "noEstimate", "reverted", "tooLow", "refused"}
EffectOf(c) ==
  /\ Live(c) \subseteq {nonce[c]}
  /\ pc[c] \notin {"waiting", "returned"} \/ outcome[c] \in NothingLeft => Live(c) = {}
  /\ outcome[c] = "ok" => nonce[c] \in Live(c) /\ nonce[c] < Mined
EffectFits == \A c \in Sends : EffectOf(c)

(* What a clear found is an unbroken row of nonces from the latest one it  *)
(* read; those before its nonce are replaced, or mined, and no others yet; *)
(* once it settles, the replacements before its nonce are mined.           *)
Clearings == {"replacing", "signing", "broadcast", "settling"}
ClearOf(c) ==
  /\ pc[c] \in Clearings =>
       /\ nonce[c] >= latest[c]
       /\ \A n \in span[c] : n >= latest[c] /\ \A m \in latest[c]..n : m \in span[c]
       /\ \A n \in span[c] : n < nonce[c] \/ pc[c] = "settling" => n < Mined \/ n \in swapped[c]
       /\ pc[c] # "settling" => \A n \in swapped[c] : n < nonce[c]
  /\ pc[c] = "settling" => \A n \in swapped[c] : n < nonce[c] => MinedAs(n, c)
  /\ outcome[c] \in {"cleared", "stuckMined"} =>
       /\ \A n \in span[c] : n < Mined
       /\ \A n \in swapped[c] : MinedAs(n, c)
       /\ outcome[c] = "cleared" => swapped[c] = span[c]
ClearFits == \A c \in Clears : ClearOf(c)

(* c is there to learn what becomes of the transaction at nonce m.         *)
Tends(c, m) ==
  \/ pc[c] = "broadcast" /\ m = nonce[c]
  \/ pc[c] = "waiting" /\ m = nonce[c]
  \/ pc[c] \in Clearings /\ m \in swapped[c]

(* Each nonce the client counts as its own is mined, looked after, or      *)
(* given up.                                                               *)
SentFits == \A m \in sent : m < Mined \/ m \in unwatched \/ \E c \in Calls : Tends(c, m)

(* A nonce that was the client's own before this broadcast is not looked   *)
(* after by anybody else.                                                  *)
OursFits ==
  \A c \in Calls : pc[c] = "broadcast" /\ ours[c] => nonce[c] < Mined \/ nonce[c] \in unwatched

(* The node holds a transaction at m, or dropped it.                       *)
Touched(m) == m \in Nonces /\ (pool[m] # Free \/ m \in evicted)
InFlight(m) == m \in sent /\ Touched(m)

(* Another application's transaction at a nonce the client counts as its   *)
(* own is one the history knows of, unless the broadcast is under way that *)
(* would replace it, or be refused and give the nonce up.                  *)
Contends(c, m) == pc[c] = "broadcast" /\ nonce[c] = m /\ ~ours[c]
ForeignFits ==
  \A m \in Nonces : m \in sent /\ pool[m] = Other =>
    m \in foreign \/ \E c \in Calls : Contends(c, m)

(* A latest nonce read stays a mined one.                                  *)
LatestFits == \A c \in Calls : latest[c] <= Mined

(* From the first unmined nonce up to the last reserved one, the node has  *)
(* been given every transaction of the client, or is about to be.          *)
NextFits ==
  next # Unset => \A m \in Mined..next :
    \/ InFlight(m)
    \/ \E c \in Sends : pc[c] \in {"signing", "broadcast"} /\ m = nonce[c]
                        /\ (pc[c] = "broadcast" => m \in sent)

(* So it has up to the pending nonce a send read, and the one it reserves. *)
ReadFits ==
  \A c \in Sends : pc[c] \in {"pendingRead", "signing"} =>
    \A m \in Mined..(nonce[c] - 1) : InFlight(m)

(* What a clear found is mined, held, or dropped.                          *)
SpanFits ==
  \A c \in Clears : pc[c] \in Clearings => \A m \in span[c] : m < Mined \/ Touched(m)

IInv ==
  /\ TypeOK /\ LockHeld /\ PlacesFit /\ PoolFits
  /\ EffectFits /\ ClearFits /\ SentFits /\ OursFits /\ ForeignFits
  /\ LatestFits /\ NextFits /\ ReadFits /\ SpanFits

-----------------------------------------------------------------------------
(* Facts about the chain                                                   *)

(* A call is a send or a clear, and neither is the node's or the lock's.   *)
LEMMA CallFacts ==
  /\ \A c \in Calls : c # Nobody /\ c # Other /\ c # Free
  /\ \A c \in Sends : c \in Calls /\ c \notin Clears
  /\ \A c \in Clears : c \in Calls /\ c \notin Sends
BY DEF Calls, Owners

(* The chain is a sequence of transactions.                                *)
LEMMA ChainFacts ==
  ASSUME TypeOK
  PROVE  /\ Mined \in Nat
         /\ \A n \in Nat : n < Mined => chain[n+1] \in [by : Owners, ok : BOOLEAN]
<1>1. chain \in Seq([by : Owners, ok : BOOLEAN])
  BY DEF TypeOK
<1>2. ASSUME NEW T, NEW s \in Seq(T)
      PROVE  Len(s) \in Nat /\ \A i \in Nat : i < Len(s) => s[i+1] \in T
  OBVIOUS
<1> QED
  BY <1>1, <1>2 DEF Mined

(* Mining appends a transaction of the pool, and leaves the others.        *)
LEMMA MineFacts ==
  ASSUME TypeOK, Mine
  PROVE  /\ Mined \in Nonces /\ pool[Mined] # Free /\ Mined' = Mined + 1
         /\ \A n \in Nat : n < Mined => chain'[n+1] = chain[n+1]
         /\ chain'[Mined+1].by = pool[Mined]
         /\ pool' = [pool EXCEPT ![Mined] = Free]
<1>1. Mined \in Nat /\ Mined <= MaxNonce
  BY ChainFacts DEF Mine
<1>2. PICK ok \in BOOLEAN : chain' = Append(chain, [by |-> pool[Mined], ok |-> ok])
  BY DEF Mine
<1>3. pool[Mined] \in Owners
  BY <1>1 DEF Mine, TypeOK, Nonces
<1>4. [by |-> pool[Mined], ok |-> ok] \in [by : Owners, ok : BOOLEAN]
  BY <1>3
<1>5. chain \in Seq([by : Owners, ok : BOOLEAN])
  BY DEF TypeOK
<1>6. Len(chain') = Len(chain) + 1 /\ chain'[Len(chain) + 1] = [by |-> pool[Mined], ok |-> ok]
      /\ \A i \in 1..Len(chain) : chain'[i] = chain[i]
  BY <1>2, <1>4, <1>5
<1>7. \A n \in Nat : n < Mined => n + 1 \in 1..Len(chain)
  BY <1>1 DEF Mined
<1> QED
  BY <1>1, <1>6, <1>7 DEF Mine, Mined, Nonces

-----------------------------------------------------------------------------
(* Every step preserves the invariant                                      *)

(* Types: the nonces used are the account's.                               *)
LEMMA TypePreserved ==
  ASSUME TypeOK, PlacesFit, [Next]_vars
  PROVE  TypeOK'
<1>a. TypeOK /\ PlacesFit
  OBVIOUS
<1>t. /\ lock \in Calls \union {Nobody} /\ next \in Nat \union {Unset} /\ sent \subseteq Nonces
      /\ pc \in [Calls -> Steps] /\ latest \in [Calls -> Nat] /\ nonce \in [Calls -> Nat]
      /\ ours \in [Calls -> BOOLEAN] /\ looks \in [Calls -> 0..MaxLooks]
      /\ tries \in [Calls -> 0..MaxTries] /\ span \in [Calls -> SUBSET Nonces]
      /\ swapped \in [Calls -> SUBSET Nonces] /\ outcome \in [Calls -> Outcomes]
      /\ unwatched \subseteq Nonces /\ evicted \subseteq Nonces /\ foreign \subseteq Nonces
      /\ pool \in [Nonces -> Owners \union {Free}]
  BY DEF TypeOK
<1>1. ASSUME NEW c \in Calls, Enter(c) PROVE TypeOK'
  BY <1>a, <1>1 DEF Enter, Goto, TypeOK, Steps, Outcomes, Nonces
<1>2. ASSUME NEW c \in Calls, Acquire(c) PROVE TypeOK'
  BY <1>a, <1>2 DEF Acquire, Goto, TypeOK, Steps, Outcomes, Nonces
<1>3. ASSUME NEW c \in Calls, ReadFails(c) PROVE TypeOK'
  BY <1>a, <1>3 DEF ReadFails, Return, Goto, TypeOK, Steps, Outcomes, Nonces
<1>4. ASSUME NEW c \in Calls, ReadLatest(c) PROVE TypeOK'
  <2>1. pc' \in [Calls -> Steps]
    BY <1>t, <1>4 DEF ReadLatest, Goto, LatestView, Steps, Nonces, Owners
  <2>2. latest' \in [Calls -> Nat]
    BY <1>t, <1>4 DEF ReadLatest, Goto, LatestView, Nonces, Owners
  <2>r. UNCHANGED <<chain, pool, halted, lock, next, sent, nonce, ours, looks, tries, span,
                    swapped, outcome, evicted, unwatched, foreign>>
    BY <1>4 DEF ReadLatest
  <2> QED
    BY <1>a, <2>r, <2>1, <2>2 DEF TypeOK
<1>5. ASSUME NEW c \in Calls, ReadPending(c) PROVE TypeOK'
  <2>1. pc' \in [Calls -> Steps]
    <3>1. \E s \in {"pendingRead", "reading", "returned"} : pc' = [pc EXCEPT ![c] = s]
      BY <1>5 DEF ReadPending, Return, Goto
    <3> QED
      BY <1>t, <3>1 DEF Steps
  <2>2. sent' \subseteq Nonces
    BY <1>a, <1>t, <1>5 DEF ReadPending, Goto, Return, PendingView, Explained, LooksAgain,
           PlacesFit, Nonces, Owners
  <2>3. nonce' \in [Calls -> Nat]
    <3>1. nonce' = nonce \/ \E n \in 0..(MaxNonce+1) : nonce' = [nonce EXCEPT ![c] = n]
      BY <1>5 DEF ReadPending
    <3>2. 0..(MaxNonce+1) \subseteq Nat
      OBVIOUS
    <3> QED
      BY <1>t, <3>1, <3>2
  <2>4. looks' \in [Calls -> 0..MaxLooks]
    <3>1. looks' = looks \/ (looks[c] + 1 < MaxLooks /\ looks' = [looks EXCEPT ![c] = looks[c] + 1])
      BY <1>5 DEF ReadPending, LooksAgain
    <3>2. looks[c] \in 0..MaxLooks
      BY <1>t
    <3>3. looks[c] + 1 < MaxLooks => looks[c] + 1 \in 0..MaxLooks
      BY <3>2
    <3> QED
      BY <1>t, <3>1, <3>3
  <2>5. lock' \in Calls \union {Nobody}
    BY <1>t, <1>5 DEF ReadPending, Goto, Return, PendingView, Explained, LooksAgain,
           Nonces, Owners
  <2>6. outcome' \in [Calls -> Outcomes]
    BY <1>t, <1>5 DEF ReadPending, Goto, Return, PendingView, Explained, LooksAgain,
           Outcomes, Nonces, Owners
  <2>r. UNCHANGED <<chain, pool, halted, next, latest, ours, tries, span, swapped, evicted,
                    unwatched, foreign>>
    BY <1>5 DEF ReadPending
  <2> QED
    BY <1>a, <2>r, <2>1, <2>2, <2>3, <2>4, <2>5, <2>6 DEF TypeOK
<1>6. ASSUME NEW c \in Calls, CannotPay(c) PROVE TypeOK'
  BY <1>a, <1>6 DEF CannotPay, Return, Goto, TypeOK, Steps, Outcomes, Nonces
<1>7. ASSUME NEW c \in Calls, EstimateFails(c) PROVE TypeOK'
  <2>a. UNCHANGED <<chain, pool, halted, sent, latest, nonce, ours, span, swapped, evicted,
                    unwatched, foreign>>
    BY <1>7 DEF EstimateFails
  <2>b. PICK what \in {"reverted", "noEstimate"}, after \in {Unset, next} : Raise(c, what, after)
    BY <1>7 DEF EstimateFails
  <2>1. pc' = [pc EXCEPT ![c] = "returned"] \/ pc' = [pc EXCEPT ![c] = "reading"]
    BY <2>b DEF Raise, Return, Goto
  <2>2. lock' = lock \/ lock' = Nobody
    BY <2>b DEF Raise, Return
  <2>3. outcome' = outcome \/ outcome' = [outcome EXCEPT ![c] = what]
    BY <2>b DEF Raise, Return
  <2>4. next' = after \/ next' \in {Unset} \union {n \in Nonces : n < Mined}
    BY <2>b DEF Raise
  <2>5. looks' = looks \/ looks' = [looks EXCEPT ![c] = 0]
    BY <2>b DEF Raise
  <2>6. \/ tries' = tries
        \/ tries[c] + 1 < MaxTries /\ tries' = [tries EXCEPT ![c] = tries[c] + 1]
    BY <2>b DEF Raise
  <2>7. pc' \in [Calls -> Steps]
    BY <1>t, <2>1 DEF Steps
  <2>8. lock' \in Calls \union {Nobody}
    BY <1>t, <2>2
  <2>9. outcome' \in [Calls -> Outcomes]
    BY <1>t, <2>b, <2>3 DEF Outcomes
  <2>10. next' \in Nat \union {Unset}
    BY <1>t, <2>b, <2>4 DEF Nonces
  <2>11. looks' \in [Calls -> 0..MaxLooks]
    BY <1>t, <2>5
  <2>12. tries' \in [Calls -> 0..MaxTries]
    BY <1>t, <2>6
  <2> QED
    BY <1>a, <2>a, <2>7, <2>8, <2>9, <2>10, <2>11, <2>12 DEF TypeOK
<1>8. ASSUME NEW c \in Calls, Reserve(c) PROVE TypeOK'
  <2>1. /\ pc' = [pc EXCEPT ![c] = "signing"] /\ next' = NonceToUse(nonce[c])
        /\ nonce' = [nonce EXCEPT ![c] = NonceToUse(nonce[c])]
    BY <1>8 DEF Reserve, Goto
  <2>2. NonceToUse(nonce[c]) \in Nat
    BY <1>t DEF NonceToUse
  <2>3. UNCHANGED <<chain, pool, halted, lock, sent, latest, ours, looks, tries, span, swapped,
                    outcome, evicted, unwatched, foreign>>
    BY <1>8 DEF Reserve
  <2>4. pc' \in [Calls -> Steps] /\ nonce' \in [Calls -> Nat] /\ next' \in Nat \union {Unset}
    BY <1>t, <2>1, <2>2 DEF Steps
  <2> QED
    BY <1>a, <2>3, <2>4 DEF TypeOK
<1>9. ASSUME NEW c \in Calls, Submit(c) PROVE TypeOK'
  <2>1. pc' \in [Calls -> Steps]
    BY <1>t, <1>9 DEF Submit, Goto, Steps, Nonces, Owners
  <2>2. ours' \in [Calls -> BOOLEAN]
    BY <1>t, <1>9 DEF Submit, Goto, Nonces, Owners
  <2>3. sent' \subseteq Nonces
    BY <1>a, <1>t, <1>9 DEF Submit, Goto, PlacesFit, Nonces, Owners
  <2>r. UNCHANGED <<chain, pool, halted, lock, next, latest, nonce, looks, tries, span,
                    swapped, outcome, evicted, unwatched, foreign>>
    BY <1>9 DEF Submit
  <2> QED
    BY <1>a, <2>r, <2>1, <2>2, <2>3 DEF TypeOK
<1>10. ASSUME NEW c \in Calls, Accepted(c) PROVE TypeOK'
  <2>1. pc' \in [Calls -> Steps]
    <3>1. pc' = [pc EXCEPT ![c] = "waiting"] \/ pc' = [pc EXCEPT ![c] = "replacing"]
      BY <1>10 DEF Accepted, Return, Goto
    <3> QED
      BY <1>t, <3>1 DEF Steps
  <2>2. pool' \in [Nonces -> Owners \union {Free}]
    BY <1>t, <1>10 DEF Accepted, Held, Takes, Goto, Nonces, Owners
  <2>3. nonce' \in [Calls -> Nat]
    <3>1. nonce' = nonce \/ nonce' = [nonce EXCEPT ![c] = nonce[c] + 1]
      BY <1>10 DEF Accepted
    <3>2. nonce[c] + 1 \in Nat
      BY <1>t
    <3> QED
      BY <1>t, <3>1, <3>2
  <2>4. swapped' \in [Calls -> SUBSET Nonces]
    <3>1. nonce[c] \in Nonces
      BY <1>a, <1>t, <1>10 DEF Accepted, PlacesFit
    <3>2. swapped' = swapped \/ swapped' = [swapped EXCEPT ![c] = swapped[c] \union {nonce[c]}]
      BY <1>10 DEF Accepted
    <3>3. swapped[c] \union {nonce[c]} \in SUBSET Nonces
      BY <1>a, <1>t, <3>1
    <3> QED
      BY <1>a, <1>t, <3>2, <3>3
  <2>5. evicted' \subseteq Nonces
    BY <1>t, <1>10 DEF Accepted, Held, Takes, Goto, Nonces, Owners
  <2>6. unwatched' \subseteq Nonces
    BY <1>a, <1>t, <1>10 DEF Accepted, Held, Takes, Goto, PlacesFit, Nonces, Owners
  <2>7. foreign' \subseteq Nonces
    BY <1>t, <1>10 DEF Accepted, Held
  <2>r. UNCHANGED <<chain, halted, lock, next, sent, latest, ours, looks, tries, span, outcome>>
    BY <1>10 DEF Accepted
  <2> QED
    BY <1>a, <2>r, <2>1, <2>2, <2>3, <2>4, <2>5, <2>6, <2>7 DEF TypeOK
<1>11. ASSUME NEW c \in Calls, BroadcastFails(c) PROVE TypeOK'
  <2>1. pc' \in [Calls -> Steps]
    BY <1>t, <1>11 DEF BroadcastFails, BroadcastError, Return, Goto, NextAfterDoubt, Held,
           NotHeld, Takes, Abandon, Steps, Nonces, Owners
  <2>2. lock' \in Calls \union {Nobody}
    BY <1>t, <1>11 DEF BroadcastFails, BroadcastError, Return, Goto, NextAfterDoubt, Held,
           NotHeld, Takes, Abandon, Nonces, Owners
  <2>3. outcome' \in [Calls -> Outcomes]
    BY <1>t, <1>11 DEF BroadcastFails, BroadcastError, Return, Goto, NextAfterDoubt, Held,
           NotHeld, Takes, Abandon, Outcomes, Nonces, Owners
  <2>4. next' \in Nat \union {Unset}
    BY <1>t, <1>11 DEF BroadcastFails, BroadcastError, Return, Goto, NextAfterDoubt, Held,
           NotHeld, Takes, Abandon, Nonces, Owners
  <2>5. pool' \in [Nonces -> Owners \union {Free}]
    BY <1>t, <1>11 DEF BroadcastFails, BroadcastError, Return, Goto, NextAfterDoubt, Held,
           NotHeld, Takes, Abandon, Nonces, Owners
  <2>6. evicted' \subseteq Nonces
    BY <1>t, <1>11 DEF BroadcastFails, BroadcastError, Return, Goto, NextAfterDoubt, Held,
           NotHeld, Takes, Abandon, Nonces, Owners
  <2>7. unwatched' \subseteq Nonces
    BY <1>a, <1>t, <1>11 DEF BroadcastFails, BroadcastError, Return, Goto, NextAfterDoubt, Held,
           NotHeld, Takes, Abandon, PlacesFit, Nonces, Owners
  <2>8. foreign' \subseteq Nonces
    <3>1. nonce[c] \in Nonces
      BY <1>a, <1>11 DEF BroadcastFails, PlacesFit
    <3> QED
      BY <1>t, <1>11, <3>1 DEF BroadcastFails, Held, NotHeld
  <2>r. UNCHANGED <<chain, halted, sent, latest, nonce, ours, looks, tries, span, swapped>>
    BY <1>11 DEF BroadcastFails
  <2> QED
    BY <1>a, <2>r, <2>1, <2>2, <2>3, <2>4, <2>5, <2>6, <2>7, <2>8 DEF TypeOK
<1>12. ASSUME NEW c \in Calls, Refused(c) PROVE TypeOK'
  <2>1. pc' \in [Calls -> Steps]
    <3>1. pc' = [pc EXCEPT ![c] = "returned"] \/ pc' = [pc EXCEPT ![c] = "replacing"]
      BY <1>12 DEF Refused, Return, Goto
    <3> QED
      BY <1>t, <3>1 DEF Steps
  <2>2. lock' \in Calls \union {Nobody}
    BY <1>t, <1>12 DEF Refused, Return, Goto, NextAfterDoubt, Abandon, Nonces, Owners
  <2>3. outcome' \in [Calls -> Outcomes]
    BY <1>t, <1>12 DEF Refused, Return, Goto, NextAfterDoubt, Abandon, Outcomes,
           Nonces, Owners
  <2>4. next' \in Nat \union {Unset}
    BY <1>t, <1>12 DEF Refused, Return, Goto, NextAfterDoubt, Abandon, Nonces, Owners
  <2>5. sent' \subseteq Nonces
    BY <1>a, <1>t, <1>12 DEF Refused, Return, Goto, NextAfterDoubt, Abandon, PlacesFit,
           Nonces, Owners
  <2>6. nonce' \in [Calls -> Nat]
    <3>1. nonce' = nonce \/ nonce' = [nonce EXCEPT ![c] = nonce[c] + 1]
      BY <1>12 DEF Refused
    <3>2. nonce[c] + 1 \in Nat
      BY <1>t
    <3> QED
      BY <1>t, <3>1, <3>2
  <2>7. unwatched' \subseteq Nonces
    BY <1>a, <1>t, <1>12 DEF Refused, Return, Goto, NextAfterDoubt, Abandon, PlacesFit,
           Nonces, Owners
  <2>r. UNCHANGED <<chain, pool, halted, latest, ours, looks, tries, span, swapped, evicted,
                    foreign>>
    BY <1>12 DEF Refused
  <2> QED
    BY <1>a, <2>r, <2>1, <2>2, <2>3, <2>4, <2>5, <2>6, <2>7 DEF TypeOK
<1>13. ASSUME NEW c \in Calls, Receipt(c) PROVE TypeOK'
  <2>1. pc' \in [Calls -> Steps]
    <3>1. pc' = [pc EXCEPT ![c] = "returned"] \/ pc' = [pc EXCEPT ![c] = "reading"]
      BY <1>13 DEF Receipt, Raise, Return, Goto
    <3> QED
      BY <1>t, <3>1 DEF Steps
  <2>2. lock' \in Calls \union {Nobody}
    BY <1>t, <1>13 DEF Receipt, MinedAs, Raise, Return, Goto, Quotes, Nonces, Owners
  <2>3. outcome' \in [Calls -> Outcomes]
    BY <1>t, <1>13 DEF Receipt, MinedAs, Raise, Return, Goto, Quotes, Outcomes,
           Nonces, Owners
  <2>4. next' \in Nat \union {Unset}
    BY <1>t, <1>13 DEF Receipt, MinedAs, Raise, Return, Goto, Quotes, Nonces, Owners
  <2>5. looks' \in [Calls -> 0..MaxLooks]
    BY <1>t, <1>13 DEF Receipt, MinedAs, Raise, Return, Goto, Quotes, Nonces, Owners
  <2>6. tries' \in [Calls -> 0..MaxTries]
    BY <1>t, <1>13 DEF Receipt, MinedAs, Raise, Return, Goto, Quotes, Nonces, Owners
  <2>r. UNCHANGED <<chain, pool, halted, sent, latest, nonce, ours, span, swapped, evicted,
                    unwatched, foreign>>
    BY <1>13 DEF Receipt
  <2> QED
    BY <1>a, <2>r, <2>1, <2>2, <2>3, <2>4, <2>5, <2>6 DEF TypeOK
<1>14. ASSUME NEW c \in Calls, TimesOut(c) PROVE TypeOK'
  BY <1>a, <1>14 DEF TimesOut, AfterTimeout, NextAfterDoubt, Raise, Return, Goto, Quotes,
         TypeOK, Steps, Outcomes, Nonces
<1>15. ASSUME NEW c \in Calls, PollFails(c) PROVE TypeOK'
  <2>1. pc' \in [Calls -> Steps]
    BY <1>t, <1>15 DEF PollFails, Return, Goto, Abandon, Steps, Nonces, Owners
  <2>2. lock' \in Calls \union {Nobody}
    BY <1>t, <1>15 DEF PollFails, Return, Goto, Abandon, Nonces, Owners
  <2>3. outcome' \in [Calls -> Outcomes]
    BY <1>t, <1>15 DEF PollFails, Return, Goto, Abandon, Outcomes, Nonces, Owners
  <2>4. unwatched' \subseteq Nonces
    BY <1>a, <1>t, <1>15 DEF PollFails, Return, Goto, Abandon, PlacesFit, Nonces, Owners
  <2>r. UNCHANGED <<chain, pool, halted, next, sent, latest, nonce, ours, looks, tries,
                    span, swapped, evicted,
                    foreign>>
    BY <1>15 DEF PollFails
  <2> QED
    BY <1>a, <2>r, <2>1, <2>2, <2>3, <2>4 DEF TypeOK
<1>16. ASSUME NEW c \in Calls, FindStuck(c) PROVE TypeOK'
  <2>1. pc' \in [Calls -> Steps]
    BY <1>t, <1>16 DEF FindStuck, PendingView, Return, Goto, Steps, Nonces, Owners
  <2>2. lock' \in Calls \union {Nobody}
    BY <1>t, <1>16 DEF FindStuck, PendingView, Return, Goto, Nonces, Owners
  <2>3. outcome' \in [Calls -> Outcomes]
    BY <1>t, <1>16 DEF FindStuck, PendingView, Return, Goto, Outcomes, Nonces, Owners
  <2>4. nonce' \in [Calls -> Nat]
    BY <1>t, <1>16 DEF FindStuck, PendingView, Return, Goto, Nonces, Owners
  <2>5. span' \in [Calls -> SUBSET Nonces]
    <3>1. span' = span \/ \E n \in 0..(MaxNonce+1) : span' = [span EXCEPT ![c] = latest[c]..(n-1)]
      BY <1>16 DEF FindStuck
    <3>2. latest[c] \in Nat
      BY <1>t
    <3>3. \A n \in 0..(MaxNonce+1) : latest[c]..(n-1) \in SUBSET Nonces
      BY <3>2 DEF Nonces
    <3>4. CASE span' = span
      BY <1>t, <3>4
    <3>5. ASSUME NEW n \in 0..(MaxNonce+1), span' = [span EXCEPT ![c] = latest[c]..(n-1)]
          PROVE  span' \in [Calls -> SUBSET Nonces]
      <4>1. latest[c]..(n-1) \in SUBSET Nonces
        BY <3>3
      <4> QED
        BY <1>t, <3>5, <4>1
    <3> QED
      BY <3>1, <3>4, <3>5
  <2>r. UNCHANGED <<chain, pool, halted, next, sent, latest, ours, looks, tries, swapped,
                    evicted, unwatched, foreign>>
    BY <1>16 DEF FindStuck
  <2> QED
    BY <1>a, <2>r, <2>1, <2>2, <2>3, <2>4, <2>5 DEF TypeOK
<1>17. ASSUME NEW c \in Calls, Replace(c) PROVE TypeOK'
  BY <1>a, <1>17 DEF Replace, Goto, TypeOK, Steps, Outcomes, Nonces
<1>18. ASSUME NEW c \in Calls, Settle(c) PROVE TypeOK'
  <2>1. nonce' = [nonce EXCEPT ![c] = nonce[c] + 1]
    BY <1>18 DEF Settle
  <2>2. UNCHANGED <<chain, pool, halted, lock, next, sent, pc, latest, ours, looks, tries, span,
                    swapped, outcome, evicted, unwatched, foreign>>
    BY <1>18 DEF Settle
  <2>3. nonce[c] + 1 \in Nat
    BY <1>t
  <2>4. nonce' \in [Calls -> Nat]
    BY <1>t, <2>1, <2>3
  <2> QED
    BY <1>a, <2>2, <2>4 DEF TypeOK
<1>19. ASSUME NEW c \in Calls, SettleTimesOut(c) PROVE TypeOK'
  <2>1. pc' \in [Calls -> Steps]
    <3>1. pc' = pc \/ pc' = [pc EXCEPT ![c] = "returned"]
      BY <1>19 DEF SettleTimesOut, Return, Goto
    <3> QED
      BY <1>t, <3>1 DEF Steps
  <2>2. lock' \in Calls \union {Nobody}
    BY <1>t, <1>19 DEF SettleTimesOut, AfterTimeout, NextAfterDoubt, LatestView, MinedAs,
           Return, Goto, Abandon, Nonces, Owners
  <2>3. outcome' \in [Calls -> Outcomes]
    BY <1>t, <1>19 DEF SettleTimesOut, AfterTimeout, NextAfterDoubt, LatestView, MinedAs,
           Return, Goto, Abandon, Outcomes, Nonces, Owners
  <2>4. sent' \subseteq Nonces
    BY <1>a, <1>t, <1>19 DEF SettleTimesOut, AfterTimeout, NextAfterDoubt, LatestView, MinedAs,
           Return, Goto, Abandon, PlacesFit, Nonces, Owners
  <2>5. next' \in Nat \union {Unset}
    BY <1>t, <1>19 DEF SettleTimesOut, AfterTimeout, NextAfterDoubt, LatestView, MinedAs,
           Return, Goto, Abandon, Nonces, Owners
  <2>6. nonce' \in [Calls -> Nat]
    BY <1>t, <1>19 DEF SettleTimesOut, AfterTimeout, NextAfterDoubt, LatestView, MinedAs,
           Return, Goto, Abandon, Nonces, Owners
  <2>7. swapped' \in [Calls -> SUBSET Nonces]
    <3>1. swapped' = swapped \/ swapped' = [swapped EXCEPT ![c] = swapped[c] \ {nonce[c]}]
      BY <1>19 DEF SettleTimesOut
    <3> QED
      BY <1>t, <3>1
  <2>8. unwatched' \subseteq Nonces
    BY <1>a, <1>t, <1>19 DEF SettleTimesOut, AfterTimeout, NextAfterDoubt, LatestView, MinedAs,
           Return, Goto, Abandon, PlacesFit, Nonces, Owners
  <2>r. UNCHANGED <<chain, pool, halted, latest, ours, looks, tries, span, evicted,
                    foreign>>
    BY <1>19 DEF SettleTimesOut
  <2> QED
    BY <1>a, <2>r, <2>1, <2>2, <2>3, <2>4, <2>5, <2>6, <2>7, <2>8 DEF TypeOK
<1>20. ASSUME NEW c \in Calls, Cleared(c) PROVE TypeOK'
  BY <1>a, <1>20 DEF Cleared, Return, Goto, TypeOK, Steps, Outcomes, Nonces
<1>21. ASSUME Halt PROVE TypeOK'
  BY <1>a, <1>21 DEF Halt, TypeOK, Steps, Outcomes, Nonces
<1>22. ASSUME Resume PROVE TypeOK'
  BY <1>a, <1>22 DEF Resume, TypeOK, Steps, Outcomes, Nonces
<1>23. ASSUME Mine PROVE TypeOK'
  <2>1. chain' \in Seq([by : Owners, ok : BOOLEAN])
    <3>1. PICK ok \in BOOLEAN : chain' = Append(chain, [by |-> pool[Mined], ok |-> ok])
      BY <1>23 DEF Mine
    <3>2. Mined \in Nonces
      BY <1>a, <1>23, ChainFacts DEF Mine, Nonces
    <3>3. [by |-> pool[Mined], ok |-> ok] \in [by : Owners, ok : BOOLEAN]
      BY <1>a, <3>2, <1>23 DEF Mine, TypeOK
    <3> QED
      BY <1>a, <3>1, <3>3, AppendProperties DEF TypeOK
  <2>2. pool' \in [Nonces -> Owners \union {Free}]
    BY <1>a, <1>23 DEF Mine, Takes, TypeOK, Nonces, Owners
  <2>r. UNCHANGED <<halted, lock, next, sent, pc, latest, nonce, ours, looks, tries, span,
                    swapped, outcome, evicted, unwatched, foreign>>
    BY <1>23 DEF Mine
  <2> QED
    BY <1>a, <2>r, <2>1, <2>2 DEF TypeOK
<1>24. ASSUME NEW n \in Nonces, Drop(n) PROVE TypeOK'
  BY <1>a, <1>24 DEF Drop, TypeOK, Steps, Outcomes, Nonces
<1>25. ASSUME NEW n \in Nonces, OtherSends(n) PROVE TypeOK'
  <2>1. pool' \in [Nonces -> Owners \union {Free}]
    BY <1>a, <1>25 DEF OtherSends, Takes, TypeOK, Nonces, Owners
  <2>2. evicted' \subseteq Nonces
    BY <1>a, <1>25 DEF OtherSends, Takes, TypeOK, Nonces, Owners
  <2>r. UNCHANGED <<chain, halted, lock, next, sent, pc, latest, nonce, ours, looks, tries,
                    span, swapped, outcome, unwatched>>
    BY <1>25 DEF OtherSends
  <2>3. foreign' \subseteq Nonces
    BY <1>t, <1>25 DEF OtherSends
  <2> QED
    BY <1>a, <2>r, <2>1, <2>2, <2>3 DEF TypeOK
<1>26. ASSUME UNCHANGED vars PROVE TypeOK'
  BY <1>a, <1>26 DEF vars, TypeOK, Steps, Outcomes, Nonces
<1> QED
  BY <1>1, <1>2, <1>3, <1>4, <1>5, <1>6, <1>7, <1>8, <1>9, <1>10, <1>11, <1>12, <1>13,
     <1>14, <1>15, <1>16, <1>17, <1>18, <1>19, <1>20, <1>21, <1>22, <1>23, <1>24, <1>25,
     <1>26 DEF Next, Sending, Clearing, Node

(* The lock changes hands with the steps that enter and leave.             *)
LEMMA LockPreserved ==
  ASSUME TypeOK, LockHeld, [Next]_vars
  PROVE  LockHeld'
<1>a. LockHeld
  OBVIOUS
<1>b. pc \in [Calls -> Steps]
  BY DEF TypeOK
<1>c. Nobody \notin Calls
  OBVIOUS
<1>1. ASSUME NEW c \in Calls, Enter(c) PROVE LockHeld'
  BY <1>a, <1>b, <1>c, <1>1 DEF Enter, Goto, LockHeld, Inside
<1>2. ASSUME NEW c \in Calls, Acquire(c) PROVE LockHeld'
  BY <1>a, <1>b, <1>c, <1>2 DEF Acquire, Goto, LockHeld, Inside
<1>3. ASSUME NEW c \in Calls, ReadFails(c) PROVE LockHeld'
  BY <1>a, <1>b, <1>c, <1>3 DEF ReadFails, Return, Goto, LockHeld, Inside
<1>4. ASSUME NEW c \in Calls, ReadLatest(c) PROVE LockHeld'
  BY <1>a, <1>b, <1>c, <1>4 DEF ReadLatest, Goto, LatestView, LockHeld, Inside
<1>5. ASSUME NEW c \in Calls, ReadPending(c) PROVE LockHeld'
  BY <1>a, <1>b, <1>c, <1>5 DEF ReadPending, Goto, Return, PendingView, Explained,
         LooksAgain, LockHeld, Inside
<1>6. ASSUME NEW c \in Calls, CannotPay(c) PROVE LockHeld'
  BY <1>a, <1>b, <1>c, <1>6 DEF CannotPay, Return, Goto, LockHeld, Inside
<1>7. ASSUME NEW c \in Calls, EstimateFails(c) PROVE LockHeld'
  BY <1>a, <1>b, <1>c, <1>7 DEF EstimateFails, Raise, Return, Goto, Quotes, LockHeld, Inside
<1>8. ASSUME NEW c \in Calls, Reserve(c) PROVE LockHeld'
  BY <1>a, <1>b, <1>c, <1>8 DEF Reserve, NonceToUse, Goto, LockHeld, Inside
<1>9. ASSUME NEW c \in Calls, Submit(c) PROVE LockHeld'
  BY <1>a, <1>b, <1>c, <1>9 DEF Submit, Goto, LockHeld, Inside
<1>10. ASSUME NEW c \in Calls, Accepted(c) PROVE LockHeld'
  BY <1>a, <1>b, <1>c, <1>10 DEF Accepted, Held, NotHeld, Takes, Goto, LockHeld, Inside
<1>11. ASSUME NEW c \in Calls, BroadcastFails(c) PROVE LockHeld'
  BY <1>a, <1>b, <1>c, <1>11 DEF BroadcastFails, BroadcastError, Return, Goto,
         NextAfterDoubt, Held, NotHeld, Takes, Abandon, LockHeld, Inside
<1>12. ASSUME NEW c \in Calls, Refused(c) PROVE LockHeld'
  BY <1>a, <1>b, <1>c, <1>12 DEF Refused, Return, Goto, NextAfterDoubt, Abandon, LockHeld,
         Inside
<1>13. ASSUME NEW c \in Calls, Receipt(c) PROVE LockHeld'
  BY <1>a, <1>b, <1>c, <1>13 DEF Receipt, MinedAs, Raise, Return, Goto, Quotes, LockHeld, Inside
<1>14. ASSUME NEW c \in Calls, TimesOut(c) PROVE LockHeld'
  BY <1>a, <1>b, <1>c, <1>14 DEF TimesOut, AfterTimeout, NextAfterDoubt, Raise, Return,
         Goto, Quotes, LockHeld, Inside
<1>15. ASSUME NEW c \in Calls, PollFails(c) PROVE LockHeld'
  BY <1>a, <1>b, <1>c, <1>15 DEF PollFails, Return, Goto, Abandon, LockHeld, Inside
<1>16. ASSUME NEW c \in Calls, FindStuck(c) PROVE LockHeld'
  BY <1>a, <1>b, <1>c, <1>16 DEF FindStuck, PendingView, Return, Goto, LockHeld, Inside
<1>17. ASSUME NEW c \in Calls, Replace(c) PROVE LockHeld'
  BY <1>a, <1>b, <1>c, <1>17 DEF Replace, Goto, LockHeld, Inside
<1>18. ASSUME NEW c \in Calls, Settle(c) PROVE LockHeld'
  BY <1>a, <1>b, <1>c, <1>18 DEF Settle, Settled, MinedAs, LockHeld, Inside
<1>19. ASSUME NEW c \in Calls, SettleTimesOut(c) PROVE LockHeld'
  BY <1>a, <1>b, <1>c, <1>19 DEF SettleTimesOut, AfterTimeout, NextAfterDoubt, LatestView,
         MinedAs, Return, Goto, Abandon, LockHeld, Inside
<1>20. ASSUME NEW c \in Calls, Cleared(c) PROVE LockHeld'
  BY <1>a, <1>b, <1>c, <1>20 DEF Cleared, Return, Goto, LockHeld, Inside
<1>21. ASSUME Halt PROVE LockHeld'
  BY <1>a, <1>b, <1>c, <1>21 DEF Halt, LockHeld, Inside
<1>22. ASSUME Resume PROVE LockHeld'
  BY <1>a, <1>b, <1>c, <1>22 DEF Resume, LockHeld, Inside
<1>23. ASSUME Mine PROVE LockHeld'
  BY <1>a, <1>b, <1>c, <1>23 DEF Mine, LockHeld, Inside
<1>24. ASSUME NEW n \in Nonces, Drop(n) PROVE LockHeld'
  BY <1>a, <1>b, <1>c, <1>24 DEF Drop, LockHeld, Inside
<1>25. ASSUME NEW n \in Nonces, OtherSends(n) PROVE LockHeld'
  BY <1>a, <1>b, <1>c, <1>25 DEF OtherSends, Takes, LockHeld, Inside
<1>26. ASSUME UNCHANGED vars PROVE LockHeld'
  BY <1>a, <1>b, <1>c, <1>26 DEF vars, LockHeld, Inside
<1> QED
  BY <1>1, <1>2, <1>3, <1>4, <1>5, <1>6, <1>7, <1>8, <1>9, <1>10, <1>11, <1>12, <1>13,
     <1>14, <1>15, <1>16, <1>17, <1>18, <1>19, <1>20, <1>21, <1>22, <1>23, <1>24, <1>25,
     <1>26 DEF Next, Sending, Clearing, Node

(* A send broadcasts a nonce it reserved, a clear one of those it found.   *)
LEMMA PlacesPreserved ==
  ASSUME TypeOK, PlacesFit, [Next]_vars
  PROVE  PlacesFit'
<1>a. TypeOK /\ PlacesFit
  OBVIOUS
<1>t. /\ pc \in [Calls -> Steps] /\ outcome \in [Calls -> Outcomes]
      /\ nonce \in [Calls -> Nat] /\ latest \in [Calls -> Nat]
      /\ span \in [Calls -> SUBSET Nonces] /\ swapped \in [Calls -> SUBSET Nonces]
  BY DEF TypeOK
<1>1. ASSUME NEW c \in Calls, Enter(c) PROVE PlacesFit'
  BY <1>a, <1>t, <1>1, CallFacts DEF Enter, Goto, PlacesFit
<1>2. ASSUME NEW c \in Calls, Acquire(c) PROVE PlacesFit'
  BY <1>a, <1>t, <1>2, CallFacts DEF Acquire, Goto, PlacesFit
<1>3. ASSUME NEW c \in Calls, ReadFails(c) PROVE PlacesFit'
  BY <1>a, <1>t, <1>3, CallFacts DEF ReadFails, Return, Goto, PlacesFit
<1>4. ASSUME NEW c \in Calls, ReadLatest(c) PROVE PlacesFit'
  BY <1>a, <1>t, <1>4, CallFacts DEF ReadLatest, Goto, LatestView, PlacesFit
<1>5. ASSUME NEW c \in Calls, ReadPending(c) PROVE PlacesFit'
  BY <1>a, <1>t, <1>5, CallFacts DEF ReadPending, Goto, Return, PendingView, Explained,
         LooksAgain, PlacesFit
<1>6. ASSUME NEW c \in Calls, CannotPay(c) PROVE PlacesFit'
  BY <1>a, <1>t, <1>6, CallFacts DEF CannotPay, Return, Goto, PlacesFit
<1>7. ASSUME NEW c \in Calls, EstimateFails(c) PROVE PlacesFit'
  BY <1>a, <1>t, <1>7, CallFacts DEF EstimateFails, Raise, Return, Goto, Quotes, PlacesFit
<1>8. ASSUME NEW c \in Calls, Reserve(c) PROVE PlacesFit'
  <2>1. NonceToUse(nonce[c]) \in Nonces
    <3>1. nonce[c] \in Nat /\ next \in Nat \union {Unset}
      BY <1>a, <1>t DEF TypeOK
    <3> QED
      BY <3>1, <1>8 DEF Reserve, NonceToUse, Nonces
  <2> QED
    BY <1>a, <1>t, <1>8, <2>1, CallFacts DEF Reserve, Goto, PlacesFit
<1>9. ASSUME NEW c \in Calls, Submit(c) PROVE PlacesFit'
  BY <1>a, <1>t, <1>9, CallFacts DEF Submit, Goto, PlacesFit
<1>10. ASSUME NEW c \in Calls, Accepted(c) PROVE PlacesFit'
  <2>1. CASE c \in Sends
    BY <1>a, <1>t, <1>10, <2>1, CallFacts DEF Accepted, Goto, PlacesFit
  <2>2. CASE c \in Clears
    <3>1. nonce[c] \in span[c]
      BY <1>a, <1>10, <2>2 DEF Accepted, PlacesFit
    <3>2. /\ pc' = [pc EXCEPT ![c] = "replacing"] /\ UNCHANGED <<span, outcome>>
          /\ swapped' = [swapped EXCEPT ![c] = swapped[c] \union {nonce[c]}]
          /\ nonce' = [nonce EXCEPT ![c] = nonce[c] + 1]
      BY <1>10, <2>2, CallFacts DEF Accepted, Goto
    <3>3. ASSUME NEW d \in Calls, d # c PROVE UNCHANGED <<pc[d], nonce[d], swapped[d]>>
      BY <1>t, <3>2, <3>3
    <3>4. pc'[c] = "replacing" /\ swapped'[c] \subseteq span[c]
      BY <1>a, <1>t, <3>1, <3>2 DEF PlacesFit
    <3>5. outcome[c] = "none"
      BY <1>a, <1>10 DEF Accepted, PlacesFit
    <3> QED
      BY <1>a, <2>2, <3>2, <3>3, <3>4, <3>5, CallFacts DEF PlacesFit
  <2> QED
    BY <2>1, <2>2 DEF Calls
<1>11. ASSUME NEW c \in Calls, BroadcastFails(c) PROVE PlacesFit'
  BY <1>a, <1>t, <1>11, CallFacts DEF BroadcastFails, BroadcastError, Return, Goto,
         NextAfterDoubt, Held, NotHeld, Takes, Abandon, PlacesFit
<1>12. ASSUME NEW c \in Calls, Refused(c) PROVE PlacesFit'
  <2>1. UNCHANGED <<span, swapped>>
    BY <1>12 DEF Refused
  <2>2. CASE /\ pc' = [pc EXCEPT ![c] = "returned"]
             /\ \E o \in {"tooLow", "refused", "failed"} : outcome' = [outcome EXCEPT ![c] = o]
             /\ nonce' = nonce
    BY <1>a, <1>t, <2>1, <2>2, CallFacts DEF PlacesFit
  <2>3. CASE /\ c \in Clears /\ pc' = [pc EXCEPT ![c] = "replacing"]
             /\ outcome' = outcome /\ nonce' = [nonce EXCEPT ![c] = nonce[c] + 1]
    BY <1>a, <1>t, <1>12, <2>1, <2>3, CallFacts DEF PlacesFit, Refused
  <2>4. CASE nonce[c] < Mined
    BY <1>12, <2>2, <2>3, <2>4 DEF Refused, Return, Goto, Calls
  <2>5. CASE ~(nonce[c] < Mined)
    <3>1. \E o \in {"refused", "failed"} : Return(c, o)
      BY <1>12, <2>5 DEF Refused
    <3>2. nonce' = nonce
      BY <1>12, <2>5 DEF Refused
    <3> QED
      BY <2>2, <3>1, <3>2 DEF Return, Goto
  <2> QED
    BY <2>4, <2>5
<1>13. ASSUME NEW c \in Calls, Receipt(c) PROVE PlacesFit'
  BY <1>a, <1>t, <1>13, CallFacts DEF Receipt, MinedAs, Raise, Return, Goto, Quotes, PlacesFit
<1>14. ASSUME NEW c \in Calls, TimesOut(c) PROVE PlacesFit'
  BY <1>a, <1>t, <1>14, CallFacts DEF TimesOut, AfterTimeout, NextAfterDoubt, Raise,
         Return, Goto, Quotes, PlacesFit
<1>15. ASSUME NEW c \in Calls, PollFails(c) PROVE PlacesFit'
  BY <1>a, <1>t, <1>15, CallFacts DEF PollFails, Return, Goto, Abandon, PlacesFit
<1>16. ASSUME NEW c \in Calls, FindStuck(c) PROVE PlacesFit'
  <2>1. c \in Clears /\ swapped' = swapped /\ swapped[c] \subseteq span[c]
    BY <1>a, <1>16 DEF FindStuck, PlacesFit
  <2>2. CASE /\ pc' = [pc EXCEPT ![c] = "returned"] /\ UNCHANGED <<nonce, span>>
             /\ \E o \in {"nothingStuck", "unsent"} : outcome' = [outcome EXCEPT ![c] = o]
    BY <1>a, <1>t, <2>1, <2>2, CallFacts DEF PlacesFit
  <2>3. CASE /\ pc' = [pc EXCEPT ![c] = "replacing"] /\ outcome' = outcome
             /\ nonce' = [nonce EXCEPT ![c] = latest[c]]
             /\ \E n \in 0..(MaxNonce+1) : span' = [span EXCEPT ![c] = latest[c]..(n-1)]
    <3>1. swapped[c] = {}
      BY <1>a, <1>16 DEF FindStuck, PlacesFit
    <3> QED
      BY <1>a, <3>1, <1>t, <1>16, <2>1, <2>3, CallFacts DEF PlacesFit, FindStuck
  <2> QED
    BY <1>16, <2>2, <2>3 DEF FindStuck, Return, Goto
<1>17. ASSUME NEW c \in Calls, Replace(c) PROVE PlacesFit'
  BY <1>a, <1>t, <1>17, CallFacts DEF Replace, Goto, PlacesFit
<1>18. ASSUME NEW c \in Calls, Settle(c) PROVE PlacesFit'
  BY <1>a, <1>t, <1>18, CallFacts DEF Settle, Settled, MinedAs, PlacesFit
<1>19. ASSUME NEW c \in Calls, SettleTimesOut(c) PROVE PlacesFit'
  BY <1>a, <1>t, <1>19, CallFacts DEF SettleTimesOut, AfterTimeout, NextAfterDoubt,
         LatestView, MinedAs, Return, Goto, Abandon, PlacesFit
<1>20. ASSUME NEW c \in Calls, Cleared(c) PROVE PlacesFit'
  BY <1>a, <1>t, <1>20, CallFacts DEF Cleared, Return, Goto, PlacesFit
<1>21. ASSUME Halt PROVE PlacesFit'
  BY <1>a, <1>t, <1>21 DEF Halt, PlacesFit
<1>22. ASSUME Resume PROVE PlacesFit'
  BY <1>a, <1>t, <1>22 DEF Resume, PlacesFit
<1>23. ASSUME Mine PROVE PlacesFit'
  BY <1>a, <1>t, <1>23 DEF Mine, PlacesFit
<1>24. ASSUME NEW n \in Nonces, Drop(n) PROVE PlacesFit'
  BY <1>a, <1>t, <1>24 DEF Drop, PlacesFit
<1>25. ASSUME NEW n \in Nonces, OtherSends(n) PROVE PlacesFit'
  BY <1>a, <1>t, <1>25 DEF OtherSends, Takes, PlacesFit
<1>26. ASSUME UNCHANGED vars PROVE PlacesFit'
  BY <1>a, <1>t, <1>26 DEF vars, PlacesFit
<1> QED
  BY <1>1, <1>2, <1>3, <1>4, <1>5, <1>6, <1>7, <1>8, <1>9, <1>10, <1>11, <1>12, <1>13,
     <1>14, <1>15, <1>16, <1>17, <1>18, <1>19, <1>20, <1>21, <1>22, <1>23, <1>24, <1>25,
     <1>26 DEF Next, Sending, Clearing, Node

(* What a step does to the node: it mines, or changes at most one nonce,   *)
(* which it drops, or gives to the other application or to a call that     *)
(* broadcasts.                                                             *)
NodeStep ==
  \/ Mine /\ UNCHANGED evicted
  \/ UNCHANGED <<chain, pool, evicted>>
  \/ \E n \in Nonces : /\ pool' = [pool EXCEPT ![n] = Free] /\ evicted' = evicted \union {n}
                       /\ UNCHANGED chain
  \/ \E n \in Nonces : /\ Mined <= n /\ pool' = [pool EXCEPT ![n] = Other]
                       /\ evicted' = evicted \ {n} /\ UNCHANGED chain
  \/ \E c \in Calls : /\ pc[c] = "broadcast" /\ pc'[c] # "broadcast"
                      /\ nonce[c] \in Nonces /\ Mined <= nonce[c]
                      /\ pool' = [pool EXCEPT ![nonce[c]] = c]
                      /\ evicted' = evicted \ {nonce[c]} /\ UNCHANGED chain

(* Every step is of this kind.                                             *)
LEMMA NodeSteps ==
  ASSUME TypeOK, PlacesFit, [Next]_vars
  PROVE  NodeStep
<1>a. PlacesFit
  OBVIOUS
<1>b. pc \in [Calls -> Steps]
  BY DEF TypeOK
<1>1. ASSUME NEW c \in Calls, Enter(c) PROVE NodeStep
  BY <1>a, <1>b, <1>1 DEF Enter, Goto, NodeStep
<1>2. ASSUME NEW c \in Calls, Acquire(c) PROVE NodeStep
  BY <1>a, <1>b, <1>2 DEF Acquire, Goto, NodeStep
<1>3. ASSUME NEW c \in Calls, ReadFails(c) PROVE NodeStep
  BY <1>a, <1>b, <1>3 DEF ReadFails, Return, Goto, NodeStep
<1>4. ASSUME NEW c \in Calls, ReadLatest(c) PROVE NodeStep
  BY <1>a, <1>b, <1>4 DEF ReadLatest, Goto, LatestView, NodeStep
<1>5. ASSUME NEW c \in Calls, ReadPending(c) PROVE NodeStep
  BY <1>a, <1>b, <1>5 DEF ReadPending, Goto, Return, PendingView, Explained, LooksAgain,
         NodeStep
<1>6. ASSUME NEW c \in Calls, CannotPay(c) PROVE NodeStep
  BY <1>a, <1>b, <1>6 DEF CannotPay, Return, Goto, NodeStep
<1>7. ASSUME NEW c \in Calls, EstimateFails(c) PROVE NodeStep
  BY <1>a, <1>b, <1>7 DEF EstimateFails, Raise, Return, Goto, Quotes, NodeStep
<1>8. ASSUME NEW c \in Calls, Reserve(c) PROVE NodeStep
  BY <1>a, <1>b, <1>8 DEF Reserve, NonceToUse, Goto, NodeStep
<1>9. ASSUME NEW c \in Calls, Submit(c) PROVE NodeStep
  BY <1>a, <1>b, <1>9 DEF Submit, Goto, NodeStep
<1>10. ASSUME NEW c \in Calls, Accepted(c) PROVE NodeStep
  <2>1. nonce[c] \in Nonces
    BY <1>a, <1>10 DEF Accepted, PlacesFit
  <2> QED
    BY <1>b, <1>10, <2>1 DEF Accepted, Held, NotHeld, Takes, NodeStep, Goto
<1>11. ASSUME NEW c \in Calls, BroadcastFails(c) PROVE NodeStep
  <2>1. nonce[c] \in Nonces
    BY <1>a, <1>11 DEF BroadcastFails, PlacesFit
  <2> QED
    BY <1>b, <1>11, <2>1 DEF BroadcastFails, Held, NotHeld, Takes, NodeStep, Return, Goto
<1>12. ASSUME NEW c \in Calls, Refused(c) PROVE NodeStep
  BY <1>a, <1>b, <1>12 DEF Refused, Return, Goto, NextAfterDoubt, Abandon, NodeStep
<1>13. ASSUME NEW c \in Calls, Receipt(c) PROVE NodeStep
  BY <1>a, <1>b, <1>13 DEF Receipt, MinedAs, Raise, Return, Goto, Quotes, NodeStep
<1>14. ASSUME NEW c \in Calls, TimesOut(c) PROVE NodeStep
  BY <1>a, <1>b, <1>14 DEF TimesOut, AfterTimeout, NextAfterDoubt, Raise, Return, Goto,
         Quotes, NodeStep
<1>15. ASSUME NEW c \in Calls, PollFails(c) PROVE NodeStep
  BY <1>a, <1>b, <1>15 DEF PollFails, Return, Goto, Abandon, NodeStep
<1>16. ASSUME NEW c \in Calls, FindStuck(c) PROVE NodeStep
  BY <1>a, <1>b, <1>16 DEF FindStuck, PendingView, Return, Goto, NodeStep
<1>17. ASSUME NEW c \in Calls, Replace(c) PROVE NodeStep
  BY <1>a, <1>b, <1>17 DEF Replace, Goto, NodeStep
<1>18. ASSUME NEW c \in Calls, Settle(c) PROVE NodeStep
  BY <1>a, <1>b, <1>18 DEF Settle, Settled, MinedAs, NodeStep
<1>19. ASSUME NEW c \in Calls, SettleTimesOut(c) PROVE NodeStep
  BY <1>a, <1>b, <1>19 DEF SettleTimesOut, AfterTimeout, NextAfterDoubt, LatestView,
         MinedAs, Return, Goto, Abandon, NodeStep
<1>20. ASSUME NEW c \in Calls, Cleared(c) PROVE NodeStep
  BY <1>a, <1>b, <1>20 DEF Cleared, Return, Goto, NodeStep
<1>21. ASSUME Halt PROVE NodeStep
  BY <1>a, <1>b, <1>21 DEF Halt, NodeStep
<1>22. ASSUME Resume PROVE NodeStep
  BY <1>a, <1>b, <1>22 DEF Resume, NodeStep
<1>23. ASSUME Mine PROVE NodeStep
  BY <1>a, <1>b, <1>23 DEF Mine, NodeStep
<1>24. ASSUME NEW n \in Nonces, Drop(n) PROVE NodeStep
  BY <1>a, <1>b, <1>24 DEF Drop, NodeStep
<1>25. ASSUME NEW n \in Nonces, OtherSends(n) PROVE NodeStep
  BY <1>a, <1>b, <1>25 DEF OtherSends, Takes, NodeStep
<1>26. ASSUME UNCHANGED vars PROVE NodeStep
  BY <1>a, <1>b, <1>26 DEF vars, NodeStep
<1> QED
  BY <1>1, <1>2, <1>3, <1>4, <1>5, <1>6, <1>7, <1>8, <1>9, <1>10, <1>11, <1>12, <1>13,
     <1>14, <1>15, <1>16, <1>17, <1>18, <1>19, <1>20, <1>21, <1>22, <1>23, <1>24, <1>25,
     <1>26 DEF Next, Sending, Clearing, Node

(* Whatever the node takes is above what it has mined.                     *)
LEMMA PoolPreserved ==
  ASSUME TypeOK, PoolFits, NodeStep
  PROVE  PoolFits'
<1>a. Mined \in Nat /\ pool \in [Nonces -> Owners \union {Free}] /\ Nonces = 0..MaxNonce
  BY ChainFacts DEF TypeOK, Nonces
<1>1. CASE Mine
  BY <1>a, <1>1, MineFacts DEF PoolFits
<1>2. CASE UNCHANGED chain
  <2>1. Mined' = Mined
    BY <1>2 DEF Mined
  <2>2. \A n \in Nonces : n < Mined => pool'[n] = Free \/ pool'[n] = pool[n]
    BY <1>a, <1>2, MineFacts DEF NodeStep
  <2> QED
    BY <2>1, <2>2 DEF PoolFits
<1> QED
  BY <1>1, <1>2 DEF NodeStep

-----------------------------------------------------------------------------
(* What is under way                                                       *)

(* What is mined stays so.                                                 *)
LEMMA MinedStays ==
  ASSUME TypeOK, NodeStep, NEW n \in Nat, n < Mined
  PROVE  n < Mined' /\ chain'[n+1] = chain[n+1]
<1>1. Mined \in Nat
  BY ChainFacts
<1>2. CASE Mine
  BY <1>1, <1>2, MineFacts
<1>3. CASE UNCHANGED chain
  BY <1>3 DEF Mined
<1> QED
  BY <1>2, <1>3 DEF NodeStep

(* Only its own broadcast gives a call something that can take effect, and *)
(* what is mined, mined well, for ever.                                    *)
LEMMA LiveSteps ==
  ASSUME TypeOK, NodeStep, NEW c \in Sends
  PROVE  /\ Live(c)' \subseteq
            Live(c) \union (IF pc[c] = "broadcast" /\ pc'[c] # "broadcast"
                                                   THEN {nonce[c]} ELSE {})
         /\ \A n \in Live(c) : n < Mined /\ pool[n] = Free => n \in Live(c)' /\ n < Mined'
<1>0. /\ Mined \in Nat /\ c # Free /\ c # Other /\ Nonces \subseteq Nat
      /\ pool \in [Nonces -> Owners \union {Free}]
  <2>1. Mined \in Nat /\ c # Free /\ c # Other
    BY ChainFacts, CallFacts
  <2>2. Nonces \subseteq Nat
    BY DEF Nonces
  <2>3. pool \in [Nonces -> Owners \union {Free}]
    BY DEF TypeOK
  <2> QED
    BY <2>1, <2>2, <2>3
<1>1. ASSUME NEW n \in Live(c), n < Mined, pool[n] = Free
      PROVE  n \in Live(c)' /\ n < Mined'
  <2>1. n \in Nonces /\ chain[n+1].by = c /\ chain[n+1].ok
    BY <1>0, <1>1 DEF Live, MinedAs
  <2>2. n < Mined' /\ chain'[n+1] = chain[n+1]
    BY <1>0, <1>1, <2>1, MinedStays
  <2> QED
    BY <2>1, <2>2 DEF Live, MinedAs
<1>2. ASSUME NEW n \in Live(c)'
      PROVE  n \in Live(c) \/ (pc[c] = "broadcast" /\ pc'[c] # "broadcast" /\ n = nonce[c])
  <2>0. n \in Nonces
    BY <1>2 DEF Live
  <2>1. CASE Mine
    <3>1. CASE n = Mined
      <4>1. pool'[n] # c
        BY <1>0, <2>1, <3>1, MineFacts
      <4>2. pool[n] = c
        BY <1>2, <2>1, <3>1, <4>1, MineFacts DEF Live, MinedAs
      <4> QED
        BY <2>0, <4>2 DEF Live
    <3>2. CASE n # Mined
      <4>1. pool'[n] = pool[n]
        BY <1>0, <2>0, <2>1, <3>2, MineFacts
      <4>2. n < Mined' => n < Mined /\ chain'[n+1] = chain[n+1]
        BY <1>0, <2>0, <2>1, <3>2, MineFacts
      <4> QED
        BY <1>2, <2>0, <4>1, <4>2 DEF Live, MinedAs
    <3> QED
      BY <3>1, <3>2
  <2>2. CASE UNCHANGED chain
    <3>1. Mined' = Mined
      BY <2>2 DEF Mined
    <3>2. pool'[n] = c =>
            \/ pool[n] = c
            \/ Mine
            \/ pc[c] = "broadcast" /\ pc'[c] # "broadcast" /\ n = nonce[c]
      BY <1>0, <2>0, CallFacts DEF NodeStep
    <3> QED
      BY <1>2, <2>0, <2>1, <2>2, <3>1, <3>2 DEF Live, MinedAs
  <2> QED
    BY <2>1, <2>2 DEF NodeStep
<1> QED
  BY <1>1, <1>2

(* What a step of one call leaves to another.                              *)
Stays(d) == UNCHANGED <<pc[d], latest[d], nonce[d], span[d], swapped[d], outcome[d]>>

(* A call leaves the others' places and numbers alone.                     *)
LEMMA OthersStay ==
  ASSUME TypeOK, NEW c \in Calls, Enter(c) \/ Sending(c) \/ Clearing(c),
         NEW d \in Calls, d # c
  PROVE  Stays(d)
<1>t. /\ pc \in [Calls -> Steps] /\ outcome \in [Calls -> Outcomes]
      /\ nonce \in [Calls -> Nat] /\ latest \in [Calls -> Nat]
      /\ span \in [Calls -> SUBSET Nonces] /\ swapped \in [Calls -> SUBSET Nonces]
  BY DEF TypeOK
<1>d. c # d
  OBVIOUS
<1>1. CASE Enter(c)
  BY <1>t, <1>d, <1>1 DEF Enter, Goto, Stays
<1>2. CASE Acquire(c)
  BY <1>t, <1>d, <1>2 DEF Acquire, Goto, Stays
<1>3. CASE ReadFails(c)
  BY <1>t, <1>d, <1>3 DEF ReadFails, Return, Goto, Stays
<1>4. CASE ReadLatest(c)
  BY <1>t, <1>d, <1>4 DEF ReadLatest, Goto, LatestView, Stays
<1>5. CASE ReadPending(c)
  BY <1>t, <1>d, <1>5 DEF ReadPending, Goto, Return, PendingView, Explained, LooksAgain, Stays
<1>6. CASE CannotPay(c)
  BY <1>t, <1>d, <1>6 DEF CannotPay, Return, Goto, Stays
<1>7. CASE EstimateFails(c)
  BY <1>t, <1>d, <1>7 DEF EstimateFails, Raise, Return, Goto, Quotes, Stays
<1>8. CASE Reserve(c)
  BY <1>t, <1>d, <1>8 DEF Reserve, NonceToUse, Goto, Stays
<1>9. CASE Submit(c)
  BY <1>t, <1>d, <1>9 DEF Submit, Goto, Stays
<1>10. CASE Accepted(c)
  BY <1>t, <1>d, <1>10 DEF Accepted, Held, NotHeld, Takes, Goto, Stays
<1>11. CASE BroadcastFails(c)
  BY <1>t, <1>d, <1>11 DEF BroadcastFails, BroadcastError, Return, Goto, NextAfterDoubt,
         Held, NotHeld, Takes, Abandon, Stays
<1>12. CASE Refused(c)
  BY <1>t, <1>d, <1>12 DEF Refused, Return, Goto, NextAfterDoubt, Abandon, Stays
<1>13. CASE Receipt(c)
  BY <1>t, <1>d, <1>13 DEF Receipt, MinedAs, Raise, Return, Goto, Quotes, Stays
<1>14. CASE TimesOut(c)
  BY <1>t, <1>d, <1>14 DEF TimesOut, AfterTimeout, NextAfterDoubt, Raise, Return, Goto,
         Quotes, Stays
<1>15. CASE PollFails(c)
  BY <1>t, <1>d, <1>15 DEF PollFails, Return, Goto, Abandon, Stays
<1>16. CASE FindStuck(c)
  BY <1>t, <1>d, <1>16 DEF FindStuck, PendingView, Return, Goto, Stays
<1>17. CASE Replace(c)
  BY <1>t, <1>d, <1>17 DEF Replace, Goto, Stays
<1>18. CASE Settle(c)
  BY <1>t, <1>d, <1>18 DEF Settle, Settled, MinedAs, Stays
<1>19. CASE SettleTimesOut(c)
  BY <1>t, <1>d, <1>19 DEF SettleTimesOut, AfterTimeout, NextAfterDoubt, LatestView,
         MinedAs, Return, Goto, Abandon, Stays
<1>20. CASE Cleared(c)
  BY <1>t, <1>d, <1>20 DEF Cleared, Return, Goto, Stays
<1> QED
  BY <1>1, <1>2, <1>3, <1>4, <1>5, <1>6, <1>7, <1>8, <1>9, <1>10, <1>11, <1>12, <1>13,
     <1>14, <1>15, <1>16, <1>17, <1>18, <1>19, <1>20 DEF Sending, Clearing

(* As long as a send does not act itself, what it said stays true.         *)
LEMMA EffectStays ==
  ASSUME TypeOK, PoolFits, EffectFits, NodeStep, NEW c \in Sends, Stays(c)
  PROVE  EffectOf(c)'
<1>1. Live(c)' \subseteq Live(c)
  BY LiveSteps DEF Stays
<1>2. \A n \in Live(c) : n < Mined => n \in Live(c)' /\ n < Mined'
  BY LiveSteps DEF Live, PoolFits
<1> QED
  BY <1>1, <1>2 DEF Stays, EffectFits, EffectOf

(* What a send makes of its one transaction: it goes on to another only    *)
(* when that one has reverted, or was never sent, and says what became of  *)
(* it.                                                                     *)
LEMMA EffectOwn ==
  ASSUME TypeOK, PlacesFit, PoolFits, EffectFits, NodeStep, NEW c \in Sends,
         Enter(c) \/ Sending(c) \/ Clearing(c)
  PROVE  EffectOf(c)'
<1>a. EffectOf(c) /\ PlacesFit
  BY DEF EffectFits
<1>b. Live(c)' \subseteq
        Live(c) \union (IF pc[c] = "broadcast" /\ pc'[c] # "broadcast" THEN {nonce[c]} ELSE {})
  BY LiveSteps
<1>c. \A n \in Live(c) : n < Mined => n \in Live(c)' /\ n < Mined'
  BY LiveSteps DEF Live, PoolFits
<1>t. /\ pc \in [Calls -> Steps] /\ outcome \in [Calls -> Outcomes]
      /\ nonce \in [Calls -> Nat] /\ latest \in [Calls -> Nat]
      /\ span \in [Calls -> SUBSET Nonces] /\ swapped \in [Calls -> SUBSET Nonces]
  BY DEF TypeOK
<1>k. c \in Calls /\ c \notin Clears
  BY CallFacts
<1>1. CASE Enter(c)
  BY <1>a, <1>b, <1>c, <1>t, <1>k, <1>1 DEF Enter, Goto, EffectOf, NothingLeft, PlacesFit
<1>2. CASE Acquire(c)
  BY <1>a, <1>b, <1>c, <1>t, <1>k, <1>2 DEF Acquire, Goto, EffectOf, NothingLeft, PlacesFit
<1>3. CASE ReadFails(c)
  BY <1>a, <1>b, <1>c, <1>t, <1>k, <1>3 DEF ReadFails, Return, Goto, EffectOf, NothingLeft,
         PlacesFit
<1>4. CASE ReadLatest(c)
  BY <1>a, <1>b, <1>c, <1>t, <1>k, <1>4 DEF ReadLatest, Goto, LatestView, EffectOf,
         NothingLeft, PlacesFit
<1>5. CASE ReadPending(c)
  BY <1>a, <1>b, <1>c, <1>t, <1>k, <1>5 DEF ReadPending, Goto, Return, PendingView,
         Explained, LooksAgain, EffectOf, NothingLeft, PlacesFit
<1>6. CASE CannotPay(c)
  BY <1>a, <1>b, <1>c, <1>t, <1>k, <1>6 DEF CannotPay, Return, Goto, EffectOf, NothingLeft,
         PlacesFit
<1>7. CASE EstimateFails(c)
  BY <1>a, <1>b, <1>c, <1>t, <1>k, <1>7 DEF EstimateFails, Raise, Return, Goto, Quotes,
         EffectOf, NothingLeft, PlacesFit
<1>8. CASE Reserve(c)
  BY <1>a, <1>b, <1>c, <1>t, <1>k, <1>8 DEF Reserve, NonceToUse, Goto, EffectOf,
         NothingLeft, PlacesFit
<1>9. CASE Submit(c)
  BY <1>a, <1>b, <1>c, <1>t, <1>k, <1>9 DEF Submit, Goto, EffectOf, NothingLeft, PlacesFit
<1>10. CASE Accepted(c)
  BY <1>a, <1>b, <1>c, <1>t, <1>k, <1>10 DEF Accepted, Held, NotHeld, Takes, Goto, EffectOf,
         NothingLeft, PlacesFit
<1>11. CASE BroadcastFails(c)
  BY <1>a, <1>b, <1>c, <1>t, <1>k, <1>11 DEF BroadcastFails, BroadcastError, Return, Goto,
         NextAfterDoubt, Held, NotHeld, Takes, Abandon, EffectOf, NothingLeft, PlacesFit
<1>12. CASE Refused(c)
  <2>1. Live(c)' = Live(c)
    BY <1>12 DEF Refused, Live, MinedAs, Mined
  <2>2. Live(c) = {} /\ pc[c] = "broadcast" /\ outcome[c] = "none"
    BY <1>a, <1>k, <1>12 DEF Refused, EffectOf, PlacesFit
  <2>3. \E o \in {"tooLow", "refused"} :
           pc' = [pc EXCEPT ![c] = "returned"] /\ outcome' = [outcome EXCEPT ![c] = o]
    BY <1>k, <1>12 DEF Refused, Return, Goto
  <2> QED
    BY <1>t, <1>k, <2>1, <2>2, <2>3 DEF EffectOf, NothingLeft
<1>13. CASE Receipt(c)
  <2>0. /\ nonce[c] \in Nonces /\ nonce[c] < Mined /\ pool[nonce[c]] = Free /\ c # Free
        /\ nonce'[c] = nonce[c]
    BY <1>a, <1>k, <1>13, CallFacts DEF Receipt, MinedAs, PlacesFit, PoolFits
  <2>1. Live(c)' = Live(c)
    BY <1>13 DEF Receipt, Live, MinedAs, Mined
  <2>2. CASE chain[nonce[c]+1].ok
    <3>1. nonce[c] \in Live(c) /\ Mined' = Mined
      BY <2>0, <2>2, <1>13 DEF Receipt, Live, MinedAs, Mined
    <3>2. pc' = [pc EXCEPT ![c] = "returned"] /\ outcome' = [outcome EXCEPT ![c] = "ok"]
      BY <2>2, <1>13 DEF Receipt, Return, Goto
    <3> QED
      BY <1>a, <1>t, <1>k, <2>0, <2>1, <3>1, <3>2 DEF EffectOf, NothingLeft
  <2>3. CASE ~chain[nonce[c]+1].ok
    <3>1. Live(c) = {}
      BY <1>a, <2>0, <2>3 DEF EffectOf, Live, MinedAs
    <3>2. outcome' = outcome \/ outcome' = [outcome EXCEPT ![c] = "reverted"]
      BY <2>3, <1>13 DEF Receipt, Raise, Return
    <3>3. outcome[c] = "none"
      BY <1>a, <1>k, <1>13 DEF Receipt, PlacesFit
    <3> QED
      BY <1>t, <1>k, <2>1, <3>1, <3>2, <3>3 DEF EffectOf
  <2> QED
    BY <2>2, <2>3
<1>14. CASE TimesOut(c)
  BY <1>a, <1>b, <1>c, <1>t, <1>k, <1>14 DEF TimesOut, AfterTimeout, NextAfterDoubt, Raise,
         Return, Goto, Quotes, EffectOf, NothingLeft, PlacesFit
<1>15. CASE PollFails(c)
  BY <1>a, <1>b, <1>c, <1>t, <1>k, <1>15 DEF PollFails, Return, Goto, Abandon, EffectOf,
         NothingLeft, PlacesFit
<1>z. ~Clearing(c)
  BY <1>a, <1>k DEF Clearing, FindStuck, Replace, Settle, SettleTimesOut, Cleared, PlacesFit
<1> QED
  BY <1>z, <1>1, <1>2, <1>3, <1>4, <1>5, <1>6, <1>7, <1>8, <1>9, <1>10, <1>11, <1>12,
     <1>13, <1>14, <1>15 DEF Sending, Clearing

(* No step makes an outcome false.                                         *)
LEMMA EffectPreserved ==
  ASSUME TypeOK, PlacesFit, PoolFits, EffectFits, [Next]_vars
  PROVE  EffectFits'
<1>0. NodeStep
  BY NodeSteps
<1> SUFFICES ASSUME NEW c \in Sends PROVE EffectOf(c)'
  BY DEF EffectFits
<1>1. CASE Enter(c) \/ Sending(c) \/ Clearing(c)
  BY <1>0, <1>1, EffectOwn
<1>2. ASSUME NEW d \in Calls, d # c, Enter(d) \/ Sending(d) \/ Clearing(d)
      PROVE  EffectOf(c)'
  BY <1>0, <1>2, CallFacts, OthersStay, EffectStays
<1>3. CASE Halt \/ Resume \/ Node \/ UNCHANGED vars
  <2>1. Stays(c)
    BY <1>3 DEF Halt, Resume, Node, Mine, Drop, OtherSends, vars, Stays
  <2> QED
    BY <1>0, <2>1, EffectStays
<1> QED
  BY <1>1, <1>2, <1>3 DEF Next

-----------------------------------------------------------------------------
(* What is cleared                                                         *)

(* As long as a clear does not act itself, what it found and did stays so. *)
LEMMA ClearStays ==
  ASSUME TypeOK, ClearFits, NodeStep, NEW c \in Clears, Stays(c)
  PROVE  ClearOf(c)'
<1>1. span[c] \subseteq Nat /\ swapped[c] \subseteq Nat
  BY CallFacts DEF TypeOK, Nonces
<1>2. \A n \in Nat : n < Mined => n < Mined' /\ chain'[n+1] = chain[n+1]
  BY MinedStays
<1>3. \A n \in Nat : MinedAs(n, c) => MinedAs(n, c)'
  BY <1>2 DEF MinedAs
<1> QED
  BY <1>1, <1>2, <1>3 DEF Stays, ClearFits, ClearOf, Clearings

(* What a clear does to its row of nonces: each is replaced or skipped as  *)
(* mined, and then waited for.                                             *)
LEMMA ClearOwn ==
  ASSUME TypeOK, PlacesFit, ClearFits, NEW c \in Clears, Enter(c) \/ Sending(c) \/ Clearing(c)
  PROVE  ClearOf(c)'
<1>a. ClearOf(c) /\ PlacesFit
  BY DEF ClearFits
<1>m. UNCHANGED chain /\ Mined' = Mined
  BY DEF Enter, Sending, Clearing, Mined, Acquire, ReadFails, ReadLatest, ReadPending,
         CannotPay, EstimateFails,
     Reserve, Submit, Accepted, BroadcastFails, Refused, Receipt, TimesOut, PollFails, FindStuck,
     Replace, Settle, SettleTimesOut, Cleared
<1>t. /\ pc \in [Calls -> Steps] /\ outcome \in [Calls -> Outcomes]
      /\ nonce \in [Calls -> Nat] /\ latest \in [Calls -> Nat]
      /\ span \in [Calls -> SUBSET Nonces] /\ swapped \in [Calls -> SUBSET Nonces]
  BY DEF TypeOK
<1>k. c \in Calls /\ c \notin Sends
  BY CallFacts
<1>i. Mined \in Nat
  BY ChainFacts
<1>j. span[c] \subseteq Nat
  BY <1>k DEF TypeOK, Nonces
<1>n. nonce[c] \in Nat /\ latest[c] \in Nat /\ swapped[c] \subseteq span[c]
  BY <1>a, <1>k DEF TypeOK, PlacesFit
<1>1. CASE Enter(c)
  BY <1>a, <1>m, <1>t, <1>k, <1>i, <1>j, <1>n, <1>1
     DEF Enter, Goto, ClearOf, Clearings, MinedAs, PlacesFit
<1>2. CASE Acquire(c)
  BY <1>a, <1>m, <1>t, <1>k, <1>i, <1>j, <1>n, <1>2
     DEF Acquire, Goto, ClearOf, Clearings, MinedAs, PlacesFit
<1>3. CASE ReadFails(c)
  BY <1>a, <1>m, <1>t, <1>k, <1>i, <1>j, <1>n, <1>3
     DEF ReadFails, Return, Goto, ClearOf, Clearings, MinedAs, PlacesFit
<1>4. CASE ReadLatest(c)
  BY <1>a, <1>m, <1>t, <1>k, <1>i, <1>j, <1>n, <1>4
     DEF ReadLatest, Goto, LatestView, ClearOf, Clearings, MinedAs, PlacesFit
<1>5. CASE Submit(c)
  BY <1>a, <1>m, <1>t, <1>k, <1>i, <1>j, <1>n, <1>5
     DEF Submit, Goto, ClearOf, Clearings, MinedAs, PlacesFit
<1>6. CASE Accepted(c)
  BY <1>a, <1>m, <1>t, <1>k, <1>i, <1>j, <1>n, <1>6
     DEF Accepted, Held, NotHeld, Takes, Goto, ClearOf, Clearings, MinedAs, PlacesFit
<1>7. CASE BroadcastFails(c)
  BY <1>a, <1>m, <1>t, <1>k, <1>i, <1>j, <1>n, <1>7
     DEF BroadcastFails, BroadcastError, Return, Goto, NextAfterDoubt, Held, NotHeld, Takes,
         Abandon, ClearOf, Clearings, MinedAs, PlacesFit
<1>8. CASE Refused(c)
  BY <1>a, <1>m, <1>t, <1>k, <1>i, <1>j, <1>n, <1>8
     DEF Refused, Return, Goto, NextAfterDoubt, Abandon, ClearOf, Clearings, MinedAs,
         PlacesFit
<1>9. CASE PollFails(c)
  BY <1>a, <1>m, <1>t, <1>k, <1>i, <1>j, <1>n, <1>9
     DEF PollFails, Return, Goto, Abandon, ClearOf, Clearings, MinedAs, PlacesFit
<1>10. CASE FindStuck(c)
  <2>1. outcome[c] = "none" /\ swapped[c] = {}
    BY <1>a, <1>k, <1>10 DEF FindStuck, PlacesFit
  <2>2. CASE \E o \in {"nothingStuck", "unsent"} : Return(c, o) /\ UNCHANGED <<span, swapped>>
    BY <1>t, <1>k, <2>1, <2>2 DEF Return, Goto, ClearOf, Clearings
  <2>3. ASSUME NEW n \in 0..(MaxNonce+1), span' = [span EXCEPT ![c] = latest[c]..(n-1)],
               nonce' = [nonce EXCEPT ![c] = latest[c]], pc' = [pc EXCEPT ![c] = "replacing"],
               UNCHANGED <<latest, swapped, outcome>>
        PROVE  ClearOf(c)'
    <3>1. /\ pc'[c] = "replacing" /\ span'[c] = latest[c]..(n-1) /\ nonce'[c] = latest[c]
          /\ latest'[c] = latest[c] /\ outcome'[c] = "none" /\ swapped'[c] = {}
      BY <1>t, <1>k, <2>1, <2>3
    <3> QED
      BY <1>n, <3>1 DEF ClearOf, Clearings
  <2> QED
    BY <1>10, <2>2, <2>3 DEF FindStuck, Goto
<1>11. CASE Replace(c)
  BY <1>a, <1>m, <1>t, <1>k, <1>i, <1>j, <1>n, <1>11
     DEF Replace, Goto, ClearOf, Clearings, MinedAs, PlacesFit
<1>12. CASE Settle(c)
  BY <1>a, <1>m, <1>t, <1>k, <1>i, <1>j, <1>n, <1>12
     DEF Settle, Settled, MinedAs, ClearOf, Clearings, MinedAs, PlacesFit
<1>13. CASE SettleTimesOut(c)
  BY <1>a, <1>m, <1>t, <1>k, <1>i, <1>j, <1>n, <1>13
     DEF SettleTimesOut, AfterTimeout, NextAfterDoubt, LatestView, MinedAs, Return, Goto,
         Abandon, ClearOf, Clearings, MinedAs, PlacesFit
<1>14. CASE Cleared(c)
  BY <1>a, <1>m, <1>t, <1>k, <1>i, <1>j, <1>n, <1>14
     DEF Cleared, Return, Goto, ClearOf, Clearings, MinedAs, PlacesFit
<1>z. ~(ReadPending(c) \/ CannotPay(c) \/ EstimateFails(c) \/ Reserve(c)
        \/ Receipt(c) \/ TimesOut(c))
  BY <1>k DEF ReadPending, CannotPay, EstimateFails, Reserve, Receipt, TimesOut
<1> QED
  BY <1>z, <1>1, <1>2, <1>3, <1>4, <1>5, <1>6, <1>7, <1>8, <1>9, <1>10, <1>11, <1>12,
     <1>13, <1>14 DEF Sending, Clearing

(* No step undoes what a clear has done.                                   *)
LEMMA ClearPreserved ==
  ASSUME TypeOK, PlacesFit, ClearFits, [Next]_vars
  PROVE  ClearFits'
<1>0. NodeStep
  BY NodeSteps
<1> SUFFICES ASSUME NEW c \in Clears PROVE ClearOf(c)'
  BY DEF ClearFits
<1>1. CASE Enter(c) \/ Sending(c) \/ Clearing(c)
  BY <1>1, ClearOwn
<1>2. ASSUME NEW d \in Calls, d # c, Enter(d) \/ Sending(d) \/ Clearing(d)
      PROVE  ClearOf(c)'
  BY <1>0, <1>2, CallFacts, OthersStay, ClearStays
<1>3. CASE Halt \/ Resume \/ Node \/ UNCHANGED vars
  <2>1. Stays(c)
    BY <1>3 DEF Halt, Resume, Node, Mine, Drop, OtherSends, vars, Stays
  <2> QED
    BY <1>0, <2>1, ClearStays
<1> QED
  BY <1>1, <1>2, <1>3, CallFacts DEF Next

-----------------------------------------------------------------------------
(* The nonces the client counts as its own                                 *)

(* A call that is not inside tends nothing, one inside tends what it tends. *)
LEMMA TendsInside ==
  ASSUME NEW c \in Calls, NEW m, Tends(c, m)
  PROVE  pc[c] \in Inside
BY DEF Tends, Inside, Clearings

(* The call that holds the lock looks after a nonce it adds, until it is   *)
(* mined, taken off, or left behind.                                       *)
LEMMA SentPreserved ==
  ASSUME TypeOK, LockHeld, PlacesFit, ClearFits, SentFits, OursFits, [Next]_vars
  PROVE  SentFits'
<1>a. SentFits /\ PlacesFit /\ ClearFits
  OBVIOUS
<1>o. OursFits
  OBVIOUS
<1>t. /\ pc \in [Calls -> Steps] /\ outcome \in [Calls -> Outcomes]
      /\ nonce \in [Calls -> Nat] /\ latest \in [Calls -> Nat]
      /\ span \in [Calls -> SUBSET Nonces] /\ swapped \in [Calls -> SUBSET Nonces]
  BY DEF TypeOK
<1>l. \A d, e \in Calls : pc[d] \in Inside /\ pc[e] \in Inside => d = e
  BY DEF LockHeld
<1>v. sent \subseteq Nonces /\ unwatched \subseteq Nonces
  BY DEF TypeOK
<1>m. Mined \in Nat /\ sent \subseteq Nat /\ unwatched \subseteq Nonces
  BY <1>v, ChainFacts DEF Nonces
<1>1. ASSUME NEW c \in Calls, Enter(c) PROVE SentFits'
  <2>1. pc[c] = "idle" /\ \E s \in {"returned", "queued"} : pc' = [pc EXCEPT ![c] = s]
    BY <1>1 DEF Enter, Goto
  <2>2. \A d \in Calls : \A m : Tends(d, m) => Tends(d, m)'
    BY <1>t, <1>1, <2>1 DEF Enter, Tends, Clearings
  <2>3. UNCHANGED <<chain, sent, unwatched>>
    BY <1>1 DEF Enter
  <2> QED
    BY <1>a, <2>2, <2>3 DEF SentFits, Mined
<1>2. ASSUME NEW c \in Calls, Acquire(c) PROVE SentFits'
  BY <1>a, <1>o, <1>t, <1>l, <1>m, <1>2 DEF Acquire, Goto, SentFits, Tends, Inside,
         Clearings, PlacesFit, Mined
<1>3. ASSUME NEW c \in Calls, ReadFails(c) PROVE SentFits'
  BY <1>a, <1>o, <1>t, <1>l, <1>m, <1>3 DEF ReadFails, Return, Goto, SentFits, Tends,
         Inside, Clearings, PlacesFit, Mined
<1>4. ASSUME NEW c \in Calls, ReadLatest(c) PROVE SentFits'
  BY <1>a, <1>o, <1>t, <1>l, <1>m, <1>4 DEF ReadLatest, Goto, LatestView, SentFits, Tends,
         Inside, Clearings, PlacesFit, Mined
<1>5. ASSUME NEW c \in Calls, ReadPending(c) PROVE SentFits'
  <2>1. pc[c] = "latestRead" /\ sent' \subseteq sent /\ UNCHANGED <<chain, unwatched>>
    BY <1>5 DEF ReadPending
  <2>2. ASSUME NEW d \in Calls, NEW m, Tends(d, m) PROVE FALSE
    BY <1>l, <2>1, <2>2, TendsInside DEF Inside, Tends, Clearings
  <2> QED
    BY <1>a, <2>1, <2>2 DEF SentFits, Mined
<1>6. ASSUME NEW c \in Calls, CannotPay(c) PROVE SentFits'
  BY <1>a, <1>o, <1>t, <1>l, <1>m, <1>6 DEF CannotPay, Return, Goto, SentFits, Tends,
         Inside, Clearings, PlacesFit, Mined
<1>7. ASSUME NEW c \in Calls, EstimateFails(c) PROVE SentFits'
  <2>1. pc[c] = "pendingRead" /\ sent' \subseteq sent /\ UNCHANGED <<chain, unwatched>>
    BY <1>7 DEF EstimateFails
  <2>2. ASSUME NEW d \in Calls, NEW m, Tends(d, m) PROVE FALSE
    BY <1>l, <2>1, <2>2, TendsInside DEF Inside, Tends, Clearings
  <2> QED
    BY <1>a, <2>1, <2>2 DEF SentFits, Mined
<1>8. ASSUME NEW c \in Calls, Reserve(c) PROVE SentFits'
  BY <1>a, <1>o, <1>t, <1>l, <1>m, <1>8 DEF Reserve, NonceToUse, Goto, SentFits, Tends,
         Inside, Clearings, PlacesFit, Mined
<1>9. ASSUME NEW c \in Calls, Submit(c) PROVE SentFits'
  BY <1>a, <1>o, <1>t, <1>l, <1>m, <1>9 DEF Submit, Goto, SentFits, Tends, Inside,
         Clearings, PlacesFit, Mined
<1>10. ASSUME NEW c \in Calls, Accepted(c) PROVE SentFits'
  <2>1. /\ pc[c] = "broadcast" /\ unwatched' = unwatched \ {nonce[c]}
        /\ UNCHANGED <<chain, sent>> /\ Mined' = Mined
    BY <1>10 DEF Accepted, Mined
  <2>2. \A m : m = nonce[c] \/ m \in swapped[c] => Tends(c, m)'
    <3>1. CASE c \in Sends
      <4>1. pc'[c] = "waiting" /\ nonce' = nonce /\ swapped[c] = {}
        BY <1>a, <1>t, <1>10, <3>1 DEF Accepted, Goto, PlacesFit, Nonces
      <4> QED
        BY <4>1 DEF Tends
    <3>2. CASE c \in Clears
      <4>1. pc' = [pc EXCEPT ![c] = "replacing"]
            /\ swapped' = [swapped EXCEPT ![c] = swapped[c] \union {nonce[c]}]
        BY <1>10, <3>2, CallFacts DEF Accepted, Goto
      <4>2. pc'[c] = "replacing" /\ swapped'[c] = swapped[c] \union {nonce[c]}
        BY <1>t, <4>1
      <4> QED
        BY <4>2 DEF Tends, Clearings
    <3> QED
      BY <3>1, <3>2 DEF Calls
  <2>3. \A m : Tends(c, m) => m = nonce[c] \/ m \in swapped[c]
    BY DEF Tends
  <2>4. \A d \in Calls : \A m : Tends(d, m) => d = c
    BY <1>l, <2>1, TendsInside DEF Inside
  <2> QED
    BY <1>a, <2>1, <2>2, <2>3, <2>4 DEF SentFits
<1>11. ASSUME NEW c \in Calls, BroadcastFails(c) PROVE SentFits'
  BY <1>a, <1>o, <1>t, <1>l, <1>m, <1>11 DEF BroadcastFails, BroadcastError, Return, Goto,
         NextAfterDoubt, Held, NotHeld, Takes, Abandon, SentFits, Tends, Inside, Clearings,
         PlacesFit, Mined
<1>12. ASSUME NEW c \in Calls, Refused(c) PROVE SentFits'
  <2>1. /\ pc[c] = "broadcast" /\ sent' \subseteq sent /\ swapped' = swapped
        /\ UNCHANGED chain /\ Mined' = Mined /\ unwatched \subseteq unwatched'
    BY <1>12 DEF Refused, Abandon, Mined
  <2>2. \A d \in Calls : \A m : Tends(d, m) => d = c
    BY <1>l, <2>1, TendsInside DEF Inside
  <2>3. \A m : Tends(c, m) => m = nonce[c] \/ m \in swapped[c]
    BY DEF Tends
  <2>4. CASE nonce[c] < Mined
    <3>1. c \in Clears => pc' = [pc EXCEPT ![c] = "replacing"]
      BY <1>m, <1>t, <2>4, <1>12, CallFacts DEF Refused, Goto
    <3>2. c \in Sends => swapped[c] = {}
      BY <1>a DEF PlacesFit
    <3>3. \A m \in swapped[c] : Tends(c, m)'
      BY <1>t, <2>1, <3>1, <3>2 DEF Tends, Clearings, Calls
    <3> QED
      BY <1>a, <2>1, <2>2, <2>3, <2>4, <3>3 DEF SentFits
  <2>5. CASE nonce[c] >= Mined
    <3>0. ~(nonce[c] < Mined)
      BY <1>m, <1>t, <2>5
    <3>1. unwatched' = unwatched \union swapped[c]
      BY <3>0, <1>12 DEF Refused, Abandon
    <3>2. nonce[c] \in sent' => ours[c]
      BY <1>12 DEF Refused
    <3>3. ours[c] => nonce[c] \in unwatched
      BY <1>o, <3>0, <2>1 DEF OursFits
    <3> QED
      BY <1>a, <2>1, <2>2, <2>3, <3>1, <3>2, <3>3 DEF SentFits
  <2> QED
    BY <1>m, <1>t, <2>4, <2>5 DEF Nonces
<1>13. ASSUME NEW c \in Calls, Receipt(c) PROVE SentFits'
  BY <1>a, <1>o, <1>t, <1>l, <1>m, <1>13 DEF Receipt, MinedAs, Raise, Return, Goto, Quotes,
         SentFits, Tends, Inside, Clearings, PlacesFit, Mined
<1>14. ASSUME NEW c \in Calls, TimesOut(c) PROVE SentFits'
  BY <1>a, <1>o, <1>t, <1>l, <1>m, <1>14 DEF TimesOut, AfterTimeout, NextAfterDoubt, Raise,
         Return, Goto, Quotes, SentFits, Tends, Inside, Clearings, PlacesFit, Mined
<1>15. ASSUME NEW c \in Calls, PollFails(c) PROVE SentFits'
  BY <1>a, <1>o, <1>t, <1>l, <1>m, <1>15 DEF PollFails, Return, Goto, Abandon, SentFits,
         Tends, Inside, Clearings, PlacesFit, Mined
<1>16. ASSUME NEW c \in Calls, FindStuck(c) PROVE SentFits'
  <2>1. pc[c] = "latestRead" /\ sent' \subseteq sent /\ UNCHANGED <<chain, unwatched>>
    BY <1>16 DEF FindStuck
  <2>2. ASSUME NEW d \in Calls, NEW m, Tends(d, m) PROVE FALSE
    BY <1>l, <2>1, <2>2, TendsInside DEF Inside, Tends, Clearings
  <2> QED
    BY <1>a, <2>1, <2>2 DEF SentFits, Mined
<1>17. ASSUME NEW c \in Calls, Replace(c) PROVE SentFits'
  BY <1>a, <1>o, <1>t, <1>l, <1>m, <1>17 DEF Replace, Goto, SentFits, Tends, Inside,
         Clearings, PlacesFit, Mined
<1>18. ASSUME NEW c \in Calls, Settle(c) PROVE SentFits'
  BY <1>a, <1>o, <1>t, <1>l, <1>m, <1>18 DEF Settle, Settled, MinedAs, SentFits, Tends,
         Inside, Clearings, PlacesFit, Mined
<1>19. ASSUME NEW c \in Calls, SettleTimesOut(c) PROVE SentFits'
  BY <1>a, <1>o, <1>t, <1>l, <1>m, <1>19 DEF SettleTimesOut, AfterTimeout, NextAfterDoubt,
         LatestView, MinedAs, Return, Goto, Abandon, SentFits, Tends, Inside, Clearings,
         PlacesFit, Mined
<1>20. ASSUME NEW c \in Calls, Cleared(c) PROVE SentFits'
  <2>1. /\ pc[c] = "settling" /\ c \in Clears /\ nonce[c] \notin span[c]
        /\ UNCHANGED <<chain, sent, unwatched>> /\ Mined' = Mined
    BY <1>a, <1>20 DEF Cleared, PlacesFit, Mined
  <2>2. \A d \in Calls : \A m : Tends(d, m) => d = c
    BY <1>l, <2>1, TendsInside DEF Inside
  <2>3. ASSUME NEW m \in swapped[c] PROVE m < Mined
    <3>1. m \in span[c] /\ m \in Nat /\ nonce[c] \in Nat /\ latest[c] \in Nat
      BY <1>a, <1>t, <2>1, CallFacts DEF PlacesFit, Nonces
    <3>2. m < nonce[c]
      BY <1>a, <2>1, <3>1 DEF ClearFits, ClearOf, Clearings
    <3> QED
      BY <1>a, <2>1, <3>2 DEF ClearFits, ClearOf, MinedAs
  <2>4. \A m : Tends(c, m) => m < Mined
    BY <2>1, <2>3 DEF Tends
  <2> QED
    BY <1>a, <2>1, <2>2, <2>4 DEF SentFits
<1>21. ASSUME Halt PROVE SentFits'
  BY <1>a, <1>o, <1>t, <1>l, <1>m, <1>21 DEF Halt, SentFits, Tends, Inside, Clearings,
         PlacesFit, Mined
<1>22. ASSUME Resume PROVE SentFits'
  BY <1>a, <1>o, <1>t, <1>l, <1>m, <1>22 DEF Resume, SentFits, Tends, Inside, Clearings,
         PlacesFit, Mined
<1>23. ASSUME Mine PROVE SentFits'
  <2>1. Mined' = Mined + 1
    BY <1>23, MineFacts
  <2>2. UNCHANGED <<sent, unwatched, pc, nonce, swapped>>
    BY <1>23 DEF Mine
  <2> QED
    BY <1>a, <1>m, <2>1, <2>2 DEF SentFits, Tends
<1>24. ASSUME NEW n \in Nonces, Drop(n) PROVE SentFits'
  BY <1>a, <1>o, <1>t, <1>l, <1>m, <1>24 DEF Drop, SentFits, Tends, Inside, Clearings,
         PlacesFit, Mined
<1>25. ASSUME NEW n \in Nonces, OtherSends(n) PROVE SentFits'
  BY <1>a, <1>o, <1>t, <1>l, <1>m, <1>25 DEF OtherSends, Takes, SentFits, Tends, Inside,
         Clearings, PlacesFit, Mined
<1>26. ASSUME UNCHANGED vars PROVE SentFits'
  BY <1>a, <1>o, <1>t, <1>l, <1>m, <1>26 DEF vars, SentFits, Tends, Inside, Clearings,
         PlacesFit, Mined
<1> QED
  BY <1>1, <1>2, <1>3, <1>4, <1>5, <1>6, <1>7, <1>8, <1>9, <1>10, <1>11, <1>12, <1>13,
     <1>14, <1>15, <1>16, <1>17, <1>18, <1>19, <1>20, <1>21, <1>22, <1>23, <1>24, <1>25,
     <1>26 DEF Next, Sending, Clearing, Node

(* A clear does not come back to a nonce it has replaced.                  *)
LEMMA OursPreserved ==
  ASSUME TypeOK, LockHeld, PlacesFit, ClearFits, SentFits, OursFits, [Next]_vars
  PROVE  OursFits'
<1>p. PlacesFit
  OBVIOUS
<1>a. OursFits /\ SentFits /\ ClearFits
  OBVIOUS
<1>t. /\ pc \in [Calls -> Steps] /\ outcome \in [Calls -> Outcomes]
      /\ nonce \in [Calls -> Nat] /\ latest \in [Calls -> Nat]
      /\ span \in [Calls -> SUBSET Nonces] /\ swapped \in [Calls -> SUBSET Nonces]
  BY DEF TypeOK
<1>u. ours \in [Calls -> BOOLEAN] /\ sent \subseteq Nat /\ unwatched \subseteq Nonces
  BY DEF TypeOK, Nonces
<1>m. Mined \in Nat
  BY ChainFacts
<1>l. \A d, e \in Calls : pc[d] \in Inside /\ pc[e] \in Inside => d = e
  BY DEF LockHeld
<1>1. ASSUME NEW c \in Calls, Enter(c) PROVE OursFits'
  BY <1>p, <1>a, <1>t, <1>u, <1>m, <1>l, <1>1 DEF Enter, Goto, OursFits, Mined
<1>2. ASSUME NEW c \in Calls, Acquire(c) PROVE OursFits'
  BY <1>p, <1>a, <1>t, <1>u, <1>m, <1>l, <1>2 DEF Acquire, Goto, OursFits, Mined
<1>3. ASSUME NEW c \in Calls, ReadFails(c) PROVE OursFits'
  BY <1>p, <1>a, <1>t, <1>u, <1>m, <1>l, <1>3 DEF ReadFails, Return, Goto, OursFits, Mined
<1>4. ASSUME NEW c \in Calls, ReadLatest(c) PROVE OursFits'
  BY <1>p, <1>a, <1>t, <1>u, <1>m, <1>l, <1>4 DEF ReadLatest, Goto, LatestView, OursFits, Mined
<1>5. ASSUME NEW c \in Calls, ReadPending(c) PROVE OursFits'
  BY <1>p, <1>a, <1>t, <1>u, <1>m, <1>l, <1>5
     DEF ReadPending, Goto, Return, PendingView, Explained, LooksAgain, OursFits, Mined
<1>6. ASSUME NEW c \in Calls, CannotPay(c) PROVE OursFits'
  BY <1>p, <1>a, <1>t, <1>u, <1>m, <1>l, <1>6 DEF CannotPay, Return, Goto, OursFits, Mined
<1>7. ASSUME NEW c \in Calls, EstimateFails(c) PROVE OursFits'
  BY <1>p, <1>a, <1>t, <1>u, <1>m, <1>l, <1>7
     DEF EstimateFails, Raise, Return, Goto, Quotes, OursFits, Mined
<1>8. ASSUME NEW c \in Calls, Reserve(c) PROVE OursFits'
  BY <1>p, <1>a, <1>t, <1>u, <1>m, <1>l, <1>8 DEF Reserve, NonceToUse, Goto, OursFits, Mined
<1>9. ASSUME NEW c \in Calls, Submit(c) PROVE OursFits'
  <2>1. /\ pc[c] = "signing" /\ pc' = [pc EXCEPT ![c] = "broadcast"]
        /\ ours' = [ours EXCEPT ![c] = nonce[c] \in sent]
        /\ UNCHANGED <<chain, nonce, unwatched>> /\ Mined' = Mined
    BY <1>9 DEF Submit, Goto, Mined
  <2>2. \A d \in Calls : \A m : Tends(d, m) => d = c
    BY <1>l, <2>1, TendsInside DEF Inside
  <2>3. ~Tends(c, nonce[c])
    <3>1. c \in Clears => \A n \in swapped[c] : n < nonce[c]
      BY <1>a, <2>1 DEF ClearFits, ClearOf, Clearings
    <3>2. c \in Sends => swapped[c] = {}
      BY <1>p DEF PlacesFit
    <3> QED
      BY <1>t, <2>1, <3>1, <3>2 DEF Tends, Calls
  <2>4. nonce[c] \in sent => nonce[c] < Mined \/ nonce[c] \in unwatched
    BY <1>a, <2>2, <2>3 DEF SentFits
  <2> QED
    BY <1>a, <1>t, <1>u, <2>1, <2>4 DEF OursFits
<1>10. ASSUME NEW c \in Calls, Accepted(c) PROVE OursFits'
  <2>1. /\ pc[c] = "broadcast" /\ unwatched' = unwatched \ {nonce[c]}
        /\ \E s \in {"waiting", "replacing"} : pc' = [pc EXCEPT ![c] = s]
        /\ UNCHANGED <<chain, ours>> /\ Mined' = Mined
    BY <1>10 DEF Accepted, Goto, Mined
  <2>2. \A d \in Calls : pc'[d] = "broadcast" => FALSE
    BY <1>l, <1>t, <2>1 DEF Inside
  <2> QED
    BY <2>2 DEF OursFits
<1>11. ASSUME NEW c \in Calls, BroadcastFails(c) PROVE OursFits'
  <2>1. /\ pc[c] = "broadcast" /\ pc' = [pc EXCEPT ![c] = "returned"]
    BY <1>11 DEF BroadcastFails, Return, Goto
  <2>2. \A d \in Calls : pc'[d] = "broadcast" => FALSE
    BY <1>l, <1>t, <2>1 DEF Inside
  <2> QED
    BY <2>2 DEF OursFits
<1>12. ASSUME NEW c \in Calls, Refused(c) PROVE OursFits'
  <2>1. /\ pc[c] = "broadcast" /\ \E s \in {"returned", "replacing"} : pc' = [pc EXCEPT ![c] = s]
    BY <1>12 DEF Refused, Return, Goto
  <2>2. \A d \in Calls : pc'[d] = "broadcast" => FALSE
    BY <1>l, <1>t, <2>1 DEF Inside
  <2> QED
    BY <2>2 DEF OursFits
<1>13. ASSUME NEW c \in Calls, Receipt(c) PROVE OursFits'
  BY <1>p, <1>a, <1>t, <1>u, <1>m, <1>l, <1>13
     DEF Receipt, MinedAs, Raise, Return, Goto, Quotes, OursFits, Mined
<1>14. ASSUME NEW c \in Calls, TimesOut(c) PROVE OursFits'
  BY <1>p, <1>a, <1>t, <1>u, <1>m, <1>l, <1>14
     DEF TimesOut, AfterTimeout, NextAfterDoubt, Raise, Return, Goto, Quotes, OursFits,
         Mined
<1>15. ASSUME NEW c \in Calls, PollFails(c) PROVE OursFits'
  BY <1>p, <1>a, <1>t, <1>u, <1>m, <1>l, <1>15
     DEF PollFails, Return, Goto, Abandon, OursFits, Mined
<1>16. ASSUME NEW c \in Calls, FindStuck(c) PROVE OursFits'
  BY <1>p, <1>a, <1>t, <1>u, <1>m, <1>l, <1>16
     DEF FindStuck, PendingView, Return, Goto, OursFits, Mined
<1>17. ASSUME NEW c \in Calls, Replace(c) PROVE OursFits'
  BY <1>p, <1>a, <1>t, <1>u, <1>m, <1>l, <1>17 DEF Replace, Goto, OursFits, Mined
<1>18. ASSUME NEW c \in Calls, Settle(c) PROVE OursFits'
  BY <1>p, <1>a, <1>t, <1>u, <1>m, <1>l, <1>18 DEF Settle, Settled, MinedAs, OursFits, Mined
<1>19. ASSUME NEW c \in Calls, SettleTimesOut(c) PROVE OursFits'
  BY <1>p, <1>a, <1>t, <1>u, <1>m, <1>l, <1>19
     DEF SettleTimesOut, AfterTimeout, NextAfterDoubt, LatestView, MinedAs, Return, Goto,
         Abandon, OursFits, Mined
<1>20. ASSUME NEW c \in Calls, Cleared(c) PROVE OursFits'
  BY <1>p, <1>a, <1>t, <1>u, <1>m, <1>l, <1>20 DEF Cleared, Return, Goto, OursFits, Mined
<1>21. ASSUME Halt PROVE OursFits'
  BY <1>p, <1>a, <1>t, <1>u, <1>m, <1>l, <1>21 DEF Halt, OursFits, Mined
<1>22. ASSUME Resume PROVE OursFits'
  BY <1>p, <1>a, <1>t, <1>u, <1>m, <1>l, <1>22 DEF Resume, OursFits, Mined
<1>23. ASSUME Mine PROVE OursFits'
  <2>1. Mined' = Mined + 1
    BY <1>23, MineFacts
  <2>2. UNCHANGED <<pc, nonce, ours, unwatched>>
    BY <1>23 DEF Mine
  <2> QED
    BY <1>a, <1>m, <1>t, <2>1, <2>2 DEF OursFits
<1>24. ASSUME NEW n \in Nonces, Drop(n) PROVE OursFits'
  BY <1>p, <1>a, <1>t, <1>u, <1>m, <1>l, <1>24 DEF Drop, OursFits, Mined
<1>25. ASSUME NEW n \in Nonces, OtherSends(n) PROVE OursFits'
  BY <1>p, <1>a, <1>t, <1>u, <1>m, <1>l, <1>25 DEF OtherSends, Takes, OursFits, Mined
<1>26. ASSUME UNCHANGED vars PROVE OursFits'
  BY <1>p, <1>a, <1>t, <1>u, <1>m, <1>l, <1>26 DEF vars, OursFits, Mined
<1> QED
  BY <1>1, <1>2, <1>3, <1>4, <1>5, <1>6, <1>7, <1>8, <1>9, <1>10, <1>11, <1>12, <1>13,
     <1>14, <1>15, <1>16, <1>17, <1>18, <1>19, <1>20, <1>21, <1>22, <1>23, <1>24, <1>25,
     <1>26 DEF Next, Sending, Clearing, Node

(* The other application's transactions are seen when they come, and where *)
(* a broadcast meets one that it does not replace.                         *)
LEMMA ForeignPreserved ==
  ASSUME TypeOK, PlacesFit, ForeignFits, [Next]_vars
  PROVE  ForeignFits'
<1>a. ForeignFits
  OBVIOUS
<1>t. /\ pc \in [Calls -> Steps] /\ nonce \in [Calls -> Nat] /\ ours \in [Calls -> BOOLEAN]
      /\ pool \in [Nonces -> Owners \union {Free}]
  BY DEF TypeOK
\* A step that leaves the node and the broadcasts as they are.
<1>s. ASSUME UNCHANGED <<pool, foreign>>, sent' \subseteq sent,
             \A d \in Calls : pc[d] = "broadcast" =>
               pc'[d] = "broadcast" /\ nonce'[d] = nonce[d] /\ ours'[d] = ours[d]
      PROVE  ForeignFits'
  BY <1>a, <1>s DEF ForeignFits, Contends
<1>1. ASSUME NEW c \in Calls, Enter(c) PROVE ForeignFits'
  BY <1>s, <1>t, <1>1 DEF Enter, Goto
<1>2. ASSUME NEW c \in Calls, Acquire(c) PROVE ForeignFits'
  BY <1>s, <1>t, <1>2 DEF Acquire, Goto
<1>3. ASSUME NEW c \in Calls, ReadFails(c) PROVE ForeignFits'
  BY <1>s, <1>t, <1>3 DEF ReadFails, Return, Goto
<1>4. ASSUME NEW c \in Calls, ReadLatest(c) PROVE ForeignFits'
  BY <1>s, <1>t, <1>4 DEF ReadLatest, Goto
<1>5. ASSUME NEW c \in Calls, ReadPending(c) PROVE ForeignFits'
  BY <1>s, <1>t, <1>5 DEF ReadPending, Return, Goto
<1>6. ASSUME NEW c \in Calls, CannotPay(c) PROVE ForeignFits'
  BY <1>s, <1>t, <1>6 DEF CannotPay, Return, Goto
<1>7. ASSUME NEW c \in Calls, EstimateFails(c) PROVE ForeignFits'
  BY <1>s, <1>t, <1>7 DEF EstimateFails, Raise, Return, Goto
<1>8. ASSUME NEW c \in Calls, Reserve(c) PROVE ForeignFits'
  BY <1>s, <1>t, <1>8 DEF Reserve, Goto
<1>9. ASSUME NEW c \in Calls, Submit(c) PROVE ForeignFits'
  <2>1. /\ pc[c] = "signing" /\ pc' = [pc EXCEPT ![c] = "broadcast"]
        /\ ours' = [ours EXCEPT ![c] = nonce[c] \in sent] /\ sent' = sent \union {nonce[c]}
        /\ UNCHANGED <<pool, nonce, foreign>>
    BY <1>9 DEF Submit, Goto
  <2> SUFFICES ASSUME NEW m \in Nonces, m \in sent', pool[m] = Other
               PROVE  m \in foreign \/ \E d \in Calls : Contends(d, m)'
    BY <2>1 DEF ForeignFits
  <2>2. CASE m \in sent
    BY <1>a, <1>t, <2>1, <2>2 DEF ForeignFits, Contends
  <2>3. CASE m \notin sent
    <3>1. m = nonce[c]
      BY <2>1, <2>3
    <3>2. Contends(c, m)'
      BY <1>t, <2>1, <2>3, <3>1 DEF Contends
    <3> QED
      BY <3>2
  <2> QED
    BY <2>2, <2>3
<1>10. ASSUME NEW c \in Calls, Accepted(c) PROVE ForeignFits'
  <2>1. /\ pc[c] = "broadcast" /\ pool' = [pool EXCEPT ![nonce[c]] = c]
        /\ foreign' = foreign \ {nonce[c]}
        /\ \E s \in {"waiting", "replacing"} : pc' = [pc EXCEPT ![c] = s]
        /\ nonce' = nonce \/ nonce' = [nonce EXCEPT ![c] = @ + 1]
        /\ UNCHANGED <<ours, sent>>
    BY <1>10 DEF Accepted, Held, Goto
  <2> SUFFICES ASSUME NEW m \in Nonces, m \in sent, pool'[m] = Other
               PROVE  m \in foreign' \/ \E d \in Calls : Contends(d, m)'
    BY <2>1 DEF ForeignFits
  <2>2. m # nonce[c] /\ pool[m] = Other
    BY <1>t, <2>1, CallFacts
  <2> QED
    BY <1>a, <1>t, <2>1, <2>2 DEF ForeignFits, Contends
<1>11. ASSUME NEW c \in Calls, BroadcastFails(c) PROVE ForeignFits'
  <2>1. /\ pc[c] = "broadcast" /\ pc' = [pc EXCEPT ![c] = "returned"]
        /\ UNCHANGED <<nonce, ours, sent>>
    BY <1>11 DEF BroadcastFails, Return, Goto
  <2> SUFFICES ASSUME NEW m \in Nonces, m \in sent, pool'[m] = Other
               PROVE  m \in foreign' \/ \E d \in Calls : Contends(d, m)'
    BY <2>1 DEF ForeignFits
  <2>2. CASE Held(nonce[c], c)
    <3>1. m # nonce[c] /\ pool[m] = Other
      BY <1>t, <2>2, CallFacts DEF Held
    <3> QED
      BY <1>a, <1>t, <2>1, <2>2, <3>1 DEF Held, ForeignFits, Contends
  <2>3. CASE NotHeld(nonce[c])
    BY <1>a, <1>t, <2>1, <2>3 DEF NotHeld, ForeignFits, Contends
  <2> QED
    BY <1>11, <2>2, <2>3 DEF BroadcastFails
<1>12. ASSUME NEW c \in Calls, Refused(c) PROVE ForeignFits'
  <2>1. /\ pc[c] = "broadcast" /\ sent' = (IF ours[c] THEN sent ELSE sent \ {nonce[c]})
        /\ \E s \in {"returned", "replacing"} : pc' = [pc EXCEPT ![c] = s]
        /\ nonce' = nonce \/ nonce' = [nonce EXCEPT ![c] = @ + 1]
        /\ UNCHANGED <<pool, ours, foreign>>
    BY <1>12 DEF Refused, Return, Goto
  <2> SUFFICES ASSUME NEW m \in Nonces, m \in sent', pool[m] = Other
               PROVE  m \in foreign \/ \E d \in Calls : Contends(d, m)'
    BY <2>1 DEF ForeignFits
  <2>2. m \in sent /\ ~Contends(c, m)
    BY <2>1 DEF Contends
  <2> QED
    BY <1>a, <1>t, <2>1, <2>2 DEF ForeignFits, Contends
<1>13. ASSUME NEW c \in Calls, Receipt(c) PROVE ForeignFits'
  BY <1>s, <1>t, <1>13 DEF Receipt, Raise, Return, Goto
<1>14. ASSUME NEW c \in Calls, TimesOut(c) PROVE ForeignFits'
  BY <1>s, <1>t, <1>14 DEF TimesOut, AfterTimeout, Raise, Return, Goto
<1>15. ASSUME NEW c \in Calls, PollFails(c) PROVE ForeignFits'
  BY <1>s, <1>t, <1>15 DEF PollFails, Return, Goto
<1>16. ASSUME NEW c \in Calls, FindStuck(c) PROVE ForeignFits'
  BY <1>s, <1>t, <1>16 DEF FindStuck, Return, Goto
<1>17. ASSUME NEW c \in Calls, Replace(c) PROVE ForeignFits'
  BY <1>s, <1>t, <1>17 DEF Replace, Goto
<1>18. ASSUME NEW c \in Calls, Settle(c) PROVE ForeignFits'
  BY <1>s, <1>t, <1>18 DEF Settle
<1>19. ASSUME NEW c \in Calls, SettleTimesOut(c) PROVE ForeignFits'
  BY <1>s, <1>t, <1>19 DEF SettleTimesOut, AfterTimeout, Return, Goto
<1>20. ASSUME NEW c \in Calls, Cleared(c) PROVE ForeignFits'
  BY <1>s, <1>t, <1>20 DEF Cleared, Return, Goto
<1>21. ASSUME Halt PROVE ForeignFits'
  BY <1>s, <1>21 DEF Halt
<1>22. ASSUME Resume PROVE ForeignFits'
  BY <1>s, <1>22 DEF Resume
<1>23. ASSUME Mine PROVE ForeignFits'
  <2>1. pool' = [pool EXCEPT ![Mined] = Free] /\ UNCHANGED <<pc, nonce, ours, sent, foreign>>
    BY <1>23 DEF Mine
  <2>2. Other # Free
    BY DEF Owners
  <2> QED
    BY <1>a, <1>t, <2>1, <2>2 DEF ForeignFits, Contends
<1>24. ASSUME NEW n \in Nonces, Drop(n) PROVE ForeignFits'
  <2>1. pool' = [pool EXCEPT ![n] = Free] /\ UNCHANGED <<pc, nonce, ours, sent, foreign>>
    BY <1>24 DEF Drop
  <2>2. Other # Free
    BY DEF Owners
  <2> QED
    BY <1>a, <1>t, <2>1, <2>2 DEF ForeignFits, Contends
<1>25. ASSUME NEW n \in Nonces, OtherSends(n) PROVE ForeignFits'
  <2>1. /\ pool' = [pool EXCEPT ![n] = Other] /\ UNCHANGED <<pc, nonce, ours, sent>>
        /\ foreign' = foreign \union (sent \intersect {n})
    BY <1>25 DEF OtherSends
  <2> QED
    BY <1>a, <1>t, <2>1 DEF ForeignFits, Contends
<1>26. ASSUME UNCHANGED vars PROVE ForeignFits'
  BY <1>s, <1>26 DEF vars
<1> QED
  BY <1>1, <1>2, <1>3, <1>4, <1>5, <1>6, <1>7, <1>8, <1>9, <1>10, <1>11, <1>12, <1>13,
     <1>14, <1>15, <1>16, <1>17, <1>18, <1>19, <1>20, <1>21, <1>22, <1>23, <1>24, <1>25,
     <1>26 DEF Next, Sending, Clearing, Node

-----------------------------------------------------------------------------
(* The order of the nonces                                                 *)

(* The node mines what it held, or drops it, or holds another in its place. *)
LEMMA TouchedStays ==
  ASSUME TypeOK, PoolFits, NodeStep
  PROVE  /\ Mined \in Nat /\ Mined' \in Nat /\ Mined <= Mined'
         /\ \A m \in Nat : m < Mined \/ Touched(m) => m < Mined' \/ Touched(m)'
<1>1. /\ Mined \in Nat /\ Nonces \subseteq Nat /\ Other # Free /\ \A c \in Calls : c # Free
      /\ pool \in [Nonces -> Owners \union {Free}]
  BY ChainFacts, CallFacts DEF TypeOK, Nonces, Owners
<1>2. CASE Mine /\ UNCHANGED evicted
  <2>1. /\ Mined \in Nonces /\ Mined' = Mined + 1 /\ pool' = [pool EXCEPT ![Mined] = Free]
    BY <1>2, MineFacts
  <2> QED
    BY <1>1, <1>2, <2>1 DEF Touched
<1>3. CASE ~Mine
  <2>1. Mined' = Mined
    BY <1>3 DEF NodeStep, Mined
  <2>2. \A m \in Nonces : pool'[m] # Free \/ m \in evicted' \/ (pool[m] = Free /\ m \notin evicted)
    BY <1>1, <1>3 DEF NodeStep
  <2> QED
    BY <1>1, <2>1, <2>2 DEF Touched
<1>4. CASE Mine /\ UNCHANGED <<chain, pool, evicted>>
  <2>1. Mined' = Mined /\ Mined' = Mined + 1
    BY <1>4, MineFacts DEF Mined
  <2> QED
    BY <1>1, <2>1
<1>5. CASE Mine /\ UNCHANGED chain
  <2>1. Mined' = Mined /\ Mined' = Mined + 1
    BY <1>5, MineFacts DEF Mined
  <2> QED
    BY <1>1, <2>1
<1> QED
  BY <1>2, <1>3, <1>4, <1>5 DEF NodeStep

(* The latest nonce of a replica is at most the truth.                     *)
LEMMA LatestPreserved ==
  ASSUME TypeOK, PlacesFit, PoolFits, LatestFits, [Next]_vars
  PROVE  LatestFits'
<1>a. LatestFits
  OBVIOUS
<1>t. /\ pc \in [Calls -> Steps] /\ outcome \in [Calls -> Outcomes]
      /\ nonce \in [Calls -> Nat] /\ latest \in [Calls -> Nat]
      /\ span \in [Calls -> SUBSET Nonces] /\ swapped \in [Calls -> SUBSET Nonces]
  BY DEF TypeOK
<1>s. NodeStep
  BY NodeSteps
<1>g. /\ Mined \in Nat /\ Mined' \in Nat /\ Mined <= Mined'
      /\ \A m \in Nat : m < Mined \/ Touched(m) => m < Mined' \/ Touched(m)'
  BY <1>s, TouchedStays
<1>1. ASSUME NEW c \in Calls, Enter(c) PROVE LatestFits'
  BY <1>a, <1>t, <1>s, <1>g, <1>1 DEF Enter, Goto, LatestFits
<1>2. ASSUME NEW c \in Calls, Acquire(c) PROVE LatestFits'
  BY <1>a, <1>t, <1>s, <1>g, <1>2 DEF Acquire, Goto, LatestFits
<1>3. ASSUME NEW c \in Calls, ReadFails(c) PROVE LatestFits'
  BY <1>a, <1>t, <1>s, <1>g, <1>3 DEF ReadFails, Return, Goto, LatestFits
<1>4. ASSUME NEW c \in Calls, ReadLatest(c) PROVE LatestFits'
  BY <1>a, <1>t, <1>s, <1>g, <1>4 DEF ReadLatest, Goto, LatestView, LatestFits
<1>5. ASSUME NEW c \in Calls, ReadPending(c) PROVE LatestFits'
  BY <1>a, <1>t, <1>s, <1>g, <1>5 DEF ReadPending, Goto, Return, PendingView, Explained,
         LooksAgain, LatestFits
<1>6. ASSUME NEW c \in Calls, CannotPay(c) PROVE LatestFits'
  BY <1>a, <1>t, <1>s, <1>g, <1>6 DEF CannotPay, Return, Goto, LatestFits
<1>7. ASSUME NEW c \in Calls, EstimateFails(c) PROVE LatestFits'
  BY <1>a, <1>t, <1>s, <1>g, <1>7 DEF EstimateFails, Raise, Return, Goto, Quotes, LatestFits
<1>8. ASSUME NEW c \in Calls, Reserve(c) PROVE LatestFits'
  BY <1>a, <1>t, <1>s, <1>g, <1>8 DEF Reserve, NonceToUse, Goto, LatestFits
<1>9. ASSUME NEW c \in Calls, Submit(c) PROVE LatestFits'
  BY <1>a, <1>t, <1>s, <1>g, <1>9 DEF Submit, Goto, LatestFits
<1>10. ASSUME NEW c \in Calls, Accepted(c) PROVE LatestFits'
  BY <1>a, <1>t, <1>s, <1>g, <1>10 DEF Accepted, Held, NotHeld, Takes, Goto, LatestFits
<1>11. ASSUME NEW c \in Calls, BroadcastFails(c) PROVE LatestFits'
  BY <1>a, <1>t, <1>s, <1>g, <1>11 DEF BroadcastFails, BroadcastError, Return, Goto,
         NextAfterDoubt, Held, NotHeld, Takes, Abandon, LatestFits
<1>12. ASSUME NEW c \in Calls, Refused(c) PROVE LatestFits'
  BY <1>a, <1>t, <1>s, <1>g, <1>12 DEF Refused, Return, Goto, NextAfterDoubt, Abandon,
         LatestFits
<1>13. ASSUME NEW c \in Calls, Receipt(c) PROVE LatestFits'
  BY <1>a, <1>t, <1>s, <1>g, <1>13 DEF Receipt, MinedAs, Raise, Return, Goto, Quotes, LatestFits
<1>14. ASSUME NEW c \in Calls, TimesOut(c) PROVE LatestFits'
  BY <1>a, <1>t, <1>s, <1>g, <1>14 DEF TimesOut, AfterTimeout, NextAfterDoubt, Raise,
         Return, Goto, Quotes, LatestFits
<1>15. ASSUME NEW c \in Calls, PollFails(c) PROVE LatestFits'
  BY <1>a, <1>t, <1>s, <1>g, <1>15 DEF PollFails, Return, Goto, Abandon, LatestFits
<1>16. ASSUME NEW c \in Calls, FindStuck(c) PROVE LatestFits'
  BY <1>a, <1>t, <1>s, <1>g, <1>16 DEF FindStuck, PendingView, Return, Goto, LatestFits
<1>17. ASSUME NEW c \in Calls, Replace(c) PROVE LatestFits'
  BY <1>a, <1>t, <1>s, <1>g, <1>17 DEF Replace, Goto, LatestFits
<1>18. ASSUME NEW c \in Calls, Settle(c) PROVE LatestFits'
  BY <1>a, <1>t, <1>s, <1>g, <1>18 DEF Settle, Settled, MinedAs, LatestFits
<1>19. ASSUME NEW c \in Calls, SettleTimesOut(c) PROVE LatestFits'
  BY <1>a, <1>t, <1>s, <1>g, <1>19 DEF SettleTimesOut, AfterTimeout, NextAfterDoubt,
         LatestView, MinedAs, Return, Goto, Abandon, LatestFits
<1>20. ASSUME NEW c \in Calls, Cleared(c) PROVE LatestFits'
  BY <1>a, <1>t, <1>s, <1>g, <1>20 DEF Cleared, Return, Goto, LatestFits
<1>21. ASSUME Halt PROVE LatestFits'
  BY <1>a, <1>t, <1>s, <1>g, <1>21 DEF Halt, LatestFits
<1>22. ASSUME Resume PROVE LatestFits'
  BY <1>a, <1>t, <1>s, <1>g, <1>22 DEF Resume, LatestFits
<1>23. ASSUME Mine PROVE LatestFits'
  BY <1>a, <1>t, <1>s, <1>g, <1>23 DEF Mine, LatestFits
<1>24. ASSUME NEW n \in Nonces, Drop(n) PROVE LatestFits'
  BY <1>a, <1>t, <1>s, <1>g, <1>24 DEF Drop, LatestFits
<1>25. ASSUME NEW n \in Nonces, OtherSends(n) PROVE LatestFits'
  BY <1>a, <1>t, <1>s, <1>g, <1>25 DEF OtherSends, Takes, LatestFits
<1>26. ASSUME UNCHANGED vars PROVE LatestFits'
  BY <1>a, <1>t, <1>s, <1>g, <1>26 DEF vars, LatestFits
<1> QED
  BY <1>1, <1>2, <1>3, <1>4, <1>5, <1>6, <1>7, <1>8, <1>9, <1>10, <1>11, <1>12, <1>13,
     <1>14, <1>15, <1>16, <1>17, <1>18, <1>19, <1>20, <1>21, <1>22, <1>23, <1>24, <1>25,
     <1>26 DEF Next, Sending, Clearing, Node

(* A clear finds a row of nonces that the node held.                       *)
LEMMA SpanPreserved ==
  ASSUME TypeOK, PlacesFit, PoolFits, SpanFits, [Next]_vars
  PROVE  SpanFits'
<1>a. SpanFits
  OBVIOUS
<1>t. /\ pc \in [Calls -> Steps] /\ outcome \in [Calls -> Outcomes]
      /\ nonce \in [Calls -> Nat] /\ latest \in [Calls -> Nat]
      /\ span \in [Calls -> SUBSET Nonces] /\ swapped \in [Calls -> SUBSET Nonces]
  BY DEF TypeOK
<1>s. NodeStep
  BY NodeSteps
<1>g. /\ Mined \in Nat /\ Mined' \in Nat /\ Mined <= Mined'
      /\ \A m \in Nat : m < Mined \/ Touched(m) => m < Mined' \/ Touched(m)'
  BY <1>s, TouchedStays
<1>n. \A d \in Clears : d \in Calls /\ span[d] \subseteq Nat
  BY CallFacts DEF TypeOK, Nonces
<1>1. ASSUME NEW c \in Calls, Enter(c) PROVE SpanFits'
  BY <1>a, <1>t, <1>s, <1>g, <1>n, <1>1, CallFacts DEF Enter, Goto, SpanFits, Clearings
<1>2. ASSUME NEW c \in Calls, Acquire(c) PROVE SpanFits'
  BY <1>a, <1>t, <1>s, <1>g, <1>n, <1>2, CallFacts DEF Acquire, Goto, SpanFits, Clearings
<1>3. ASSUME NEW c \in Calls, ReadFails(c) PROVE SpanFits'
  BY <1>a, <1>t, <1>s, <1>g, <1>n, <1>3, CallFacts
     DEF ReadFails, Return, Goto, SpanFits, Clearings
<1>4. ASSUME NEW c \in Calls, ReadLatest(c) PROVE SpanFits'
  BY <1>a, <1>t, <1>s, <1>g, <1>n, <1>4, CallFacts
     DEF ReadLatest, Goto, LatestView, SpanFits, Clearings
<1>5. ASSUME NEW c \in Calls, ReadPending(c) PROVE SpanFits'
  BY <1>a, <1>t, <1>s, <1>g, <1>n, <1>5, CallFacts
     DEF ReadPending, Goto, Return, PendingView, Explained, LooksAgain, SpanFits, Clearings
<1>6. ASSUME NEW c \in Calls, CannotPay(c) PROVE SpanFits'
  BY <1>a, <1>t, <1>s, <1>g, <1>n, <1>6, CallFacts
     DEF CannotPay, Return, Goto, SpanFits, Clearings
<1>7. ASSUME NEW c \in Calls, EstimateFails(c) PROVE SpanFits'
  BY <1>a, <1>t, <1>s, <1>g, <1>n, <1>7, CallFacts
     DEF EstimateFails, Raise, Return, Goto, Quotes, SpanFits, Clearings
<1>8. ASSUME NEW c \in Calls, Reserve(c) PROVE SpanFits'
  BY <1>a, <1>t, <1>s, <1>g, <1>n, <1>8, CallFacts
     DEF Reserve, NonceToUse, Goto, SpanFits, Clearings
<1>9. ASSUME NEW c \in Calls, Submit(c) PROVE SpanFits'
  BY <1>a, <1>t, <1>s, <1>g, <1>n, <1>9, CallFacts DEF Submit, Goto, SpanFits, Clearings
<1>10. ASSUME NEW c \in Calls, Accepted(c) PROVE SpanFits'
  BY <1>a, <1>t, <1>s, <1>g, <1>n, <1>10, CallFacts
     DEF Accepted, Held, NotHeld, Takes, Goto, SpanFits, Clearings
<1>11. ASSUME NEW c \in Calls, BroadcastFails(c) PROVE SpanFits'
  BY <1>a, <1>t, <1>s, <1>g, <1>n, <1>11, CallFacts
     DEF BroadcastFails, BroadcastError, Return, Goto, NextAfterDoubt, Held, NotHeld, Takes,
         Abandon, SpanFits, Clearings
<1>12. ASSUME NEW c \in Calls, Refused(c) PROVE SpanFits'
  BY <1>a, <1>t, <1>s, <1>g, <1>n, <1>12, CallFacts
     DEF Refused, Return, Goto, NextAfterDoubt, Abandon, SpanFits, Clearings
<1>13. ASSUME NEW c \in Calls, Receipt(c) PROVE SpanFits'
  BY <1>a, <1>t, <1>s, <1>g, <1>n, <1>13, CallFacts
     DEF Receipt, MinedAs, Raise, Return, Goto, Quotes, SpanFits, Clearings
<1>14. ASSUME NEW c \in Calls, TimesOut(c) PROVE SpanFits'
  BY <1>a, <1>t, <1>s, <1>g, <1>n, <1>14, CallFacts
     DEF TimesOut, AfterTimeout, NextAfterDoubt, Raise, Return, Goto, Quotes, SpanFits,
         Clearings
<1>15. ASSUME NEW c \in Calls, PollFails(c) PROVE SpanFits'
  BY <1>a, <1>t, <1>s, <1>g, <1>n, <1>15, CallFacts
     DEF PollFails, Return, Goto, Abandon, SpanFits, Clearings
<1>16. ASSUME NEW c \in Calls, FindStuck(c) PROVE SpanFits'
  <2>1. UNCHANGED <<chain, pool, evicted>> /\ Mined' = Mined /\ \A m : Touched(m)' <=> Touched(m)
    BY <1>16 DEF FindStuck, Mined, Touched
  <2>2. CASE pc' = [pc EXCEPT ![c] = "returned"] /\ UNCHANGED span
    BY <1>a, <1>t, <2>1, <2>2, CallFacts DEF SpanFits, Clearings
  <2>3. ASSUME NEW n \in 0..(MaxNonce+1), PendingView(n), pc' = [pc EXCEPT ![c] = "replacing"],
               span' = [span EXCEPT ![c] = latest[c]..(n-1)]
        PROVE  SpanFits'
    <3>1. span'[c] = latest[c]..(n-1) /\ latest[c] \in Nat
      BY <1>t, <2>3
    <3>2. \A m \in span'[c] : m < Mined \/ Touched(m)
      BY <1>g, <2>3, <3>1 DEF PendingView, Touched
    <3>3. \A d \in Clears : d # c => pc'[d] = pc[d] /\ span'[d] = span[d]
      BY <1>t, <2>3, CallFacts
    <3> QED
      BY <1>a, <2>1, <3>2, <3>3 DEF SpanFits
  <2> QED
    BY <1>16, <2>2, <2>3 DEF FindStuck, Return, Goto
<1>17. ASSUME NEW c \in Calls, Replace(c) PROVE SpanFits'
  BY <1>a, <1>t, <1>s, <1>g, <1>n, <1>17, CallFacts DEF Replace, Goto, SpanFits, Clearings
<1>18. ASSUME NEW c \in Calls, Settle(c) PROVE SpanFits'
  BY <1>a, <1>t, <1>s, <1>g, <1>n, <1>18, CallFacts
     DEF Settle, Settled, MinedAs, SpanFits, Clearings
<1>19. ASSUME NEW c \in Calls, SettleTimesOut(c) PROVE SpanFits'
  BY <1>a, <1>t, <1>s, <1>g, <1>n, <1>19, CallFacts
     DEF SettleTimesOut, AfterTimeout, NextAfterDoubt, LatestView, MinedAs, Return, Goto,
         Abandon, SpanFits, Clearings
<1>20. ASSUME NEW c \in Calls, Cleared(c) PROVE SpanFits'
  BY <1>a, <1>t, <1>s, <1>g, <1>n, <1>20, CallFacts
     DEF Cleared, Return, Goto, SpanFits, Clearings
<1>21. ASSUME Halt PROVE SpanFits'
  BY <1>a, <1>t, <1>s, <1>g, <1>n, <1>21 DEF Halt, SpanFits, Clearings
<1>22. ASSUME Resume PROVE SpanFits'
  BY <1>a, <1>t, <1>s, <1>g, <1>n, <1>22 DEF Resume, SpanFits, Clearings
<1>23. ASSUME Mine PROVE SpanFits'
  BY <1>a, <1>t, <1>s, <1>g, <1>n, <1>23 DEF Mine, SpanFits, Clearings
<1>24. ASSUME NEW n \in Nonces, Drop(n) PROVE SpanFits'
  BY <1>a, <1>t, <1>s, <1>g, <1>n, <1>24 DEF Drop, SpanFits, Clearings
<1>25. ASSUME NEW n \in Nonces, OtherSends(n) PROVE SpanFits'
  BY <1>a, <1>t, <1>s, <1>g, <1>n, <1>25 DEF OtherSends, Takes, SpanFits, Clearings
<1>26. ASSUME UNCHANGED vars PROVE SpanFits'
  BY <1>a, <1>t, <1>s, <1>g, <1>n, <1>26 DEF vars, SpanFits, Clearings
<1> QED
  BY <1>1, <1>2, <1>3, <1>4, <1>5, <1>6, <1>7, <1>8, <1>9, <1>10, <1>11, <1>12, <1>13,
     <1>14, <1>15, <1>16, <1>17, <1>18, <1>19, <1>20, <1>21, <1>22, <1>23, <1>24, <1>25,
     <1>26 DEF Next, Sending, Clearing, Node

(* Below the nonce that a send reserves, there is nothing but what the     *)
(* client sent and the node was given.                                     *)
LEMMA NothingSkipped ==
  ASSUME TypeOK, LockHeld, NextFits, ReadFits, NEW c \in Sends, pc[c] = "pendingRead"
  PROVE  /\ NonceToUse(nonce[c]) \in Nat
         /\ \A m \in Mined..(NonceToUse(nonce[c]) - 1) : InFlight(m)
<1>1. c \in Calls /\ nonce[c] \in Nat /\ next \in Nat \union {Unset} /\ Unset \notin Nat
  BY CallFacts DEF TypeOK
<1>2. \A d \in Sends : pc[d] \notin {"signing", "broadcast"}
  BY <1>1, CallFacts DEF LockHeld, Inside
<1>3. Mined \in Nat
  BY ChainFacts
<1>4. \A m \in Mined..(nonce[c] - 1) : InFlight(m)
  BY DEF ReadFits
<1>5. CASE next # Unset /\ nonce[c] <= next
  <2>1. NonceToUse(nonce[c]) = next + 1
    BY <1>5 DEF NonceToUse
  <2>2. \A m \in Mined..next : InFlight(m)
    BY <1>2, <1>5 DEF NextFits
  <2> QED
    BY <1>1, <1>3, <1>5, <2>1, <2>2
<1>6. CASE ~(next # Unset /\ nonce[c] <= next)
  <2>1. NonceToUse(nonce[c]) = nonce[c]
    BY <1>6 DEF NonceToUse
  <2> QED
    BY <1>1, <1>4, <2>1
<1> QED
  BY <1>5, <1>6

(* No other call touches the nonces while a send is about to sign.         *)
LEMMA ReadPreserved ==
  ASSUME TypeOK, LockHeld, PlacesFit, PoolFits, LatestFits, NextFits, ReadFits, [Next]_vars
  PROVE  ReadFits'
<1>p. PlacesFit
  OBVIOUS
<1>a. ReadFits /\ LatestFits
  OBVIOUS
<1>t. /\ pc \in [Calls -> Steps] /\ outcome \in [Calls -> Outcomes]
      /\ nonce \in [Calls -> Nat] /\ latest \in [Calls -> Nat]
      /\ span \in [Calls -> SUBSET Nonces] /\ swapped \in [Calls -> SUBSET Nonces]
  BY DEF TypeOK
<1>s. NodeStep
  BY NodeSteps
<1>g. /\ Mined \in Nat /\ Mined' \in Nat /\ Mined <= Mined'
      /\ \A m \in Nat : m < Mined \/ Touched(m) => m < Mined' \/ Touched(m)'
  BY <1>s, TouchedStays
<1>l. \A d, e \in Calls : pc[d] \in Inside /\ pc[e] \in Inside => d = e
  BY DEF LockHeld
<1>1. ASSUME NEW c \in Calls, Enter(c) PROVE ReadFits'
  BY <1>p, <1>a, <1>t, <1>s, <1>g, <1>l, <1>1, CallFacts
     DEF Enter, Goto, ReadFits, InFlight, Inside, PlacesFit
<1>2. ASSUME NEW c \in Calls, Acquire(c) PROVE ReadFits'
  BY <1>p, <1>a, <1>t, <1>s, <1>g, <1>l, <1>2, CallFacts
     DEF Acquire, Goto, ReadFits, InFlight, Inside, PlacesFit
<1>3. ASSUME NEW c \in Calls, ReadFails(c) PROVE ReadFits'
  BY <1>p, <1>a, <1>t, <1>s, <1>g, <1>l, <1>3, CallFacts
     DEF ReadFails, Return, Goto, ReadFits, InFlight, Inside, PlacesFit
<1>4. ASSUME NEW c \in Calls, ReadLatest(c) PROVE ReadFits'
  BY <1>p, <1>a, <1>t, <1>s, <1>g, <1>l, <1>4, CallFacts
     DEF ReadLatest, Goto, LatestView, ReadFits, InFlight, Inside, PlacesFit
<1>5. ASSUME NEW c \in Calls, ReadPending(c) PROVE ReadFits'
  <2>1. /\ UNCHANGED <<chain, pool, evicted>> /\ Mined' = Mined
        /\ \A m : Touched(m)' <=> Touched(m)
    BY <1>5 DEF ReadPending, Mined, Touched
  <2>2. c \in Sends /\ pc[c] = "latestRead" /\ sent' = {n \in sent : n >= latest[c]}
    BY <1>5 DEF ReadPending
  <2>3. ASSUME NEW n \in 0..(MaxNonce+1), PendingView(n), Explained(latest[c], n),
               nonce' = [nonce EXCEPT ![c] = n]
        PROVE  \A m \in Mined'..(nonce'[c] - 1) : InFlight(m)'
    <3>1. nonce'[c] = n /\ latest[c] \in Nat /\ latest[c] <= Mined
      BY <1>a, <1>t, <2>3 DEF LatestFits
    <3>2. \A m \in Mined..(n-1) : m \in sent' /\ Touched(m)
      BY <1>g, <2>2, <2>3, <3>1 DEF PendingView, Explained, Touched
    <3> QED
      BY <2>1, <3>1, <3>2 DEF InFlight
  <2>4. pc'[c] = "pendingRead" => \A m \in Mined'..(nonce'[c] - 1) : InFlight(m)'
    BY <1>t, <1>5, <2>3 DEF ReadPending, Return, Goto
  <2>5. pc'[c] # "signing"
    BY <1>t, <1>5 DEF ReadPending, Return, Goto
  <2>6. \A d \in Sends : d # c => pc'[d] \notin {"pendingRead", "signing"}
    BY <1>t, <1>l, <1>5, <2>2, CallFacts DEF ReadPending, Return, Goto, Inside
  <2> QED
    BY <2>4, <2>5, <2>6 DEF ReadFits
<1>6. ASSUME NEW c \in Calls, CannotPay(c) PROVE ReadFits'
  BY <1>p, <1>a, <1>t, <1>s, <1>g, <1>l, <1>6, CallFacts
     DEF CannotPay, Return, Goto, ReadFits, InFlight, Inside, PlacesFit
<1>7. ASSUME NEW c \in Calls, EstimateFails(c) PROVE ReadFits'
  BY <1>p, <1>a, <1>t, <1>s, <1>g, <1>l, <1>7, CallFacts
     DEF EstimateFails, Raise, Return, Goto, Quotes, ReadFits, InFlight, Inside, PlacesFit
<1>8. ASSUME NEW c \in Calls, Reserve(c) PROVE ReadFits'
  <2>1. /\ UNCHANGED <<chain, pool, evicted>> /\ Mined' = Mined
        /\ \A m : Touched(m)' <=> Touched(m)
    BY <1>8 DEF Reserve, Mined, Touched
  <2>2. /\ c \in Sends /\ pc[c] = "pendingRead" /\ pc' = [pc EXCEPT ![c] = "signing"]
        /\ nonce' = [nonce EXCEPT ![c] = NonceToUse(nonce[c])] /\ sent' = sent
    BY <1>8 DEF Reserve, Goto
  <2>3. \A d \in Sends : d # c => pc'[d] \notin {"pendingRead", "signing"}
    BY <1>t, <1>l, <2>2, CallFacts DEF Inside
  <2>4. nonce'[c] = NonceToUse(nonce[c])
    BY <1>t, <2>2
  <2>5. \A m \in Mined..(nonce'[c] - 1) : InFlight(m)
    BY <2>2, <2>4, NothingSkipped
  <2> QED
    BY <2>1, <2>2, <2>3, <2>5 DEF ReadFits, InFlight
<1>9. ASSUME NEW c \in Calls, Submit(c) PROVE ReadFits'
  BY <1>p, <1>a, <1>t, <1>s, <1>g, <1>l, <1>9, CallFacts
     DEF Submit, Goto, ReadFits, InFlight, Inside, PlacesFit
<1>10. ASSUME NEW c \in Calls, Accepted(c) PROVE ReadFits'
  BY <1>p, <1>a, <1>t, <1>s, <1>g, <1>l, <1>10, CallFacts
     DEF Accepted, Held, NotHeld, Takes, Goto, ReadFits, InFlight, Inside, PlacesFit
<1>11. ASSUME NEW c \in Calls, BroadcastFails(c) PROVE ReadFits'
  BY <1>p, <1>a, <1>t, <1>s, <1>g, <1>l, <1>11, CallFacts
     DEF BroadcastFails, BroadcastError, Return, Goto, NextAfterDoubt, Held, NotHeld, Takes,
         Abandon, ReadFits, InFlight, Inside, PlacesFit
<1>12. ASSUME NEW c \in Calls, Refused(c) PROVE ReadFits'
  BY <1>p, <1>a, <1>t, <1>s, <1>g, <1>l, <1>12, CallFacts
     DEF Refused, Return, Goto, NextAfterDoubt, Abandon, ReadFits, InFlight, Inside,
         PlacesFit
<1>13. ASSUME NEW c \in Calls, Receipt(c) PROVE ReadFits'
  BY <1>p, <1>a, <1>t, <1>s, <1>g, <1>l, <1>13, CallFacts
     DEF Receipt, MinedAs, Raise, Return, Goto, Quotes, ReadFits, InFlight, Inside,
         PlacesFit
<1>14. ASSUME NEW c \in Calls, TimesOut(c) PROVE ReadFits'
  BY <1>p, <1>a, <1>t, <1>s, <1>g, <1>l, <1>14, CallFacts
     DEF TimesOut, AfterTimeout, NextAfterDoubt, Raise, Return, Goto, Quotes, ReadFits,
         InFlight, Inside, PlacesFit
<1>15. ASSUME NEW c \in Calls, PollFails(c) PROVE ReadFits'
  BY <1>p, <1>a, <1>t, <1>s, <1>g, <1>l, <1>15, CallFacts
     DEF PollFails, Return, Goto, Abandon, ReadFits, InFlight, Inside, PlacesFit
<1>16. ASSUME NEW c \in Calls, FindStuck(c) PROVE ReadFits'
  <2>1. /\ c \in Clears /\ UNCHANGED <<chain, pool, evicted, sent>>
        /\ \A m : Touched(m)' <=> Touched(m)
    BY <1>16 DEF FindStuck, Touched
  <2>2. \A d \in Calls : d # c => pc'[d] = pc[d] /\ nonce'[d] = nonce[d]
    BY <1>t, <1>16 DEF FindStuck, Return, Goto
  <2> QED
    BY <1>a, <2>1, <2>2, CallFacts DEF ReadFits, InFlight, Mined
<1>17. ASSUME NEW c \in Calls, Replace(c) PROVE ReadFits'
  BY <1>p, <1>a, <1>t, <1>s, <1>g, <1>l, <1>17, CallFacts
     DEF Replace, Goto, ReadFits, InFlight, Inside, PlacesFit
<1>18. ASSUME NEW c \in Calls, Settle(c) PROVE ReadFits'
  BY <1>p, <1>a, <1>t, <1>s, <1>g, <1>l, <1>18, CallFacts
     DEF Settle, Settled, MinedAs, ReadFits, InFlight, Inside, PlacesFit
<1>19. ASSUME NEW c \in Calls, SettleTimesOut(c) PROVE ReadFits'
  BY <1>p, <1>a, <1>t, <1>s, <1>g, <1>l, <1>19, CallFacts
     DEF SettleTimesOut, AfterTimeout, NextAfterDoubt, LatestView, MinedAs, Return, Goto,
         Abandon, ReadFits, InFlight, Inside, PlacesFit
<1>20. ASSUME NEW c \in Calls, Cleared(c) PROVE ReadFits'
  BY <1>p, <1>a, <1>t, <1>s, <1>g, <1>l, <1>20, CallFacts
     DEF Cleared, Return, Goto, ReadFits, InFlight, Inside, PlacesFit
<1>21. ASSUME Halt PROVE ReadFits'
  BY <1>p, <1>a, <1>t, <1>s, <1>g, <1>l, <1>21 DEF Halt, ReadFits, InFlight, Inside, PlacesFit
<1>22. ASSUME Resume PROVE ReadFits'
  BY <1>p, <1>a, <1>t, <1>s, <1>g, <1>l, <1>22 DEF Resume, ReadFits, InFlight, Inside, PlacesFit
<1>23. ASSUME Mine PROVE ReadFits'
  BY <1>p, <1>a, <1>t, <1>s, <1>g, <1>l, <1>23 DEF Mine, ReadFits, InFlight, Inside, PlacesFit
<1>24. ASSUME NEW n \in Nonces, Drop(n) PROVE ReadFits'
  BY <1>p, <1>a, <1>t, <1>s, <1>g, <1>l, <1>24 DEF Drop, ReadFits, InFlight, Inside, PlacesFit
<1>25. ASSUME NEW n \in Nonces, OtherSends(n) PROVE ReadFits'
  BY <1>p, <1>a, <1>t, <1>s, <1>g, <1>l, <1>25
     DEF OtherSends, Takes, ReadFits, InFlight, Inside, PlacesFit
<1>26. ASSUME UNCHANGED vars PROVE ReadFits'
  BY <1>p, <1>a, <1>t, <1>s, <1>g, <1>l, <1>26 DEF vars, ReadFits, InFlight, Inside, PlacesFit
<1> QED
  BY <1>1, <1>2, <1>3, <1>4, <1>5, <1>6, <1>7, <1>8, <1>9, <1>10, <1>11, <1>12, <1>13,
     <1>14, <1>15, <1>16, <1>17, <1>18, <1>19, <1>20, <1>21, <1>22, <1>23, <1>24, <1>25,
     <1>26 DEF Next, Sending, Clearing, Node

(* The nonce reserved is one past the last of the client's, or one past    *)
(* what the node holds.                                                    *)
LEMMA NextPreserved ==
  ASSUME TypeOK, LockHeld, PlacesFit, PoolFits, LatestFits, NextFits, ReadFits, [Next]_vars
  PROVE  NextFits'
<1>p. PlacesFit
  OBVIOUS
<1>n. next \in Nat \union {Unset} /\ sent \subseteq Nat
  BY DEF TypeOK, Nonces
<1>a. NextFits /\ LatestFits
  OBVIOUS
<1>t. /\ pc \in [Calls -> Steps] /\ outcome \in [Calls -> Outcomes]
      /\ nonce \in [Calls -> Nat] /\ latest \in [Calls -> Nat]
      /\ span \in [Calls -> SUBSET Nonces] /\ swapped \in [Calls -> SUBSET Nonces]
  BY DEF TypeOK
<1>s. NodeStep
  BY NodeSteps
<1>g. /\ Mined \in Nat /\ Mined' \in Nat /\ Mined <= Mined'
      /\ \A m \in Nat : m < Mined \/ Touched(m) => m < Mined' \/ Touched(m)'
  BY <1>s, TouchedStays
<1>l. \A d, e \in Calls : pc[d] \in Inside /\ pc[e] \in Inside => d = e
  BY DEF LockHeld
<1>1. ASSUME NEW c \in Calls, Enter(c) PROVE NextFits'
  BY <1>p, <1>n, <1>a, <1>t, <1>s, <1>g, <1>l, <1>1, CallFacts
     DEF Enter, Goto, NextFits, InFlight, Inside
<1>2. ASSUME NEW c \in Calls, Acquire(c) PROVE NextFits'
  BY <1>p, <1>n, <1>a, <1>t, <1>s, <1>g, <1>l, <1>2, CallFacts
     DEF Acquire, Goto, NextFits, InFlight, Inside
<1>3. ASSUME NEW c \in Calls, ReadFails(c) PROVE NextFits'
  BY <1>p, <1>n, <1>a, <1>t, <1>s, <1>g, <1>l, <1>3, CallFacts
     DEF ReadFails, Return, Goto, NextFits, InFlight, Inside
<1>4. ASSUME NEW c \in Calls, ReadLatest(c) PROVE NextFits'
  BY <1>p, <1>n, <1>a, <1>t, <1>s, <1>g, <1>l, <1>4, CallFacts
     DEF ReadLatest, Goto, LatestView, NextFits, InFlight, Inside
<1>5. ASSUME NEW c \in Calls, ReadPending(c) PROVE NextFits'
  <2>1. sent' \subseteq sent /\ \A m \in sent : m >= Mined => m \in sent'
    BY <1>a, <1>t, <1>g, <1>n, <1>5 DEF ReadPending, LatestFits
  <2>2. \A d \in Sends : pc[d] \notin {"signing", "broadcast"}
    BY <1>l, <1>5, CallFacts DEF ReadPending, Inside
  <2>3. next' = next \/ next' = Unset \/ (next' \in Nat /\ next' < Mined)
    BY <1>g, <1>5 DEF ReadPending, Raise, Nonces
  <2>4. CASE next' = next
    <3> SUFFICES ASSUME next # Unset, NEW m \in Mined'..next PROVE InFlight(m)'
      BY <2>4 DEF NextFits
    <3>1. m \in Nat /\ m >= Mined /\ ~(m < Mined') /\ ~(m < Mined) /\ m \in Mined..next
      BY <1>g, <1>n
    <3>2. InFlight(m)
      BY <1>a, <2>2, <3>1 DEF NextFits
    <3> QED
      BY <1>g, <2>1, <3>1, <3>2 DEF InFlight
  <2>5. CASE next' = Unset
    BY <2>5 DEF NextFits
  <2>6. CASE next' \in Nat /\ next' < Mined
    <3>1. \A m \in Mined'..next' : FALSE
      BY <1>g, <2>6
    <3> QED
      BY <3>1 DEF NextFits
  <2> QED
    BY <2>3, <2>4, <2>5, <2>6
<1>6. ASSUME NEW c \in Calls, CannotPay(c) PROVE NextFits'
  BY <1>p, <1>n, <1>a, <1>t, <1>s, <1>g, <1>l, <1>6, CallFacts
     DEF CannotPay, Return, Goto, NextFits, InFlight, Inside
<1>7. ASSUME NEW c \in Calls, EstimateFails(c) PROVE NextFits'
  <2>1. sent' \subseteq sent /\ \A m \in sent : m >= Mined => m \in sent'
    BY <1>a, <1>t, <1>g, <1>n, <1>7 DEF EstimateFails, LatestFits
  <2>2. \A d \in Sends : pc[d] \notin {"signing", "broadcast"}
    BY <1>l, <1>7, CallFacts DEF EstimateFails, Inside
  <2>3. next' = next \/ next' = Unset \/ (next' \in Nat /\ next' < Mined)
    BY <1>g, <1>7 DEF EstimateFails, Raise, Nonces
  <2>4. CASE next' = next
    <3> SUFFICES ASSUME next # Unset, NEW m \in Mined'..next PROVE InFlight(m)'
      BY <2>4 DEF NextFits
    <3>1. m \in Nat /\ m >= Mined /\ ~(m < Mined') /\ ~(m < Mined) /\ m \in Mined..next
      BY <1>g, <1>n
    <3>2. InFlight(m)
      BY <1>a, <2>2, <3>1 DEF NextFits
    <3> QED
      BY <1>g, <2>1, <3>1, <3>2 DEF InFlight
  <2>5. CASE next' = Unset
    BY <2>5 DEF NextFits
  <2>6. CASE next' \in Nat /\ next' < Mined
    <3>1. \A m \in Mined'..next' : FALSE
      BY <1>g, <2>6
    <3> QED
      BY <3>1 DEF NextFits
  <2> QED
    BY <2>3, <2>4, <2>5, <2>6
<1>8. ASSUME NEW c \in Calls, Reserve(c) PROVE NextFits'
  <2>1. /\ UNCHANGED <<chain, pool, evicted>> /\ Mined' = Mined
        /\ \A m : Touched(m)' <=> Touched(m)
    BY <1>8 DEF Reserve, Mined, Touched
  <2>2. /\ c \in Sends /\ pc[c] = "pendingRead" /\ pc' = [pc EXCEPT ![c] = "signing"]
        /\ nonce' = [nonce EXCEPT ![c] = NonceToUse(nonce[c])] /\ sent' = sent
        /\ next' = NonceToUse(nonce[c])
    BY <1>8 DEF Reserve, Goto
  <2>3. nonce'[c] = next' /\ pc'[c] = "signing"
    BY <1>t, <2>2
  <2>4. next' \in Nat /\ \A m \in Mined..(next' - 1) : InFlight(m)
    BY <2>2, NothingSkipped
  <2>5. \A m \in Mined..(next' - 1) : InFlight(m)'
    BY <2>1, <2>2, <2>4 DEF InFlight
  <2>6. \A m \in Mined..next' : m \in Mined..(next' - 1) \/ m = nonce'[c]
    <3>1. ASSUME NEW j \in Nat, NEW k \in Nat PROVE \A m \in j..k : m \in j..(k-1) \/ m = k
      OBVIOUS
    <3> QED
      BY <1>g, <2>3, <2>4, <3>1
  <2> QED
    BY <2>1, <2>2, <2>3, <2>5, <2>6 DEF NextFits
<1>9. ASSUME NEW c \in Calls, Submit(c) PROVE NextFits'
  BY <1>p, <1>n, <1>a, <1>t, <1>s, <1>g, <1>l, <1>9, CallFacts
     DEF Submit, Goto, NextFits, InFlight, Inside
<1>10. ASSUME NEW c \in Calls, Accepted(c) PROVE NextFits'
  <2>1. /\ pc[c] = "broadcast" /\ UNCHANGED <<chain, next, sent>> /\ Mined' = Mined
        /\ pool' = [pool EXCEPT ![nonce[c]] = c] /\ Mined <= nonce[c]
    BY <1>10 DEF Accepted, Held, NotHeld, Takes, Mined
  <2>2. nonce[c] \in Nonces /\ pool \in [Nonces -> Owners \union {Free}]
    BY <1>p, <2>1 DEF PlacesFit, TypeOK
  <2>3. \A m : m = nonce[c] => Touched(m)'
    BY <2>1, <2>2, CallFacts DEF Touched
  <2>4. \A d \in Sends : pc[d] \in {"signing", "broadcast"} => d = c
    BY <1>l, <2>1, CallFacts DEF Inside
  <2>5. ASSUME NEW m \in Mined..next, next # Unset PROVE InFlight(m)'
    <3>1. m \in sent /\ (Touched(m) \/ m = nonce[c])
      BY <1>a, <2>1, <2>4, <2>5 DEF NextFits, InFlight
    <3>2. m \in Nat /\ ~(m < Mined)
      BY <1>g, <2>5, <1>n
    <3> QED
      BY <1>g, <2>1, <2>3, <3>1, <3>2 DEF InFlight
  <2> QED
    BY <2>1, <2>5 DEF NextFits
<1>11. ASSUME NEW c \in Calls, BroadcastFails(c) PROVE NextFits'
  BY <1>p, <1>n, <1>a, <1>t, <1>s, <1>g, <1>l, <1>11, CallFacts
     DEF BroadcastFails, BroadcastError, Return, Goto, NextAfterDoubt, Held, NotHeld, Takes,
         Abandon, NextFits, InFlight, Inside
<1>12. ASSUME NEW c \in Calls, Refused(c) PROVE NextFits'
  BY <1>p, <1>n, <1>a, <1>t, <1>s, <1>g, <1>l, <1>12, CallFacts
     DEF Refused, Return, Goto, NextAfterDoubt, Abandon, NextFits, InFlight, Inside
<1>13. ASSUME NEW c \in Calls, Receipt(c) PROVE NextFits'
  <2>1. sent' \subseteq sent /\ \A m \in sent : m >= Mined => m \in sent'
    BY <1>a, <1>t, <1>g, <1>n, <1>13 DEF Receipt, LatestFits
  <2>2. \A d \in Sends : pc[d] \notin {"signing", "broadcast"}
    BY <1>l, <1>13, CallFacts DEF Receipt, Inside
  <2>3. next' = next \/ next' = Unset \/ (next' \in Nat /\ next' < Mined)
    BY <1>g, <1>13 DEF Receipt, Raise, Nonces
  <2>4. CASE next' = next
    <3> SUFFICES ASSUME next # Unset, NEW m \in Mined'..next PROVE InFlight(m)'
      BY <2>4 DEF NextFits
    <3>1. m \in Nat /\ m >= Mined /\ ~(m < Mined') /\ ~(m < Mined) /\ m \in Mined..next
      BY <1>g, <1>n
    <3>2. InFlight(m)
      BY <1>a, <2>2, <3>1 DEF NextFits
    <3> QED
      BY <1>g, <2>1, <3>1, <3>2 DEF InFlight
  <2>5. CASE next' = Unset
    BY <2>5 DEF NextFits
  <2>6. CASE next' \in Nat /\ next' < Mined
    <3>1. \A m \in Mined'..next' : FALSE
      BY <1>g, <2>6
    <3> QED
      BY <3>1 DEF NextFits
  <2> QED
    BY <2>3, <2>4, <2>5, <2>6
<1>14. ASSUME NEW c \in Calls, TimesOut(c) PROVE NextFits'
  BY <1>p, <1>n, <1>a, <1>t, <1>s, <1>g, <1>l, <1>14, CallFacts
     DEF TimesOut, AfterTimeout, NextAfterDoubt, Raise, Return, Goto, Quotes, NextFits,
         InFlight, Inside
<1>15. ASSUME NEW c \in Calls, PollFails(c) PROVE NextFits'
  BY <1>p, <1>n, <1>a, <1>t, <1>s, <1>g, <1>l, <1>15, CallFacts
     DEF PollFails, Return, Goto, Abandon, NextFits, InFlight, Inside
<1>16. ASSUME NEW c \in Calls, FindStuck(c) PROVE NextFits'
  <2>1. sent' \subseteq sent /\ \A m \in sent : m >= Mined => m \in sent'
    BY <1>a, <1>t, <1>g, <1>n, <1>16 DEF FindStuck, LatestFits
  <2>2. \A d \in Sends : pc[d] \notin {"signing", "broadcast"}
    BY <1>l, <1>16, CallFacts DEF FindStuck, Inside
  <2>3. next' = next \/ next' = Unset \/ (next' \in Nat /\ next' < Mined)
    BY <1>g, <1>16 DEF FindStuck, Raise, Nonces
  <2>4. CASE next' = next
    <3> SUFFICES ASSUME next # Unset, NEW m \in Mined'..next PROVE InFlight(m)'
      BY <2>4 DEF NextFits
    <3>1. m \in Nat /\ m >= Mined /\ ~(m < Mined') /\ ~(m < Mined) /\ m \in Mined..next
      BY <1>g, <1>n
    <3>2. InFlight(m)
      BY <1>a, <2>2, <3>1 DEF NextFits
    <3> QED
      BY <1>g, <2>1, <3>1, <3>2 DEF InFlight
  <2>5. CASE next' = Unset
    BY <2>5 DEF NextFits
  <2>6. CASE next' \in Nat /\ next' < Mined
    <3>1. \A m \in Mined'..next' : FALSE
      BY <1>g, <2>6
    <3> QED
      BY <3>1 DEF NextFits
  <2> QED
    BY <2>3, <2>4, <2>5, <2>6
<1>17. ASSUME NEW c \in Calls, Replace(c) PROVE NextFits'
  BY <1>p, <1>n, <1>a, <1>t, <1>s, <1>g, <1>l, <1>17, CallFacts
     DEF Replace, Goto, NextFits, InFlight, Inside
<1>18. ASSUME NEW c \in Calls, Settle(c) PROVE NextFits'
  BY <1>p, <1>n, <1>a, <1>t, <1>s, <1>g, <1>l, <1>18, CallFacts
     DEF Settle, Settled, MinedAs, NextFits, InFlight, Inside
<1>19. ASSUME NEW c \in Calls, SettleTimesOut(c) PROVE NextFits'
  BY <1>p, <1>n, <1>a, <1>t, <1>s, <1>g, <1>l, <1>19, CallFacts
     DEF SettleTimesOut, AfterTimeout, NextAfterDoubt, LatestView, MinedAs, Return, Goto,
         Abandon, NextFits, InFlight, Inside
<1>20. ASSUME NEW c \in Calls, Cleared(c) PROVE NextFits'
  BY <1>p, <1>n, <1>a, <1>t, <1>s, <1>g, <1>l, <1>20, CallFacts
     DEF Cleared, Return, Goto, NextFits, InFlight, Inside
<1>21. ASSUME Halt PROVE NextFits'
  BY <1>p, <1>n, <1>a, <1>t, <1>s, <1>g, <1>l, <1>21 DEF Halt, NextFits, InFlight, Inside
<1>22. ASSUME Resume PROVE NextFits'
  BY <1>p, <1>n, <1>a, <1>t, <1>s, <1>g, <1>l, <1>22 DEF Resume, NextFits, InFlight, Inside
<1>23. ASSUME Mine PROVE NextFits'
  BY <1>p, <1>n, <1>a, <1>t, <1>s, <1>g, <1>l, <1>23 DEF Mine, NextFits, InFlight, Inside
<1>24. ASSUME NEW n \in Nonces, Drop(n) PROVE NextFits'
  BY <1>p, <1>n, <1>a, <1>t, <1>s, <1>g, <1>l, <1>24 DEF Drop, NextFits, InFlight, Inside
<1>25. ASSUME NEW n \in Nonces, OtherSends(n) PROVE NextFits'
  BY <1>p, <1>n, <1>a, <1>t, <1>s, <1>g, <1>l, <1>25
     DEF OtherSends, Takes, NextFits, InFlight, Inside
<1>26. ASSUME UNCHANGED vars PROVE NextFits'
  BY <1>p, <1>n, <1>a, <1>t, <1>s, <1>g, <1>l, <1>26 DEF vars, NextFits, InFlight, Inside
<1> QED
  BY <1>1, <1>2, <1>3, <1>4, <1>5, <1>6, <1>7, <1>8, <1>9, <1>10, <1>11, <1>12, <1>13,
     <1>14, <1>15, <1>16, <1>17, <1>18, <1>19, <1>20, <1>21, <1>22, <1>23, <1>24, <1>25,
     <1>26 DEF Next, Sending, Clearing, Node

-----------------------------------------------------------------------------
(* The theorems                                                            *)

(* The invariant holds of a client that has sent nothing yet, to a node    *)
(* that has nothing of it.                                                 *)
LEMMA InitIInv == Init => IInv
<1> SUFFICES ASSUME Init PROVE IInv
  OBVIOUS
<1>1. /\ chain = <<>> /\ Mined = 0
      /\ pool = [n \in Nonces |-> Free] /\ sent = {} /\ next = Unset /\ lock = Nobody
      /\ evicted = {} /\ unwatched = {} /\ foreign = {} /\ halted = FALSE
  BY DEF Init, Mined
<1>2. \A c \in Calls : /\ pc[c] = "idle" /\ latest[c] = 0 /\ outcome[c] = "none"
                       /\ span[c] = {} /\ swapped[c] = {}
  BY DEF Init
<1>3. TypeOK
  <2>1. chain \in Seq([by : Owners, ok : BOOLEAN])
    BY <1>1
  <2>2. pool \in [Nonces -> Owners \union {Free}]
    BY <1>1
  <2>3. /\ looks \in [Calls -> 0..MaxLooks] /\ tries \in [Calls -> 0..MaxTries]
        /\ latest \in [Calls -> Nat] /\ nonce \in [Calls -> Nat] /\ ours \in [Calls -> BOOLEAN]
    BY DEF Init
  <2>4. /\ pc \in [Calls -> Steps] /\ outcome \in [Calls -> Outcomes]
        /\ span \in [Calls -> SUBSET Nonces] /\ swapped \in [Calls -> SUBSET Nonces]
    BY DEF Init, Steps, Outcomes
  <2> QED
    BY <1>1, <2>1, <2>2, <2>3, <2>4 DEF TypeOK
<1>4. LockHeld /\ PlacesFit
  BY <1>1, <1>2 DEF LockHeld, PlacesFit, Inside
<1>5. PoolFits
  BY <1>1 DEF PoolFits, Nonces
<1>6. EffectFits
  <2> SUFFICES ASSUME NEW c \in Sends PROVE EffectOf(c)
    BY DEF EffectFits
  <2>1. Live(c) = {}
    BY <1>1, CallFacts DEF Live, MinedAs, Nonces
  <2> QED
    BY <1>2, <2>1, CallFacts DEF EffectOf
<1>7. ClearFits /\ SpanFits
  BY <1>2, CallFacts DEF ClearFits, ClearOf, SpanFits, Clearings
<1>8. SentFits /\ NextFits /\ ForeignFits
  BY <1>1 DEF SentFits, NextFits, ForeignFits
<1>9. OursFits /\ ReadFits /\ LatestFits
  BY <1>1, <1>2, CallFacts DEF OursFits, ReadFits, LatestFits
<1> QED
  BY <1>3, <1>4, <1>5, <1>6, <1>7, <1>8, <1>9 DEF IInv

(* The invariant holds in every state a program can reach.                 *)
THEOREM Invariance == Spec => []IInv
<1>1. ASSUME IInv, [Next]_vars PROVE IInv'
  <2>1. TypeOK' /\ LockHeld' /\ PlacesFit'
    BY <1>1, TypePreserved, LockPreserved, PlacesPreserved DEF IInv
  <2>2. PoolFits' /\ EffectFits' /\ ClearFits'
    BY <1>1, NodeSteps, PoolPreserved, EffectPreserved, ClearPreserved DEF IInv
  <2>3. SentFits' /\ OursFits' /\ ForeignFits'
    BY <1>1, SentPreserved, OursPreserved, ForeignPreserved DEF IInv
  <2>4. LatestFits' /\ SpanFits'
    BY <1>1, LatestPreserved, SpanPreserved DEF IInv
  <2>5. ReadFits' /\ NextFits'
    BY <1>1, ReadPreserved, NextPreserved DEF IInv
  <2> QED
    BY <2>1, <2>2, <2>3, <2>4, <2>5 DEF IInv
<1> QED
  BY InitIInv, <1>1, PTL DEF Spec

(* Every variable keeps its type: the nonces used are the account's.       *)
THEOREM TypeCorrect == Spec => []TypeOK
<1>1. IInv => TypeOK
  BY DEF IInv
<1> QED
  BY Invariance, <1>1, PTL

(* However often _send_with_nonce_retry starts over, whatever the node,    *)
(* its replicas and the other calls do, one call takes effect once at most. *)
THEOREM TakesEffectOnce == Spec => []AtMostOnce
<1>1. IInv => AtMostOnce
  BY DEF IInv, EffectFits, EffectOf, AtMostOnce
<1> QED
  BY Invariance, <1>1, PTL

(* What a send method returns or raises is true of the chain, and stays    *)
(* true: a hash of a transaction that succeeded, or an error that says     *)
(* that nothing is left that could run.                                    *)
THEOREM OutcomesAreTrue == Spec => []TruthfulOutcome
<1>1. IInv => TruthfulOutcome
  BY DEF IInv, EffectFits, EffectOf, NothingLeft, TruthfulOutcome
<1> QED
  BY Invariance, <1>1, PTL

(* The nonce _reserve_nonce gives is above none that was left out, and the *)
(* unmined ones below it are the client's by number: another application's *)
(* transaction is only there on a nonce that _sent_nonces had or kept when *)
(* it took it; clear_stuck_transactions replaces an unbroken row.          *)
THEOREM NoncesAreInOrder == Spec => []NoncesInOrder
<1>1. ASSUME IInv PROVE QueuesBehindOwn
  <2> SUFFICES ASSUME NEW c \in Sends, pc[c] = "signing", NEW m \in Mined..(nonce[c] - 1)
               PROVE  m \in sent \intersect unwatched /\ (pool[m] = Other => m \in foreign)
    BY DEF QueuesBehindOwn
  <2>1. m \in sent
    BY <1>1 DEF IInv, ReadFits, InFlight
  <2>2. ~(m < Mined)
    <3>1. Mined \in Nat /\ nonce[c] \in Nat
      BY <1>1, ChainFacts, CallFacts DEF IInv, TypeOK
    <3> QED
      BY <3>1
  <2>3. ASSUME NEW d \in Calls, Tends(d, m) PROVE FALSE
    <3>1. d = c
      BY <1>1, <2>3, TendsInside, CallFacts DEF IInv, LockHeld, Inside
    <3>2. swapped[c] = {}
      BY <1>1, CallFacts DEF IInv, PlacesFit
    <3> QED
      BY <2>3, <3>1, <3>2 DEF Tends
  <2>4. \A d \in Calls : ~Contends(d, m)
    BY <1>1, CallFacts DEF IInv, LockHeld, Inside, Contends
  <2>5. m \in Nonces
    BY <1>1, <2>1 DEF IInv, TypeOK
  <2>6. pool[m] = Other => m \in foreign
    BY <1>1, <2>1, <2>4, <2>5 DEF IInv, ForeignFits
  <2> QED
    BY <1>1, <2>1, <2>2, <2>3, <2>6 DEF IInv, SentFits
<1>2. ASSUME IInv PROVE SkipsNone
  <2> SUFFICES ASSUME NEW c \in Calls, pc[c] = "signing", NEW m \in Mined..(nonce[c] - 1)
               PROVE  Touched(m)
    BY DEF SkipsNone, Touched
  <2>1. CASE c \in Sends
    BY <1>2, <2>1 DEF IInv, ReadFits, InFlight
  <2>2. CASE c \in Clears
    <3>1. /\ Mined \in Nat /\ nonce[c] \in Nat /\ latest[c] \in Nat /\ latest[c] <= Mined
          /\ nonce[c] \in span[c]
      BY <1>2, <2>2, ChainFacts DEF IInv, TypeOK, LatestFits, PlacesFit
    <3>2. \A k \in latest[c]..nonce[c] : k \in span[c]
      BY <1>2, <2>2, <3>1 DEF IInv, ClearFits, ClearOf, Clearings
    <3>3. m \in latest[c]..nonce[c] /\ ~(m < Mined)
      BY <3>1
    <3> QED
      BY <1>2, <2>2, <3>2, <3>3 DEF IInv, SpanFits, Clearings
  <2> QED
    BY <2>1, <2>2 DEF Calls
<1> QED
  BY Invariance, <1>1, <1>2, PTL DEF NoncesInOrder

(* A clear_stuck_transactions that returns, or raises StuckTransaction-    *)
(* Mined, has seen every nonce it found mined, and its replacements are    *)
(* those it names.                                                         *)
THEOREM ClearedIsMined == Spec => []ClearedMeansMined
<1>1. IInv => ClearedMeansMined
  BY DEF IInv, ClearFits, ClearOf, ClearedMeansMined
<1> QED
  BY Invariance, <1>1, PTL
=============================================================================
