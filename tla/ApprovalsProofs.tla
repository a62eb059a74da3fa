-------------------------- MODULE ApprovalsProofs --------------------------
(***************************************************************************)
(* Reads reflect the client's own writes, and a flow that nothing disturbs *)
(* finds the allowance it wants, for any sets of flows, amounts and lag:   *)
(* the inductive invariant IInv of Approvals, and what follows from it.    *)
(***************************************************************************)
EXTENDS Approvals, SequenceTheorems, TLAPS

USE ApprovalsAssumption

-----------------------------------------------------------------------------
(* Facts about sequences and numbers.                                      *)

(* Taken out of a sequence, an element closes the gap.                     *)
LEMMA RemoveAtGap ==
  ASSUME NEW S, NEW q \in Seq(S), NEW k \in 1..Len(q)
  PROVE  /\ RemoveAt(q, k) \in Seq(S)
         /\ Len(RemoveAt(q, k)) = Len(q) - 1
         /\ \A i \in 1..(Len(q) - 1) :
              RemoveAt(q, k)[i] = IF i < k THEN q[i] ELSE q[i+1]
<1> DEFINE front == SubSeq(q, 1, k-1)
           back  == SubSeq(q, k+1, Len(q))
<1>1. Len(q) \in Nat /\ k \in 1..Len(q)
  OBVIOUS
<1>2. /\ front \in Seq(S)
      /\ Len(front) = k - 1
      /\ \A i \in 1..(k-1) : front[i] = q[i]
  <2>1. \A i \in 1..(k-1) : q[i] \in S
    BY <1>1
  <2> QED
    BY <1>1, <2>1, SubSeqProperties
<1>3. /\ back \in Seq(S)
      /\ Len(back) = Len(q) - k
      /\ \A i \in 1..(Len(q)-k) : back[i] = q[k+i]
  <2>1. \A i \in (k+1)..Len(q) : q[i] \in S
    BY <1>1
  <2> QED
    BY <1>1, <2>1, SubSeqProperties
<1> HIDE DEF front, back
<1>4. /\ front \o back \in Seq(S)
      /\ Len(front \o back) = Len(front) + Len(back)
      /\ \A i \in 1..(Len(front) + Len(back)) :
           (front \o back)[i] = IF i <= Len(front) THEN front[i] ELSE back[i - Len(front)]
  BY <1>2, <1>3, ConcatProperties, Zenon
<1>5. RemoveAt(q, k) = front \o back
  BY DEF RemoveAt, front, back
<1>6. Len(front) + Len(back) = Len(q) - 1
  BY <1>1, <1>2, <1>3
<1>7. \A i \in 1..(Len(q) - 1) : (front \o back)[i] = IF i < k THEN q[i] ELSE q[i+1]
  BY <1>1, <1>2, <1>3, <1>4, <1>6
<1> QED
  BY <1>4, <1>5, <1>6, <1>7

(* What is left of a sequence without duplicates is without duplicates.    *)
LEMMA RemoveAtDistinct ==
  ASSUME NEW S, NEW q \in Seq(S), NEW k \in 1..Len(q),
         \A i, j \in 1..Len(q) : q[i] = q[j] => i = j
  PROVE  /\ \A i \in 1..Len(RemoveAt(q, k)) :
              \E m \in 1..Len(q) : RemoveAt(q, k)[i] = q[m]
         /\ \A i, j \in 1..Len(RemoveAt(q, k)) :
              RemoveAt(q, k)[i] = RemoveAt(q, k)[j] => i = j
<1> DEFINE r == RemoveAt(q, k)
           from(i) == IF i < k THEN i ELSE i+1
<1>0. Len(q) \in Nat /\ k \in 1..Len(q)
  OBVIOUS
<1>1. /\ Len(r) = Len(q) - 1
      /\ \A i \in 1..(Len(q) - 1) : r[i] = IF i < k THEN q[i] ELSE q[i+1]
  BY RemoveAtGap, Zenon
<1> HIDE DEF r
<1>2. \A i \in 1..Len(r) : from(i) \in 1..Len(q) /\ r[i] = q[from(i)]
  BY <1>0, <1>1
<1>3. \A i, j \in 1..Len(r) : from(i) = from(j) => i = j
  BY <1>0, <1>1
<1> HIDE DEF from
<1>4. \A i \in 1..Len(r) : \E m \in 1..Len(q) : r[i] = q[m]
  BY <1>2
<1>5. \A i, j \in 1..Len(r) : r[i] = r[j] => i = j
  BY <1>2, <1>3
<1> QED
  BY <1>4, <1>5 DEF r

(* Larger is one of its arguments, and no smaller than the other.          *)
LEMMA LargerFacts ==
  \A m, n \in Nat : /\ Larger(m, n) \in {m, n}
                    /\ Larger(m, n) >= m /\ Larger(m, n) >= n
  BY DEF Larger

(* There is a block, and the allowance after each is an amount.            *)
LEMMA TipFacts ==
  ASSUME TypeOK
  PROVE  /\ Tip \in Nat \ {0} /\ Tip \in Blocks
         /\ \A b \in Blocks : allowance[b] \in Amounts
<1>1. allowance \in Seq(Amounts) /\ Len(allowance) > 0
  BY DEF TypeOK, Tip
<1> QED
  BY <1>1 DEF Tip, Blocks

(* Blocks asked for and served exist.                                      *)
LEMMA BlocksServed ==
  ASSUME TypeOK
  PROVE  /\ FreshBlock \subseteq Blocks \union {0}
         /\ \A b \in Blocks \union {0} : Served(b) \subseteq Blocks
<1>1. Heads \subseteq Blocks
  BY DEF Heads
<1>2. \A b \in Heads \union {0} : b \in Nat /\ lastWrite \in Nat
  BY <1>1 DEF TypeOK, Blocks
<1>3. \A b \in Heads \union {0} : Larger(lastWrite, b) \in Blocks \union {0}
  BY <1>1, <1>2, LargerFacts DEF TypeOK
<1> QED
  BY <1>1, <1>3 DEF FreshBlock, Served

(* A spender asks for an amount.                                           *)
LEMMA AsksAmounts ==
  ASSUME TypeOK, NEW c \in Calls
  PROVE  Asks(c) \subseteq Amounts
<1>1. amount[c] \in Amounts
  BY DEF TypeOK
<1>2. Bounded(c) \subseteq Amounts
  BY <1>1 DEF Bounded, Amounts, ApprovalsAssumption
<1> QED
  BY <1>2 DEF Asks

(* A read is pinned to what _note_write recorded, or later.                *)
LEMMA PinnedLate ==
  ASSUME TypeOK, NEW b \in FreshBlock, lastWrite # 0
  PROVE  b >= lastWrite
<1>1. PICK h \in Heads \union {0} : b = Larger(lastWrite, h)
  BY DEF FreshBlock
<1>2. h \in Nat /\ lastWrite \in Nat
  BY DEF TypeOK, Heads, Blocks
<1> QED
  BY <1>1, <1>2, LargerFacts

(* What mining does to the node's part of the state.                     *)
LEMMA MinedTypes ==
  ASSUME TypeOK, NEW c \in Calls, NEW v \in Amounts, Mined(c, v),
         flight # <<>>, Head(flight) = c
  PROVE  /\ allowance' \in Seq(Amounts) /\ Tip' = Tip + 1
         /\ Blocks \subseteq Blocks' /\ Tip + 1 \in Blocks'
         /\ allowance'[Tip'] = v
         /\ flight' \in Seq(Calls)
         /\ receipt' \in [Calls -> {"none", "failed", "ok"}]
         /\ block' \in [Calls -> Blocks' \union {0}]
         /\ raced' \subseteq Calls
<1>1. /\ allowance \in Seq(Amounts) /\ Tip \in Nat /\ flight \in Seq(Calls)
  BY TipFacts DEF TypeOK
<1>2. /\ allowance' \in Seq(Amounts) /\ Len(allowance') = Len(allowance) + 1
      /\ allowance'[Len(allowance) + 1] = v
  BY <1>1, AppendProperties DEF Mined
<1>3. /\ Tip' = Tip + 1 /\ Blocks \subseteq Blocks' /\ Tip + 1 \in Blocks'
  BY <1>1, <1>2 DEF Tip, Blocks
<1>4. flight' \in Seq(Calls)
  BY <1>1, HeadTailProperties DEF Mined
<1>5. block' \in [Calls -> Blocks' \union {0}]
  BY <1>3 DEF Mined, TypeOK
<1>6. raced' \subseteq Calls
  BY <1>4 DEF Mined, TypeOK, Range
<1> QED
  BY <1>2, <1>3, <1>4, <1>5, <1>6 DEF Mined, TypeOK, Tip

-----------------------------------------------------------------------------
(* The invariant is inductive: one lemma for each of its parts.            *)

LEMMA InitIInv == Init => IInv
<1> SUFFICES ASSUME Init PROVE IInv
  OBVIOUS
<1>1. PICK first \in Amounts : allowance = <<first>>
  BY DEF Init
<1>2. Tip = 1 /\ Blocks = {1} /\ allowance \in Seq(Amounts)
  BY <1>1 DEF Tip, Blocks
<1>3. 0 \in Amounts
  BY DEF Amounts, ApprovalsAssumption
<1>4. TypeOK
  BY <1>2, <1>3 DEF Init, TypeOK
<1>5. OnlyFlowsSpend /\ AckNoted /\ PinCovers /\ FlightSound /\ FitsUntilUsed
  BY DEF Init, OnlyFlowsSpend, AckNoted, PinCovers, FlightSound, FitsUntilUsed, OnTheWay, Calls
<1>6. CapKept /\ NeededApproveSent
  BY DEF Init, CapKept, NeededApproveSent, Calls, Amounts, ApprovalsAssumption
<1> QED
  BY <1>4, <1>5, <1>6 DEF IInv

(* Types.                                                                  *)
LEMMA TypeOKStep == IInv /\ Next => TypeOK'
<1> SUFFICES ASSUME IInv, Next PROVE TypeOK'
  OBVIOUS
<1>0. TypeOK /\ OnlyFlowsSpend
  BY DEF IInv
<1> USE DEF Goto, Return, fixedVars, nodeVars, clientVars, threadVars, historyVars
<1>1. ASSUME UNCHANGED allowance PROVE Tip' = Tip /\ Blocks' = Blocks
  BY <1>1 DEF Tip, Blocks
<1>2. ASSUME NEW c \in Calls, Pin(c) PROVE TypeOK'
  <2>1. pin' \in [Calls -> Blocks \union {0}]
    BY <1>0, <1>2, BlocksServed DEF Pin, TypeOK
  <2> QED
    BY <1>0, <1>1, <1>2, <2>1 DEF Pin, TypeOK
<1>3. ASSUME NEW c \in Calls, ReadAllowance(c) PROVE TypeOK'
  <2>1. saw' \in [Calls -> Blocks] /\ stale' \subseteq Uses
    <3>1. c \in Uses
      BY <1>0, <1>3 DEF ReadAllowance, OnlyFlowsSpend, Calls
    <3>2. PICK b \in Served(pin[c]) : saw' = [saw EXCEPT ![c] = b]
      BY <1>3 DEF ReadAllowance
    <3>3. pin[c] \in Blocks \union {0} /\ saw \in [Calls -> Blocks] /\ stale \subseteq Uses
      BY <1>0 DEF TypeOK
    <3>4. b \in Blocks
      BY <1>0, <3>2, <3>3, BlocksServed
    <3>5. stale' \subseteq stale \union {c}
      BY <1>3 DEF ReadAllowance
    <3> QED
      BY <3>1, <3>2, <3>3, <3>4, <3>5
  <2> QED
    BY <1>0, <1>1, <1>3, <2>1 DEF ReadAllowance, TypeOK
<1>4. ASSUME NEW c \in Calls, Approve(c) PROVE TypeOK'
  BY <1>0, <1>1, <1>4 DEF Approve, TypeOK
<1>5. ASSUME NEW c \in Calls, BeginSend(c) PROVE TypeOK'
  BY <1>0, <1>1, <1>5 DEF BeginSend, TypeOK
<1>6. ASSUME NEW c \in Calls, FindStuck(c) PROVE TypeOK'
  BY <1>0, <1>1, <1>6 DEF FindStuck, TypeOK
<1>7. ASSUME NEW c \in Calls, Broadcast(c) PROVE TypeOK'
  <2>1. flight' \in Seq(Calls)
    BY <1>0, <1>7, AppendProperties DEF Broadcast, TypeOK
  <2> QED
    BY <1>0, <1>1, <1>7, <2>1 DEF Broadcast, TypeOK
<1>8. ASSUME NEW c \in Calls, EstimateReverts(c) PROVE TypeOK'
  BY <1>0, <1>1, <1>8 DEF EstimateReverts, TypeOK
<1>9. ASSUME NEW c \in Calls, Receipt(c) PROVE TypeOK'
  <2>1. /\ block[c] \in Blocks \union {0} /\ lastWrite \in Blocks \union {0}
        /\ acked \in Blocks /\ Blocks \subseteq Nat \ {0}
    BY <1>0 DEF TypeOK, Blocks
  <2>2. NoteWrite(block[c]) \in Blocks \union {0} /\ Larger(acked, block[c]) \in Blocks
    BY <2>1 DEF NoteWrite, Larger
  <2> QED
    BY <1>0, <1>1, <1>9, <2>2 DEF Receipt, TypeOK
<1>10. ASSUME NEW c \in Calls, GiveUp(c) PROVE TypeOK'
  BY <1>0, <1>1, <1>10 DEF GiveUp, TypeOK
<1>11. ASSUME NEW c \in Calls, MineApprove(c) PROVE TypeOK'
  <2>1. amount[c] \in Amounts
    BY <1>0 DEF TypeOK
  <2>2. /\ allowance' \in Seq(Amounts) /\ Tip' = Tip + 1 /\ Tip + 1 \in Blocks'
        /\ Blocks \subseteq Blocks' /\ flight' \in Seq(Calls)
        /\ receipt' \in [Calls -> {"none", "failed", "ok"}]
        /\ block' \in [Calls -> Blocks' \union {0}]
        /\ raced' \subseteq Calls
    BY <1>0, <1>11, <2>1, MinedTypes DEF MineApprove
  <2>3. Tip' > 0
    BY <1>0, <2>2, TipFacts
  <2> QED
    BY <1>0, <1>11, <2>2, <2>3 DEF MineApprove, TypeOK
<1>12. ASSUME NEW c \in Calls, MineUse(c) PROVE TypeOK'
  <2>0. UNCHANGED <<fixedVars, clientVars, threadVars, saw, heard, acked, stale>>
    BY <1>12 DEF MineUse
  <2>1. PICK n \in Asks(c) :
          \/ /\ n <= allowance[Tip]
             /\ Mined(c, allowance[Tip] - n)
             /\ taken' = [taken EXCEPT ![c] = n]
             /\ UNCHANGED refused
          \/ /\ n > allowance[Tip]
             /\ flight' = Tail(flight)
             /\ receipt' = [receipt EXCEPT ![c] = "failed"]
             /\ refused' = refused \union {c}
             /\ UNCHANGED <<allowance, block, raced, taken>>
    BY <1>12 DEF MineUse
  <2>2. n \in Amounts /\ allowance[Tip] \in Amounts
    BY <1>0, TipFacts, AsksAmounts
  <2>3. CASE n <= allowance[Tip] /\ Mined(c, allowance[Tip] - n)
             /\ taken' = [taken EXCEPT ![c] = n] /\ UNCHANGED refused
    <3>1. allowance[Tip] - n \in Amounts
      BY <2>2, <2>3 DEF Amounts, ApprovalsAssumption
    <3>2. /\ allowance' \in Seq(Amounts) /\ Tip' = Tip + 1 /\ Tip + 1 \in Blocks'
          /\ Blocks \subseteq Blocks' /\ flight' \in Seq(Calls)
          /\ receipt' \in [Calls -> {"none", "failed", "ok"}]
          /\ block' \in [Calls -> Blocks' \union {0}]
          /\ raced' \subseteq Calls
      BY <1>0, <1>12, <2>3, <3>1, MinedTypes DEF MineUse
    <3>3. Tip' > 0
      BY <1>0, <3>2, TipFacts
    <3> QED
      BY <1>0, <2>0, <2>2, <2>3, <3>2, <3>3 DEF TypeOK
  <2>4. CASE /\ flight' = Tail(flight)
             /\ receipt' = [receipt EXCEPT ![c] = "failed"]
             /\ refused' = refused \union {c}
             /\ UNCHANGED <<allowance, block, raced, taken>>
    <3>1. flight' \in Seq(Calls)
      BY <1>0, <1>12, <2>4, HeadTailProperties DEF MineUse, TypeOK
    <3>2. c \in Uses
      BY <1>0, <1>12 DEF MineUse, OnlyFlowsSpend, Calls
    <3> QED
      BY <1>0, <1>1, <2>0, <2>4, <3>1, <3>2 DEF TypeOK
  <2> QED
    BY <2>1, <2>3, <2>4
<1>13. ASSUME Drop PROVE TypeOK'
  <2>1. flight' \in Seq(Calls)
    BY <1>0, <1>13, RemoveAtGap DEF Drop, TypeOK
  <2> QED
    BY <1>0, <1>1, <1>13, <2>1 DEF Drop, TypeOK
<1> QED
  BY <1>2, <1>3, <1>4, <1>5, <1>6, <1>7, <1>8, <1>9, <1>10, <1>11, <1>12, <1>13
     DEF Next, Thread

(* approve() and revoke_approval() only approve.                           *)
LEMMA OnlyFlowsSpendStep == IInv /\ Next => OnlyFlowsSpend'
<1> SUFFICES ASSUME IInv, Next PROVE OnlyFlowsSpend'
  OBVIOUS
<1>1. TypeOK /\ OnlyFlowsSpend
  BY DEF IInv
<1>2. Approvals \intersect Uses = {} /\ Approvals \subseteq Calls
  BY DEF ApprovalsAssumption, Calls
<1>3. ASSUME NEW c \in Calls, Thread(c) PROVE OnlyFlowsSpend'
  <2> USE <1>1, <1>2 DEF OnlyFlowsSpend, TypeOK, Goto, Return, threadVars
  <2>1. CASE Pin(c) \/ ReadAllowance(c) \/ Approve(c) \/ BeginSend(c)
    BY <2>1 DEF Pin, ReadAllowance, Approve, BeginSend
  <2>2. CASE FindStuck(c) \/ Broadcast(c) \/ EstimateReverts(c) \/ Receipt(c) \/ GiveUp(c)
    BY <2>2 DEF FindStuck, Broadcast, EstimateReverts, Receipt, GiveUp
  <2> QED
    BY <1>3, <2>1, <2>2 DEF Thread
<1>4. ASSUME UNCHANGED threadVars PROVE OnlyFlowsSpend'
  BY <1>1, <1>4 DEF OnlyFlowsSpend, threadVars
<1> QED
  BY <1>3, <1>4 DEF Next, MineApprove, MineUse, Drop

(* What was heard of is noted, and a read is pinned no earlier.            *)
LEMMA NotedStep == IInv /\ Next => AckNoted' /\ PinCovers'
<1> SUFFICES ASSUME IInv, Next PROVE AckNoted' /\ PinCovers'
  OBVIOUS
<1>1. TypeOK /\ OnlyFlowsSpend /\ AckNoted /\ PinCovers
  BY DEF IInv
<1> USE DEF Goto, Return, clientVars, threadVars, historyVars
<1>2. ASSUME NEW c \in Calls, Pin(c) PROVE AckNoted' /\ PinCovers'
  <2>1. PICK b \in FreshBlock : pin' = [pin EXCEPT ![c] = b]
    BY <1>2 DEF Pin
  <2>2. acked = 1 \/ acked <= b
    <3>1. acked \in Nat \ {0} /\ lastWrite \in Nat /\ b \in Nat
      BY <1>1, BlocksServed DEF TypeOK, Blocks
    <3>2. lastWrite = 0 \/ b >= lastWrite
      BY <1>1, PinnedLate
    <3> QED
      BY <1>1, <3>1, <3>2 DEF AckNoted
  <2>3. /\ heard' = [heard EXCEPT ![c] = acked] /\ heard \in [Calls -> Blocks]
        /\ pin \in [Calls -> Blocks \union {0}]
        /\ \A d \in Calls : d # c => pc'[d] = pc[d]
    BY <1>1, <1>2 DEF Pin, TypeOK
  <2>4. heard'[c] = acked /\ pin'[c] = b
    BY <2>1, <2>3
  <2>5. \A d \in Calls : d # c => heard'[d] = heard[d] /\ pin'[d] = pin[d]
    BY <2>1, <2>3
  <2>6. PinCovers'
    <3> SUFFICES ASSUME NEW d \in Uses, pc'[d] # "idle"
                 PROVE  heard'[d] = 1 \/ heard'[d] <= pin'[d]
      BY DEF PinCovers
    <3>1. CASE d = c
      BY <2>2, <2>4, <3>1
    <3>2. CASE d # c
      BY <1>1, <2>3, <2>5, <3>2 DEF PinCovers, Calls
    <3> QED
      BY <3>1, <3>2
  <2> QED
    BY <1>1, <1>2, <2>6 DEF Pin, AckNoted
<1>3. ASSUME NEW c \in Calls, Receipt(c) PROVE AckNoted' /\ PinCovers'
  <2>1. block[c] \in Nat /\ lastWrite \in Nat /\ acked \in Nat \ {0}
    BY <1>1 DEF TypeOK, Blocks
  <2>2. AckNoted'
    BY <1>1, <1>3, <2>1 DEF Receipt, AckNoted, NoteWrite, Larger
  <2>3. UNCHANGED <<heard, pin>> /\ \A d \in Calls : pc'[d] # "idle" => pc[d] # "idle"
    BY <1>1, <1>3 DEF Receipt, TypeOK
  <2>4. PinCovers'
    BY <1>1, <2>3 DEF PinCovers, Calls
  <2> QED
    BY <2>2, <2>4
<1>4. ASSUME NEW c \in Calls, Approve(c) PROVE AckNoted' /\ PinCovers'
  <2>1. c \notin Uses
    BY <1>4 DEF Approve, ApprovalsAssumption
  <2> QED
    BY <1>1, <1>4, <2>1 DEF Approve, AckNoted, PinCovers, TypeOK
<1>5. ASSUME NEW c \in Calls,
             ReadAllowance(c) \/ BeginSend(c) \/ FindStuck(c) \/ Broadcast(c) \/
             EstimateReverts(c) \/ GiveUp(c)
      PROVE  AckNoted' /\ PinCovers'
  <2>1. UNCHANGED <<lastWrite, acked, heard, pin>>
    BY <1>5 DEF ReadAllowance, BeginSend, FindStuck, Broadcast, EstimateReverts, GiveUp
  <2>2. \A d \in Calls : pc'[d] # "idle" => pc[d] # "idle"
    BY <1>1, <1>5 DEF ReadAllowance, BeginSend, FindStuck, Broadcast, EstimateReverts, GiveUp,
       TypeOK
  <2> QED
    BY <1>1, <2>1, <2>2 DEF AckNoted, PinCovers, Calls
<1>6. ASSUME UNCHANGED <<clientVars, threadVars, heard, acked>>
      PROVE  AckNoted' /\ PinCovers'
  BY <1>1, <1>6 DEF AckNoted, PinCovers
<1> QED
  BY <1>2, <1>3, <1>4, <1>5, <1>6 DEF Next, Thread, MineApprove, MineUse, Drop

(* Unmined transactions are of calls that wait or gave up.                 *)
LEMMA FlightSoundStep == IInv /\ Next => FlightSound'
<1> SUFFICES ASSUME IInv, Next PROVE FlightSound'
  OBVIOUS
<1>1. TypeOK /\ FlightSound /\ flight \in Seq(Calls) /\ Len(flight) \in Nat
  BY DEF IInv, TypeOK
<1>2. \A i \in 1..Len(flight) :
        flight[i] \in Calls /\ pc[flight[i]] \in {"waiting", "returned"}
        /\ receipt[flight[i]] = "none"
  BY <1>1 DEF FlightSound
<1>3. \A i, j \in 1..Len(flight) : flight[i] = flight[j] => i = j
  BY <1>1 DEF FlightSound
<1> USE DEF Goto, Return, nodeVars, threadVars
<1>4. ASSUME NEW c \in Calls,
             Pin(c) \/ ReadAllowance(c) \/ Approve(c) \/ BeginSend(c) \/ FindStuck(c) \/
             EstimateReverts(c) \/ GiveUp(c) \/ Receipt(c)
      PROVE  FlightSound'
  <2>1. UNCHANGED <<flight, receipt>> /\ \A d \in Calls : d # c => pc'[d] = pc[d]
    BY <1>1, <1>4 DEF Pin, ReadAllowance, Approve, BeginSend, FindStuck, EstimateReverts,
       GiveUp, Receipt, TypeOK
  <2>2. \/ pc[c] \notin {"waiting", "returned"}
        \/ receipt[c] # "none"
        \/ pc'[c] = "returned"
    BY <1>1, <1>4 DEF Pin, ReadAllowance, Approve, BeginSend, FindStuck, EstimateReverts,
       GiveUp, Receipt, TypeOK
  <2> QED
    BY <1>1, <1>2, <1>3, <2>1, <2>2 DEF FlightSound
<1>5. ASSUME NEW c \in Calls, Broadcast(c) PROVE FlightSound'
  <2>1. pc[c] = "sending" /\ pc' = [pc EXCEPT ![c] = "waiting"]
        /\ receipt' = [receipt EXCEPT ![c] = "none"] /\ flight' = Append(flight, c)
    BY <1>5 DEF Broadcast
  <2>2. \A i \in 1..Len(flight) : flight[i] # c
    BY <1>2, <2>1
  <2>3. /\ Len(flight') = Len(flight) + 1 /\ flight' \in Seq(Calls)
        /\ \A i \in 1..Len(flight') : flight'[i] = IF i <= Len(flight) THEN flight[i] ELSE c
    BY <1>1, <2>1, AppendProperties
  <2>4. /\ pc'[c] = "waiting" /\ receipt'[c] = "none"
        /\ \A d \in Calls : d # c => pc'[d] = pc[d] /\ receipt'[d] = receipt[d]
    BY <1>1, <2>1 DEF TypeOK
  <2> QED
    BY <1>1, <1>2, <1>3, <2>2, <2>3, <2>4 DEF FlightSound
<1>6. ASSUME NEW c \in Calls, MineApprove(c) \/ MineUse(c) PROVE FlightSound'
  <2>1. /\ flight # <<>> /\ Head(flight) = c /\ flight' = Tail(flight)
        /\ \A d \in Calls : d # c => receipt'[d] = receipt[d]
        /\ pc' = pc
    BY <1>1, <1>6 DEF MineApprove, MineUse, Mined, TypeOK
  <2>2. /\ Len(flight') = Len(flight) - 1 /\ flight' \in Seq(Calls) /\ flight[1] = c
        /\ \A i \in 1..Len(flight') : flight'[i] = flight[i+1]
    BY <1>1, <2>1, HeadTailProperties
  <2>3. \A i \in 1..Len(flight') : flight'[i] # c
    BY <1>1, <1>3, <2>2
  <2> QED
    BY <1>1, <1>2, <1>3, <2>1, <2>2, <2>3 DEF FlightSound
<1>7. ASSUME Drop PROVE FlightSound'
  <2>1. PICK k \in 1..Len(flight) : flight' = RemoveAt(flight, k)
    BY <1>1, <1>7 DEF Drop
  <2>2. flight' \in Seq(Calls)
    BY <1>1, <2>1, RemoveAtGap
  <2>3. /\ \A i \in 1..Len(flight') : \E m \in 1..Len(flight) : flight'[i] = flight[m]
        /\ \A i, j \in 1..Len(flight') : flight'[i] = flight'[j] => i = j
    <3> DEFINE r == RemoveAt(flight, k)
    <3>1. /\ \A i \in 1..Len(r) : \E m \in 1..Len(flight) : r[i] = flight[m]
          /\ \A i, j \in 1..Len(r) : r[i] = r[j] => i = j
      BY <1>1, <1>3, RemoveAtDistinct
    <3> QED
      BY <2>1, <3>1
  <2>4. UNCHANGED <<pc, receipt>>
    BY <1>7 DEF Drop
  <2> QED
    BY <1>2, <2>2, <2>3, <2>4 DEF FlightSound
<1> QED
  BY <1>4, <1>5, <1>6, <1>7 DEF Next, Thread

(* Once the next transaction is mined, a flow on its way is either its     *)
(* caller or has been overtaken.                                           *)
LEMMA OthersRaced ==
  ASSUME TypeOK, NEW c \in Calls, NEW v \in Amounts, Mined(c, v),
         flight # <<>>, Head(flight) = c, UNCHANGED threadVars,
         NEW d \in Calls, d # c, d \notin raced'
  PROVE  ~OnTheWay(d)'
<1>1. d \notin Range(flight')
  BY DEF Mined
<1>2. ~ \E i \in DOMAIN flight' : flight'[i] = d
  BY <1>1 DEF Range
<1>3. pc'[d] \notin {"ready", "sending", "waiting"}
  BY DEF Mined, threadVars
<1> QED
  BY <1>2, <1>3 DEF OnTheWay

(* The allowance of an undisturbed flow fits until it is used: a step that *)
(* leaves the allowance alone puts no flow on its way but one that has     *)
(* just read it, and one that changes it was sent by the flow itself or    *)
(* overtakes it.                                                           *)
LEMMA FitsUntilUsedStep == IInv /\ Next => FitsUntilUsed'
<1> SUFFICES ASSUME IInv, Next,
                    NEW d \in Uses, d \notin stale', d \notin raced', OnTheWay(d)'
             PROVE  Suffices(d, allowance[Tip])'
  BY DEF FitsUntilUsed
<1>1. /\ TypeOK /\ FlightSound /\ FitsUntilUsed
      /\ flight \in Seq(Calls) /\ Len(flight) \in Nat /\ d \in Calls
  BY DEF IInv, TypeOK, Calls
<1>2. \A i \in 1..Len(flight) : pc[flight[i]] \in {"waiting", "returned"}
  BY <1>1 DEF FlightSound
<1>3. ASSUME UNCHANGED <<allowance, fixedVars>>, d \notin stale, d \notin raced, OnTheWay(d)
      PROVE  Suffices(d, allowance[Tip])'
  BY <1>1, <1>3 DEF FitsUntilUsed, Suffices, Tip, fixedVars
<1> USE DEF Goto, Return, nodeVars, historyVars
<1>4. ASSUME NEW c \in Calls,
             Pin(c) \/ Approve(c) \/ BeginSend(c) \/ FindStuck(c) \/ EstimateReverts(c) \/
             GiveUp(c)
      PROVE  Suffices(d, allowance[Tip])'
  <2>1. /\ UNCHANGED <<allowance, fixedVars, stale, raced, step, flight, receipt>>
    BY <1>4 DEF Pin, Approve, BeginSend, FindStuck, EstimateReverts, GiveUp
  <2>2. /\ pc'[d] \in {"ready", "sending"} => pc[d] \in {"ready", "sending"} \/ d \in Approvals
        /\ pc'[d] = "waiting" => pc[d] = "waiting"
    BY <1>1, <1>4 DEF Pin, Approve, BeginSend, FindStuck, EstimateReverts, GiveUp, TypeOK
  <2>3. OnTheWay(d)
    BY <2>1, <2>2, ApprovalsAssumption DEF OnTheWay, ApprovalsAssumption
  <2> QED
    BY <1>3, <2>1, <2>3
<1>5. ASSUME NEW c \in Calls, ReadAllowance(c) PROVE Suffices(d, allowance[Tip])'
  <2>1. /\ UNCHANGED <<allowance, fixedVars, raced, flight, receipt>>
        /\ pc[c] = "pinned" /\ pc' = [pc EXCEPT ![c] = "ready"]
    BY <1>5 DEF ReadAllowance
  <2>2. PICK b \in Served(pin[c]) :
          /\ stale' = IF b = Tip THEN stale ELSE stale \union {c}
          /\ step' = [step EXCEPT ![c] = IF Suffices(c, allowance[b]) THEN "use" ELSE "approve"]
    BY <1>5 DEF ReadAllowance
  <2>3. CASE d = c
    <3>1. b = Tip
      BY <2>2, <2>3
    <3>2. ~ \E i \in DOMAIN flight : flight[i] = c
      BY <1>1, <1>2, <2>1
    <3>3. step'[c] = "use"
      BY <1>1, <2>1, <2>3, <3>2 DEF OnTheWay, TypeOK
    <3>4. Suffices(c, allowance[Tip])
      BY <1>1, <2>2, <3>1, <3>3 DEF TypeOK
    <3> QED
      BY <2>1, <2>3, <3>4 DEF Suffices, Tip, fixedVars
  <2>4. CASE d # c
    <3>1. pc'[d] = pc[d] /\ step'[d] = step[d] /\ d \notin stale
      BY <1>1, <2>1, <2>2, <2>4 DEF TypeOK
    <3>2. OnTheWay(d)
      BY <2>1, <3>1 DEF OnTheWay
    <3> QED
      BY <1>3, <2>1, <3>1, <3>2
  <2> QED
    BY <2>3, <2>4
<1>6. ASSUME NEW c \in Calls, Broadcast(c) PROVE Suffices(d, allowance[Tip])'
  <2>1. /\ UNCHANGED <<allowance, fixedVars, stale, raced, step>>
        /\ pc[c] = "sending" /\ pc' = [pc EXCEPT ![c] = "waiting"]
        /\ receipt' = [receipt EXCEPT ![c] = "none"] /\ flight' = Append(flight, c)
    BY <1>6 DEF Broadcast
  <2>2. /\ Len(flight') = Len(flight) + 1 /\ flight' \in Seq(Calls)
        /\ \A i \in 1..Len(flight') : flight'[i] = IF i <= Len(flight) THEN flight[i] ELSE c
    BY <1>1, <2>1, AppendProperties
  <2>3. d # c => /\ pc'[d] = pc[d] /\ receipt'[d] = receipt[d]
                 /\ \A i \in DOMAIN flight' : flight'[i] = d => i \in DOMAIN flight /\ flight[i] = d
    BY <1>1, <2>1, <2>2 DEF TypeOK
  <2>4. pc'[c] = "waiting" /\ receipt'[c] = "none"
    BY <1>1, <2>1 DEF TypeOK
  <2>5. OnTheWay(d)
    BY <2>1, <2>3, <2>4 DEF OnTheWay
  <2> QED
    BY <1>3, <2>1, <2>5
<1>7. ASSUME NEW c \in Calls, Receipt(c) PROVE Suffices(d, allowance[Tip])'
  <2>1. /\ UNCHANGED <<allowance, fixedVars, stale, raced, flight, receipt>>
        /\ pc[c] = "waiting" /\ receipt[c] # "none"
    BY <1>7 DEF Receipt
  <2>2. d # c => pc'[d] = pc[d] /\ step'[d] = step[d]
    BY <1>1, <1>7 DEF Receipt, TypeOK
  <2>3. d = c => \/ step'[d] = step[d] /\ pc'[d] = "returned"
                 \/ step[d] = "approve" /\ receipt[d] = "ok"
    BY <1>1, <1>7 DEF Receipt, TypeOK
  <2>4. OnTheWay(d)
    BY <2>1, <2>2, <2>3 DEF OnTheWay
  <2> QED
    BY <1>3, <2>1, <2>4
<1>8. ASSUME NEW c \in Calls, MineApprove(c) PROVE Suffices(d, allowance[Tip])'
  <2>1. /\ flight # <<>> /\ Head(flight) = c /\ Mined(c, amount[c]) /\ amount[c] \in Amounts
        /\ UNCHANGED threadVars /\ UNCHANGED fixedVars
    BY <1>1, <1>8 DEF MineApprove, TypeOK
  <2>2. d = c
    BY <1>1, <2>1, OthersRaced
  <2>3. (allowance[Tip])' = amount[c]
    BY <1>1, <2>1, MinedTypes
  <2>4. amount[c] \in Nat
    BY <2>1 DEF Amounts
  <2> QED
    BY <2>1, <2>2, <2>3, <2>4 DEF Suffices, fixedVars
<1>9. ASSUME NEW c \in Calls, MineUse(c) PROVE Suffices(d, allowance[Tip])'
  <2>1. /\ flight # <<>> /\ Head(flight) = c /\ step[c] = "use" /\ flight' = Tail(flight)
        /\ UNCHANGED <<fixedVars, stale>> /\ UNCHANGED threadVars
    BY <1>9 DEF MineUse, Mined
  <2>2. /\ Len(flight') = Len(flight) - 1 /\ flight' \in Seq(Calls)
        /\ Len(flight) > 0 /\ flight[1] = c
        /\ \A i \in 1..Len(flight') : flight'[i] = flight[i+1]
    BY <1>1, <2>1, HeadTailProperties
  <2>3. CASE \E v \in Amounts : Mined(c, v)
    <3>1. d = c
      BY <1>1, <2>1, <2>3, OthersRaced
    <3>2. ~ \E i \in DOMAIN flight' : flight'[i] = c
      BY <1>1, <2>2 DEF FlightSound
    <3>3. pc[c] \notin {"ready", "sending"}
      BY <1>2, <2>2
    <3> QED
      BY <2>1, <3>1, <3>2, <3>3 DEF OnTheWay, threadVars
  <2>4. CASE UNCHANGED <<allowance, raced>> /\ receipt' = [receipt EXCEPT ![c] = "failed"]
    <3>1. d # c => receipt'[d] = receipt[d]
      BY <1>1, <2>4 DEF TypeOK
    <3>2. \A i \in DOMAIN flight' : \E j \in DOMAIN flight : flight'[i] = flight[j]
      BY <1>1, <2>2
    <3>3. OnTheWay(d)
      BY <1>1, <2>1, <2>2, <3>1, <3>2 DEF OnTheWay, threadVars
    <3> QED
      BY <1>3, <2>1, <2>4, <3>3
  <2>5. ASSUME NEW n \in Asks(c), n <= allowance[Tip] PROVE allowance[Tip] - n \in Amounts
    <3>1. n \in Amounts /\ allowance[Tip] \in Amounts
      BY <1>1, TipFacts, AsksAmounts
    <3> QED
      BY <2>5, <3>1 DEF Amounts, ApprovalsAssumption
  <2> QED
    BY <1>9, <2>3, <2>4, <2>5 DEF MineUse
<1>10. ASSUME Drop PROVE Suffices(d, allowance[Tip])'
  <2>1. PICK k \in 1..Len(flight) : flight' = RemoveAt(flight, k)
    BY <1>1, <1>10 DEF Drop
  <2>2. flight' \in Seq(Calls)
    BY <1>1, <2>1, RemoveAtGap
  <2>3. \A i \in 1..Len(flight') : \E m \in 1..Len(flight) : flight'[i] = flight[m]
    <3> DEFINE r == RemoveAt(flight, k)
    <3>1. \A i, j \in 1..Len(flight) : flight[i] = flight[j] => i = j
      BY <1>1 DEF FlightSound
    <3>2. \A i \in 1..Len(r) : \E m \in 1..Len(flight) : r[i] = flight[m]
      BY <1>1, <3>1, RemoveAtDistinct
    <3> QED
      BY <2>1, <3>2
  <2>4. UNCHANGED <<allowance, fixedVars, stale, raced, step, pc, receipt>>
    BY <1>10 DEF Drop, threadVars
  <2>5. OnTheWay(d)
    BY <1>1, <2>2, <2>3, <2>4 DEF OnTheWay
  <2> QED
    BY <1>3, <2>4, <2>5
<1> QED
  BY <1>4, <1>5, <1>6, <1>7, <1>8, <1>9, <1>10 DEF Next, Thread

(* The spender takes no more than the cap, and is not refused what it was  *)
(* approved: MineUse finds an allowance that fits.                         *)
LEMMA SpendingStep == IInv /\ Next => CapKept' /\ NeededApproveSent'
<1> SUFFICES ASSUME IInv, Next PROVE CapKept' /\ NeededApproveSent'
  OBVIOUS
<1>1. /\ TypeOK /\ FitsUntilUsed /\ CapKept /\ NeededApproveSent
      /\ flight \in Seq(Calls) /\ Len(flight) \in Nat
  BY DEF IInv, TypeOK
<1>2. ASSUME UNCHANGED <<fixedVars, raced, taken, refused>>, stale \subseteq stale'
      PROVE  CapKept' /\ NeededApproveSent'
  BY <1>1, <1>2 DEF CapKept, NeededApproveSent, fixedVars
<1>3. ASSUME NEW c \in Calls, Thread(c) PROVE CapKept' /\ NeededApproveSent'
  <2>1. UNCHANGED <<fixedVars, raced, taken, refused>> /\ stale \subseteq stale'
    BY <1>3 DEF Thread, Pin, ReadAllowance, Approve, BeginSend, FindStuck, Broadcast,
       EstimateReverts, Receipt, GiveUp, historyVars
  <2> QED
    BY <1>2, <2>1
<1>4. ASSUME NEW c \in Calls, MineApprove(c) PROVE CapKept' /\ NeededApproveSent'
  <2>1. UNCHANGED <<fixedVars, stale, taken, refused>> /\ raced \subseteq raced'
    BY <1>4 DEF MineApprove, Mined
  <2> QED
    BY <1>1, <2>1 DEF CapKept, NeededApproveSent, fixedVars
<1>5. ASSUME NEW c \in Calls, MineUse(c) PROVE CapKept' /\ NeededApproveSent'
  <2>1. /\ flight # <<>> /\ Head(flight) = c /\ step[c] = "use"
        /\ UNCHANGED <<fixedVars, stale>>
    BY <1>5 DEF MineUse
  <2>2. PICK n \in Asks(c) :
          \/ /\ n <= allowance[Tip]
             /\ Mined(c, allowance[Tip] - n)
             /\ taken' = [taken EXCEPT ![c] = n]
             /\ UNCHANGED refused
          \/ /\ n > allowance[Tip]
             /\ refused' = refused \union {c}
             /\ UNCHANGED <<raced, taken>>
    BY <1>5 DEF MineUse
  <2>3. /\ n \in Nat /\ amount[c] \in Nat /\ allowance[Tip] \in Nat
        /\ spender # "pool" => n <= amount[c]
    BY <1>1, TipFacts DEF Asks, Bounded, Amounts, TypeOK, ApprovalsAssumption
  <2>4. c \in Uses \ (stale \union raced) => Suffices(c, allowance[Tip])
    <3>1. 1 \in DOMAIN flight /\ flight[1] = c
      BY <1>1, <2>1, HeadTailProperties
    <3>2. OnTheWay(c)
      BY <2>1, <3>1 DEF OnTheWay
    <3> QED
      BY <1>1, <3>2 DEF FitsUntilUsed
  <2>5. CASE /\ n <= allowance[Tip] /\ Mined(c, allowance[Tip] - n)
             /\ taken' = [taken EXCEPT ![c] = n] /\ UNCHANGED refused
    <3>1. raced \subseteq raced'
      BY <2>5 DEF Mined
    <3>2. c \in Uses \ (stale \union raced) => n <= amount[c]
      BY <2>3, <2>4, <2>5 DEF Suffices
    <3>3. taken'[c] = n /\ \A d \in Calls : d # c => taken'[d] = taken[d]
      BY <1>1, <2>5 DEF TypeOK
    <3>4. CapKept'
      BY <1>1, <2>1, <3>1, <3>2, <3>3 DEF CapKept, Calls, fixedVars
    <3> QED
      BY <1>1, <2>1, <2>5, <3>1, <3>4 DEF NeededApproveSent, fixedVars
  <2>6. CASE /\ n > allowance[Tip] /\ refused' = refused \union {c}
             /\ UNCHANGED <<raced, taken>>
    <3>1. spender # "pool" /\ c \in Uses => c \in stale \union raced
      BY <2>3, <2>4, <2>6 DEF Suffices
    <3>2. c \in Uses
      BY <2>1 DEF IInv, OnlyFlowsSpend, Calls
    <3> QED
      BY <1>1, <2>1, <2>6, <3>1, <3>2 DEF CapKept, NeededApproveSent, fixedVars
  <2> QED
    BY <2>2, <2>5, <2>6
<1>6. ASSUME Drop PROVE CapKept' /\ NeededApproveSent'
  BY <1>2, <1>6 DEF Drop, historyVars
<1> QED
  BY <1>3, <1>4, <1>5, <1>6 DEF Next

-----------------------------------------------------------------------------
(* The theorems.                                                           *)

(* The inductive invariant of Approvals holds in every reachable state,    *)
(* whatever the flows, the amounts and the lag of the replicas.            *)
THEOREM Invariance == Spec => []IInv
<1>1. Init => IInv
  BY InitIInv
<1>2. IInv /\ [Next]_vars => IInv'
  <2> SUFFICES ASSUME IInv, [Next]_vars PROVE IInv'
    OBVIOUS
  <2>1. CASE Next
    BY <2>1, TypeOKStep, OnlyFlowsSpendStep, NotedStep, FlightSoundStep, FitsUntilUsedStep,
       SpendingStep DEF IInv
  <2>2. CASE UNCHANGED vars
    <3> USE <2>2 DEF vars, fixedVars, nodeVars, clientVars, threadVars, historyVars
    <3>1. TypeOK'
      BY DEF IInv, TypeOK, Blocks, Tip
    <3>2. OnlyFlowsSpend' /\ AckNoted' /\ PinCovers' /\ FlightSound'
      BY DEF IInv, OnlyFlowsSpend, AckNoted, PinCovers, FlightSound
    <3>3. FitsUntilUsed'
      BY DEF IInv, FitsUntilUsed, OnTheWay, Suffices, Tip
    <3>4. CapKept' /\ NeededApproveSent'
      BY DEF IInv, CapKept, NeededApproveSent
    <3> QED
      BY <3>1, <3>2, <3>3, <3>4 DEF IInv
  <2> QED
    BY <2>1, <2>2
<1> QED
  BY <1>1, <1>2, PTL DEF Spec

(* Every variable of Approvals keeps its type.                             *)
THEOREM TypeCorrect == Spec => []TypeOK
<1>1. IInv => TypeOK
  BY DEF IInv
<1> QED
  BY <1>1, Invariance, PTL

(* A read that is served from the block it was pinned to, or a later one,  *)
(* reflects every write whose receipt any thread had seen (_note_write,    *)
(* _fresh_block).                                                          *)
THEOREM ReadsAreFresh == Spec => []ReadsHeardWrites
<1>1. IInv => ReadsHeardWrites
  <2> SUFFICES ASSUME IInv, NEW c \in Uses, pc[c] \notin {"idle", "pinned"},
                      saw[c] >= pin[c]
               PROVE  saw[c] >= heard[c]
    BY DEF ReadsHeardWrites
  <2>1. saw[c] \in Nat \ {0} /\ heard[c] \in Nat /\ pin[c] \in Nat
    BY DEF IInv, TypeOK, Blocks, Calls
  <2>2. heard[c] = 1 \/ heard[c] <= pin[c]
    BY DEF IInv, PinCovers
  <2> QED
    BY <2>1, <2>2
<1> QED
  BY <1>1, Invariance, PTL

(* An add to a pool that enforces no bounds takes no more than its cap,    *)
(* when its read missed nothing of ours and nothing of ours overtook it    *)
(* (_set_allowance).                                                       *)
THEOREM CapsAreKept == Spec => []CapKept
<1>1. IInv => CapKept
  BY DEF IInv
<1> QED
  BY <1>1, Invariance, PTL

(* Under the same conditions the router, the position manager and a pool   *)
(* with bounds are never refused the token: no needed approve is skipped   *)
(* (_approve_if_insufficient, _set_allowance).                             *)
THEOREM NeededApprovesAreSent == Spec => []NeededApproveSent
<1>1. IInv => NeededApproveSent
  BY DEF IInv
<1> QED
  BY <1>1, Invariance, PTL
=============================================================================
