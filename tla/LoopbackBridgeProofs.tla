------------------------ MODULE LoopbackBridgeProofs ------------------------
(***************************************************************************)
(* The loopback bridge is correct for every number of calls and pages: the *)
(* inductive invariant IInv of LoopbackBridge, and what follows from it.   *)
(***************************************************************************)
EXTENDS LoopbackBridge, SequenceTheorems, NaturalsInduction, WellFoundedInduction, TLAPS

USE BridgeAssumption

-----------------------------------------------------------------------------
(* Facts about the queue's operators.                                      *)

(* The library's order on the naturals is <.                               *)
LEMMA OpToRelLess == \A m, n \in Nat : <<n, m>> \in OpToRel(<, Nat) <=> n < m
BY Zenon DEF OpToRel

(* A nonempty set of naturals has the minimum that Min chooses.            *)
LEMMA MinOfNaturals ==
  ASSUME NEW S \in SUBSET Nat, S # {}
  PROVE  Min(S) \in S /\ \A n \in S : Min(S) <= n
<1>1. IsWellFoundedOn(OpToRel(<, Nat), Nat)
  BY NatLessThanWellFounded
<1>2. PICK m \in S : \A n \in S : ~ (<<n, m>> \in OpToRel(<, Nat))
  BY <1>1, WFMin
<1>3. \A n \in S : m <= n
  <2>1. \A n \in S : ~ (n < m)
    BY <1>2, OpToRelLess
  <2> QED
    BY <2>1
<1> QED
  BY <1>3 DEF Min

(* Removing an element that occurs takes out one of its occurrences and    *)
(* closes the gap; removing another changes nothing.                       *)
LEMMA RemoveFirstRemoves ==
  ASSUME NEW S, NEW q \in Seq(S), NEW e
  PROVE  \/ /\ RemoveFirst(q, e) = q
            /\ \A i \in 1..Len(q) : q[i] # e
         \/ \E k \in 1..Len(q) :
              /\ q[k] = e
              /\ RemoveFirst(q, e) \in Seq(S)
              /\ Len(RemoveFirst(q, e)) = Len(q) - 1
              /\ \A i \in 1..(Len(q) - 1) :
                   RemoveFirst(q, e)[i] = IF i < k THEN q[i] ELSE q[i+1]
<1>1. CASE \A i \in 1..Len(q) : q[i] # e
  BY <1>1 DEF RemoveFirst
<1>2. CASE \E i \in 1..Len(q) : q[i] = e
  <2> DEFINE I == {i \in 1..Len(q) : q[i] = e}
             k == Min(I)
             front == SubSeq(q, 1, k-1)
             back == SubSeq(q, k+1, Len(q))
  <2>1. I # {} /\ I \in SUBSET Nat
    BY <1>2
  <2>2. k \in 1..Len(q) /\ q[k] = e
    BY <2>1, MinOfNaturals
  <2>3. RemoveFirst(q, e) = front \o back
    BY <1>2, <2>1 DEF RemoveFirst, RemoveAt, SelectInSeq
  <2>4. Len(q) \in Nat /\ k \in Nat
    BY <2>2
  <2> HIDE DEF k
  <2>5. /\ front \in Seq(S)
        /\ Len(front) = k - 1
        /\ \A i \in 1..(k-1) : front[i] = q[i]
    <3>1. \A i \in 1..(k-1) : q[i] \in S
      BY <2>2, <2>4
    <3> QED
      BY <2>2, <2>4, <3>1, SubSeqProperties
  <2>6. /\ back \in Seq(S)
        /\ Len(back) = Len(q) - k
        /\ \A i \in 1..(Len(q)-k) : back[i] = q[k+i]
    <3>1. \A i \in (k+1)..Len(q) : q[i] \in S
      BY <2>2, <2>4
    <3> QED
      BY <2>2, <2>4, <3>1, SubSeqProperties
  <2> HIDE DEF front, back
  <2>7. /\ front \o back \in Seq(S)
        /\ Len(front \o back) = Len(q) - 1
        /\ \A i \in 1..(Len(q)-1) :
             (front \o back)[i] = IF i <= k-1 THEN front[i] ELSE back[i-(k-1)]
    <3>1. Len(front) + Len(back) = Len(q) - 1
      BY <2>2, <2>4, <2>5, <2>6
    <3>2. \A i \in 1..(Len(front) + Len(back)) :
            (front \o back)[i] = IF i <= Len(front) THEN front[i] ELSE back[i - Len(front)]
      BY <2>5, <2>6, ConcatProperties, Zenon
    <3>3. front \o back \in Seq(S) /\ Len(front \o back) = Len(front) + Len(back)
      BY <2>5, <2>6, ConcatProperties, Zenon
    <3> QED
      BY <2>5, <3>1, <3>2, <3>3
  <2>8. \A i \in 1..(Len(q) - 1) : (front \o back)[i] = IF i < k THEN q[i] ELSE q[i+1]
    BY <2>2, <2>4, <2>5, <2>6, <2>7
  <2> QED
    BY <2>2, <2>3, <2>7, <2>8
<1> QED
  BY <1>1, <1>2

(* Removed from a sequence without duplicates, an element is gone, the     *)
(* others stay, and no duplicate appears.                                  *)
LEMMA RemoveFirstFromDistinct ==
  ASSUME NEW S, NEW q \in Seq(S), NEW e,
         \A i, j \in 1..Len(q) : q[i] = q[j] => i = j
  PROVE  /\ RemoveFirst(q, e) \in Seq(S)
         /\ \A i \in 1..Len(RemoveFirst(q, e)) :
              /\ RemoveFirst(q, e)[i] # e
              /\ \E m \in 1..Len(q) : RemoveFirst(q, e)[i] = q[m]
         /\ \A i, j \in 1..Len(RemoveFirst(q, e)) :
              RemoveFirst(q, e)[i] = RemoveFirst(q, e)[j] => i = j
<1> DEFINE r == RemoveFirst(q, e)
<1>1. CASE r = q /\ \A i \in 1..Len(q) : q[i] # e
  BY <1>1
<1>2. ASSUME NEW k \in 1..Len(q), q[k] = e, r \in Seq(S), Len(r) = Len(q) - 1,
             \A i \in 1..(Len(q) - 1) : r[i] = IF i < k THEN q[i] ELSE q[i+1]
      PROVE  /\ \A i \in 1..Len(r) : r[i] # e /\ \E m \in 1..Len(q) : r[i] = q[m]
             /\ \A i, j \in 1..Len(r) : r[i] = r[j] => i = j
  <2> DEFINE from(i) == IF i < k THEN i ELSE i+1
  <2>1. Len(q) \in Nat
    OBVIOUS
  <2>2. \A i \in 1..Len(r) : from(i) \in 1..Len(q) /\ from(i) # k /\ r[i] = q[from(i)]
    BY <1>2, <2>1
  <2>3. \A i, j \in 1..Len(r) : from(i) = from(j) => i = j
    BY <2>1
  <2> HIDE DEF from, r
  <2>4. \A i \in 1..Len(r) : r[i] # e /\ \E m \in 1..Len(q) : r[i] = q[m]
    BY <1>2, <2>2
  <2>5. \A i, j \in 1..Len(r) : r[i] = r[j] => i = j
    BY <2>2, <2>3
  <2> QED
    BY <2>4, <2>5
<1> HIDE DEF r
<1>3. \/ r = q /\ \A i \in 1..Len(q) : q[i] # e
      \/ \E k \in 1..Len(q) :
           /\ q[k] = e /\ r \in Seq(S) /\ Len(r) = Len(q) - 1
           /\ \A i \in 1..(Len(q) - 1) : r[i] = IF i < k THEN q[i] ELSE q[i+1]
  BY RemoveFirstRemoves DEF r
<1> QED
  BY <1>1, <1>2, <1>3 DEF r

-----------------------------------------------------------------------------
(* What request() tells its caller fits what the pages and the wallet did. *)
LEMMA VerdictFacts ==
  ASSUME TypeOK, NEW c \in Calls
  PROVE  /\ Verdict(c) \in Outcomes \ {"none"}
         /\ Verdict(c) \in NothingSent => ~dispatched[c]
         /\ Verdict(c) = "value" => result[c] = "value"
         /\ Verdict(c) = "walletError" => result[c] = "error"
         /\ LeftBehind(c) => Verdict(c) \in {"signerClosed", "closedSent", "timeoutSent"}
BY DEF TypeOK, Verdict, Outcomes, NothingSent, MayComplete, LeftBehind, Done, Answers

-----------------------------------------------------------------------------
(* Every step keeps each part of the inductive invariant.                  *)

(* No step leaves the types: what a page holds while it is holding is a    *)
(* call (OneHolder), so the tables only ever collect calls.                *)
LEMMA TypeStep == IInv /\ Next => TypeOK'
<1> SUFFICES ASSUME IInv, Next PROVE TypeOK'
  OBVIOUS
<1>h. \A t \in Tabs : Holding(t) => job[t] \in Calls
  BY DEF IInv, OneHolder
<1> USE DEF IInv, TypeOK, CallStates, TabStates, Goto, GotoTab, bridgeVars,
       callVars, tabVars, historyVars
<1>1. ASSUME NEW c \in Calls, Begin(c) PROVE TypeOK'
  BY <1>1 DEF Begin, Outcomes, NothingSent
<1>2. ASSUME NEW c \in Calls, Enqueue(c) PROVE TypeOK'
  BY <1>2, AppendProperties DEF Enqueue
<1>3. ASSUME NEW c \in Calls, OpenPage(c) PROVE TypeOK'
  BY <1>3 DEF OpenPage
<1>4. ASSUME NEW c \in Calls, Reopen(c) PROVE TypeOK'
  BY <1>4 DEF Reopen
<1>5. ASSUME NEW c \in Calls, Wake(c) PROVE TypeOK'
  BY <1>5 DEF Wake
<1>6. ASSUME NEW c \in Calls, GiveUp(c) PROVE TypeOK'
  BY <1>6 DEF GiveUp
<1>7. ASSUME NEW c \in Calls, NoticeCancel(c) PROVE TypeOK'
  BY <1>7 DEF NoticeCancel
<1>8. ASSUME NEW c \in Calls, Finish(c) PROVE TypeOK'
  BY <1>8, VerdictFacts, RemoveFirstRemoves DEF Finish, Without, LeftBehind,
         Done, JobsTable
<1>9. ASSUME NEW c \in Calls, Cancel(c) PROVE TypeOK'
  BY <1>9 DEF Cancel
<1>10. ASSUME NEW t \in Tabs, LoadPage(t) PROVE TypeOK'
  BY <1>10 DEF LoadPage
<1>11. ASSUME NEW t \in Tabs, CloseTab(t) PROVE TypeOK'
  BY <1>11 DEF CloseTab
<1>12. ASSUME NEW t \in Tabs, AskNext(t) PROVE TypeOK'
  BY <1>12 DEF AskNext
<1>13. ASSUME NEW t \in Tabs, Discard(t) PROVE TypeOK'
  BY <1>13, HeadTailProperties DEF Discard, Popped
<1>14. ASSUME NEW t \in Tabs, Dispatch(t) PROVE TypeOK'
  BY <1>14, HeadTailProperties DEF Dispatch, Popped
<1>15. ASSUME NEW t \in Tabs, PollEmpty(t) PROVE TypeOK'
  BY <1>15 DEF PollEmpty, AfterEmptyPoll
<1>16. ASSUME NEW t \in Tabs, Deliver(t) PROVE TypeOK'
  BY <1>16, <1>h DEF Deliver, Holding, OnTheWay
<1>17. ASSUME NEW t \in Tabs, DeliverToNobody(t) PROVE TypeOK'
  BY <1>17 DEF DeliverToNobody
<1>18. ASSUME NEW t \in Tabs, Requeue(t) PROVE TypeOK'
  <2>1. job[t] \in Calls
    BY <1>h, <1>18 DEF Requeue, Holding, OnTheWay
  <2>2. <<job[t]>> \o queue \in Seq(Calls)
    BY <2>1, ConcatProperties
  <2> QED
    BY <1>18, <2>1, <2>2 DEF Requeue, Cons
<1>19. ASSUME NEW t \in Tabs, TakeLate(t) PROVE TypeOK'
  BY <1>19 DEF TakeLate
<1>20. ASSUME NEW t \in Tabs, Resolve(t) PROVE TypeOK'
  BY <1>20, <1>h DEF Resolve, Holding, Answering
<1>21. ASSUME NEW t \in Tabs, AckLate(t) PROVE TypeOK'
  BY <1>21, <1>h DEF AckLate, Holding, Answering
<1>22. ASSUME NEW t \in Tabs, NEW a \in {"value", "error"}, WalletAnswers(t, a)
      PROVE  TypeOK'
  BY <1>22 DEF WalletAnswers, Answers
<1>23. ASSUME Close PROVE TypeOK'
  BY <1>23 DEF Close, LateAfterClose, Done
<1>24. ASSUME GracePasses PROVE TypeOK'
  BY <1>24 DEF GracePasses
<1> HIDE DEF IInv, TypeOK
<1> QED
  BY <1>1, <1>2, <1>3, <1>4, <1>5, <1>6, <1>7, <1>8, <1>9, <1>10, <1>11,
     <1>12, <1>13, <1>14, <1>15, <1>16, <1>17, <1>18, <1>19, <1>20, <1>21,
     <1>22, <1>23, <1>24
     DEF Next, Caller, Handler, Page

(* A call enters _jobs in its first critical section and leaves in its     *)
(* last; nothing dispatches a call that is not in the queue.               *)
LEMMA JobsTableStep == IInv /\ Next => JobsTable'
<1> SUFFICES ASSUME IInv, Next PROVE JobsTable'
  OBVIOUS
<1> USE DEF IInv, TypeOK, JobsTable, Goto, GotoTab, bridgeVars, callVars,
       tabVars, historyVars
<1>1. ASSUME NEW c \in Calls, Cancel(c) PROVE JobsTable'
  BY <1>1 DEF Cancel
<1>2. ASSUME NEW c \in Calls, Begin(c) PROVE JobsTable'
  BY <1>2 DEF Begin
<1>3. ASSUME NEW c \in Calls, Enqueue(c) PROVE JobsTable'
  BY <1>3 DEF Enqueue
<1>4. ASSUME NEW c \in Calls, OpenPage(c) PROVE JobsTable'
  BY <1>4 DEF OpenPage
<1>5. ASSUME NEW c \in Calls, Reopen(c) PROVE JobsTable'
  BY <1>5 DEF Reopen
<1>6. ASSUME NEW c \in Calls, Wake(c) PROVE JobsTable'
  BY <1>6 DEF Wake
<1>7. ASSUME NEW c \in Calls, GiveUp(c) PROVE JobsTable'
  BY <1>7 DEF GiveUp
<1>8. ASSUME NEW c \in Calls, NoticeCancel(c) PROVE JobsTable'
  BY <1>8 DEF NoticeCancel
<1>9. ASSUME NEW c \in Calls, Finish(c) PROVE JobsTable'
  BY <1>9, VerdictFacts DEF Finish
<1>10. ASSUME NEW t \in Tabs,
             LoadPage(t) \/ CloseTab(t) \/ AskNext(t) \/ Discard(t) \/
             PollEmpty(t) \/ Deliver(t) \/ DeliverToNobody(t) \/
             TakeLate(t) \/ Resolve(t) \/ AckLate(t) \/
             (\E a \in {"value", "error"} : WalletAnswers(t, a))
      PROVE  JobsTable'
  BY <1>10 DEF LoadPage, CloseTab, AskNext, Discard, PollEmpty, Deliver,
         DeliverToNobody, TakeLate, Resolve, AckLate, WalletAnswers
<1>11. ASSUME NEW t \in Tabs, Dispatch(t) PROVE JobsTable'
  BY <1>11 DEF Dispatch, Popped, QueueSound
<1>12. ASSUME NEW t \in Tabs, Requeue(t) PROVE JobsTable'
  BY <1>12 DEF Requeue
<1>13. ASSUME Close \/ GracePasses PROVE JobsTable'
  BY <1>13 DEF Close, GracePasses
<1> HIDE DEF IInv, JobsTable
<1> QED
  BY <1>1, <1>2, <1>3, <1>4, <1>5, <1>6, <1>7, <1>8, <1>9, <1>10, <1>11,
     <1>12, <1>13
     DEF Next, Caller, Handler, Page

(* Only a call that has just been parked, or that a page has given back,   *)
(* goes into the queue, and neither is in it already.                      *)
LEMMA QueueSoundStep == IInv /\ Next => QueueSound'
<1> SUFFICES ASSUME IInv, Next PROVE QueueSound'
  OBVIOUS
<1> USE DEF IInv, TypeOK, QueueSound, Goto, GotoTab, bridgeVars, callVars,
       tabVars, historyVars
<1>1. ASSUME NEW c \in Calls,
             Begin(c) \/ OpenPage(c) \/ Reopen(c) \/ Wake(c) \/ GiveUp(c) \/
             NoticeCancel(c) \/ Cancel(c)
      PROVE  QueueSound'
  BY <1>1 DEF Begin, OpenPage, Reopen, Wake, GiveUp, NoticeCancel, Cancel
<1>2. ASSUME NEW c \in Calls, Enqueue(c) PROVE QueueSound'
  <2>1. \A i \in 1..Len(queue) : queue[i] # c
    BY <1>2 DEF Enqueue, JobsTable
  <2>2. ~dispatched[c]
    BY <1>2 DEF Enqueue, JobsTable
  <2>3. /\ Len(queue) \in Nat /\ Len(queue') = Len(queue) + 1
        /\ \A i \in 1..Len(queue') :
             queue'[i] = IF i <= Len(queue) THEN queue[i] ELSE c
    BY <1>2, AppendProperties DEF Enqueue
  <2>4. jobs' = jobs \union {c} /\ dispatched' = dispatched
    BY <1>2 DEF Enqueue
  <2>5. QueueSound
    OBVIOUS
  <2> HIDE DEF IInv
  <2> QED
    BY <2>1, <2>2, <2>3, <2>4, <2>5
<1>3. ASSUME NEW c \in Calls, Finish(c) PROVE QueueSound'
  <2>1. /\ jobs' = jobs \ {c} /\ dispatched' = dispatched
        /\ queue' = RemoveFirst(queue, c)
    BY <1>3 DEF Finish, Without
  <2>3. queue \in Seq(Calls) /\ QueueSound
    OBVIOUS
  <2> HIDE DEF IInv
  <2>2. /\ \A i \in 1..Len(queue') : queue'[i] # c /\ \E m \in 1..Len(queue) : queue'[i] = queue[m]
        /\ \A i, j \in 1..Len(queue') : queue'[i] = queue'[j] => i = j
    BY <2>1, <2>3, RemoveFirstFromDistinct
  <2> QED
    BY <2>1, <2>2, <2>3
<1>4. ASSUME NEW t \in Tabs,
             LoadPage(t) \/ CloseTab(t) \/ AskNext(t) \/ PollEmpty(t) \/
             Deliver(t) \/ DeliverToNobody(t) \/ TakeLate(t) \/ Resolve(t) \/
             AckLate(t) \/
             (\E a \in {"value", "error"} : WalletAnswers(t, a))
      PROVE  QueueSound'
  BY <1>4 DEF LoadPage, CloseTab, AskNext, PollEmpty, Deliver,
         DeliverToNobody, TakeLate, Resolve, AckLate, WalletAnswers
<1>5. ASSUME NEW t \in Tabs, Discard(t) PROVE QueueSound'
  <2>1. /\ queue # <<>> /\ queue' = Tail(queue)
        /\ jobs' = jobs /\ dispatched' = dispatched
    BY <1>5 DEF Discard, Popped
  <2>2. queue \in Seq(Calls) /\ QueueSound
    OBVIOUS
  <2> HIDE DEF IInv
  <2>3. /\ Len(queue) \in Nat /\ Len(queue') = Len(queue) - 1
        /\ \A i \in 1..Len(queue') : queue'[i] = queue[i+1]
    BY <2>1, <2>2, HeadTailProperties
  <2> QED
    BY <2>1, <2>2, <2>3
<1>6. ASSUME NEW t \in Tabs, Dispatch(t) PROVE QueueSound'
  <2>1. /\ queue # <<>> /\ queue' = Tail(queue) /\ jobs' = jobs
        /\ dispatched' = [dispatched EXCEPT ![Head(queue)] = TRUE]
    BY <1>6 DEF Dispatch, Popped
  <2>2. /\ Len(queue) \in Nat /\ Len(queue') = Len(queue) - 1
        /\ \A i \in 1..Len(queue') : queue'[i] = queue[i+1]
    BY <2>1, HeadTailProperties
  <2>3. \A i \in 1..Len(queue') : queue[i+1] # Head(queue)
    BY <2>1, <2>2
  <2> QED
    BY <2>1, <2>2, <2>3
<1>7. ASSUME NEW t \in Tabs, Requeue(t) PROVE QueueSound'
  <2>1. CASE job[t] \notin jobs
    BY <1>7, <2>1 DEF Requeue
  <2>2. CASE job[t] \in jobs
    <3>1. job[t] \in Calls /\ dispatched[job[t]]
      BY <1>7, <2>2 DEF Requeue, OneHolder, Holding, OnTheWay, Exposed
    <3>2. \A i \in 1..Len(queue) : queue[i] # job[t]
      BY <3>1
    <3>3. /\ queue' = <<job[t]>> \o queue /\ jobs' = jobs
          /\ dispatched' = [dispatched EXCEPT ![job[t]] = FALSE]
      BY <1>7, <2>2 DEF Requeue, Cons
    <3>4. /\ Len(queue') = Len(queue) + 1 /\ Len(queue) \in Nat
          /\ \A i \in 1..(Len(queue) + 1) :
               queue'[i] = IF i = 1 THEN job[t] ELSE queue[i-1]
      BY <3>1, <3>3, ConcatProperties
    <3> QED
      BY <2>2, <3>1, <3>2, <3>3, <3>4
  <2> QED
    BY <2>1, <2>2
<1>8. ASSUME GracePasses PROVE QueueSound'
  BY <1>8 DEF GracePasses
<1>9. ASSUME Close PROVE QueueSound'
  BY <1>9 DEF Close
<1> HIDE DEF IInv, QueueSound
<1> QED
  BY <1>1, <1>2, <1>3, <1>4, <1>5, <1>6, <1>7, <1>8, <1>9
     DEF Next, Caller, Handler, Page

(* A call is handed to a page out of the queue only, where no call that a  *)
(* page holds, or has shown, can be.                                       *)
LEMMA OneHolderStep == IInv /\ Next => OneHolder'
<1> SUFFICES ASSUME IInv, Next PROVE OneHolder'
  OBVIOUS
<1> USE DEF IInv, TypeOK, JobsTable, OneHolder, Holding, OnTheWay, Answering,
       Exposed, Goto, GotoTab, bridgeVars, callVars, tabVars, historyVars
<1>1. ASSUME NEW c \in Calls, Cancel(c) PROVE OneHolder'
  BY <1>1 DEF Cancel
<1>2. ASSUME NEW c \in Calls, Begin(c) PROVE OneHolder'
  BY <1>2 DEF Begin, AnswersTrack
<1>3. ASSUME NEW c \in Calls, Enqueue(c) PROVE OneHolder'
  BY <1>3 DEF Enqueue
<1>4. ASSUME NEW c \in Calls, OpenPage(c) PROVE OneHolder'
  BY <1>4 DEF OpenPage
<1>5. ASSUME NEW c \in Calls, Reopen(c) PROVE OneHolder'
  BY <1>5 DEF Reopen
<1>6. ASSUME NEW c \in Calls, Wake(c) PROVE OneHolder'
  BY <1>6 DEF Wake
<1>7. ASSUME NEW c \in Calls, GiveUp(c) PROVE OneHolder'
  BY <1>7 DEF GiveUp
<1>8. ASSUME NEW c \in Calls, NoticeCancel(c) PROVE OneHolder'
  BY <1>8 DEF NoticeCancel
<1>9. ASSUME NEW c \in Calls, Finish(c) PROVE OneHolder'
  BY <1>9, VerdictFacts DEF Finish
<1>10. ASSUME NEW t \in Tabs,
             LoadPage(t) \/ CloseTab(t) \/ AskNext(t) \/ Discard(t)
      PROVE  OneHolder'
  BY <1>10 DEF LoadPage, CloseTab, AskNext, Discard
<1>11. ASSUME NEW t \in Tabs, Dispatch(t) PROVE OneHolder'
  BY <1>11 DEF Dispatch, Popped, QueueSound, AnswersTrack
<1>12. ASSUME NEW t \in Tabs, PollEmpty(t) PROVE OneHolder'
  BY <1>12 DEF PollEmpty, AfterEmptyPoll
<1>13. ASSUME NEW t \in Tabs, Deliver(t) PROVE OneHolder'
  BY <1>13 DEF Deliver
<1>14. ASSUME NEW t \in Tabs, DeliverToNobody(t) PROVE OneHolder'
  BY <1>14 DEF DeliverToNobody
<1>15. ASSUME NEW t \in Tabs, Requeue(t) PROVE OneHolder'
  BY <1>15 DEF Requeue
<1>16. ASSUME NEW t \in Tabs, TakeLate(t) PROVE OneHolder'
  BY <1>16 DEF TakeLate
<1>17. ASSUME NEW t \in Tabs, Resolve(t) PROVE OneHolder'
  BY <1>17 DEF Resolve
<1>18. ASSUME NEW t \in Tabs, AckLate(t) PROVE OneHolder'
  BY <1>18 DEF AckLate
<1>19. ASSUME NEW t \in Tabs, NEW a \in {"value", "error"}, WalletAnswers(t, a)
      PROVE  OneHolder'
  BY <1>19 DEF WalletAnswers
<1>20. ASSUME Close \/ GracePasses PROVE OneHolder'
  BY <1>20 DEF Close, GracePasses
<1> HIDE DEF IInv, OneHolder
<1> QED
  BY <1>1, <1>2, <1>3, <1>4, <1>5, <1>6, <1>7, <1>8, <1>9, <1>10, <1>11,
     <1>12, <1>13, <1>14, <1>15, <1>16, <1>17, <1>18, <1>19, <1>20
     DEF Next, Caller, Handler, Page

(* An answer is the wallet's, given once by the page that shows the call.  *)
LEMMA AnswersTrackStep == IInv /\ Next => AnswersTrack'
<1> SUFFICES ASSUME IInv, Next PROVE AnswersTrack'
  OBVIOUS
<1> USE DEF IInv, TypeOK, JobsTable, OneHolder, AnswersTrack, Holding,
       OnTheWay, Answering, Exposed, Goto, GotoTab, bridgeVars, callVars,
       tabVars, historyVars
<1>1. ASSUME NEW c \in Calls, Cancel(c) PROVE AnswersTrack'
  BY <1>1 DEF Cancel
<1>2. ASSUME NEW c \in Calls, Begin(c) PROVE AnswersTrack'
  BY <1>2 DEF Begin
<1>3. ASSUME NEW c \in Calls, Enqueue(c) PROVE AnswersTrack'
  BY <1>3 DEF Enqueue
<1>4. ASSUME NEW c \in Calls, OpenPage(c) PROVE AnswersTrack'
  BY <1>4 DEF OpenPage
<1>5. ASSUME NEW c \in Calls, Reopen(c) PROVE AnswersTrack'
  BY <1>5 DEF Reopen
<1>6. ASSUME NEW c \in Calls, Wake(c) PROVE AnswersTrack'
  BY <1>6 DEF Wake
<1>7. ASSUME NEW c \in Calls, GiveUp(c) PROVE AnswersTrack'
  BY <1>7 DEF GiveUp
<1>8. ASSUME NEW c \in Calls, NoticeCancel(c) PROVE AnswersTrack'
  BY <1>8 DEF NoticeCancel
<1>9. ASSUME NEW c \in Calls, Finish(c) PROVE AnswersTrack'
  BY <1>9, VerdictFacts DEF Finish
<1>10. ASSUME NEW t \in Tabs,
             LoadPage(t) \/ CloseTab(t) \/ AskNext(t) \/ Discard(t)
      PROVE  AnswersTrack'
  BY <1>10 DEF LoadPage, CloseTab, AskNext, Discard
<1>11. ASSUME NEW t \in Tabs, Dispatch(t) PROVE AnswersTrack'
  BY <1>11 DEF Dispatch, Popped, QueueSound
<1>12. ASSUME NEW t \in Tabs, PollEmpty(t) PROVE AnswersTrack'
  BY <1>12 DEF PollEmpty, AfterEmptyPoll
<1>13. ASSUME NEW t \in Tabs, Deliver(t) PROVE AnswersTrack'
  BY <1>13 DEF Deliver
<1>14. ASSUME NEW t \in Tabs, DeliverToNobody(t) PROVE AnswersTrack'
  BY <1>14 DEF DeliverToNobody
<1>15. ASSUME NEW t \in Tabs, Requeue(t) PROVE AnswersTrack'
  <2>1. job[t] \in Calls \ shown
    BY <1>15 DEF Requeue
  <2> QED
    BY <1>15, <2>1 DEF Requeue
<1>16. ASSUME NEW t \in Tabs, TakeLate(t) PROVE AnswersTrack'
  BY <1>16 DEF TakeLate
<1>17. ASSUME NEW t \in Tabs, Resolve(t) PROVE AnswersTrack'
  BY <1>17 DEF Resolve
<1>18. ASSUME NEW t \in Tabs, AckLate(t) PROVE AnswersTrack'
  BY <1>18 DEF AckLate
<1>19. ASSUME NEW t \in Tabs, NEW a \in {"value", "error"}, WalletAnswers(t, a)
      PROVE  AnswersTrack'
  BY <1>19 DEF WalletAnswers
<1>20. ASSUME Close \/ GracePasses PROVE AnswersTrack'
  BY <1>20 DEF Close, GracePasses
<1> HIDE DEF IInv, AnswersTrack
<1> QED
  BY <1>1, <1>2, <1>3, <1>4, <1>5, <1>6, <1>7, <1>8, <1>9, <1>10, <1>11,
     <1>12, <1>13, <1>14, <1>15, <1>16, <1>17, <1>18, <1>19, <1>20
     DEF Next, Caller, Handler, Page

(* A call is kept for its late answer only when its caller got none, and   *)
(* _take_late() hands it out once.                                         *)
LEMMA LateTableStep == IInv /\ Next => LateTable'
<1> SUFFICES ASSUME IInv, Next PROVE LateTable'
  OBVIOUS
<1> USE DEF IInv, TypeOK, JobsTable, OneHolder, LateTable, Told, Holding,
       OnTheWay, Answering, Goto, GotoTab, bridgeVars, callVars, tabVars,
       historyVars
<1>1. ASSUME NEW c \in Calls, Cancel(c) PROVE LateTable'
  BY <1>1 DEF Cancel
<1>2. ASSUME NEW c \in Calls, Begin(c) PROVE LateTable'
  BY <1>2 DEF Begin
<1>3. ASSUME NEW c \in Calls, Enqueue(c) PROVE LateTable'
  BY <1>3 DEF Enqueue
<1>4. ASSUME NEW c \in Calls, OpenPage(c) PROVE LateTable'
  BY <1>4 DEF OpenPage
<1>5. ASSUME NEW c \in Calls, Reopen(c) PROVE LateTable'
  BY <1>5 DEF Reopen
<1>6. ASSUME NEW c \in Calls, Wake(c) PROVE LateTable'
  BY <1>6 DEF Wake
<1>7. ASSUME NEW c \in Calls, GiveUp(c) PROVE LateTable'
  BY <1>7 DEF GiveUp
<1>8. ASSUME NEW c \in Calls, NoticeCancel(c) PROVE LateTable'
  BY <1>8 DEF NoticeCancel
<1>9. ASSUME NEW c \in Calls, Finish(c) PROVE LateTable'
  <2>1. /\ c \in late' \ late =>
             Verdict(c) \in {"signerClosed", "closedSent", "timeoutSent"}
        /\ late' \subseteq late \union {c}
    BY <1>9, VerdictFacts DEF Finish
  <2>2. c \notin late /\ c \notin reported
    BY <1>9 DEF Finish
  <2>3. \A d \in Calls \ {c} : pc'[d] = pc[d] /\ Told(d)' = Told(d)
    BY <1>9 DEF Finish
  <2>4. pc'[c] = "returned" /\ (c \in late' => Told(c)' = "unknown")
    BY <1>9, <2>1, <2>2 DEF Finish, NothingSent
  <2> HIDE DEF Told
  <2> QED
    BY <1>9, <2>1, <2>2, <2>3, <2>4 DEF Finish
<1>10. ASSUME NEW t \in Tabs, CloseTab(t) \/ Discard(t) PROVE LateTable'
  BY <1>10 DEF CloseTab, Discard
<1>11. ASSUME NEW t \in Tabs, LoadPage(t) PROVE LateTable'
  BY <1>11 DEF LoadPage
<1>12. ASSUME NEW t \in Tabs, AskNext(t) PROVE LateTable'
  BY <1>12 DEF AskNext
<1>13. ASSUME NEW t \in Tabs, Dispatch(t) PROVE LateTable'
  BY <1>13 DEF Dispatch
<1>14. ASSUME NEW t \in Tabs, PollEmpty(t) PROVE LateTable'
  BY <1>14 DEF PollEmpty, AfterEmptyPoll
<1>15. ASSUME NEW t \in Tabs, Deliver(t) PROVE LateTable'
  BY <1>15 DEF Deliver
<1>16. ASSUME NEW t \in Tabs, DeliverToNobody(t) PROVE LateTable'
  BY <1>16 DEF DeliverToNobody
<1>17. ASSUME NEW t \in Tabs, Requeue(t) PROVE LateTable'
  BY <1>17 DEF Requeue
<1>18. ASSUME NEW t \in Tabs, TakeLate(t) PROVE LateTable'
  BY <1>18 DEF TakeLate
<1>19. ASSUME NEW t \in Tabs, Resolve(t) PROVE LateTable'
  BY <1>19 DEF Resolve
<1>20. ASSUME NEW t \in Tabs, AckLate(t) PROVE LateTable'
  BY <1>20 DEF AckLate
<1>21. ASSUME NEW t \in Tabs, NEW a \in {"value", "error"}, WalletAnswers(t, a)
      PROVE  LateTable'
  BY <1>21 DEF WalletAnswers
<1>22. ASSUME GracePasses PROVE LateTable'
  BY <1>22 DEF GracePasses
<1>23. ASSUME Close PROVE LateTable'
  BY <1>23 DEF Close, LateAfterClose
<1> HIDE DEF IInv, LateTable
<1> QED
  BY <1>1, <1>2, <1>3, <1>4, <1>5, <1>6, <1>7, <1>8, <1>9, <1>10, <1>11,
     <1>12, <1>13, <1>14, <1>15, <1>16, <1>17, <1>18, <1>19, <1>20, <1>21,
     <1>22, <1>23
     DEF Next, Caller, Handler, Page

-----------------------------------------------------------------------------
(* The theorems.                                                           *)

(* A bridge that has served nobody: all tables are empty.                  *)
LEMMA InvariantInit == Init => IInv
<1> SUFFICES ASSUME Init PROVE IInv
  OBVIOUS
<1>1. TypeOK
  BY EmptySeq DEF Init, TypeOK, CallStates, TabStates, Outcomes, NothingSent, Answers
<1>2. JobsTable /\ OneHolder /\ AnswersTrack /\ LateTable
  BY DEF Init, JobsTable, OneHolder, AnswersTrack, LateTable, Holding, OnTheWay, Answering
<1>3. QueueSound
  BY DEF Init, QueueSound
<1> QED
  BY <1>1, <1>2, <1>3 DEF IInv

(* Each conjunct is kept by the lemma of its name, also by a stutter.      *)
LEMMA InvariantStep == IInv /\ [Next]_vars => IInv'
<1>1. IInv /\ Next => IInv'
  BY TypeStep, JobsTableStep, QueueSoundStep, OneHolderStep, AnswersTrackStep,
     LateTableStep DEF IInv
<1>2. IInv /\ UNCHANGED vars => IInv'
  <2> USE DEF vars, bridgeVars, callVars, tabVars, historyVars
  <2>1. TypeOK /\ UNCHANGED vars => TypeOK'
    BY DEF TypeOK
  <2>2. JobsTable /\ QueueSound /\ UNCHANGED vars => JobsTable' /\ QueueSound'
    BY DEF JobsTable, QueueSound
  <2>3. OneHolder /\ AnswersTrack /\ UNCHANGED vars => OneHolder' /\ AnswersTrack'
    BY DEF OneHolder, AnswersTrack, Holding, OnTheWay, Answering, Exposed
  <2>4. LateTable /\ UNCHANGED vars => LateTable'
    BY DEF LateTable, Told
  <2> QED
    BY <2>1, <2>2, <2>3, <2>4 DEF IInv
<1> QED
  BY <1>1, <1>2

(* IInv holds in every state the bridge can reach.                         *)
THEOREM Invariance == Spec => []IInv
BY InvariantInit, InvariantStep, PTL DEF Spec

(* Every variable keeps its type.                                          *)
THEOREM TypeCorrect == Spec => []TypeOK
<1>1. IInv => TypeOK
  BY DEF IInv
<1> QED
  BY <1>1, Invariance, PTL

(* _next_job finds a pending, undispatched job for every queued state, and *)
(* never the same one twice.                                               *)
THEOREM QueueIsSound == Spec => []QueueSound
<1>1. IInv => QueueSound
  BY DEF IInv
<1> QED
  BY <1>1, Invariance, PTL

(* An error that says nothing was sent to the wallet is the truth, then    *)
(* and for ever.                                                           *)
THEOREM OutcomesAreHonest == Spec => []HonestOutcome
<1>1. IInv => HonestOutcome
  BY DEF IInv, TypeOK, JobsTable, AnswersTrack, Exposed, HonestOutcome, NothingSent
<1> QED
  BY <1>1, Invariance, PTL

(* No request reaches a wallet twice.                                      *)
THEOREM NothingShownTwice == Spec => ShownOnce
<1>1. IInv /\ [Next]_vars =>
        [\A t \in Tabs : tab[t] # "wallet" /\ tab'[t] = "wallet" => job[t] \notin shown]_vars
  <2> SUFFICES ASSUME IInv, Next, NEW t \in Tabs,
                      tab[t] # "wallet", tab'[t] = "wallet"
               PROVE  job[t] \notin shown
    OBVIOUS
  <2> USE DEF IInv, TypeOK, Goto, GotoTab, bridgeVars, callVars, tabVars, historyVars
  <2>1. ASSUME NEW u \in Tabs, Deliver(u) PROVE job[t] \notin shown
    BY <2>1 DEF Deliver, OneHolder, OnTheWay
  <2>2. ASSUME NEW u \in Tabs, Page(u) PROVE FALSE
    BY <2>2 DEF Page, LoadPage, AskNext, WalletAnswers
  <2>3. ASSUME NEW u \in Tabs, Handler(u), ~Deliver(u) PROVE FALSE
    BY <2>3 DEF Handler, Discard, Dispatch, PollEmpty, AfterEmptyPoll, DeliverToNobody,
                Requeue, TakeLate, Resolve, AckLate
  <2>4. ASSUME NEW c \in Calls, Caller(c) \/ GiveUp(c) \/ Cancel(c) PROVE FALSE
    BY <2>4 DEF Caller, Begin, Enqueue, OpenPage, Reopen, Wake, GiveUp, NoticeCancel,
                Finish, Cancel
  <2>5. ASSUME Close \/ GracePasses \/ (\E u \in Tabs : CloseTab(u)) PROVE FALSE
    BY <2>5 DEF Close, GracePasses, CloseTab
  <2> QED
    BY <2>1, <2>2, <2>3, <2>4, <2>5 DEF Next
<1> QED
  BY <1>1, Invariance, PTL DEF Spec, ShownOnce

(* close() answers every job that has not been answered, a job parked      *)
(* after it is given to no page, and a job once answered stays so.         *)
LEMMA ClosedForgetsStep == IInv /\ ClosedForgets /\ [Next]_vars => ClosedForgets'
<1> SUFFICES ASSUME IInv, ClosedForgets, [Next]_vars PROVE ClosedForgets'
  OBVIOUS
<1> USE DEF IInv, TypeOK, JobsTable, ClosedForgets, Done, bridgeVars, callVars, tabVars,
       historyVars
<1>1. ASSUME NEW c \in Calls, Begin(c) \/ OpenPage(c) \/ Reopen(c) \/ Wake(c) \/ GiveUp(c)
                              \/ NoticeCancel(c) \/ Cancel(c)
      PROVE  ClosedForgets'
  BY <1>1 DEF Begin, OpenPage, Reopen, Wake, GiveUp, NoticeCancel, Cancel
<1>2. ASSUME NEW c \in Calls, Enqueue(c) PROVE ClosedForgets'
  BY <1>2 DEF Enqueue
<1>3. ASSUME NEW c \in Calls, Finish(c) PROVE ClosedForgets'
  BY <1>3 DEF Finish, LeftBehind
<1>4. ASSUME NEW t \in Tabs, LoadPage(t) \/ CloseTab(t) \/ AskNext(t) \/ Discard(t)
                             \/ PollEmpty(t) \/ Deliver(t) \/ DeliverToNobody(t) \/ AckLate(t)
                             \/ (\E a \in {"value", "error"} : WalletAnswers(t, a))
      PROVE  ClosedForgets'
  BY <1>4 DEF LoadPage, CloseTab, AskNext, Discard, PollEmpty, Deliver, DeliverToNobody,
              AckLate, WalletAnswers
<1>5. ASSUME NEW t \in Tabs, Dispatch(t) PROVE ClosedForgets'
  BY <1>5 DEF Dispatch
<1>6. ASSUME NEW t \in Tabs, Requeue(t) PROVE ClosedForgets'
  BY <1>6 DEF Requeue
<1>7. ASSUME NEW t \in Tabs, TakeLate(t) PROVE ClosedForgets'
  BY <1>7 DEF TakeLate
<1>8. ASSUME NEW t \in Tabs, Resolve(t) PROVE ClosedForgets'
  <2>1. job[t] \in Calls /\ answer[job[t]] # "none"
    BY <1>8 DEF Resolve, OneHolder, AnswersTrack, Holding, Answering
  <2>2. \A c \in Calls : result[c] # "none" => result'[c] # "none"
    BY <1>8, <2>1 DEF Resolve
  <2>3. UNCHANGED <<bridge, jobs, late, dispatched, closedJob>>
    BY <1>8 DEF Resolve
  <2> QED
    BY <2>2, <2>3
<1>9. ASSUME Close PROVE ClosedForgets'
  BY <1>9 DEF Close, LateAfterClose
<1>10. ASSUME GracePasses \/ UNCHANGED vars PROVE ClosedForgets'
  BY <1>10 DEF GracePasses, vars
<1> HIDE DEF IInv, ClosedForgets
<1> QED
  BY <1>1, <1>2, <1>3, <1>4, <1>5, <1>6, <1>7, <1>8, <1>9, <1>10
     DEF Next, Caller, Handler, Page

(* After close() nothing is kept for a late answer, and every request a    *)
(* page has is answered.                                                   *)
THEOREM ClosingForgets == Spec => []ClosedForgets
<1>1. Init => ClosedForgets
  BY DEF Init, ClosedForgets
<1> QED
  BY <1>1, ClosedForgetsStep, Invariance, PTL DEF Spec

-----------------------------------------------------------------------------
(* The bridge implements WalletCalls.                                      *)

told == [c \in Calls |-> Told(c)]

(* A call that has not returned is told something, and nobody else is.     *)
LEMMA OutcomeTold ==
  ASSUME TypeOK, NEW c \in Calls, NEW o \in Outcomes \ {"none"},
         outcome[c] = "none", outcome' = [outcome EXCEPT ![c] = o]
  PROVE  /\ told[c] = "none"
         /\ told' = [told EXCEPT ![c] = Told(c)']
         /\ Told(c)' \in {"unsent", "unknown", "value", "error"}
         /\ Told(c)' = "value" <=> o = "value"
         /\ Told(c)' = "error" <=> o = "walletError"
         /\ Told(c)' = "unsent" <=> o \in NothingSent
<1>1. outcome'[c] = o /\ \A d \in Calls \ {c} : outcome'[d] = outcome[d]
  BY DEF TypeOK
<1>2. \A d \in Calls \ {c} : Told(d)' = Told(d)
  BY <1>1 DEF Told
<1>3. told' = [told EXCEPT ![c] = Told(c)']
  BY <1>2 DEF told
<1> QED
  BY <1>1, <1>3 DEF told, Told, Outcomes, NothingSent, MayComplete

(* Dispatching shows nothing yet: a call is shown when it is delivered,    *)
(* answered at its page and told when request() leaves; every other step   *)
(* of the bridge is a stutter of the promise.                              *)
LEMMA PromiseStep == IInv /\ [Next]_vars => [Promise!Next]_(Promise!vars)
<1> USE DEF Goto, GotoTab
<1> SUFFICES ASSUME IInv, [Next]_vars PROVE [Promise!Next]_(Promise!vars)
  OBVIOUS
<1>1. ASSUME UNCHANGED <<shown, answer, outcome, reported>>
      PROVE  UNCHANGED Promise!vars
  BY <1>1 DEF Promise!vars, Told
<1>2. ASSUME NEW c \in Calls, Begin(c) PROVE [Promise!Next]_(Promise!vars)
  <2>1. CASE UNCHANGED outcome
    BY <1>1, <1>2, <2>1 DEF Begin, historyVars
  <2>2. ASSUME NEW o \in {"cancelled", "signerClosed"},
               outcome' = [outcome EXCEPT ![c] = o]
        PROVE  Promise!Next
    <3>1. outcome[c] = "none" /\ c \notin shown
      BY <1>2 DEF Begin, IInv, JobsTable, AnswersTrack, Exposed
    <3>2. o \in Outcomes \ {"none", "value", "walletError"}
      BY DEF Outcomes, NothingSent, MayComplete
    <3>3. Promise!Tell(c, Told(c)')
      BY <1>2, <2>2, <3>1, <3>2, OutcomeTold
         DEF Promise!Tell, Begin, historyVars, IInv, told
    <3> QED
      BY <2>2, <3>1, <3>2, <3>3, OutcomeTold DEF Promise!Next, Promise!Told, IInv
  <2> QED
    BY <1>2, <2>1, <2>2 DEF Begin
<1>3. ASSUME NEW c \in Calls, Finish(c) PROVE Promise!Next
  <2> DEFINE o == Verdict(c)
  <2>1. /\ outcome' = [outcome EXCEPT ![c] = o]
        /\ UNCHANGED <<shown, answer, reported>>
    BY <1>3 DEF Finish, historyVars
  <2>2. outcome[c] = "none" /\ c \in jobs
    BY <1>3 DEF Finish, IInv, JobsTable
  <2>3. /\ o \in Outcomes \ {"none"}
        /\ o \in NothingSent => c \notin shown
        /\ o = "value" => answer[c] = "value"
        /\ o = "walletError" => answer[c] = "error"
    BY <2>2, VerdictFacts DEF IInv, AnswersTrack, Exposed
  <2> HIDE DEF o
  <2>4. Promise!Tell(c, Told(c)')
    BY <2>1, <2>2, <2>3, OutcomeTold DEF Promise!Tell, IInv, told
  <2> QED
    BY <2>1, <2>2, <2>3, <2>4, OutcomeTold DEF Promise!Next, Promise!Told, IInv
<1>4. ASSUME NEW t \in Tabs, Deliver(t) PROVE Promise!Next
  <2>1. job[t] \in Calls /\ job[t] \notin shown /\ Told(job[t]) # "unsent"
    BY <1>4 DEF Deliver, IInv, OneHolder, Holding, OnTheWay, Exposed, JobsTable, Told,
                NothingSent
  <2>2. Promise!Show(job[t])
    BY <1>4, <2>1 DEF Deliver, Promise!Show, Told, callVars
  <2> QED
    BY <2>1, <2>2 DEF Promise!Next
<1>5. ASSUME NEW t \in Tabs, NEW a \in {"value", "error"}, WalletAnswers(t, a)
      PROVE  Promise!Next
  <2>1. job[t] \in Calls /\ job[t] \in shown /\ answer[job[t]] = "none"
    BY <1>5 DEF WalletAnswers, IInv, OneHolder, Holding, AnswersTrack
  <2>2. Promise!Answer(job[t], a)
    BY <1>5, <2>1 DEF WalletAnswers, Promise!Answer, Told, callVars
  <2> QED
    BY <2>1, <2>2 DEF Promise!Next, Promise!Answers
<1>6. ASSUME NEW t \in Tabs, AckLate(t) PROVE [Promise!Next]_(Promise!vars)
  <2>1. CASE UNCHANGED reported
    BY <1>1, <1>6, <2>1 DEF AckLate, callVars
  <2>2. CASE reported' = reported \union {job[t]} /\ answer[job[t]] = "value"
    <3>1. job[t] \in Calls /\ Told(job[t]) = "unknown" /\ job[t] \notin reported
      BY <1>6 DEF AckLate, IInv, OneHolder, Holding, Answering, LateTable
    <3>2. Promise!ReportLate(job[t])
      BY <1>6, <2>2, <3>1 DEF AckLate, Promise!ReportLate, Told, callVars
    <3> QED
      BY <3>1, <3>2 DEF Promise!Next
  <2> QED
    BY <1>6, <2>1, <2>2 DEF AckLate
<1>7. ASSUME NEW c \in Calls, Caller(c) \/ GiveUp(c) \/ Cancel(c), ~Begin(c), ~Finish(c)
      PROVE  UNCHANGED Promise!vars
  BY <1>1, <1>7 DEF Caller, Enqueue, OpenPage, Reopen, Wake, GiveUp, NoticeCancel,
                    Cancel, historyVars
<1>8. ASSUME NEW t \in Tabs, Handler(t), ~Deliver(t), ~AckLate(t)
      PROVE  UNCHANGED Promise!vars
  BY <1>1, <1>8 DEF Handler, Discard, Dispatch, PollEmpty, DeliverToNobody, Requeue,
                    TakeLate, Resolve, callVars, historyVars
<1>9. ASSUME NEW t \in Tabs, LoadPage(t) \/ AskNext(t) \/ CloseTab(t)
      PROVE  UNCHANGED Promise!vars
  BY <1>1, <1>9 DEF LoadPage, AskNext, CloseTab, callVars, historyVars
<1>10. ASSUME Close \/ GracePasses \/ UNCHANGED vars
       PROVE  UNCHANGED Promise!vars
  BY <1>1, <1>10 DEF Close, GracePasses, vars, callVars, historyVars
<1> QED
  BY <1>2, <1>3, <1>4, <1>5, <1>6, <1>7, <1>8, <1>9, <1>10 DEF Next, Caller, Handler, Page

(* The bridge keeps the promise a wallet signer makes: what it shows the   *)
(* wallet, what it tells its callers and what it reports late are steps of *)
(* WalletCalls, whatever is cancelled, closed, abandoned or late.          *)
THEOREM BridgeKeepsPromise == Spec => KeepsPromise
<1>1. Init => Promise!Init
  <2> SUFFICES ASSUME Init PROVE Promise!Init
    OBVIOUS
  <2>1. \A c \in Calls : Told(c) = "none"
    <3>1. \A c \in Calls : outcome[c] = "none"
      BY DEF Init
    <3> QED
      BY <3>1 DEF Told, NothingSent
  <2> HIDE DEF Told
  <2> QED
    BY <2>1 DEF Init, Promise!Init
<1> QED
  BY <1>1, PromiseStep, Invariance, PTL DEF Spec, KeepsPromise, Promise!Spec

=============================================================================
