------------------------- MODULE HostedPartsProofs --------------------------
(***************************************************************************)
(* The two parts HostedClient is made of are correct, each by an inductive *)
(* invariant of its own: the remote bridge for every number of threads,    *)
(* tabs and requests (IInv), the memoized look-ups for every number of     *)
(* threads, tickers and tokens, for every renaming and every clock         *)
(* (ResolutionIInv).                                                       *)
(***************************************************************************)
EXTENDS RemoteBridge, Resolution, NaturalsInduction, WellFoundedInduction, TLAPS

-----------------------------------------------------------------------------
(***************************************************************************)
(* The remote bridge                                                       *)
(***************************************************************************)
USE ThreadsAssumption, RemoteAssumption, NoneIsNoAnswer

-----------------------------------------------------------------------------
(* Facts about its data *)

(* What a call can end with: the three kinds of endings are different.     *)
LEMMA AnswerFacts ==
  /\ Failure \in Answers /\ TimedOut \notin Answers /\ DeliverRaised # TimedOut
  /\ None \notin Answers /\ TimedOut # None /\ DeliverRaised # None
  /\ \A r \in Answers : r # Failure => r.account \in Accounts
BY DEF Answers, Failure, TimedOut, DeliverRaised, Says

(* None is no request, no entry and no token.                              *)
LEMMA NoneFacts == None \notin Request /\ None \notin Entry /\ None \notin Tokens
OBVIOUS

(* A token is the pair of its thread and its number.                       *)
LEMMA TokenFacts ==
  /\ \A t \in Tokens : t[1] \in Callers /\ t[2] \in 1 .. MaxRequests /\ t = <<t[1], t[2]>>
  /\ \A c \in Callers, n \in 1 .. MaxRequests :
       <<c, n>> \in Tokens /\ <<c, n>>[1] = c /\ <<c, n>>[2] = n
BY DEF Tokens

(* The entry of a call that is inside request() is there.                  *)
LEMMA InsideIsParked ==
  ASSUME TypeOK, PendingIsInside, CallsFit, NEW c \in Callers, stage[c] \in Inside
  PROVE  /\ Parked(c) \in Tokens /\ Parked(c)[1] = c /\ Parked(c)[2] = made[c]
         /\ pending[Parked(c)] # None /\ pending[Parked(c)] \in Entry
<1>1. made[c] \in 1 .. MaxRequests
  BY DEF TypeOK, CallsFit
<1>2. Parked(c) \in Tokens /\ Parked(c)[1] = c /\ Parked(c)[2] = made[c]
  BY <1>1, TokenFacts DEF Parked
<1>3. pending[Parked(c)] # None
  BY <1>2 DEF PendingIsInside
<1> QED
  BY <1>2, <1>3 DEF TypeOK

(* What a call that has parked its operation looks like.                   *)
LEMMA ParkFacts ==
  ASSUME TypeOK, NEW c \in Callers, NEW o, NEW a, Park(c, o, a)
  PROVE  LET new == <<c, made[c] + 1>> IN
         /\ new \in Tokens /\ new[1] = c /\ new[2] = made[c] + 1
         /\ Parked(c)' = new /\ stage'[c] = "deliver" /\ made'[c] = made[c] + 1
         /\ made[c] \in Nat /\ got'[c] = None
         /\ ask'[c] = [op |-> o, account |-> a]
         /\ pending'[new] = [result |-> None, set |-> FALSE]
         /\ \A t \in Tokens : t # new => pending'[t] = pending[t]
         /\ \A d \in Callers : d # c =>
              /\ stage'[d] = stage[d] /\ made'[d] = made[d] /\ Parked(d)' = Parked(d)
              /\ got'[d] = got[d] /\ ask'[d] = ask[d]
<1> DEFINE new == <<c, made[c] + 1>>
<1>1. made[c] \in Nat /\ made[c] + 1 \in 1 .. MaxRequests
  BY DEF Park, TypeOK
<1>2. new \in Tokens /\ new[1] = c /\ new[2] = made[c] + 1
  BY <1>1, TokenFacts
<1>3. /\ stage'[c] = "deliver" /\ made'[c] = made[c] + 1 /\ got'[c] = None
      /\ ask'[c] = [op |-> o, account |-> a]
  BY DEF Park, TypeOK, Moved
<1>4. \A d \in Callers : d # c =>
        stage'[d] = stage[d] /\ made'[d] = made[d] /\ got'[d] = got[d] /\ ask'[d] = ask[d]
  BY DEF Park, TypeOK, Moved
<1>5. pending' = [pending EXCEPT ![new] = [result |-> None, set |-> FALSE]]
  BY DEF Park
<1>6. /\ pending'[new] = [result |-> None, set |-> FALSE]
      /\ \A t \in Tokens : t # new => pending'[t] = pending[t]
  BY <1>2, <1>5 DEF TypeOK
<1>7. Parked(c)' = new /\ \A d \in Callers : d # c => Parked(d)' = Parked(d)
  BY <1>3, <1>4 DEF Parked
<1> HIDE DEF new
<1> QED
  BY <1>1, <1>2, <1>3, <1>4, <1>6, <1>7 DEF new

(* It leaves the other calls, and their entries, alone.                    *)
LEMMA ParkLeaves ==
  ASSUME TypeOK, NEW c \in Callers, NEW o, NEW a, Park(c, o, a)
  PROVE  /\ \A t \in Tokens : t # <<c, made[c] + 1>> => pending'[t] = pending[t]
         /\ \A d \in Callers : d # c => stage'[d] = stage[d] /\ Parked(d)' = Parked(d)
<1>1. pending' = [pending EXCEPT ![<<c, made[c] + 1>>] = [result |-> None, set |-> FALSE]]
  BY DEF Park
<1>2. \A d \in Callers : d # c => stage'[d] = stage[d] /\ made'[d] = made[d]
  BY DEF Park, TypeOK, Moved
<1>3. \A t \in Tokens : t # <<c, made[c] + 1>> => pending'[t] = pending[t]
  BY <1>1 DEF TypeOK
<1> QED
  BY <1>2, <1>3 DEF Parked

(* The changes the actions make to a tab keep its type.                    *)
LEMMA TabEdits ==
  ASSUME NEW r \in TabRecord
  PROVE  /\ \A t \in Tokens, a \in Request \cup {None}, s \in {"refused", "asking"} :
              [r EXCEPT !.token = t, !.shows = a, !.status = s] \in TabRecord
         /\ \A answer \in Answers :
              [r EXCEPT !.status = "answered", !.answer = answer] \in TabRecord
         /\ [r EXCEPT !.status = "refused"] \in TabRecord
         /\ \A b \in BOOLEAN : [r EXCEPT !.status = "accepted", !.inTime = b] \in TabRecord
<1>1. \A t \in Tokens, a \in Request \cup {None}, s \in {"refused", "asking"} :
        [r EXCEPT !.token = t, !.shows = a, !.status = s] \in TabRecord
  BY DEF TabRecord
<1>2. \A answer \in Answers : [r EXCEPT !.status = "answered", !.answer = answer] \in TabRecord
  BY DEF TabRecord
<1>3. [r EXCEPT !.status = "refused"] \in TabRecord
  BY DEF TabRecord
<1>4. \A b \in BOOLEAN : [r EXCEPT !.status = "accepted", !.inTime = b] \in TabRecord
  BY DEF TabRecord
<1> QED
  BY <1>1, <1>2, <1>3, <1>4

-----------------------------------------------------------------------------
(* One lemma for each conjunct of the invariant *)

(* Every step keeps the types. *)
LEMMA TypePreserved == IInv /\ [Next]_vars => TypeOK'
<1> SUFFICES ASSUME IInv, [Next]_vars PROVE TypeOK'
  OBVIOUS
<1>a. TypeOK
  BY DEF IInv
<1>z. TypeOK /\ PendingIsInside /\ CallsFit /\ TabsFit
  BY DEF IInv
<1>1. ASSUME NEW c \in Callers, NEW m \in Methods, Call(c, m) PROVE TypeOK'
  BY <1>a, <1>1 DEF Call, TypeOK, Inside, Outside, Moved, Methods, Ops, Request, Entry, Tokens
<1>2. ASSUME NEW c \in Callers, NEW a \in Accounts, Submit(c, a) PROVE TypeOK'
  BY <1>a, <1>2 DEF Submit, Park, TypeOK, Inside, Outside, Moved, Methods, Ops, Request,
         Entry, Tokens
<1>3. ASSUME NEW c \in Callers, Connect(c) PROVE TypeOK'
  BY <1>a, <1>3 DEF Connect, Park, TypeOK, Inside, Outside, Moved, Methods, Ops, Request,
         Entry, Tokens
<1>4. ASSUME NEW c \in Callers, UseAddress(c) PROVE TypeOK'
  <2>1. address \in Accounts
    BY <1>a, <1>4 DEF UseAddress, TypeOK
  <2>2. CASE want[c] = "sign"
    <3>1. [op |-> "sign", account |-> address] \in Request
      BY <2>1 DEF Request, Ops
    <3>2. /\ stage' = Moved(c, "deliver")
          /\ ask' = [ask EXCEPT ![c] = [op |-> "sign", account |-> address]]
          /\ made[c] < MaxRequests /\ made' = [made EXCEPT ![c] = @ + 1]
          /\ pending' = [pending EXCEPT ![<<c, made[c] + 1>>] = [result |-> None, set |-> FALSE]]
          /\ got' = [got EXCEPT ![c] = None]
          /\ UNCHANGED <<want, address, delivered, outcome, tab>>
      BY <1>4, <2>2 DEF UseAddress, Park
    <3>3. [result |-> None, set |-> FALSE] \in Entry
      BY DEF Entry
    <3>4. stage' \in [Callers -> Inside \cup Outside] /\ made' \in [Callers -> 0 .. MaxRequests]
      BY <1>a, <3>2 DEF TypeOK, Moved, Inside
    <3>5. ask' \in [Callers -> Request] /\ pending' \in [Tokens -> Entry \cup {None}]
      BY <1>a, <3>1, <3>2, <3>3 DEF TypeOK
    <3>6. got' \in [Callers -> Answers \cup {None}]
      BY <1>a, <3>2 DEF TypeOK
    <3> QED
      BY <1>a, <3>2, <3>4, <3>5, <3>6 DEF TypeOK
  <2>3. CASE want[c] # "sign"
    <3>1. Says("account", address) \in Answers
      BY <2>1 DEF Answers, Says
    <3> QED
      BY <1>a, <1>4, <2>3, <3>1 DEF UseAddress, TypeOK, Moved, Outside
  <2> QED
    BY <2>2, <2>3
<1>5. ASSUME NEW c \in Callers, HandOver(c) PROVE TypeOK'
  <2>1. Parked(c) \in Tokens
    BY <1>z, <1>5, InsideIsParked DEF HandOver, At, Inside
  <2> QED
    BY <1>a, <1>5, <2>1 DEF HandOver, TypeOK
<1>6. ASSUME NEW c \in Callers, DeliverReturns(c) PROVE TypeOK'
  BY <1>a, <1>6 DEF DeliverReturns, TypeOK, Inside, Outside, Moved, Methods, Ops, Request,
         Entry, Tokens
<1>7. ASSUME NEW c \in Callers, DeliverRaises(c) PROVE TypeOK'
  BY <1>a, <1>7 DEF DeliverRaises, TypeOK, Inside, Outside, Moved, Methods, Ops, Request,
         Entry, Tokens
<1>8. ASSUME NEW c \in Callers, Wake(c) PROVE TypeOK'
  BY <1>a, <1>8 DEF Wake, TypeOK, Inside, Outside, Moved, Methods, Ops, Request, Entry, Tokens
<1>9. ASSUME NEW c \in Callers, TimeOut(c) PROVE TypeOK'
  BY <1>a, <1>9 DEF TimeOut, TypeOK, Inside, Outside, Moved, Methods, Ops, Request, Entry,
         Tokens
<1>10. ASSUME NEW c \in Callers, ReadResult(c) PROVE TypeOK'
  <2>1. Parked(c) \in Tokens /\ pending[Parked(c)] \in Entry
    BY <1>z, <1>10, InsideIsParked DEF ReadResult, At, Inside
  <2>2. pending[Parked(c)].result \in Answers \cup {None}
    BY <2>1 DEF Entry
  <2> QED
    BY <1>a, <1>10, <2>2 DEF ReadResult, TypeOK, Moved, Inside, Outside
<1>11. ASSUME NEW c \in Callers, Leave(c) PROVE TypeOK'
  <2>1. pending' \in [Tokens -> Entry \cup {None}]
    BY <1>a, <1>11 DEF Leave, TypeOK
  <2>2. stage' \in [Callers -> Inside \cup Outside]
    BY <1>a, <1>11 DEF Leave, Ended, TypeOK, Moved, Inside, Outside
  <2>3. outcome' \in [Callers -> Answers \cup {None, TimedOut, DeliverRaised}]
    BY <1>a, <1>11 DEF Leave, Ended, TypeOK
  <2> QED
    BY <1>a, <1>11, <2>1, <2>2, <2>3 DEF Leave, TypeOK
<1>12. ASSUME NEW c \in Callers, StoreAddress(c) PROVE TypeOK'
  <2>1. got[c].account \in Accounts
    BY <1>z, <1>12, AnswerFacts DEF StoreAddress, CallsFit, At
  <2> QED
    BY <1>a, <1>12, <2>1 DEF StoreAddress, TypeOK, Moved, Inside, Outside
<1>13. ASSUME NEW w \in Tabs, NEW t \in delivered, OpenUrl(w, t) PROVE TypeOK'
  <2> DEFINE shows == IF pending[t] = None THEN None ELSE ask[t[1]]
             status == IF pending[t] = None THEN "refused" ELSE "asking"
  <2>1. t \in Tokens /\ shows \in Request \cup {None} /\ status \in {"refused", "asking"}
    BY <1>a, <1>13, TokenFacts DEF TypeOK
  <2>2. tab[w] \in TabRecord
    BY <1>a, <1>13 DEF TypeOK
  <2> HIDE DEF shows, status
  <2>3. [tab[w] EXCEPT !.token = t, !.shows = shows, !.status = status] \in TabRecord
    BY <2>1, <2>2, TabEdits
  <2> QED
    BY <1>a, <1>13, <2>3 DEF OpenUrl, TypeOK, shows, status
<1>14. ASSUME NEW w \in Tabs, NEW answer \in Answers, WalletSays(w, answer) PROVE TypeOK'
  <2>1. [tab[w] EXCEPT !.status = "answered", !.answer = answer] \in TabRecord
    BY <1>a, <1>14, TabEdits DEF TypeOK
  <2> QED
    BY <1>a, <1>14, <2>1 DEF WalletSays, TypeOK
<1>15. ASSUME NEW w \in Tabs, Resolve(w) PROVE TypeOK'
  <2> DEFINE t == tab[w].token
             inTime == At(t[1], "deliver") \/ At(t[1], "wait")
  <2>1. t \in Tokens
    BY <1>z, <1>15 DEF Resolve, TabsFit
  <2>2. tab[w] \in TabRecord /\ tab[w].answer \in Answers \cup {None}
    BY <1>a, <1>15 DEF TypeOK, TabRecord
  <2>3. CASE pending[t] = None
    <3>1. [tab[w] EXCEPT !.status = "refused"] \in TabRecord
      BY <2>2, TabEdits
    <3> QED
      BY <1>a, <1>15, <2>3, <3>1 DEF Resolve, TypeOK
  <2>4. CASE pending[t] # None
    <3> DEFINE entry == [pending[t] EXCEPT !.result = tab[w].answer, !.set = TRUE]
               page == [tab[w] EXCEPT !.status = "accepted", !.inTime = inTime]
    <3>1. page \in TabRecord
      BY <2>2, TabEdits DEF At
    <3>. pending[t] \in Entry
      BY <1>a, <2>1, <2>4 DEF TypeOK
    <3>2. entry \in Entry
      BY <2>2 DEF Entry
    <3>3. /\ pending' = [pending EXCEPT ![t] = entry] /\ tab' = [tab EXCEPT ![w] = page]
          /\ UNCHANGED <<stage, want, ask, made, address, delivered, got, outcome>>
      BY <1>15, <2>4 DEF Resolve
    <3> HIDE DEF entry, page
    <3> QED
      BY <1>a, <2>1, <3>1, <3>2, <3>3 DEF TypeOK
  <2> QED
    BY <2>3, <2>4
<1>16. CASE UNCHANGED vars
  BY <1>a, <1>16 DEF vars, TypeOK, Inside, Outside, Moved, Methods, Ops, Request, Entry, Tokens
<1> QED
  BY <1>1, <1>2, <1>3, <1>4, <1>5, <1>6, <1>7, <1>8, <1>9, <1>10, <1>11, <1>12, <1>13,
     <1>14, <1>15, <1>16 DEF Next, Caller, Signer, Tab

(* The one that parks adds the entry of its own call.                      *)
LEMMA ParkKeepsPending ==
  ASSUME TypeOK, PendingIsInside, NEW c \in Callers, stage[c] \notin Inside,
         NEW o, NEW a, Park(c, o, a)
  PROVE  PendingIsInside'
<1> DEFINE new == <<c, made[c] + 1>>
<1>1. \A t \in Tokens : t[1] \in Callers
  BY TokenFacts
<1>2. /\ new \in Tokens /\ new[1] = c /\ Parked(c)' = new /\ stage'[c] = "deliver"
      /\ pending'[new] = [result |-> None, set |-> FALSE]
  BY ParkFacts
<1>3. /\ \A t \in Tokens : t # new => pending'[t] = pending[t]
      /\ \A d \in Callers : d # c => stage'[d] = stage[d] /\ Parked(d)' = Parked(d)
  BY ParkLeaves
<1>4. pending'[new] \in Entry
  BY <1>2 DEF Entry
<1> HIDE DEF new
<1>5. \A t \in Tokens : t[1] = c => pending[t] = None
  BY DEF PendingIsInside
<1> SUFFICES ASSUME NEW t \in Tokens
             PROVE  pending'[t] # None <=> t = Parked(t[1])' /\ stage'[t[1]] \in Inside
  BY DEF PendingIsInside, Inside
<1>6. CASE t = new
  BY <1>2, <1>4, <1>6, NoneFacts DEF Inside
<1>7. CASE t # new /\ t[1] = c
  BY <1>2, <1>3, <1>5, <1>7
<1>8. CASE t[1] # c
  BY <1>1, <1>2, <1>3, <1>8 DEF PendingIsInside
<1> QED
  BY <1>6, <1>7, <1>8

(* A request parks one entry, and every way out of it takes that entry out. *)
LEMMA PendingPreserved == IInv /\ [Next]_vars => PendingIsInside'
<1> SUFFICES ASSUME IInv, [Next]_vars PROVE PendingIsInside'
  OBVIOUS
<1>a. TypeOK
  BY DEF IInv
<1>b. PendingIsInside
  BY DEF IInv
<1>z. TypeOK /\ PendingIsInside /\ CallsFit /\ TabsFit
  BY DEF IInv
<1>1. ASSUME NEW c \in Callers, NEW m \in Methods, Call(c, m) PROVE PendingIsInside'
  BY <1>a, <1>b, <1>1 DEF Call, TypeOK, PendingIsInside, Parked, Moved, Inside, At
<1>2. ASSUME NEW c \in Callers, NEW a \in Accounts, Submit(c, a) PROVE PendingIsInside'
  <2>1. PICK o, b : Park(c, o, b) /\ UNCHANGED <<address, delivered, tab>>
    BY <1>2 DEF Submit
  <2>2. stage[c] \notin Inside
    BY <1>2 DEF Submit, At, Inside
  <2> QED
    BY <1>z, <2>1, <2>2, ParkKeepsPending
<1>3. ASSUME NEW c \in Callers, Connect(c) PROVE PendingIsInside'
  <2>1. PICK o, b : Park(c, o, b) /\ UNCHANGED <<address, delivered, tab>>
    BY <1>3 DEF Connect
  <2>2. stage[c] \notin Inside
    BY <1>3 DEF Connect, At, Inside
  <2> QED
    BY <1>z, <2>1, <2>2, ParkKeepsPending
<1>4. ASSUME NEW c \in Callers, UseAddress(c) PROVE PendingIsInside'
  <2>1. CASE want[c] = "sign"
    <3>1. PICK o, b : Park(c, o, b)
      BY <1>4, <2>1 DEF UseAddress
    <3>2. stage[c] \notin Inside
      BY <1>4 DEF UseAddress, At, Inside
    <3> QED
      BY <1>z, <3>1, <3>2, ParkKeepsPending
  <2>2. CASE want[c] # "sign"
    <3>1. UNCHANGED <<pending, made>>
      BY <1>4, <2>2 DEF UseAddress
    <3>2. stage[c] = "start" /\ stage' = [stage EXCEPT ![c] = "done"]
      BY <1>4, <2>2 DEF UseAddress, At, Moved
    <3>3. \A d \in Callers : stage'[d] \in Inside <=> stage[d] \in Inside
      BY <1>a, <3>2 DEF TypeOK, Inside
    <3> QED
      BY <1>b, <3>1, <3>3, TokenFacts DEF PendingIsInside, Parked
  <2> QED
    BY <2>1, <2>2
<1>5. ASSUME NEW c \in Callers, HandOver(c) PROVE PendingIsInside'
  BY <1>a, <1>b, <1>5 DEF HandOver, TypeOK, PendingIsInside, Parked, Moved, Inside, At
<1>6. ASSUME NEW c \in Callers, DeliverReturns(c) PROVE PendingIsInside'
  BY <1>a, <1>b, <1>6 DEF DeliverReturns, TypeOK, PendingIsInside, Parked, Moved, Inside, At
<1>7. ASSUME NEW c \in Callers, DeliverRaises(c) PROVE PendingIsInside'
  BY <1>a, <1>b, <1>7 DEF DeliverRaises, TypeOK, PendingIsInside, Parked, Moved, Inside, At
<1>8. ASSUME NEW c \in Callers, Wake(c) PROVE PendingIsInside'
  BY <1>a, <1>b, <1>8 DEF Wake, TypeOK, PendingIsInside, Parked, Moved, Inside, At
<1>9. ASSUME NEW c \in Callers, TimeOut(c) PROVE PendingIsInside'
  BY <1>a, <1>b, <1>9 DEF TimeOut, TypeOK, PendingIsInside, Parked, Moved, Inside, At
<1>10. ASSUME NEW c \in Callers, ReadResult(c) PROVE PendingIsInside'
  BY <1>a, <1>b, <1>10 DEF ReadResult, TypeOK, PendingIsInside, Parked, Moved, Inside, At
<1>11. ASSUME NEW c \in Callers, Leave(c) PROVE PendingIsInside'
  <2>1. stage[c] \in Inside
    BY <1>11 DEF Leave, At, Inside
  <2>2. Parked(c) \in Tokens /\ Parked(c)[1] = c
    BY <1>z, <2>1, InsideIsParked
  <2>3. pending' = [pending EXCEPT ![Parked(c)] = None] /\ UNCHANGED made
    BY <1>11 DEF Leave
  <2>4. stage'[c] \notin Inside /\ \A d \in Callers : d # c => stage'[d] = stage[d]
    BY <1>a, <1>11 DEF Leave, Ended, TypeOK, Moved, Inside
  <2> SUFFICES ASSUME NEW t \in Tokens
               PROVE  pending'[t] # None <=> t = Parked(t[1])' /\ stage'[t[1]] \in Inside
    BY DEF PendingIsInside, Inside
  <2>5. t[1] \in Callers /\ Parked(t[1])' = Parked(t[1])
    BY <2>3, TokenFacts DEF Parked
  <2>6. CASE t[1] = c
    <3>1. t # Parked(c) => pending[t] = None
      BY <1>b, <2>6 DEF PendingIsInside
    <3> QED
      BY <1>a, <2>2, <2>3, <2>4, <2>6, <3>1 DEF TypeOK
  <2>7. CASE t[1] # c
    BY <1>a, <1>b, <2>2, <2>3, <2>4, <2>5, <2>7 DEF TypeOK, PendingIsInside
  <2> QED
    BY <2>6, <2>7
<1>12. ASSUME NEW c \in Callers, StoreAddress(c) PROVE PendingIsInside'
  BY <1>a, <1>b, <1>12 DEF StoreAddress, TypeOK, PendingIsInside, Parked, Moved, Inside, At
<1>13. ASSUME NEW w \in Tabs, NEW t \in delivered, OpenUrl(w, t) PROVE PendingIsInside'
  BY <1>a, <1>b, <1>13 DEF OpenUrl, TypeOK, PendingIsInside, Parked, Moved, Inside, At
<1>14. ASSUME NEW w \in Tabs, NEW answer \in Answers, WalletSays(w, answer) PROVE PendingIsInside'
  BY <1>a, <1>b, <1>14 DEF WalletSays, TypeOK, PendingIsInside, Parked, Moved, Inside, At
<1>15. ASSUME NEW w \in Tabs, Resolve(w) PROVE PendingIsInside'
  <2> DEFINE t == tab[w].token
  <2>1. UNCHANGED <<stage, made>>
    BY <1>15 DEF Resolve
  <2>2. \A x \in Tokens : pending'[x] # None <=> pending[x] # None
    <3>1. CASE pending[t] = None
      BY <1>15, <3>1 DEF Resolve
    <3>2. CASE pending[t] # None
      <4>1. t \in Tokens
        BY <1>z, <1>15 DEF Resolve, TabsFit
      <4> DEFINE entry == [pending[t] EXCEPT !.result = tab[w].answer, !.set = TRUE]
      <4>2. pending' = [pending EXCEPT ![t] = entry]
        BY <1>15, <3>2 DEF Resolve
      <4>3. entry # None
        <5>1. tab[w].answer \in Answers \cup {None} /\ pending[t] \in Entry
          BY <1>a, <4>1, <3>2 DEF TypeOK, TabRecord
        <5>2. entry \in Entry
          BY <5>1 DEF Entry
        <5> QED
          BY <5>2, NoneFacts
      <4> HIDE DEF entry, t
      <4> QED
        BY <1>a, <3>2, <4>1, <4>2, <4>3 DEF TypeOK
    <3> QED
      BY <3>1, <3>2
  <2> QED
    BY <1>b, <2>1, <2>2 DEF PendingIsInside, Parked
<1>16. CASE UNCHANGED vars
  BY <1>a, <1>b, <1>16 DEF vars, TypeOK, PendingIsInside, Parked, Moved, Inside, At
<1> QED
  BY <1>1, <1>2, <1>3, <1>4, <1>5, <1>6, <1>7, <1>8, <1>9, <1>10, <1>11, <1>12, <1>13,
     <1>14, <1>15, <1>16 DEF Next, Caller, Signer, Tab

(* A thread inside a call has made its request, and knows what came of it. *)
LEMMA CallsPreserved == IInv /\ [Next]_vars => CallsFit'
<1> SUFFICES ASSUME IInv, [Next]_vars PROVE CallsFit'
  OBVIOUS
<1>a. TypeOK
  BY DEF IInv
<1>b. CallsFit
  BY DEF IInv
<1>z. TypeOK /\ PendingIsInside /\ CallsFit /\ TabsFit /\ EntriesFit
  BY DEF IInv
<1>1. ASSUME NEW c \in Callers, NEW m \in Methods, Call(c, m) PROVE CallsFit'
  BY <1>a, <1>b, <1>1 DEF Call, CallsFit, TypeOK, Parked, Moved, Inside, At
<1>2. ASSUME NEW c \in Callers, NEW a \in Accounts, Submit(c, a) PROVE CallsFit'
  BY <1>a, <1>b, <1>2 DEF Submit, Park, CallsFit, TypeOK, Parked, Moved, Inside, At
<1>3. ASSUME NEW c \in Callers, Connect(c) PROVE CallsFit'
  BY <1>a, <1>b, <1>3 DEF Connect, Park, CallsFit, TypeOK, Parked, Moved, Inside, At
<1>4. ASSUME NEW c \in Callers, UseAddress(c) PROVE CallsFit'
  <2>1. CASE want[c] = "sign"
    <3>1. Park(c, "sign", address) /\ stage[c] = "start" /\ UNCHANGED <<want, outcome>>
      BY <1>4, <2>1 DEF UseAddress, At
    <3> QED
      BY <1>a, <1>b, <2>1, <3>1 DEF Park, CallsFit, TypeOK, Parked, Moved, Inside
  <2>2. CASE want[c] # "sign"
    <3>1. Says("account", address) # None
      <4>1. address \in Accounts
        BY <1>a, <1>4 DEF UseAddress, TypeOK
      <4> QED
        BY <4>1, AnswerFacts DEF Answers, Says
    <3>2. /\ stage' = [stage EXCEPT ![c] = "done"]
          /\ outcome' = [outcome EXCEPT ![c] = Says("account", address)]
          /\ UNCHANGED <<want, ask, made, address, pending, got>>
      BY <1>4, <2>2 DEF UseAddress, Moved
    <3> QED
      BY <1>a, <1>b, <3>1, <3>2 DEF CallsFit, TypeOK, Parked, Inside
  <2> QED
    BY <2>1, <2>2
<1>5. ASSUME NEW c \in Callers, HandOver(c) PROVE CallsFit'
  BY <1>a, <1>b, <1>5 DEF HandOver, CallsFit, TypeOK, Parked, Moved, Inside, At
<1>6. ASSUME NEW c \in Callers, DeliverReturns(c) PROVE CallsFit'
  BY <1>a, <1>b, <1>6 DEF DeliverReturns, CallsFit, TypeOK, Parked, Moved, Inside, At
<1>7. ASSUME NEW c \in Callers, DeliverRaises(c) PROVE CallsFit'
  BY <1>a, <1>b, <1>7 DEF DeliverRaises, CallsFit, TypeOK, Parked, Moved, Inside, At
<1>8. ASSUME NEW c \in Callers, Wake(c) PROVE CallsFit'
  BY <1>a, <1>b, <1>8 DEF Wake, CallsFit, TypeOK, Parked, Moved, Inside, At
<1>9. ASSUME NEW c \in Callers, TimeOut(c) PROVE CallsFit'
  BY <1>a, <1>b, <1>9 DEF TimeOut, CallsFit, TypeOK, Parked, Moved, Inside, At
<1>10. ASSUME NEW c \in Callers, ReadResult(c) PROVE CallsFit'
  <2>1. got'[c] # None
    <3>1. Parked(c) \in Tokens /\ pending[Parked(c)] # None
      BY <1>z, <1>10, InsideIsParked DEF ReadResult, At, Inside
    <3>2. pending[Parked(c)].result # None
      BY <1>z, <1>10, <3>1 DEF ReadResult, At, CallsFit, EntriesFit
    <3> QED
      BY <1>a, <1>10, <3>2 DEF ReadResult, TypeOK
  <2> QED
    BY <1>a, <1>b, <1>10, <2>1 DEF ReadResult, CallsFit, TypeOK, Parked, Moved, Inside, At
<1>11. ASSUME NEW c \in Callers, Leave(c) PROVE CallsFit'
  BY <1>a, <1>b, <1>11 DEF Leave, Ended, CallsFit, TypeOK, Parked, Moved, Inside, At
<1>12. ASSUME NEW c \in Callers, StoreAddress(c) PROVE CallsFit'
  BY <1>a, <1>b, <1>12 DEF StoreAddress, CallsFit, TypeOK, Parked, Moved, Inside, At
<1>13. ASSUME NEW w \in Tabs, NEW t \in delivered, OpenUrl(w, t) PROVE CallsFit'
  BY <1>a, <1>b, <1>13 DEF OpenUrl, CallsFit, TypeOK, Parked, Moved, Inside, At
<1>14. ASSUME NEW w \in Tabs, NEW answer \in Answers, WalletSays(w, answer) PROVE CallsFit'
  BY <1>a, <1>b, <1>14 DEF WalletSays, CallsFit, TypeOK, Parked, Moved, Inside, At
<1>15. ASSUME NEW w \in Tabs, Resolve(w) PROVE CallsFit'
  <2> DEFINE t == tab[w].token
  <2>1. \A x \in Tokens : pending[x] # None /\ pending[x].set => pending'[x].set
    <3>1. CASE pending[t] = None
      BY <1>15, <3>1 DEF Resolve
    <3>2. CASE pending[t] # None
      <4>1. t \in Tokens
        BY <1>z, <1>15 DEF Resolve, TabsFit
      <4>2. pending[t] \in Entry
        BY <1>a, <3>2, <4>1 DEF TypeOK
      <4> DEFINE entry == [pending[t] EXCEPT !.result = tab[w].answer, !.set = TRUE]
      <4>3. pending' = [pending EXCEPT ![t] = entry]
        BY <1>15, <3>2 DEF Resolve
      <4>4. entry.set
        BY <4>2 DEF Entry
      <4> HIDE DEF entry, t
      <4> QED
        BY <1>a, <4>1, <4>3, <4>4 DEF TypeOK
    <3> QED
      BY <3>1, <3>2
  <2>2. \A d \in Callers : stage[d] = "woken" => Parked(d) \in Tokens /\ pending[Parked(d)] # None
    BY <1>z, InsideIsParked DEF Inside
  <2>3. UNCHANGED <<stage, want, ask, made, got, outcome>>
    BY <1>15 DEF Resolve
  <2> QED
    BY <1>b, <2>1, <2>2, <2>3 DEF CallsFit, Parked
<1>16. CASE UNCHANGED vars
  BY <1>a, <1>b, <1>16 DEF vars, CallsFit, TypeOK, Parked, Moved, Inside, At
<1> QED
  BY <1>1, <1>2, <1>3, <1>4, <1>5, <1>6, <1>7, <1>8, <1>9, <1>10, <1>11, <1>12, <1>13,
     <1>14, <1>15, <1>16 DEF Next, Caller, Signer, Tab

(* An answer in an entry is that of a tab which showed its very URL. *)
LEMMA EntriesPreserved == IInv /\ [Next]_vars => EntriesFit'
<1> SUFFICES ASSUME IInv, [Next]_vars PROVE EntriesFit'
  OBVIOUS
<1>a. TypeOK
  BY DEF IInv
<1>b. EntriesFit
  BY DEF IInv
<1>z. TypeOK /\ PendingIsInside /\ CallsFit /\ TabsFit /\ EntriesFit
  BY DEF IInv
<1>1. ASSUME NEW c \in Callers, NEW m \in Methods, Call(c, m) PROVE EntriesFit'
  BY <1>a, <1>b, <1>1 DEF Call, EntriesFit, TypeOK, Parked, Moved, Inside, At
<1>2. ASSUME NEW c \in Callers, NEW a \in Accounts, Submit(c, a) PROVE EntriesFit'
  BY <1>a, <1>b, <1>2 DEF Submit, Park, EntriesFit, TypeOK, Parked, Moved, Inside, At
<1>3. ASSUME NEW c \in Callers, Connect(c) PROVE EntriesFit'
  BY <1>a, <1>b, <1>3 DEF Connect, Park, EntriesFit, TypeOK, Parked, Moved, Inside, At
<1>4. ASSUME NEW c \in Callers, UseAddress(c) PROVE EntriesFit'
  BY <1>a, <1>b, <1>4 DEF UseAddress, Park, EntriesFit, TypeOK, Parked, Moved, Inside, At
<1>5. ASSUME NEW c \in Callers, HandOver(c) PROVE EntriesFit'
  BY <1>a, <1>b, <1>5 DEF HandOver, EntriesFit, TypeOK, Parked, Moved, Inside, At
<1>6. ASSUME NEW c \in Callers, DeliverReturns(c) PROVE EntriesFit'
  BY <1>a, <1>b, <1>6 DEF DeliverReturns, EntriesFit, TypeOK, Parked, Moved, Inside, At
<1>7. ASSUME NEW c \in Callers, DeliverRaises(c) PROVE EntriesFit'
  BY <1>a, <1>b, <1>7 DEF DeliverRaises, EntriesFit, TypeOK, Parked, Moved, Inside, At
<1>8. ASSUME NEW c \in Callers, Wake(c) PROVE EntriesFit'
  BY <1>a, <1>b, <1>8 DEF Wake, EntriesFit, TypeOK, Parked, Moved, Inside, At
<1>9. ASSUME NEW c \in Callers, TimeOut(c) PROVE EntriesFit'
  BY <1>a, <1>b, <1>9 DEF TimeOut, EntriesFit, TypeOK, Parked, Moved, Inside, At
<1>10. ASSUME NEW c \in Callers, ReadResult(c) PROVE EntriesFit'
  BY <1>a, <1>b, <1>10 DEF ReadResult, EntriesFit, TypeOK, Parked, Moved, Inside, At
<1>11. ASSUME NEW c \in Callers, Leave(c) PROVE EntriesFit'
  BY <1>a, <1>b, <1>11 DEF Leave, Ended, EntriesFit, TypeOK, Parked, Moved, Inside, At
<1>12. ASSUME NEW c \in Callers, StoreAddress(c) PROVE EntriesFit'
  BY <1>a, <1>b, <1>12 DEF StoreAddress, EntriesFit, TypeOK, Parked, Moved, Inside, At
<1>13. ASSUME NEW w \in Tabs, NEW t \in delivered, OpenUrl(w, t) PROVE EntriesFit'
  BY <1>a, <1>b, <1>13 DEF OpenUrl, EntriesFit, TypeOK, Parked, Moved, Inside, At
<1>14. ASSUME NEW w \in Tabs, NEW answer \in Answers, WalletSays(w, answer) PROVE EntriesFit'
  BY <1>a, <1>b, <1>14 DEF WalletSays, EntriesFit, TypeOK, Parked, Moved, Inside, At
<1>15. ASSUME NEW w \in Tabs, Resolve(w) PROVE EntriesFit'
  <2> DEFINE t == tab[w].token
  <2>1. CASE pending[t] = None
    <3>1. UNCHANGED pending /\ tab' = [tab EXCEPT ![w].status = "refused"]
      BY <1>15, <2>1 DEF Resolve
    <3>2. tab[w].status = "answered" /\ tab[w] \in TabRecord
      BY <1>a, <1>15 DEF Resolve, TypeOK
    <3>3. \A v \in Tabs : tab[v].status = "accepted" => tab'[v] = tab[v]
      BY <1>a, <3>1, <3>2 DEF TypeOK
    <3>4. ASSUME NEW x \in Tokens, pending[x] # None, pending[x].result # None
          PROVE  \E v \in Tabs : /\ tab'[v].status = "accepted" /\ tab'[v].token = x
                                 /\ tab'[v].answer = pending[x].result
      BY <1>b, <3>3, <3>4 DEF EntriesFit
    <3> QED
      BY <1>b, <3>1, <3>4 DEF EntriesFit
  <2>2. CASE pending[t] # None
    <3> DEFINE inTime == At(t[1], "deliver") \/ At(t[1], "wait")
               entry == [pending[t] EXCEPT !.result = tab[w].answer, !.set = TRUE]
               page == [tab[w] EXCEPT !.status = "accepted", !.inTime = inTime]
    <3>1. pending' = [pending EXCEPT ![t] = entry] /\ tab' = [tab EXCEPT ![w] = page]
      BY <1>15, <2>2 DEF Resolve
    <3>2. t \in Tokens /\ tab[w].status = "answered" /\ tab[w].answer # None
      BY <1>z, <1>15 DEF Resolve, TabsFit
    <3>3. pending[t] \in Entry /\ tab[w] \in TabRecord
      BY <1>a, <2>2, <3>2 DEF TypeOK
    <3>4. entry.set /\ entry.result = tab[w].answer
      BY <3>3 DEF Entry
    <3>5. page.status = "accepted" /\ page.answer = tab[w].answer /\ page.token = t
      BY <3>3 DEF TabRecord
    <3> HIDE DEF entry, page, t
    <3>6. \A v \in Tabs : tab[v].status = "accepted" => tab'[v] = tab[v]
      BY <1>a, <3>1, <3>2 DEF TypeOK
    <3>7. tab'[w] = page /\ pending'[t] = entry
      BY <1>a, <3>1, <3>2 DEF TypeOK
    <3>8. \A x \in Tokens : x # t => pending'[x] = pending[x]
      BY <1>a, <3>1, <3>2 DEF TypeOK
    <3> QED
      BY <1>b, <3>2, <3>4, <3>5, <3>6, <3>7, <3>8 DEF EntriesFit
  <2> QED
    BY <2>1, <2>2
<1>16. CASE UNCHANGED vars
  BY <1>a, <1>b, <1>16 DEF vars, EntriesFit, TypeOK, Parked, Moved, Inside, At
<1> QED
  BY <1>1, <1>2, <1>3, <1>4, <1>5, <1>6, <1>7, <1>8, <1>9, <1>10, <1>11, <1>12, <1>13,
     <1>14, <1>15, <1>16 DEF Next, Caller, Signer, Tab

(* Only the URL of a request that was made is delivered. *)
LEMMA DeliveredPreserved == IInv /\ [Next]_vars => DeliveredFit'
<1> SUFFICES ASSUME IInv, [Next]_vars PROVE DeliveredFit'
  OBVIOUS
<1>a. TypeOK
  BY DEF IInv
<1>b. DeliveredFit
  BY DEF IInv
<1>z. TypeOK /\ PendingIsInside /\ CallsFit /\ TabsFit /\ EntriesFit
  BY DEF IInv
<1>1. ASSUME NEW c \in Callers, NEW m \in Methods, Call(c, m) PROVE DeliveredFit'
  BY <1>a, <1>b, <1>1 DEF Call, DeliveredFit, TypeOK, Parked, Moved, Inside, At
<1>2. ASSUME NEW c \in Callers, NEW a \in Accounts, Submit(c, a) PROVE DeliveredFit'
  BY <1>a, <1>b, <1>2, TokenFacts DEF Submit, Park, DeliveredFit, TypeOK
<1>3. ASSUME NEW c \in Callers, Connect(c) PROVE DeliveredFit'
  BY <1>a, <1>b, <1>3, TokenFacts DEF Connect, Park, DeliveredFit, TypeOK
<1>4. ASSUME NEW c \in Callers, UseAddress(c) PROVE DeliveredFit'
  BY <1>a, <1>b, <1>4, TokenFacts DEF UseAddress, Park, DeliveredFit, TypeOK
<1>5. ASSUME NEW c \in Callers, HandOver(c) PROVE DeliveredFit'
  BY <1>a, <1>b, <1>5 DEF HandOver, DeliveredFit, TypeOK, Parked, Moved, Inside, At
<1>6. ASSUME NEW c \in Callers, DeliverReturns(c) PROVE DeliveredFit'
  BY <1>a, <1>b, <1>6 DEF DeliverReturns, DeliveredFit, TypeOK, Parked, Moved, Inside, At
<1>7. ASSUME NEW c \in Callers, DeliverRaises(c) PROVE DeliveredFit'
  BY <1>a, <1>b, <1>7 DEF DeliverRaises, DeliveredFit, TypeOK, Parked, Moved, Inside, At
<1>8. ASSUME NEW c \in Callers, Wake(c) PROVE DeliveredFit'
  BY <1>a, <1>b, <1>8 DEF Wake, DeliveredFit, TypeOK, Parked, Moved, Inside, At
<1>9. ASSUME NEW c \in Callers, TimeOut(c) PROVE DeliveredFit'
  BY <1>a, <1>b, <1>9 DEF TimeOut, DeliveredFit, TypeOK, Parked, Moved, Inside, At
<1>10. ASSUME NEW c \in Callers, ReadResult(c) PROVE DeliveredFit'
  BY <1>a, <1>b, <1>10 DEF ReadResult, DeliveredFit, TypeOK, Parked, Moved, Inside, At
<1>11. ASSUME NEW c \in Callers, Leave(c) PROVE DeliveredFit'
  BY <1>a, <1>b, <1>11 DEF Leave, Ended, DeliveredFit, TypeOK, Parked, Moved, Inside, At
<1>12. ASSUME NEW c \in Callers, StoreAddress(c) PROVE DeliveredFit'
  BY <1>a, <1>b, <1>12 DEF StoreAddress, DeliveredFit, TypeOK, Parked, Moved, Inside, At
<1>13. ASSUME NEW w \in Tabs, NEW t \in delivered, OpenUrl(w, t) PROVE DeliveredFit'
  BY <1>a, <1>b, <1>13 DEF OpenUrl, DeliveredFit, TypeOK, Parked, Moved, Inside, At
<1>14. ASSUME NEW w \in Tabs, NEW answer \in Answers, WalletSays(w, answer) PROVE DeliveredFit'
  BY <1>a, <1>b, <1>14 DEF WalletSays, DeliveredFit, TypeOK, Parked, Moved, Inside, At
<1>15. ASSUME NEW w \in Tabs, Resolve(w) PROVE DeliveredFit'
  BY <1>a, <1>b, <1>15 DEF Resolve, DeliveredFit, TypeOK, Parked, Moved, Inside, At
<1>16. CASE UNCHANGED vars
  BY <1>a, <1>b, <1>16 DEF vars, DeliveredFit, TypeOK, Parked, Moved, Inside, At
<1> QED
  BY <1>1, <1>2, <1>3, <1>4, <1>5, <1>6, <1>7, <1>8, <1>9, <1>10, <1>11, <1>12, <1>13,
     <1>14, <1>15, <1>16 DEF Next, Caller, Signer, Tab

(* When one thread parks a new operation, what the tabs show of the others,
   and of its own former ones, stays what it was.                          *)
LEMMA ParkKeepsTabs ==
  ASSUME TypeOK, TabsFit, NEW c \in Callers, NEW o, NEW a, Park(c, o, a), UNCHANGED tab
  PROVE  TabsFit'
<1> DEFINE new == <<c, made[c] + 1>>
<1>a. /\ new \in Tokens /\ new[1] = c /\ new[2] = made[c] + 1
      /\ made'[c] = made[c] + 1 /\ made[c] \in Nat /\ Parked(c)' = new
  BY ParkFacts
<1>b. \A t \in Tokens : t # new => pending'[t] = pending[t]
  BY ParkFacts
<1>c. \A d \in Callers : d # c =>
        /\ stage'[d] = stage[d] /\ made'[d] = made[d] /\ Parked(d)' = Parked(d)
        /\ ask'[d] = ask[d]
  BY DEF Park, TypeOK, Moved, Parked
<1> HIDE DEF new
<1>1. /\ new \in Tokens /\ new[1] = c /\ new[2] = made[c] + 1
      /\ made'[c] = made[c] + 1 /\ made[c] \in Nat /\ Parked(c)' = new
      /\ \A t \in Tokens : t # new => pending'[t] = pending[t]
      /\ \A d \in Callers : d # c =>
           /\ stage'[d] = stage[d] /\ made'[d] = made[d] /\ Parked(d)' = Parked(d)
           /\ ask'[d] = ask[d]
  BY <1>a, <1>b, <1>c
<1> SUFFICES ASSUME NEW w \in Tabs PROVE TabsFit!(w)'
  BY DEF TabsFit
<1> DEFINE t == tab[w].token
<1>2. CASE tab[w].status = "blank"
  BY <1>2 DEF TabsFit
<1>3. CASE tab[w].status # "blank"
  <2>1. t \in Tokens /\ t[1] \in Callers /\ t[2] \in Nat /\ t[2] <= made[t[1]]
    BY <1>3, TokenFacts DEF TabsFit
  <2>2. t[2] <= made'[t[1]] /\ t # new
    BY <1>1, <2>1 DEF TypeOK
  <2>3. Latest(t)' => Latest(t) /\ t[1] # c
    BY <1>1, <2>1, <2>2 DEF Latest
  <2>4. pending'[t] = pending[t]
    BY <1>1, <2>1, <2>2
  <2> QED
    BY <1>1, <2>1, <2>2, <2>3, <2>4 DEF TabsFit, Latest
<1> QED
  BY <1>2, <1>3

(* A tab shows the operation of its URL, and says what the wallet may say to it. *)
LEMMA TabsPreserved == IInv /\ [Next]_vars => TabsFit'
<1> SUFFICES ASSUME IInv, [Next]_vars PROVE TabsFit'
  OBVIOUS
<1>a. TypeOK
  BY DEF IInv
<1>b. TabsFit
  BY DEF IInv
<1>z. TypeOK /\ PendingIsInside /\ CallsFit /\ TabsFit /\ EntriesFit /\ DeliveredFit
  BY DEF IInv
<1>1. ASSUME NEW c \in Callers, NEW m \in Methods, Call(c, m) PROVE TabsFit'
  BY <1>a, <1>b, <1>1 DEF Call, TabsFit, TypeOK, Latest, Parked, Moved, Inside, At
<1>2. ASSUME NEW c \in Callers, NEW a \in Accounts, Submit(c, a) PROVE TabsFit'
  <2>1. PICK o, b : Park(c, o, b) /\ UNCHANGED tab
    BY <1>2 DEF Submit
  <2> QED
    BY <1>z, <2>1, ParkKeepsTabs
<1>3. ASSUME NEW c \in Callers, Connect(c) PROVE TabsFit'
  <2>1. PICK o, b : Park(c, o, b) /\ UNCHANGED tab
    BY <1>3 DEF Connect
  <2> QED
    BY <1>z, <2>1, ParkKeepsTabs
<1>4. ASSUME NEW c \in Callers, UseAddress(c) PROVE TabsFit'
  <2>1. CASE want[c] = "sign"
    <3>1. Park(c, "sign", address) /\ UNCHANGED tab
      BY <1>4, <2>1 DEF UseAddress
    <3> QED
      BY <1>z, <3>1, ParkKeepsTabs
  <2>2. CASE want[c] # "sign"
    <3>1. stage' = [stage EXCEPT ![c] = "done"] /\ UNCHANGED <<ask, made, pending, tab>>
      BY <1>4, <2>2 DEF UseAddress, Moved
    <3> QED
      BY <1>a, <1>b, <3>1 DEF TabsFit, TypeOK, Latest, Parked
  <2> QED
    BY <2>1, <2>2
<1>5. ASSUME NEW c \in Callers, HandOver(c) PROVE TabsFit'
  BY <1>a, <1>b, <1>5 DEF HandOver, TabsFit, TypeOK, Latest, Parked, Moved, Inside, At
<1>6. ASSUME NEW c \in Callers, DeliverReturns(c) PROVE TabsFit'
  BY <1>a, <1>b, <1>6 DEF DeliverReturns, TabsFit, TypeOK, Latest, Parked, Moved, Inside, At
<1>7. ASSUME NEW c \in Callers, DeliverRaises(c) PROVE TabsFit'
  BY <1>a, <1>b, <1>7 DEF DeliverRaises, TabsFit, TypeOK, Latest, Parked, Moved, Inside, At
<1>8. ASSUME NEW c \in Callers, Wake(c) PROVE TabsFit'
  BY <1>a, <1>b, <1>8 DEF Wake, TabsFit, TypeOK, Latest, Parked, Moved, Inside, At
<1>9. ASSUME NEW c \in Callers, TimeOut(c) PROVE TabsFit'
  BY <1>a, <1>b, <1>9 DEF TimeOut, TabsFit, TypeOK, Latest, Parked, Moved, Inside, At
<1>10. ASSUME NEW c \in Callers, ReadResult(c) PROVE TabsFit'
  BY <1>a, <1>b, <1>10 DEF ReadResult, TabsFit, TypeOK, Latest, Parked, Moved, Inside, At
<1>11. ASSUME NEW c \in Callers, Leave(c) PROVE TabsFit'
  <2>1. stage[c] \notin {"deliver", "wait"} /\ UNCHANGED <<ask, made, tab>>
    BY <1>11 DEF Leave, At
  <2>2. stage'[c] \notin {"deliver", "wait"} /\ \A d \in Callers : d # c => stage'[d] = stage[d]
    BY <1>a, <1>11 DEF Leave, Ended, TypeOK, Moved
  <2>3. Parked(c) \in Tokens /\ Parked(c)[1] = c
    BY <1>z, <1>11, InsideIsParked DEF Leave, At, Inside
  <2>4. \A t \in Tokens : t # Parked(c) => pending'[t] = pending[t]
    BY <1>a, <1>11 DEF Leave, TypeOK
  <2>5. \A t \in Tokens : t[1] \in Callers /\ Latest(t)' = Latest(t)
    BY <2>1, TokenFacts DEF Latest, Parked
  <2> SUFFICES ASSUME NEW w \in Tabs PROVE TabsFit!(w)'
    BY DEF TabsFit
  <2>6. CASE tab[w].status = "blank"
    BY <1>b, <2>1, <2>6 DEF TabsFit
  <2>7. CASE tab[w].status # "blank"
    <3>1. tab[w].token \in Tokens
      BY <1>b, <2>7 DEF TabsFit
    <3> QED
      BY <1>b, <2>1, <2>2, <2>3, <2>4, <2>5, <3>1 DEF TabsFit
  <2> QED
    BY <2>6, <2>7
<1>12. ASSUME NEW c \in Callers, StoreAddress(c) PROVE TabsFit'
  BY <1>a, <1>b, <1>12 DEF StoreAddress, TabsFit, TypeOK, Latest, Parked, Moved, Inside, At
<1>13. ASSUME NEW w \in Tabs, NEW t \in delivered, OpenUrl(w, t) PROVE TabsFit'
  <2>1. UNCHANGED <<stage, ask, made, pending>> /\ tab[w].status = "blank"
    BY <1>13 DEF OpenUrl
  <2>2. t \in Tokens /\ t[1] \in Callers /\ t[2] <= made[t[1]]
    BY <1>z, <1>13, TokenFacts DEF TypeOK, DeliveredFit
  <2>3. tab[w] \in TabRecord /\ \A v \in Tabs : v # w => tab'[v] = tab[v]
    BY <1>a, <1>13 DEF OpenUrl, TypeOK
  <2>4. /\ tab'[w].token = t
        /\ tab'[w].shows = IF pending[t] = None THEN None ELSE ask[t[1]]
        /\ tab'[w].status = IF pending[t] = None THEN "refused" ELSE "asking"
        /\ tab'[w].inTime = tab[w].inTime
    BY <1>a, <1>13, <2>3 DEF OpenUrl, TypeOK, TabRecord
  <2>5. ~tab'[w].inTime
    BY <1>b, <2>1, <2>3, <2>4 DEF TabsFit, TabRecord
  <2>6. ask[t[1]] \in Request
    BY <1>a, <2>2 DEF TypeOK
  <2>7. TabsFit!(w)'
    BY <2>1, <2>2, <2>4, <2>5, <2>6
  <2>8. \A v \in Tabs : v # w => TabsFit!(v)'
    BY <1>b, <2>1, <2>3 DEF TabsFit, Latest, Parked
  <2> QED
    BY <2>7, <2>8 DEF TabsFit
<1>14. ASSUME NEW w \in Tabs, NEW answer \in Answers, WalletSays(w, answer) PROVE TabsFit'
  BY <1>a, <1>b, <1>14 DEF WalletSays, TabsFit, TypeOK, Latest, Parked, Moved, Inside, At
<1>15. ASSUME NEW w \in Tabs, Resolve(w) PROVE TabsFit'
  <2> DEFINE t == tab[w].token
             inTime == At(t[1], "deliver") \/ At(t[1], "wait")
             entry == [pending[t] EXCEPT !.result = tab[w].answer, !.set = TRUE]
  <2>1. UNCHANGED <<stage, ask, made>> /\ tab[w].status = "answered" /\ tab[w] \in TabRecord
    BY <1>a, <1>15 DEF Resolve, TypeOK
  <2>2. t \in Tokens
    BY <1>b, <2>1 DEF TabsFit
  <2>3. /\ tab'[w].token = t /\ tab'[w].shows = tab[w].shows /\ tab'[w].answer = tab[w].answer
        /\ \A v \in Tabs : v # w => tab'[v] = tab[v]
    BY <1>a, <1>15, <2>1 DEF Resolve, TypeOK, TabRecord
  <2>4. CASE pending[t] = None
    <3>1. UNCHANGED pending /\ tab' = [tab EXCEPT ![w].status = "refused"]
      BY <1>15, <2>4 DEF Resolve
    <3>2. tab'[w].status = "refused" /\ ~tab'[w].inTime
      BY <1>a, <1>b, <2>1, <3>1 DEF TypeOK, TabRecord, TabsFit
    <3>3. TabsFit!(w)'
      BY <1>b, <2>1, <2>2, <2>3, <3>2 DEF TabsFit
    <3>4. \A v \in Tabs : v # w => TabsFit!(v)'
      BY <1>b, <2>1, <2>3, <3>1 DEF TabsFit, Latest, Parked
    <3> QED
      BY <3>3, <3>4 DEF TabsFit
  <2>5. CASE pending[t] # None
    <3>1. /\ pending' = [pending EXCEPT ![t] = entry]
          /\ tab' = [tab EXCEPT ![w].status = "accepted", ![w].inTime = inTime]
      BY <1>15, <2>5 DEF Resolve
    <3>2. tab'[w].status = "accepted"
      BY <1>a, <2>1, <3>1 DEF TypeOK, TabRecord
    <3>3. entry.set
      <4>1. pending[t] \in Entry
        BY <1>a, <2>2, <2>5 DEF TypeOK
      <4> QED
        BY <4>1 DEF Entry
    <3> HIDE DEF entry
    <3>4. pending'[t].set /\ \A x \in Tokens : pending'[x] = pending[x] \/ pending'[x].set
      BY <1>a, <2>2, <3>1, <3>3 DEF TypeOK
    <3>5. TabsFit!(w)'
      BY <1>b, <2>1, <2>2, <2>3, <3>2, <3>4 DEF TabsFit, Latest, Parked
    <3>6. \A v \in Tabs : v # w => TabsFit!(v)'
      BY <1>b, <2>1, <2>3, <3>4 DEF TabsFit, Latest, Parked
    <3> QED
      BY <3>5, <3>6 DEF TabsFit
  <2> QED
    BY <2>4, <2>5
<1>16. CASE UNCHANGED vars
  BY <1>a, <1>b, <1>16 DEF vars, TabsFit, TypeOK, Latest, Parked, Moved, Inside, At
<1> QED
  BY <1>1, <1>2, <1>3, <1>4, <1>5, <1>6, <1>7, <1>8, <1>9, <1>10, <1>11, <1>12, <1>13,
     <1>14, <1>15, <1>16 DEF Next, Caller, Signer, Tab

(* A tab whose answer was accepted never changes again. *)
LEMMA AcceptedStays ==
  TypeOK /\ [Next]_vars => \A v \in Tabs : tab[v].status = "accepted" => tab'[v] = tab[v]
<1> SUFFICES ASSUME TypeOK, [Next]_vars, NEW v \in Tabs, tab[v].status = "accepted"
             PROVE  tab'[v] = tab[v]
  OBVIOUS
<1>1. ASSUME NEW c \in Callers, Caller(c) PROVE UNCHANGED tab
  BY <1>1 DEF Caller, Signer, Call, Submit, Connect, UseAddress, HandOver, DeliverReturns,
     DeliverRaises, Wake, TimeOut, ReadResult, Leave, StoreAddress
<1>2. ASSUME NEW w \in Tabs, Tab(w) PROVE tab'[v] = tab[v]
  BY <1>2 DEF Tab, OpenUrl, WalletSays, Resolve, TypeOK
<1> QED
  BY <1>1, <1>2 DEF Next, vars

(* What a call has got stays its own while the accepted answers stay.      *)
LEMMA AnswerKept ==
  ASSUME AnswerIsOwn, UNCHANGED <<stage, want, ask, made, got, outcome>>,
         \A v \in Tabs : tab[v].status = "accepted" => tab'[v] = tab[v]
  PROVE  AnswerIsOwn'
<1>1. \A c \in Callers : Parked(c)' = Parked(c) /\ (At(c, "done")' <=> At(c, "done"))
  BY DEF Parked, At
<1>2. ASSUME NEW c \in Callers, got[c] # None
      PROVE  \E w \in Tabs : /\ tab'[w].status = "accepted" /\ tab'[w].answer = got[c]
                             /\ tab'[w].token = Parked(c)
  BY <1>2 DEF AnswerIsOwn
<1> QED
  BY <1>1, <1>2 DEF AnswerIsOwn

(* What a call reads, and what it returns, was said to a tab with its URL. *)
LEMMA AnswerPreserved == IInv /\ [Next]_vars => AnswerIsOwn'
<1> SUFFICES ASSUME IInv, [Next]_vars PROVE AnswerIsOwn'
  OBVIOUS
<1>a. TypeOK
  BY DEF IInv
<1>b. AnswerIsOwn
  BY DEF IInv
<1>z. TypeOK /\ PendingIsInside /\ CallsFit /\ TabsFit /\ EntriesFit /\ DeliveredFit
  BY DEF IInv
<1>1. ASSUME NEW c \in Callers, NEW m \in Methods, Call(c, m) PROVE AnswerIsOwn'
  BY <1>a, <1>b, <1>1 DEF Call, AnswerIsOwn, TypeOK, Parked, Moved, At
<1>2. ASSUME NEW c \in Callers, NEW a \in Accounts, Submit(c, a) PROVE AnswerIsOwn'
  BY <1>a, <1>b, <1>2 DEF Submit, Park, AnswerIsOwn, TypeOK, Parked, Moved, At
<1>3. ASSUME NEW c \in Callers, Connect(c) PROVE AnswerIsOwn'
  BY <1>a, <1>b, <1>3 DEF Connect, Park, AnswerIsOwn, TypeOK, Parked, Moved, At
<1>4. ASSUME NEW c \in Callers, UseAddress(c) PROVE AnswerIsOwn'
  <2>1. CASE want[c] = "sign"
    <3>1. Park(c, "sign", address) /\ UNCHANGED <<want, outcome, tab>>
      BY <1>4, <2>1 DEF UseAddress
    <3> QED
      BY <1>a, <1>b, <3>1 DEF Park, AnswerIsOwn, TypeOK, Parked, Moved, At
  <2>2. CASE want[c] # "sign"
    <3>1. /\ stage' = [stage EXCEPT ![c] = "done"]
          /\ outcome' = [outcome EXCEPT ![c] = Says("account", address)]
          /\ UNCHANGED <<want, ask, made, got, tab>>
      BY <1>4, <2>2 DEF UseAddress, Moved
    <3>2. Says("account", address).kind = "account"
      BY DEF Says
    <3> QED
      BY <1>a, <1>b, <3>1, <3>2 DEF AnswerIsOwn, TypeOK, Parked, At
  <2> QED
    BY <2>1, <2>2
<1>5. ASSUME NEW c \in Callers, HandOver(c) PROVE AnswerIsOwn'
  BY <1>a, <1>b, <1>5 DEF HandOver, AnswerIsOwn, TypeOK, Parked, Moved, At
<1>6. ASSUME NEW c \in Callers, DeliverReturns(c) PROVE AnswerIsOwn'
  BY <1>a, <1>b, <1>6 DEF DeliverReturns, AnswerIsOwn, TypeOK, Parked, Moved, At
<1>7. ASSUME NEW c \in Callers, DeliverRaises(c) PROVE AnswerIsOwn'
  BY <1>a, <1>b, <1>7 DEF DeliverRaises, AnswerIsOwn, TypeOK, Parked, Moved, At
<1>8. ASSUME NEW c \in Callers, Wake(c) PROVE AnswerIsOwn'
  BY <1>a, <1>b, <1>8 DEF Wake, AnswerIsOwn, TypeOK, Parked, Moved, At
<1>9. ASSUME NEW c \in Callers, TimeOut(c) PROVE AnswerIsOwn'
  BY <1>a, <1>b, <1>9 DEF TimeOut, AnswerIsOwn, TypeOK, Parked, Moved, At
<1>10. ASSUME NEW c \in Callers, ReadResult(c) PROVE AnswerIsOwn'
  <2>1. Parked(c) \in Tokens /\ pending[Parked(c)] # None
    BY <1>z, <1>10, InsideIsParked DEF ReadResult, At, Inside
  <2>2. /\ got'[c] = pending[Parked(c)].result /\ stage'[c] = "leave"
        /\ UNCHANGED <<want, ask, made, outcome, tab>>
        /\ \A d \in Callers : d # c => got'[d] = got[d] /\ stage'[d] = stage[d]
    BY <1>a, <1>10 DEF ReadResult, TypeOK, Moved
  <2>3. got'[c] # None => \E v \in Tabs : /\ tab[v].status = "accepted" /\ tab[v].answer = got'[c]
                                          /\ tab[v].token = Parked(c)
    BY <1>z, <2>1, <2>2 DEF EntriesFit
  <2>4. \A d \in Callers : Parked(d)' = Parked(d) /\ (d # c => (At(d, "done")' <=> At(d, "done")))
    BY <2>2 DEF Parked, At
  <2>5. ~At(c, "done")'
    BY <2>2 DEF At
  <2> QED
    BY <1>b, <2>2, <2>3, <2>4, <2>5 DEF AnswerIsOwn
<1>11. ASSUME NEW c \in Callers, Leave(c) PROVE AnswerIsOwn'
  <2>1. UNCHANGED <<want, ask, made, got, tab>>
    BY <1>11 DEF Leave
  <2>2. \A d \in Callers : d # c => stage'[d] = stage[d] /\ outcome'[d] = outcome[d]
    BY <1>a, <1>11 DEF Leave, Ended, TypeOK, Moved
  <2>3. ASSUME stage'[c] = "done", want[c] # "address", outcome'[c].kind \in {"signature", "hash"}
        PROVE  ask[c].op = want[c] /\ outcome'[c].account = ask[c].account
    <3>1. TimedOut.kind = "timed out" /\ DeliverRaised.kind = "deliver raised"
      BY DEF TimedOut, DeliverRaised, Says
    <3>2. stage[c] = "leave" /\ outcome'[c] = got[c]
      BY <1>a, <1>11, <2>3, <3>1 DEF Leave, Ended, TypeOK, Moved, At
    <3>3. PICK v \in Tabs : /\ tab[v].status = "accepted" /\ tab[v].answer = got[c]
                            /\ tab[v].token = Parked(c)
      BY <1>b, <1>z, <3>2 DEF AnswerIsOwn, CallsFit
    <3>4. Parked(c)[1] = c
      BY <1>z, <3>2, InsideIsParked DEF Inside
    <3>5. got[c] \in SaysTo(ask[c]) /\ ask[c].op \in Ops
      BY <1>a, <1>z, <3>3, <3>4 DEF TabsFit, Latest, TypeOK, Request
    <3>6. ask[c].op # "connect" /\ got[c].account = ask[c].account
      BY <2>3, <3>2, <3>5 DEF SaysTo, Says, Failure, Ops
    <3> QED
      BY <1>z, <3>2, <3>6 DEF CallsFit, Inside
  <2> QED
    BY <1>b, <2>1, <2>2, <2>3 DEF AnswerIsOwn, Parked, At
<1>12. ASSUME NEW c \in Callers, StoreAddress(c) PROVE AnswerIsOwn'
  BY <1>a, <1>b, <1>12 DEF StoreAddress, AnswerIsOwn, TypeOK, Parked, Moved, At
<1>13. ASSUME NEW w \in Tabs, NEW t \in delivered, OpenUrl(w, t) PROVE AnswerIsOwn'
  <2>1. \A v \in Tabs : tab[v].status = "accepted" => tab'[v] = tab[v]
    BY <1>a, AcceptedStays
  <2>2. UNCHANGED <<stage, want, ask, made, got, outcome>>
    BY <1>13 DEF OpenUrl
  <2> QED
    BY <1>b, <2>1, <2>2, AnswerKept
<1>14. ASSUME NEW w \in Tabs, NEW answer \in Answers, WalletSays(w, answer) PROVE AnswerIsOwn'
  <2>1. \A v \in Tabs : tab[v].status = "accepted" => tab'[v] = tab[v]
    BY <1>a, AcceptedStays
  <2>2. UNCHANGED <<stage, want, ask, made, got, outcome>>
    BY <1>14 DEF WalletSays
  <2> QED
    BY <1>b, <2>1, <2>2, AnswerKept
<1>15. ASSUME NEW w \in Tabs, Resolve(w) PROVE AnswerIsOwn'
  <2>1. \A v \in Tabs : tab[v].status = "accepted" => tab'[v] = tab[v]
    BY <1>a, AcceptedStays
  <2>2. UNCHANGED <<stage, want, ask, made, got, outcome>>
    BY <1>15 DEF Resolve
  <2> QED
    BY <1>b, <2>1, <2>2, AnswerKept
<1>16. CASE UNCHANGED vars
  BY <1>a, <1>b, <1>16 DEF vars, AnswerIsOwn, TypeOK, Parked, Moved, At
<1> QED
  BY <1>1, <1>2, <1>3, <1>4, <1>5, <1>6, <1>7, <1>8, <1>9, <1>10, <1>11, <1>12, <1>13,
     <1>14, <1>15, <1>16 DEF Next, Caller, Signer, Tab

(* A new operation has a token that no tab has shown. *)
LEMMA ParkKeepsDeadline ==
  ASSUME TypeOK, TabsFit, DeadlineIsClean, NEW c \in Callers, NEW o, NEW a, Park(c, o, a),
         UNCHANGED tab, \A d \in Callers : d # c => outcome'[d] = outcome[d]
  PROVE  DeadlineIsClean'
<1> DEFINE new == <<c, made[c] + 1>>
<1>a. /\ new \in Tokens /\ new[1] = c /\ new[2] = made[c] + 1
      /\ made[c] \in Nat /\ Parked(c)' = new
  BY ParkFacts
<1>b. /\ \A t \in Tokens : t # new => pending'[t] = pending[t]
      /\ \A d \in Callers : d # c => stage'[d] = stage[d] /\ Parked(d)' = Parked(d)
  BY ParkLeaves
<1> HIDE DEF new
<1>1. \A w \in Tabs : tab[w].status # "blank" =>
        tab[w].token \in Tokens /\ tab[w].token # new /\ tab[w].token[1] \in Callers
  BY <1>a, TokenFacts DEF TabsFit
<1>2. \A w \in Tabs : tab[w].inTime => tab[w].status # "blank"
  BY DEF TabsFit
<1>3. InTimeIsHeard'
  BY <1>a, <1>b, <1>1, <1>2 DEF DeadlineIsClean, InTimeIsHeard, At
<1>4. RefusedIsOver'
  BY <1>b, <1>1 DEF DeadlineIsClean, RefusedIsOver
<1> QED
  BY <1>3, <1>4 DEF DeadlineIsClean

(* A deadline and the answers agree on which came first. *)
LEMMA DeadlinePreserved == IInv /\ [Next]_vars => DeadlineIsClean'
<1> SUFFICES ASSUME IInv, [Next]_vars PROVE DeadlineIsClean'
  OBVIOUS
<1>a. TypeOK
  BY DEF IInv
<1>b. DeadlineIsClean
  BY DEF IInv
<1>z. TypeOK /\ PendingIsInside /\ CallsFit /\ TabsFit /\ EntriesFit /\ DeliveredFit
  BY DEF IInv
<1>1. ASSUME NEW c \in Callers, NEW m \in Methods, Call(c, m) PROVE DeadlineIsClean'
  BY <1>a, <1>b, <1>1 DEF Call, DeadlineIsClean, InTimeIsHeard, RefusedIsOver, TypeOK,
         Parked, Moved, At
<1>2. ASSUME NEW c \in Callers, NEW a \in Accounts, Submit(c, a) PROVE DeadlineIsClean'
  <2>1. PICK o, x : Park(c, o, x) /\ UNCHANGED tab
    BY <1>2 DEF Submit
  <2>2. \A d \in Callers : d # c => outcome'[d] = outcome[d]
    BY <1>a, <1>2 DEF Submit, TypeOK
  <2> QED
    BY <1>z, <1>b, <2>1, <2>2, ParkKeepsDeadline
<1>3. ASSUME NEW c \in Callers, Connect(c) PROVE DeadlineIsClean'
  <2>1. PICK o, x : Park(c, o, x) /\ UNCHANGED tab
    BY <1>3 DEF Connect
  <2>2. \A d \in Callers : d # c => outcome'[d] = outcome[d]
    BY <1>a, <1>3 DEF Connect, TypeOK
  <2> QED
    BY <1>z, <1>b, <2>1, <2>2, ParkKeepsDeadline
<1>4. ASSUME NEW c \in Callers, UseAddress(c) PROVE DeadlineIsClean'
  <2>1. CASE want[c] = "sign"
    <3>1. Park(c, "sign", address) /\ UNCHANGED <<outcome, tab>>
      BY <1>4, <2>1 DEF UseAddress
    <3> QED
      BY <1>z, <1>b, <3>1, ParkKeepsDeadline
  <2>2. CASE want[c] # "sign"
    <3>1. /\ stage' = [stage EXCEPT ![c] = "done"]
          /\ outcome' = [outcome EXCEPT ![c] = Says("account", address)]
          /\ UNCHANGED <<made, pending, tab>>
      BY <1>4, <2>2 DEF UseAddress, Moved
    <3>2. Says("account", address) # TimedOut
      BY DEF Says, TimedOut
    <3> QED
      BY <1>a, <1>b, <3>1, <3>2 DEF DeadlineIsClean, InTimeIsHeard, RefusedIsOver, TypeOK,
             Parked, At
  <2> QED
    BY <2>1, <2>2
<1>5. ASSUME NEW c \in Callers, HandOver(c) PROVE DeadlineIsClean'
  BY <1>a, <1>b, <1>5 DEF HandOver, DeadlineIsClean, InTimeIsHeard, RefusedIsOver, TypeOK,
         Parked, Moved, At
<1>6. ASSUME NEW c \in Callers, DeliverReturns(c) PROVE DeadlineIsClean'
  BY <1>a, <1>b, <1>6 DEF DeliverReturns, DeadlineIsClean, InTimeIsHeard, RefusedIsOver,
         TypeOK, Parked, Moved, At
<1>7. ASSUME NEW c \in Callers, DeliverRaises(c) PROVE DeadlineIsClean'
  BY <1>a, <1>b, <1>7 DEF DeliverRaises, DeadlineIsClean, InTimeIsHeard, RefusedIsOver,
         TypeOK, Parked, Moved, At
<1>8. ASSUME NEW c \in Callers, Wake(c) PROVE DeadlineIsClean'
  BY <1>a, <1>b, <1>8 DEF Wake, DeadlineIsClean, InTimeIsHeard, RefusedIsOver, TypeOK,
         Parked, Moved, At
<1>9. ASSUME NEW c \in Callers, TimeOut(c) PROVE DeadlineIsClean'
  <2>1. /\ stage[c] = "wait" /\ ~pending[Parked(c)].set /\ UNCHANGED <<made, pending, outcome, tab>>
        /\ \A d \in Callers : d # c => stage'[d] = stage[d]
    BY <1>a, <1>9 DEF TimeOut, At, Moved, TypeOK
  <2>2. \A w \in Tabs : tab[w].inTime => ~(tab[w].token[1] = c /\ tab[w].token = Parked(c))
    BY <1>z, <2>1 DEF TabsFit, Latest
  <2>3. \A w \in Tabs : tab[w].inTime => tab[w].token[1] \in Callers
    BY <1>z, TokenFacts DEF TabsFit
  <2> QED
    BY <1>b, <2>1, <2>2, <2>3 DEF DeadlineIsClean, InTimeIsHeard, RefusedIsOver, Parked, At
<1>10. ASSUME NEW c \in Callers, ReadResult(c) PROVE DeadlineIsClean'
  BY <1>a, <1>b, <1>10 DEF ReadResult, DeadlineIsClean, InTimeIsHeard, RefusedIsOver,
         TypeOK, Parked, Moved, At
<1>11. ASSUME NEW c \in Callers, Leave(c) PROVE DeadlineIsClean'
  <2>1. UNCHANGED <<made, tab>> /\ \A t \in Tokens : pending[t] = None => pending'[t] = None
    BY <1>a, <1>11 DEF Leave, TypeOK
  <2>2. \A d \in Callers : d # c => stage'[d] = stage[d] /\ outcome'[d] = outcome[d]
    BY <1>a, <1>11 DEF Leave, Ended, TypeOK, Moved
  <2>3. stage'[c] # "expired"
    BY <1>a, <1>11 DEF Leave, Ended, TypeOK, Moved
  <2>4. stage[c] = "expired" \/ outcome'[c] # TimedOut
    <3>1. stage[c] = "leave" => got[c] # TimedOut
      BY <1>z, AnswerFacts DEF CallsFit, TypeOK
    <3>2. outcome[c] # TimedOut
      BY <1>z, <1>11, AnswerFacts DEF CallsFit, Leave, At
    <3> QED
      BY <1>a, <1>11, <3>1, <3>2, AnswerFacts DEF Leave, Ended, TypeOK, At
  <2>5. \A w \in Tabs : tab[w].status # "blank" =>
          tab[w].token \in Tokens /\ tab[w].token[1] \in Callers
    BY <1>z, TokenFacts DEF TabsFit
  <2>6. \A w \in Tabs : tab[w].inTime => tab[w].status # "blank"
    BY <1>z DEF TabsFit
  <2>7. InTimeIsHeard'
    BY <1>b, <2>1, <2>2, <2>3, <2>4, <2>5, <2>6 DEF DeadlineIsClean, InTimeIsHeard, Parked, At
  <2>8. RefusedIsOver'
    BY <1>b, <2>1, <2>5 DEF DeadlineIsClean, RefusedIsOver
  <2> QED
    BY <2>7, <2>8 DEF DeadlineIsClean
<1>12. ASSUME NEW c \in Callers, StoreAddress(c) PROVE DeadlineIsClean'
  BY <1>a, <1>b, <1>12 DEF StoreAddress, DeadlineIsClean, InTimeIsHeard, RefusedIsOver,
         TypeOK, Parked, Moved, At
<1>13. ASSUME NEW w \in Tabs, NEW t \in delivered, OpenUrl(w, t) PROVE DeadlineIsClean'
  <2>1. UNCHANGED <<stage, made, pending, outcome>> /\ tab[w].status = "blank"
    BY <1>13 DEF OpenUrl
  <2>2. tab[w] \in TabRecord /\ \A v \in Tabs : v # w => tab'[v] = tab[v]
    BY <1>a, <1>13 DEF OpenUrl, TypeOK
  <2>3. /\ tab'[w].token = t /\ tab'[w].inTime = tab[w].inTime
        /\ tab'[w].status = IF pending[t] = None THEN "refused" ELSE "asking"
    BY <1>a, <1>13, <2>2 DEF OpenUrl, TypeOK, TabRecord
  <2>4. ~tab'[w].inTime
    BY <1>z, <2>1, <2>3 DEF TabsFit
  <2>5. InTimeIsHeard'
    BY <1>b, <2>1, <2>2, <2>4 DEF DeadlineIsClean, InTimeIsHeard, Parked, At
  <2>6. RefusedIsOver'
    BY <1>b, <2>1, <2>2, <2>3 DEF DeadlineIsClean, RefusedIsOver
  <2> QED
    BY <2>5, <2>6 DEF DeadlineIsClean
<1>14. ASSUME NEW w \in Tabs, NEW answer \in Answers, WalletSays(w, answer) PROVE DeadlineIsClean'
  BY <1>a, <1>b, <1>14 DEF WalletSays, DeadlineIsClean, InTimeIsHeard, RefusedIsOver,
         TypeOK, Parked, Moved, At
<1>15. ASSUME NEW w \in Tabs, Resolve(w) PROVE DeadlineIsClean'
  <2> DEFINE t == tab[w].token
             inTime == At(t[1], "deliver") \/ At(t[1], "wait")
  <2>1. UNCHANGED <<stage, made, outcome>> /\ tab[w].status = "answered" /\ tab[w] \in TabRecord
    BY <1>a, <1>15 DEF Resolve, TypeOK
  <2>2. t \in Tokens /\ t[1] \in Callers
    BY <1>z, <2>1, TokenFacts DEF TabsFit
  <2>3. tab'[w].token = t /\ \A v \in Tabs : v # w => tab'[v] = tab[v]
    BY <1>a, <1>15, <2>1 DEF Resolve, TypeOK, TabRecord
  <2>4. ~tab[w].inTime
    BY <1>z, <2>1 DEF TabsFit
  <2>5. CASE pending[t] = None
    <3>1. UNCHANGED pending /\ tab' = [tab EXCEPT ![w].status = "refused"]
      BY <1>15, <2>5 DEF Resolve
    <3>2. ~tab'[w].inTime
      BY <1>a, <2>1, <2>4, <3>1 DEF TypeOK, TabRecord
    <3>3. InTimeIsHeard'
      BY <1>b, <2>1, <2>3, <3>2 DEF DeadlineIsClean, InTimeIsHeard, Parked, At
    <3>4. RefusedIsOver'
      BY <1>b, <2>3, <2>5, <3>1 DEF DeadlineIsClean, RefusedIsOver
    <3> QED
      BY <3>3, <3>4 DEF DeadlineIsClean
  <2>6. CASE pending[t] # None
    <3>1. tab' = [tab EXCEPT ![w].status = "accepted", ![w].inTime = inTime]
      BY <1>15, <2>6 DEF Resolve
    <3>2. \A x \in Tokens : x # t => pending'[x] = pending[x]
      BY <1>a, <1>15, <2>2, <2>6 DEF Resolve, TypeOK
    <3>3. tab'[w].status = "accepted" /\ tab'[w].inTime = inTime
      BY <1>a, <2>1, <3>1 DEF TypeOK, TabRecord
    <3>4. inTime => ~At(t[1], "expired") /\ outcome[t[1]] # TimedOut
      BY <1>z, <2>2, AnswerFacts DEF CallsFit, At
    <3>5. InTimeIsHeard'
      BY <1>b, <2>1, <2>3, <3>3, <3>4 DEF DeadlineIsClean, InTimeIsHeard, Parked, At
    <3>6. \A v \in Tabs : tab[v].status = "refused" => tab[v].token \in Tokens /\ tab[v].token # t
      BY <1>b, <1>z, <2>6 DEF TabsFit, DeadlineIsClean, RefusedIsOver
    <3>7. RefusedIsOver'
      BY <1>b, <2>3, <3>2, <3>3, <3>6 DEF DeadlineIsClean, RefusedIsOver
    <3> QED
      BY <3>5, <3>7 DEF DeadlineIsClean
  <2> QED
    BY <2>5, <2>6
<1>16. CASE UNCHANGED vars
  BY <1>a, <1>b, <1>16 DEF vars, DeadlineIsClean, InTimeIsHeard, RefusedIsOver, TypeOK,
         Parked, Moved, At
<1> QED
  BY <1>1, <1>2, <1>3, <1>4, <1>5, <1>6, <1>7, <1>8, <1>9, <1>10, <1>11, <1>12, <1>13,
     <1>14, <1>15, <1>16 DEF Next, Caller, Signer, Tab

-----------------------------------------------------------------------------
(* The invariant and what it gives *)

LEMMA InitIsGood == Init => IInv
<1> SUFFICES ASSUME Init PROVE IInv
  OBVIOUS
<1>1. Blank \in TabRecord
  BY DEF Blank, TabRecord
<1>2. [op |-> "connect", account |-> None] \in Request
  BY DEF Request, Ops
<1>3. TypeOK
  BY <1>1, <1>2 DEF Init, TypeOK, Outside, Methods
<1>4. PendingIsInside
  BY TokenFacts DEF Init, PendingIsInside, Inside
<1>5. CallsFit /\ EntriesFit /\ DeliveredFit
  BY DEF Init, CallsFit, EntriesFit, DeliveredFit, Inside
<1>6. \A w \in Tabs : tab[w].status = "blank" /\ tab[w].inTime = FALSE
  BY DEF Init, Blank
<1>7. TabsFit /\ DeadlineIsClean
  BY <1>6 DEF TabsFit, DeadlineIsClean, InTimeIsHeard, RefusedIsOver
<1>8. AnswerIsOwn
  BY DEF Init, AnswerIsOwn
<1> QED
  BY <1>3, <1>4, <1>5, <1>7, <1>8 DEF IInv

(* Every step keeps the invariant. *)
LEMMA InvariantPreserved == IInv /\ [Next]_vars => IInv'
<1> SUFFICES ASSUME IInv, [Next]_vars PROVE IInv'
  OBVIOUS
<1>1. TypeOK' /\ PendingIsInside' /\ CallsFit' /\ EntriesFit'
  BY TypePreserved, PendingPreserved, CallsPreserved, EntriesPreserved
<1>2. TabsFit' /\ DeliveredFit' /\ AnswerIsOwn' /\ DeadlineIsClean'
  BY TabsPreserved, DeliveredPreserved, AnswerPreserved, DeadlinePreserved
<1> QED
  BY <1>1, <1>2 DEF IInv

(* The inductive invariant of the remote bridge (browser.py, _RemoteBridge). *)
THEOREM BridgeInvariant == Spec => []IInv
BY InitIsGood, InvariantPreserved, PTL DEF Spec

(* The variables keep their types. *)
THEOREM BridgeTypes == Spec => []TypeOK
<1>1. IInv => TypeOK
  BY DEF IInv
<1> QED
  BY <1>1, BridgeInvariant, PTL

(* _pending holds exactly the operations of the calls inside request(): no     *)
(* error path leaves one behind, and no thread finds its own gone.             *)
THEOREM PendingIsExact == Spec => []PendingIsInside
<1>1. IInv => PendingIsInside
  BY DEF IInv
<1> QED
  BY <1>1, BridgeInvariant, PTL

(* A call returns only what the wallet said to a page of that very call.       *)
THEOREM AnswersAreOwn == Spec => []AnswerIsOwn
<1>1. IInv => AnswerIsOwn
  BY DEF IInv
<1> QED
  BY <1>1, BridgeInvariant, PTL

(* A deadline and the answers to a call agree on which came first.             *)
THEOREM DeadlinesAreClean == Spec => []DeadlineIsClean
<1>1. IInv => DeadlineIsClean
  BY DEF IInv
<1> QED
  BY <1>1, BridgeInvariant, PTL

-----------------------------------------------------------------------------
(***************************************************************************)
(* The look-ups                                                            *)
(***************************************************************************)
USE ResolutionAssumption

-----------------------------------------------------------------------------
(* Facts about their data *)

(* There is a present name of every token, and no token is None.           *)
LEMMA NamesFacts ==
  ASSUME ResolutionTypeOK
  PROVE  /\ Now \in Nat /\ Now >= 1 /\ clock \in Nat /\ None \notin Stocks
         /\ \A n \in 1 .. Now : names[n] \in [Stocks -> Symbols]
         /\ \A n \in 1 .. Now, t \in Stocks : names[n][t] \in Symbols /\ names[n][t] # None
<1>1. Now \in Nat /\ Now >= 1 /\ clock \in Nat
  BY DEF ResolutionTypeOK
<1>2. None \notin Stocks /\ None \notin Symbols
  BY DEF Stocks
<1>3. \A n \in 1 .. Now : names[n] \in [Stocks -> Symbols]
  BY DEF ResolutionTypeOK, Now
<1> QED
  BY <1>1, <1>2, <1>3

(* The empty values have their types.                                      *)
LEMMA EvidenceFacts ==
  /\ NothingSeen \in Evidence /\ NoLookUp \in LookUpState
  /\ \A e \in Evidence : e.from \in Nat /\ e.upto \in Nat /\ e.failed \in SUBSET Stocks
BY DEF NothingSeen, NoLookUp, Evidence, LookUpState

(* A look-up that finds nothing keeps the types.                           *)
LEMMA MissedTypes ==
  ASSUME ResolutionTypeOK, NEW c \in Callers, NEW seen \in Evidence, Missed(c, seen),
         lookup[c].symbol \in Symbols, UNCHANGED <<market, pools, kind>>,
         cache' \in [Symbols -> Entries \cup {None}]
  PROVE  ResolutionTypeOK'
<1> DEFINE r == Result(lookup[c].symbol, None, clock, seen)
<1>1. r \in Results
  BY NamesFacts DEF Result, Results
<1>2. /\ served' = [served EXCEPT ![c] = r] /\ lookup' = [lookup EXCEPT ![c] = NoLookUp]
      /\ step' = [step EXCEPT ![c] = "missed"]
  BY DEF Missed, Goes
<1> HIDE DEF r
<1> QED
  BY <1>1, <1>2, EvidenceFacts DEF ResolutionTypeOK, market, LookUpPlaces, Now

(* The library's order on the naturals is <.                               *)
LEMMA LessThan == \A m, n \in Nat : <<n, m>> \in OpToRel(<, Nat) <=> n < m
BY Zenon DEF OpToRel

(* The first token of a name is one of that name, and none comes before it. *)
LEMMA FirstFacts ==
  ASSUME NEW rows, NEW s, Called(rows, s) # {}
  PROVE  /\ FirstOf(rows, s) \in Stocks /\ rows[FirstOf(rows, s)] = s
         /\ \A t \in Stocks : rows[t] = s => FirstOf(rows, s) <= t
<1> DEFINE S == Called(rows, s)
<1>1. S \subseteq Nat /\ S \subseteq Stocks
  BY DEF Called, Stocks
<1>2. IsWellFoundedOn(OpToRel(<, Nat), Nat)
  BY NatLessThanWellFounded
<1>3. PICK m \in S : \A n \in S : ~ (<<n, m>> \in OpToRel(<, Nat))
  BY <1>1, <1>2, WFMin
<1>4. \A n \in S : m <= n
  <2>1. \A n \in S : ~ (n < m)
    BY <1>1, <1>3, LessThan
  <2> QED
    BY <1>1, <2>1
<1>5. Min(S) \in S /\ \A n \in S : Min(S) <= n
  BY <1>4 DEF Min
<1> QED
  BY <1>1, <1>5 DEF FirstOf, Called

(* Every step keeps the types. *)
LEMMA ResolutionTypePreserved == ResolutionIInv /\ [ResolutionNext]_resolution => ResolutionTypeOK'
<1> SUFFICES ASSUME ResolutionIInv, [ResolutionNext]_resolution PROVE ResolutionTypeOK'
  OBVIOUS
<1>a. ResolutionTypeOK
  BY DEF ResolutionIInv
<1>z. ResolutionTypeOK /\ LookUpsFit /\ CachesFit /\ ServedFits
  BY DEF ResolutionIInv
<1>1. ASSUME NEW t \in Stocks, NEW s \in Symbols, Rename(t, s) PROVE ResolutionTypeOK'
  BY <1>a, <1>1 DEF Rename, market, Goes, ResolutionTypeOK, LookUpPlaces, Now
<1>2. ASSUME NEW t \in Stocks, CreatePool(t) PROVE ResolutionTypeOK'
  BY <1>a, <1>2 DEF CreatePool, market, Goes, ResolutionTypeOK, LookUpPlaces, Now
<1>3. ASSUME Tick PROVE ResolutionTypeOK'
  BY <1>a, <1>3 DEF Tick, market, Goes, ResolutionTypeOK, LookUpPlaces, Now
<1>4. ASSUME NEW c \in Callers, NEW s \in Symbols, LookUp(c, s) PROVE ResolutionTypeOK'
  <2>1. s \in Symbols /\ pooled \in SUBSET Stocks /\ Now \in Nat /\ clock \in Nat
    BY <1>a, <1>4, NamesFacts DEF ResolutionTypeOK
  <2>2. CASE Fresh(s)
    <3> DEFINE l == [NoLookUp EXCEPT !.symbol = s, !.token = cache[s].token, !.existing = pooled]
               r == Result(s, cache[s].token, cache[s].filled, cache[s].seen)
    <3>1. cache[s] \in Entries
      BY <1>a, <2>2, <1>4 DEF ResolutionTypeOK, Fresh
    <3>2. cache[s].token \in Stocks /\ cache[s].filled \in Nat /\ cache[s].seen \in Evidence
      BY <3>1 DEF Entries
    <3>3. l \in LookUpState
      BY <2>1, <3>2, EvidenceFacts DEF LookUpState
    <3>4. r \in Results
      BY <2>1, <3>2 DEF Results, Result
    <3>5. /\ served' = [served EXCEPT ![c] = r] /\ lookup' = [lookup EXCEPT ![c] = l]
          /\ step' = [step EXCEPT ![c] = "found"] /\ kind' = [kind EXCEPT ![c] = None]
          /\ UNCHANGED <<market, cache, pools>>
      BY <1>4, <2>2 DEF LookUp, Goes
    <3> HIDE DEF l, r
    <3> QED
      BY <1>a, <3>3, <3>4, <3>5 DEF ResolutionTypeOK, market, LookUpPlaces, Now
  <2>3. CASE ~Fresh(s)
    <3> DEFINE l == [NoLookUp EXCEPT !.symbol = s, !.seen.from = Now, !.existing = pooled]
    <3>1. l \in LookUpState
      <4> DEFINE seen == [NoLookUp.seen EXCEPT !.from = Now]
      <4>1. NoLookUp \in LookUpState /\ NoLookUp.seen \in Evidence
        BY EvidenceFacts DEF LookUpState
      <4>2. seen \in Evidence
        BY <2>1, <4>1 DEF Evidence
      <4>3. l = [NoLookUp EXCEPT !.symbol = s, !.seen = seen, !.existing = pooled]
        BY DEF NoLookUp
      <4> HIDE DEF seen
      <4> QED
        BY <2>1, <4>1, <4>2, <4>3 DEF LookUpState
    <3>2. /\ served' = [served EXCEPT ![c] = None] /\ lookup' = [lookup EXCEPT ![c] = l]
          /\ step' = [step EXCEPT ![c] = "list"] /\ kind' = [kind EXCEPT ![c] = None]
          /\ UNCHANGED <<market, cache, pools>>
      BY <1>4, <2>3 DEF LookUp, Goes
    <3> HIDE DEF l
    <3> QED
      BY <1>a, <3>1, <3>2 DEF ResolutionTypeOK, market, LookUpPlaces, Now
  <2> QED
    BY <2>2, <2>3
<1>5. ASSUME NEW c \in Callers, ReadList(c) PROVE ResolutionTypeOK'
  BY <1>a, <1>5 DEF ReadList, market, Goes, ResolutionTypeOK, LookUpPlaces, Now
<1>6. ASSUME NEW c \in Callers, ListFails(c) PROVE ResolutionTypeOK'
  <2> DEFINE seen == [from |-> Now, upto |-> Now, failed |-> Stocks]
  <2>1. seen \in Evidence
    BY <1>a, NamesFacts DEF Evidence
  <2>2. lookup[c].symbol \in Symbols
    BY <1>z, <1>6 DEF ListFails, LookUpsFit, LookUpFits
  <2>3. Missed(c, seen) /\ UNCHANGED <<market, cache, pools, kind>>
    BY <1>6 DEF ListFails
  <2> HIDE DEF seen
  <2> QED
    BY <1>a, <2>1, <2>2, <2>3, MissedTypes DEF ResolutionTypeOK
<1>7. ASSUME NEW c \in Callers, NEW failed \in SUBSET Stocks, ReadBatch(c, failed) PROVE ResolutionTypeOK'
  <2> DEFINE rows == [t \in Stocks |-> IF t \in failed THEN None ELSE Name(t)]
             seen == [lookup[c].seen EXCEPT !.upto = Now, !.failed = failed]
             l == [lookup[c] EXCEPT !.rows = rows, !.seen = seen]
  <2>1. lookup[c] \in LookUpState /\ lookup[c].seen \in Evidence
    BY <1>a, <1>7 DEF ResolutionTypeOK, LookUpState
  <2>2. rows \in [Stocks -> Symbols \cup {None}]
    BY <1>a, NamesFacts DEF Name
  <2>3. seen \in Evidence
    BY <1>a, <1>7, <2>1, NamesFacts DEF Evidence
  <2>4. lookup' = [lookup EXCEPT ![c] = l]
    BY <1>7 DEF ReadBatch
  <2> HIDE DEF rows, seen
  <2>5. l \in LookUpState
    BY <2>1, <2>2, <2>3 DEF LookUpState
  <2>6. step' = [step EXCEPT ![c] = "rows"] /\ UNCHANGED <<market, cache, pools, served, kind>>
    BY <1>7 DEF ReadBatch, Goes
  <2> HIDE DEF l
  <2> QED
    BY <1>a, <2>4, <2>5, <2>6 DEF ResolutionTypeOK, market, LookUpPlaces, Now
<1>8. ASSUME NEW c \in Callers, BatchFails(c) PROVE ResolutionTypeOK'
  BY <1>a, <1>8 DEF BatchFails, market, Goes, ResolutionTypeOK, LookUpPlaces, Now
<1>9. ASSUME NEW c \in Callers, KeepRows(c) PROVE ResolutionTypeOK'
  <2> DEFINE rows == lookup[c].rows
             s == lookup[c].symbol
             l == [lookup[c] EXCEPT !.token = FirstOf(rows, s), !.rows = NoLookUp.rows]
  <2>1. s \in Symbols /\ lookup[c] \in LookUpState
    BY <1>a, <1>z, <1>9 DEF KeepRows, LookUpsFit, LookUpFits, ResolutionTypeOK
  <2>2. lookup[c].seen \in Evidence /\ NoLookUp.rows \in [Stocks -> Symbols \cup {None}]
    BY <2>1 DEF LookUpState, NoLookUp
  <2>3. \A x : Called(rows, x) # {} => FirstOf(rows, x) \in Stocks
    BY FirstFacts
  <2>4. \A x \in Symbols : Called(rows, x) # {} =>
          Cached(FirstOf(rows, x), lookup[c].seen) \in Entries
    BY <1>a, <2>2, <2>3, NamesFacts DEF Cached, Entries
  <2>5. cache' = [x \in Symbols |->
          IF Called(rows, x) = {} THEN cache[x] ELSE Cached(FirstOf(rows, x), lookup[c].seen)]
    BY <1>9 DEF KeepRows
  <2>6. cache' \in [Symbols -> Entries \cup {None}]
    BY <1>a, <2>4, <2>5 DEF ResolutionTypeOK
  <2>7. CASE Called(rows, s) = {}
    <3>1. Missed(c, lookup[c].seen) /\ UNCHANGED <<market, pools, kind>>
      BY <1>9, <2>7 DEF KeepRows
    <3> QED
      BY <1>a, <2>1, <2>2, <2>6, <3>1, MissedTypes
  <2>8. CASE Called(rows, s) # {}
    <3>1. l \in LookUpState
      BY <2>1, <2>2, <2>3, <2>8 DEF LookUpState
    <3>2. /\ lookup' = [lookup EXCEPT ![c] = l] /\ step' = [step EXCEPT ![c] = "keep"]
          /\ UNCHANGED <<served, market, pools, kind>>
      BY <1>9, <2>8 DEF KeepRows, Goes
    <3> HIDE DEF l
    <3> QED
      BY <1>a, <2>6, <3>1, <3>2 DEF ResolutionTypeOK, market, LookUpPlaces, Now
  <2> QED
    BY <2>7, <2>8
<1>10. ASSUME NEW c \in Callers, NEW readable \in BOOLEAN, Scan(c, readable) PROVE ResolutionTypeOK'
  <2> DEFINE t == lookup[c].next
  <2>1. lookup[c] \in LookUpState /\ lookup[c].seen \in Evidence /\ t \in Stocks /\ t + 1 \in Nat \ {0}
    BY <1>a, <1>10 DEF Scan, ResolutionTypeOK, LookUpState, Stocks
  <2>2. CASE readable /\ Name(t) = lookup[c].symbol
    <3> DEFINE seen == [lookup[c].seen EXCEPT !.upto = Now]
               l == [lookup[c] EXCEPT !.token = t, !.seen = seen]
    <3>1. seen \in Evidence
      BY <1>a, <2>1, NamesFacts DEF Evidence
    <3>2. l \in LookUpState
      BY <2>1, <3>1 DEF LookUpState
    <3>3. lookup' = [lookup EXCEPT ![c] = l] /\ step' = [step EXCEPT ![c] = "keep"]
      BY <1>10, <2>2 DEF Scan, Goes
    <3> HIDE DEF l
    <3> QED
      BY <1>a, <1>10, <3>2, <3>3 DEF Scan, ResolutionTypeOK, market, LookUpPlaces, Now
  <2>3. CASE ~(readable /\ Name(t) = lookup[c].symbol)
    <3> DEFINE failed == lookup[c].seen.failed \cup (IF readable THEN {} ELSE {t})
               seen == [lookup[c].seen EXCEPT !.failed = failed]
               l == [lookup[c] EXCEPT !.next = t + 1, !.seen = seen]
    <3>1. seen \in Evidence
      BY <2>1 DEF Evidence
    <3>2. l \in LookUpState
      BY <2>1, <3>1 DEF LookUpState
    <3>3. lookup' = [lookup EXCEPT ![c] = l] /\ UNCHANGED step
      BY <1>10, <2>3 DEF Scan
    <3> HIDE DEF l
    <3> QED
      BY <1>a, <1>10, <3>2, <3>3 DEF Scan, ResolutionTypeOK, market, Now
  <2> QED
    BY <2>2, <2>3
<1>11. ASSUME NEW c \in Callers, ScanEnds(c) PROVE ResolutionTypeOK'
  <2> DEFINE seen == [lookup[c].seen EXCEPT !.upto = Now]
  <2>1. lookup[c].seen \in Evidence
    BY <1>a, <1>11 DEF ResolutionTypeOK, LookUpState
  <2>2. seen \in Evidence
    BY <1>a, <2>1, NamesFacts DEF Evidence
  <2>3. lookup[c].symbol \in Symbols
    BY <1>z, <1>11 DEF ScanEnds, LookUpsFit, LookUpFits
  <2>4. Missed(c, seen) /\ UNCHANGED <<market, cache, pools, kind>>
    BY <1>11 DEF ScanEnds
  <2> HIDE DEF seen
  <2> QED
    BY <1>a, <2>2, <2>3, <2>4, MissedTypes DEF ResolutionTypeOK
<1>12. ASSUME NEW c \in Callers, Keep(c) PROVE ResolutionTypeOK'
  <2> DEFINE s == lookup[c].symbol
             entry == Cached(lookup[c].token, lookup[c].seen)
             r == Result(s, lookup[c].token, clock, lookup[c].seen)
             l == [lookup[c] EXCEPT !.seen = NothingSeen, !.next = 1]
  <2>1. /\ s \in Symbols /\ lookup[c].token \in Stocks /\ lookup[c].seen \in Evidence
        /\ lookup[c] \in LookUpState /\ clock \in Nat
    BY <1>a, <1>z, <1>12, NamesFacts DEF Keep, LookUpsFit, LookUpFits, ResolutionTypeOK,
           LookUpState
  <2>2. entry \in Entries /\ r \in Results
    BY <2>1 DEF Cached, Result, Entries, Results
  <2>3. l \in LookUpState
    <3>1. NothingSeen \in Evidence /\ 1 \in Nat \ {0}
      BY EvidenceFacts
    <3> QED
      BY <2>1, <3>1 DEF LookUpState
  <2>4. /\ cache' = [cache EXCEPT ![s] = entry] /\ served' = [served EXCEPT ![c] = r]
        /\ lookup' = [lookup EXCEPT ![c] = l] /\ step' = [step EXCEPT ![c] = "found"]
        /\ UNCHANGED <<market, pools, kind>>
    BY <1>12 DEF Keep, Goes
  <2> HIDE DEF l, r, entry
  <2> QED
    BY <1>a, <2>1, <2>2, <2>3, <2>4 DEF ResolutionTypeOK, market, LookUpPlaces, Now
<1>13. ASSUME NEW c \in Callers, AskPool(c) PROVE ResolutionTypeOK'
  BY <1>a, <1>13 DEF AskPool, market, Goes, ResolutionTypeOK, LookUpPlaces, Now
<1>14. ASSUME NEW c \in Callers, PoolFails(c) PROVE ResolutionTypeOK'
  BY <1>a, <1>14 DEF PoolFails, market, Goes, ResolutionTypeOK, LookUpPlaces, Now
<1>15. CASE UNCHANGED resolution
  BY <1>a, <1>15 DEF resolution, ResolutionTypeOK, LookUpPlaces, Now
<1> QED
  BY <1>1, <1>2, <1>3, <1>4, <1>5, <1>6, <1>7, <1>8, <1>9, <1>10, <1>11, <1>12, <1>13,
     <1>14, <1>15 DEF ResolutionNext, Market, LookingUp, AskingPool

(* Names are only appended: what the evidence says stays true.             *)
LEMMA NamesGrow ==
  ASSUME ResolutionTypeOK, [ResolutionNext]_resolution
  PROVE  /\ Now' \in Nat /\ Now' >= Now
         /\ \A n \in 1 .. Now : names'[n] = names[n]
         /\ pooled \subseteq pooled'
<1>1. CASE UNCHANGED <<names, pooled>>
  BY <1>1, NamesFacts DEF Now
<1>2. ASSUME NEW t \in Stocks, NEW s \in Symbols, Rename(t, s)
      PROVE  /\ Now' \in Nat /\ Now' >= Now
             /\ \A n \in 1 .. Now : names'[n] = names[n]
             /\ pooled \subseteq pooled'
  BY <1>2 DEF Rename, ResolutionTypeOK, Now
<1>3. ASSUME NEW t \in Stocks, CreatePool(t)
      PROVE  /\ Now' \in Nat /\ Now' >= Now
             /\ \A n \in 1 .. Now : names'[n] = names[n]
             /\ pooled \subseteq pooled'
  BY <1>3, NamesFacts DEF CreatePool, Now
<1>4. CASE \E c \in Callers : LookingUp(c) \/ AskingPool(c) \/ \E s \in Symbols : LookUp(c, s)
  <2>1. UNCHANGED <<names, pooled>>
    BY <1>4 DEF LookingUp, AskingPool, LookUp, ReadList, ListFails, BatchFails, KeepRows,
           ScanEnds,
       Keep, ReadBatch, Scan, AskPool, PoolFails, market
  <2> QED
    BY <1>1, <2>1
<1>5. CASE Tick
  BY <1>1, <1>5 DEF Tick
<1> QED
  BY <1>1, <1>2, <1>3, <1>4, <1>5 DEF ResolutionNext, Market, resolution

LEMMA EvidenceStays ==
  ASSUME ResolutionTypeOK, [ResolutionNext]_resolution
  PROVE  \A seen :
           /\ Spans(seen) => Spans(seen)'
           /\ \A s, t : Supports(seen, s, t) => Supports(seen, s, t)'
           /\ \A s, t : Spans(seen) => /\ WereCalled(t, s, seen)' = WereCalled(t, s, seen)
                                       /\ StayedCalled(t, s, seen)' = StayedCalled(t, s, seen)
<1> TAKE seen
<1>1. Spans(seen) => Spans(seen)' /\ \A n \in seen.from .. seen.upto : names'[n] = names[n]
  BY NamesGrow, NamesFacts DEF Spans
<1>2. \A s, t : Spans(seen) => /\ WereCalled(t, s, seen)' = WereCalled(t, s, seen)
                               /\ StayedCalled(t, s, seen)' = StayedCalled(t, s, seen)
  BY <1>1 DEF WereCalled, StayedCalled
<1>3. \A s, t : Supports(seen, s, t) => Supports(seen, s, t)'
  BY <1>1 DEF Supports, WereCalled, StayedCalled, Stocks
<1> QED
  BY <1>1, <1>2, <1>3

(* A batch is evidence that a ticker means the first token it gives that name. *)
LEMMA RowsSupport ==
  ASSUME ResolutionTypeOK, NEW c \in Callers, NEW x \in Symbols,
         Spans(lookup[c].seen),
         \A t \in Stocks : lookup[c].rows[t] =
           IF t \in lookup[c].seen.failed THEN None ELSE names[lookup[c].seen.upto][t],
         Called(lookup[c].rows, x) # {}
  PROVE  Supports(lookup[c].seen, x, FirstOf(lookup[c].rows, x))
<1> DEFINE seen == lookup[c].seen
           t == FirstOf(lookup[c].rows, x)
<1>1. /\ t \in Stocks /\ lookup[c].rows[t] = x
      /\ \A u \in Stocks : lookup[c].rows[u] = x => t <= u
  BY FirstFacts
<1>2. seen.upto \in seen.from .. seen.upto
  BY NamesFacts DEF Spans
<1>3. names[seen.upto][t] = x
  BY <1>1, ResolutionAssumption
<1> HIDE DEF seen, t
<1>4. WereCalled(t, x, seen)
  BY <1>2, <1>3 DEF WereCalled
<1>5. ASSUME NEW u \in Stocks, StayedCalled(u, x, seen), u \notin seen.failed
      PROVE  t <= u
  BY <1>1, <1>2, <1>5 DEF StayedCalled, seen
<1> QED
  BY <1>4, <1>5 DEF Supports, seen, t

(* A cached token has the evidence of the look-up that found it. *)
LEMMA CachesPreserved == ResolutionIInv /\ [ResolutionNext]_resolution => CachesFit'
<1> SUFFICES ASSUME ResolutionIInv, [ResolutionNext]_resolution PROVE CachesFit'
  OBVIOUS
<1>a. ResolutionTypeOK
  BY DEF ResolutionIInv
<1>b. CachesFit
  BY DEF ResolutionIInv
<1>z. ResolutionTypeOK /\ LookUpsFit /\ CachesFit /\ ServedFits
  BY DEF ResolutionIInv
<1>1. ASSUME NEW t \in Stocks, NEW s \in Symbols, Rename(t, s) PROVE CachesFit'
  BY <1>a, <1>b, <1>1 DEF Rename, market, Goes, CachesFit, Supports, Spans, WereCalled,
         StayedCalled, Now
<1>2. ASSUME NEW t \in Stocks, CreatePool(t) PROVE CachesFit'
  BY <1>a, <1>b, <1>2 DEF CreatePool, market, Goes, CachesFit, Supports, Spans, WereCalled,
         StayedCalled, Now
<1>3. ASSUME Tick PROVE CachesFit'
  BY <1>a, <1>b, <1>3 DEF Tick, market, Goes, CachesFit, Supports, Spans, WereCalled,
         StayedCalled, Now
<1>4. ASSUME NEW c \in Callers, NEW s \in Symbols, LookUp(c, s) PROVE CachesFit'
  BY <1>a, <1>b, <1>4 DEF LookUp, market, Goes, CachesFit, Supports, Spans, WereCalled,
         StayedCalled, Now
<1>5. ASSUME NEW c \in Callers, ReadList(c) PROVE CachesFit'
  BY <1>a, <1>b, <1>5 DEF ReadList, market, Goes, CachesFit, Supports, Spans, WereCalled,
         StayedCalled, Now
<1>6. ASSUME NEW c \in Callers, ListFails(c) PROVE CachesFit'
  BY <1>a, <1>b, <1>6 DEF ListFails, Missed, market, Goes, CachesFit, Supports, Spans,
         WereCalled, StayedCalled, Now
<1>7. ASSUME NEW c \in Callers, NEW failed \in SUBSET Stocks, ReadBatch(c, failed) PROVE CachesFit'
  BY <1>a, <1>b, <1>7 DEF ReadBatch, market, Goes, CachesFit, Supports, Spans, WereCalled,
         StayedCalled, Now
<1>8. ASSUME NEW c \in Callers, BatchFails(c) PROVE CachesFit'
  BY <1>a, <1>b, <1>8 DEF BatchFails, market, Goes, CachesFit, Supports, Spans, WereCalled,
         StayedCalled, Now
<1>9. ASSUME NEW c \in Callers, KeepRows(c) PROVE CachesFit'
  <2> DEFINE rows == lookup[c].rows
             seen == lookup[c].seen
  <2>1. UNCHANGED <<names, pools, pooled>>
    BY <1>9 DEF KeepRows, market
  <2>2. cache' = [x \in Symbols |->
          IF Called(rows, x) = {} THEN cache[x] ELSE Cached(FirstOf(rows, x), seen)]
    BY <1>9 DEF KeepRows
  <2>3. ASSUME NEW x \in Symbols, Called(rows, x) # {}
        PROVE  Supports(seen, x, FirstOf(rows, x))
    BY <1>a, <1>z, <1>9, <2>3, RowsSupport DEF KeepRows, LookUpsFit, LookUpFits
  <2>4. ASSUME NEW x \in Symbols, cache'[x] # None
        PROVE  Supports(cache'[x].seen, x, cache'[x].token)
    BY <1>b, <2>2, <2>3, <2>4 DEF CachesFit, Cached
  <2>5. \A e, s, t : Supports(e, s, t) => Supports(e, s, t)'
    BY <1>a, EvidenceStays
  <2>6. \A x \in Symbols : cache'[x] # None => Supports(cache[x].seen, x, cache[x].token)'
    BY <2>1, <2>4 DEF Supports, Spans, WereCalled, StayedCalled, Now
  <2> QED
    BY <1>b, <2>1, <2>6 DEF CachesFit
<1>10. ASSUME NEW c \in Callers, NEW readable \in BOOLEAN, Scan(c, readable) PROVE CachesFit'
  BY <1>a, <1>b, <1>10 DEF Scan, market, Goes, CachesFit, Supports, Spans, WereCalled,
         StayedCalled, Now
<1>11. ASSUME NEW c \in Callers, ScanEnds(c) PROVE CachesFit'
  BY <1>a, <1>b, <1>11 DEF ScanEnds, Missed, market, Goes, CachesFit, Supports, Spans,
         WereCalled, StayedCalled, Now
<1>12. ASSUME NEW c \in Callers, Keep(c) PROVE CachesFit'
  <2>1. UNCHANGED <<names, pools, pooled>> /\ lookup[c].symbol \in Symbols
    BY <1>z, <1>12 DEF Keep, market, LookUpsFit, LookUpFits
  <2>2. cache' = [cache EXCEPT ![lookup[c].symbol] = Cached(lookup[c].token, lookup[c].seen)]
    BY <1>12 DEF Keep
  <2>3. Supports(lookup[c].seen, lookup[c].symbol, lookup[c].token)
    BY <1>z, <1>12 DEF Keep, LookUpsFit, LookUpFits
  <2>4. ASSUME NEW x \in Symbols, cache'[x] # None
        PROVE  Supports(cache'[x].seen, x, cache'[x].token)
    BY <1>a, <1>b, <2>1, <2>2, <2>3, <2>4 DEF CachesFit, Cached, ResolutionTypeOK
  <2>5. \A x \in Symbols : cache'[x] # None => Supports(cache[x].seen, x, cache[x].token)'
    BY <2>1, <2>4 DEF Supports, Spans, WereCalled, StayedCalled, Now
  <2> QED
    BY <1>b, <2>1, <2>5 DEF CachesFit
<1>13. ASSUME NEW c \in Callers, AskPool(c) PROVE CachesFit'
  BY <1>a, <1>b, <1>13 DEF AskPool, market, Goes, CachesFit, Supports, Spans, WereCalled,
         StayedCalled, Now
<1>14. ASSUME NEW c \in Callers, PoolFails(c) PROVE CachesFit'
  BY <1>a, <1>b, <1>14 DEF PoolFails, market, Goes, CachesFit, Supports, Spans, WereCalled,
         StayedCalled, Now
<1>15. CASE UNCHANGED resolution
  BY <1>a, <1>b, <1>15 DEF resolution, CachesFit, Supports, Spans, WereCalled, StayedCalled, Now
<1> QED
  BY <1>1, <1>2, <1>3, <1>4, <1>5, <1>6, <1>7, <1>8, <1>9, <1>10, <1>11, <1>12, <1>13,
     <1>14, <1>15 DEF ResolutionNext, Market, LookingUp, AskingPool

(* What a look-up under way has read stays as good as it was.              *)
LEMMA LookUpStays ==
  ASSUME ResolutionTypeOK, [ResolutionNext]_resolution, NEW d \in Callers, LookUpFits(d),
         lookup'[d] = lookup[d], step'[d] = step[d], kind'[d] = kind[d]
  PROVE  LookUpFits(d)'
<1> DEFINE seen == lookup[d].seen
<1>1. /\ Now' \in Nat /\ Now' >= Now /\ Now \in Nat /\ Now >= 1
      /\ \A n \in 1 .. Now : names'[n] = names[n]
      /\ pooled \subseteq pooled'
  BY NamesGrow, NamesFacts
<1>2. Spans(seen) => Spans(lookup[d].seen)' /\ names'[seen.upto] = names[seen.upto]
  BY <1>1 DEF Spans
<1>3. Supports(seen, lookup[d].symbol, lookup[d].token) =>
        Supports(lookup[d].seen, lookup[d].symbol, lookup[d].token)'
  BY <1>1 DEF Supports, Spans, WereCalled, StayedCalled, Stocks
<1>4. seen.from \in 1 .. Now => seen.from \in 1 .. Now'
  BY <1>1
<1>5. ASSUME seen.from \in 1 .. Now, NEW t \in Stocks,
             \E n \in seen.from .. Now : names[n][t] # lookup[d].symbol
      PROVE  \E n \in seen.from .. Now' : names'[n][t] # lookup[d].symbol
  BY <1>1, <1>5
<1>6. ~(step[d] = "rows" /\ step[d] = "scan")
  OBVIOUS
<1> HIDE DEF seen
<1>7. step[d] = "scan" => seen.from \in 1 .. Now
  BY DEF LookUpFits, seen
<1>8. step[d] = "rows" =>
        /\ Spans(lookup[d].seen)'
        /\ \A t \in Stocks : lookup[d].rows[t] =
             IF t \in seen.failed THEN None ELSE names'[seen.upto][t]
  BY <1>2 DEF LookUpFits, seen
<1>9. step[d] = "scan" =>
        \A t \in Stocks : t < lookup[d].next =>
          t \in seen.failed \/ \E n \in seen.from .. Now' : names'[n][t] # lookup[d].symbol
  BY <1>5, <1>7 DEF LookUpFits, seen
<1> QED
  BY <1>1, <1>3, <1>4, <1>8, <1>9 DEF LookUpFits, seen, Stocks

(* A look-up under way has the evidence for what it will answer. *)
LEMMA LookUpsPreserved == ResolutionIInv /\ [ResolutionNext]_resolution => LookUpsFit'
<1> SUFFICES ASSUME ResolutionIInv, [ResolutionNext]_resolution PROVE LookUpsFit'
  OBVIOUS
<1>a. ResolutionTypeOK
  BY DEF ResolutionIInv
<1>b. LookUpsFit
  BY DEF ResolutionIInv
<1>z. ResolutionTypeOK /\ LookUpsFit /\ CachesFit /\ ServedFits
  BY DEF ResolutionIInv
<1>1. ASSUME NEW t \in Stocks, NEW s \in Symbols, Rename(t, s) PROVE LookUpsFit'
  <2>1. UNCHANGED <<lookup, step, kind>>
    BY <1>1 DEF Rename
  <2> QED
    BY <1>a, <1>b, <2>1, LookUpStays DEF LookUpsFit
<1>2. ASSUME NEW t \in Stocks, CreatePool(t) PROVE LookUpsFit'
  <2>1. UNCHANGED <<lookup, step, kind>>
    BY <1>2 DEF CreatePool
  <2> QED
    BY <1>a, <1>b, <2>1, LookUpStays DEF LookUpsFit
<1>3. ASSUME Tick PROVE LookUpsFit'
  <2>1. UNCHANGED <<lookup, step, kind>>
    BY <1>3 DEF Tick
  <2> QED
    BY <1>a, <1>b, <2>1, LookUpStays DEF LookUpsFit
<1>4. ASSUME NEW c \in Callers, NEW s \in Symbols, LookUp(c, s) PROVE LookUpsFit'
  <2>1. \A d \in Callers : d # c =>
          lookup'[d] = lookup[d] /\ step'[d] = step[d] /\ kind'[d] = kind[d]
    BY <1>a, <1>4 DEF LookUp, Goes, ResolutionTypeOK
  <2>2. \A d \in Callers : d # c => LookUpFits(d)'
    BY <1>a, <1>b, <2>1, LookUpStays DEF LookUpsFit
  <2>3. Now \in Nat /\ Now >= 1 /\ c \in Callers
    BY <1>a, <1>4, NamesFacts
  <2>4. UNCHANGED <<names, pooled>> /\ kind'[c] = None
    BY <1>a, <1>4 DEF LookUp, market, ResolutionTypeOK
  <2>5. ASSUME Fresh(s) PROVE LookUpFits(c)'
    <3>1. cache[s].token \in Stocks
      BY <1>a, <1>4, <2>5 DEF ResolutionTypeOK, Fresh, Entries
    <3>2. /\ step'[c] = "found" /\ lookup'[c].symbol = s /\ lookup'[c].token = cache[s].token
          /\ lookup'[c].existing = pooled
      <4>1. lookup'[c] = [NoLookUp EXCEPT !.symbol = s, !.token = cache[s].token, !.existing = pooled]
        BY <1>a, <1>4, <2>5 DEF LookUp, ResolutionTypeOK
      <4>2. step'[c] = "found"
        BY <1>a, <1>4, <2>5 DEF LookUp, Goes, ResolutionTypeOK
      <4> QED
        BY <4>1, <4>2 DEF NoLookUp
    <3> QED
      BY <1>4, <2>4, <3>1, <3>2 DEF LookUpFits, Stocks
  <2>6. ASSUME ~Fresh(s) PROVE LookUpFits(c)'
    <3>1. /\ step'[c] = "list" /\ lookup'[c].symbol = s /\ lookup'[c].next = 1
          /\ lookup'[c].seen.from = Now /\ lookup'[c].existing = pooled
      <4>1. lookup'[c] = [NoLookUp EXCEPT !.symbol = s, !.seen.from = Now, !.existing = pooled]
        BY <1>a, <1>4, <2>6 DEF LookUp, ResolutionTypeOK
      <4>2. step'[c] = "list"
        BY <1>a, <1>4, <2>6 DEF LookUp, Goes, ResolutionTypeOK
      <4> QED
        BY <4>1, <4>2 DEF NoLookUp, NothingSeen
    <3> QED
      BY <1>4, <2>3, <2>4, <3>1 DEF LookUpFits, Now
  <2>9. LookUpFits(c)'
    BY <2>5, <2>6
  <2> QED
    BY <2>2, <2>9 DEF LookUpsFit
<1>5. ASSUME NEW c \in Callers, ReadList(c) PROVE LookUpsFit'
  <2>1. \A d \in Callers : d # c =>
          lookup'[d] = lookup[d] /\ step'[d] = step[d] /\ kind'[d] = kind[d]
    BY <1>a, <1>5 DEF ReadList, Goes, ResolutionTypeOK
  <2>2. \A d \in Callers : d # c => LookUpFits(d)'
    BY <1>a, <1>b, <2>1, LookUpStays DEF LookUpsFit
  <2>3. UNCHANGED <<names, pooled, lookup, kind>> /\ step[c] = "list" /\ step'[c] \in {"batch", "scan"}
    BY <1>a, <1>5 DEF ReadList, market, Goes, ResolutionTypeOK
  <2>9. LookUpFits(c)'
    BY <1>b, <1>5, <2>3 DEF LookUpsFit, LookUpFits, Now, Stocks
  <2> QED
    BY <2>2, <2>9 DEF LookUpsFit
<1>6. ASSUME NEW c \in Callers, ListFails(c) PROVE LookUpsFit'
  <2>1. \A d \in Callers : d # c =>
          lookup'[d] = lookup[d] /\ step'[d] = step[d] /\ kind'[d] = kind[d]
    BY <1>a, <1>6 DEF ListFails, Missed, Goes, ResolutionTypeOK
  <2>2. \A d \in Callers : d # c => LookUpFits(d)'
    BY <1>a, <1>b, <2>1, LookUpStays DEF LookUpsFit
  <2>3. /\ UNCHANGED <<pooled, kind>> /\ step[c] = "list" /\ step'[c] = "missed"
        /\ lookup'[c] = NoLookUp
    BY <1>a, <1>6 DEF ListFails, Missed, market, Goes, ResolutionTypeOK
  <2>9. LookUpFits(c)'
    BY <1>b, <1>6, <2>3 DEF LookUpsFit, LookUpFits, NoLookUp
  <2> QED
    BY <2>2, <2>9 DEF LookUpsFit
<1>7. ASSUME NEW c \in Callers, NEW failed \in SUBSET Stocks, ReadBatch(c, failed) PROVE LookUpsFit'
  <2>1. \A d \in Callers : d # c =>
          lookup'[d] = lookup[d] /\ step'[d] = step[d] /\ kind'[d] = kind[d]
    BY <1>a, <1>7 DEF ReadBatch, Goes, ResolutionTypeOK
  <2>2. \A d \in Callers : d # c => LookUpFits(d)'
    BY <1>a, <1>b, <2>1, LookUpStays DEF LookUpsFit
  <2>3. UNCHANGED <<names, pooled, kind>> /\ step[c] = "batch" /\ step'[c] = "rows"
    BY <1>a, <1>7 DEF ReadBatch, market, Goes, ResolutionTypeOK
  <2>4. lookup[c] \in LookUpState /\ lookup[c].seen \in Evidence
    BY <1>a, <1>7 DEF ResolutionTypeOK, LookUpState
  <2>5. /\ lookup'[c].symbol = lookup[c].symbol /\ lookup'[c].existing = lookup[c].existing
        /\ lookup'[c].rows = [t \in Stocks |-> IF t \in failed THEN None ELSE Name(t)]
        /\ lookup'[c].seen = [lookup[c].seen EXCEPT !.upto = Now, !.failed = failed]
    BY <1>a, <1>7, <2>4 DEF ReadBatch, ResolutionTypeOK, LookUpState
  <2>6. /\ lookup'[c].seen.upto = Now /\ lookup'[c].seen.failed = failed
        /\ lookup'[c].seen.from = lookup[c].seen.from
    BY <2>4, <2>5 DEF Evidence
  <2>7. lookup[c].symbol \in Symbols /\ lookup[c].seen.from \in 1 .. Now
        /\ lookup[c].existing \subseteq pooled /\ kind[c] = None
    BY <1>b, <1>7, <2>3 DEF LookUpsFit, LookUpFits
  <2>8. Now' = Now /\ Now \in 1 .. Now
    BY <1>a, <2>3, NamesFacts DEF Now
  <2>9. LookUpFits(c)'
    BY <2>3, <2>5, <2>6, <2>7, <2>8 DEF LookUpFits, Spans, Name, Stocks
  <2> QED
    BY <2>2, <2>9 DEF LookUpsFit
<1>8. ASSUME NEW c \in Callers, BatchFails(c) PROVE LookUpsFit'
  <2>1. \A d \in Callers : d # c =>
          lookup'[d] = lookup[d] /\ step'[d] = step[d] /\ kind'[d] = kind[d]
    BY <1>a, <1>8 DEF BatchFails, Goes, ResolutionTypeOK
  <2>2. \A d \in Callers : d # c => LookUpFits(d)'
    BY <1>a, <1>b, <2>1, LookUpStays DEF LookUpsFit
  <2>3. UNCHANGED <<names, pooled, lookup, kind>> /\ step[c] = "batch" /\ step'[c] = "scan"
    BY <1>a, <1>8 DEF BatchFails, market, Goes, ResolutionTypeOK
  <2>9. LookUpFits(c)'
    BY <1>b, <1>8, <2>3 DEF LookUpsFit, LookUpFits, Now, Stocks
  <2> QED
    BY <2>2, <2>9 DEF LookUpsFit
<1>9. ASSUME NEW c \in Callers, KeepRows(c) PROVE LookUpsFit'
  <2>1. \A d \in Callers : d # c =>
          lookup'[d] = lookup[d] /\ step'[d] = step[d] /\ kind'[d] = kind[d]
    BY <1>a, <1>9 DEF KeepRows, Missed, Goes, ResolutionTypeOK
  <2>2. \A d \in Callers : d # c => LookUpFits(d)'
    BY <1>a, <1>b, <2>1, LookUpStays DEF LookUpsFit
  <2> DEFINE rows == lookup[c].rows
             s == lookup[c].symbol
  <2>3. UNCHANGED <<names, pooled, kind>> /\ step[c] = "rows"
    BY <1>9 DEF KeepRows, market
  <2>4. s \in Symbols /\ lookup[c].existing \subseteq pooled /\ kind[c] = None
    BY <1>b, <1>9, <2>3 DEF LookUpsFit, LookUpFits
  <2>5. ASSUME Called(rows, s) = {} PROVE LookUpFits(c)'
    <3>1. lookup'[c] = NoLookUp /\ step'[c] = "missed"
      BY <1>a, <1>9, <2>5 DEF KeepRows, Missed, Goes, ResolutionTypeOK
    <3> QED
      BY <2>3, <2>4, <3>1 DEF LookUpFits, NoLookUp
  <2>6. ASSUME Called(rows, s) # {} PROVE LookUpFits(c)'
    <3>1. Supports(lookup[c].seen, s, FirstOf(rows, s)) /\ FirstOf(rows, s) \in Stocks
      BY <1>a, <1>b, <1>9, <2>3, <2>4, <2>6, RowsSupport, FirstFacts DEF LookUpsFit, LookUpFits
    <3>2. /\ lookup'[c].token = FirstOf(rows, s) /\ lookup'[c].symbol = s
          /\ lookup'[c].seen = lookup[c].seen /\ lookup'[c].existing = lookup[c].existing
          /\ step'[c] = "keep"
      BY <1>a, <1>9, <2>6 DEF KeepRows, Goes, ResolutionTypeOK, LookUpState
    <3>3. Supports(lookup[c].seen, lookup[c].symbol, lookup[c].token)'
      BY <2>3, <3>1, <3>2 DEF Supports, Spans, WereCalled, StayedCalled, Now
    <3> QED
      BY <2>3, <2>4, <3>1, <3>2, <3>3 DEF LookUpFits, Stocks
  <2>9. LookUpFits(c)'
    BY <2>5, <2>6
  <2> QED
    BY <2>2, <2>9 DEF LookUpsFit
<1>10. ASSUME NEW c \in Callers, NEW readable \in BOOLEAN, Scan(c, readable) PROVE LookUpsFit'
  <2>1. \A d \in Callers : d # c =>
          lookup'[d] = lookup[d] /\ step'[d] = step[d] /\ kind'[d] = kind[d]
    BY <1>a, <1>10 DEF Scan, Goes, ResolutionTypeOK
  <2>2. \A d \in Callers : d # c => LookUpFits(d)'
    BY <1>a, <1>b, <2>1, LookUpStays DEF LookUpsFit
  <2> DEFINE t == lookup[c].next
             failed == lookup[c].seen.failed \cup (IF readable THEN {} ELSE {t})
  <2>3. /\ UNCHANGED <<names, pooled, kind>> /\ step[c] = "scan" /\ t \in Stocks
        /\ Now' = Now /\ Now \in 1 .. Now
    BY <1>a, <1>10, NamesFacts DEF Scan, market, Now
  <2>4. lookup[c] \in LookUpState /\ lookup[c].seen \in Evidence
    BY <1>a, <1>10 DEF ResolutionTypeOK, LookUpState
  <2>5. /\ lookup[c].symbol \in Symbols /\ lookup[c].seen.from \in 1 .. Now
        /\ lookup[c].existing \subseteq pooled /\ kind[c] = None
        /\ \A u \in Stocks : u < t => u \in lookup[c].seen.failed
             \/ \E n \in lookup[c].seen.from .. Now : names[n][u] # lookup[c].symbol
    BY <1>b, <1>10, <2>3 DEF LookUpsFit, LookUpFits
  <2>6. ASSUME readable /\ Name(t) = lookup[c].symbol PROVE LookUpFits(c)'
    <3>1. /\ lookup'[c].token = t /\ lookup'[c].symbol = lookup[c].symbol
          /\ lookup'[c].existing = lookup[c].existing /\ step'[c] = "keep"
          /\ lookup'[c].seen = [lookup[c].seen EXCEPT !.upto = Now]
      BY <1>a, <1>10, <2>4, <2>6 DEF Scan, Goes, ResolutionTypeOK, LookUpState
    <3>2. /\ lookup'[c].seen.upto = Now /\ lookup'[c].seen.from = lookup[c].seen.from
          /\ lookup'[c].seen.failed = lookup[c].seen.failed
      BY <2>4, <3>1 DEF Evidence
    <3>3. names[Now][t] = lookup[c].symbol
      BY <2>6 DEF Name
    <3>4. ASSUME NEW u \in Stocks, u \notin lookup[c].seen.failed,
                 \A n \in lookup[c].seen.from .. Now : names[n][u] = lookup[c].symbol
          PROVE  t <= u
      BY <2>3, <2>5, <3>4 DEF Stocks
    <3>5. Supports(lookup[c].seen, lookup[c].symbol, lookup[c].token)'
      BY <2>3, <2>5, <3>1, <3>2, <3>3, <3>4
         DEF Supports, Spans, WereCalled, StayedCalled, Stocks
    <3> QED
      BY <2>3, <2>5, <3>1, <3>5 DEF LookUpFits, Stocks
  <2>7. ASSUME ~(readable /\ Name(t) = lookup[c].symbol) PROVE LookUpFits(c)'
    <3>1. lookup' = [lookup EXCEPT ![c].next = t + 1,
                       ![c].seen = [lookup[c].seen EXCEPT !.failed = failed]]
          /\ UNCHANGED step
      BY <1>10, <2>7 DEF Scan
    <3>2. /\ lookup'[c].next = t + 1 /\ lookup'[c].symbol = lookup[c].symbol
          /\ lookup'[c].existing = lookup[c].existing
          /\ lookup'[c].seen = [lookup[c].seen EXCEPT !.failed = failed]
      BY <1>a, <2>4, <3>1 DEF ResolutionTypeOK, LookUpState
    <3>3. lookup'[c].seen.failed = failed /\ lookup'[c].seen.from = lookup[c].seen.from
      BY <2>4, <3>2 DEF Evidence
    <3>4. readable => names[Now][t] # lookup[c].symbol
      BY <2>7 DEF Name
    <3>5. ASSUME NEW u \in Stocks, u < t + 1, u \notin failed
          PROVE  \E n \in lookup[c].seen.from .. Now : names[n][u] # lookup[c].symbol
      <4>1. CASE u < t
        BY <2>5, <3>5, <4>1
      <4>2. CASE u = t
        BY <2>3, <2>5, <3>4, <3>5, <4>2
      <4> QED
        BY <2>3, <3>5, <4>1, <4>2 DEF Stocks
    <3> HIDE DEF failed
    <3> QED
      BY <2>3, <2>5, <3>1, <3>2, <3>3, <3>5 DEF LookUpFits, Stocks
  <2>9. LookUpFits(c)'
    BY <2>6, <2>7
  <2> QED
    BY <2>2, <2>9 DEF LookUpsFit
<1>11. ASSUME NEW c \in Callers, ScanEnds(c) PROVE LookUpsFit'
  <2>1. \A d \in Callers : d # c =>
          lookup'[d] = lookup[d] /\ step'[d] = step[d] /\ kind'[d] = kind[d]
    BY <1>a, <1>11 DEF ScanEnds, Missed, Goes, ResolutionTypeOK
  <2>2. \A d \in Callers : d # c => LookUpFits(d)'
    BY <1>a, <1>b, <2>1, LookUpStays DEF LookUpsFit
  <2>3. /\ UNCHANGED <<pooled, kind>> /\ step[c] = "scan" /\ step'[c] = "missed"
        /\ lookup'[c] = NoLookUp
    BY <1>a, <1>11 DEF ScanEnds, Missed, market, Goes, ResolutionTypeOK
  <2>9. LookUpFits(c)'
    BY <1>b, <1>11, <2>3 DEF LookUpsFit, LookUpFits, NoLookUp
  <2> QED
    BY <2>2, <2>9 DEF LookUpsFit
<1>12. ASSUME NEW c \in Callers, Keep(c) PROVE LookUpsFit'
  <2>1. \A d \in Callers : d # c =>
          lookup'[d] = lookup[d] /\ step'[d] = step[d] /\ kind'[d] = kind[d]
    BY <1>a, <1>12 DEF Keep, Goes, ResolutionTypeOK
  <2>2. \A d \in Callers : d # c => LookUpFits(d)'
    BY <1>a, <1>b, <2>1, LookUpStays DEF LookUpsFit
  <2>3. UNCHANGED <<pooled, kind>> /\ step[c] = "keep" /\ step'[c] = "found"
    BY <1>a, <1>12 DEF Keep, market, Goes, ResolutionTypeOK
  <2>4. /\ lookup'[c].token = lookup[c].token /\ lookup'[c].symbol = lookup[c].symbol
        /\ lookup'[c].existing = lookup[c].existing
    BY <1>a, <1>12 DEF Keep, ResolutionTypeOK, LookUpState
  <2>9. LookUpFits(c)'
    BY <1>b, <1>12, <2>3, <2>4 DEF LookUpsFit, LookUpFits, Stocks
  <2> QED
    BY <2>2, <2>9 DEF LookUpsFit
<1>13. ASSUME NEW c \in Callers, AskPool(c) PROVE LookUpsFit'
  BY <1>a, <1>b, <1>13 DEF AskPool, market, Goes, LookUpsFit, LookUpFits, ResolutionTypeOK,
         Supports, Spans, WereCalled, StayedCalled, Now
<1>14. ASSUME NEW c \in Callers, PoolFails(c) PROVE LookUpsFit'
  BY <1>a, <1>b, <1>14 DEF PoolFails, market, Goes, LookUpsFit, LookUpFits,
         ResolutionTypeOK, Supports, Spans, WereCalled, StayedCalled, Now
<1>15. CASE UNCHANGED resolution
  <2>1. UNCHANGED <<lookup, step, kind>>
    BY <1>15 DEF resolution
  <2> QED
    BY <1>a, <1>b, <2>1, LookUpStays DEF LookUpsFit
<1> QED
  BY <1>1, <1>2, <1>3, <1>4, <1>5, <1>6, <1>7, <1>8, <1>9, <1>10, <1>11, <1>12, <1>13,
     <1>14, <1>15 DEF ResolutionNext, Market, LookingUp, AskingPool

(* What was answered has its evidence. *)
LEMMA ServedPreserved == ResolutionIInv /\ [ResolutionNext]_resolution => ServedFits'
<1> SUFFICES ASSUME ResolutionIInv, [ResolutionNext]_resolution PROVE ServedFits'
  OBVIOUS
<1>a. ResolutionTypeOK
  BY DEF ResolutionIInv
<1>b. ServedFits
  BY DEF ResolutionIInv
<1>z. ResolutionTypeOK /\ LookUpsFit /\ CachesFit /\ ServedFits
  BY DEF ResolutionIInv
<1>1. ASSUME NEW t \in Stocks, NEW s \in Symbols, Rename(t, s) PROVE ServedFits'
  BY <1>a, <1>b, <1>1 DEF Rename, market, Goes, ServedFits, ResolutionTypeOK, Spans, Now
<1>2. ASSUME NEW t \in Stocks, CreatePool(t) PROVE ServedFits'
  BY <1>a, <1>b, <1>2 DEF CreatePool, market, Goes, ServedFits, ResolutionTypeOK, Spans, Now
<1>3. ASSUME Tick PROVE ServedFits'
  BY <1>a, <1>b, <1>3 DEF Tick, market, Goes, ServedFits, ResolutionTypeOK, Spans, Now
<1>4. ASSUME NEW c \in Callers, NEW s \in Symbols, LookUp(c, s) PROVE ServedFits'
  <2>1. UNCHANGED names /\ \A d \in Callers : d # c => served'[d] = served[d]
    BY <1>a, <1>4 DEF LookUp, market, ResolutionTypeOK
  <2>2. \A d \in Callers : d # c /\ served[d] # None => Spans(served[d].seen)
    BY <1>b DEF ServedFits
  <2>5. served'[c] # None => Spans(served'[c].seen)
    <3>1. CASE Fresh(s)
      <4>1. served'[c].seen = cache[s].seen
        BY <1>a, <1>4, <3>1 DEF LookUp, Result, ResolutionTypeOK
      <4> QED
        BY <1>z, <1>4, <3>1, <4>1 DEF CachesFit, Supports, Fresh
    <3>2. CASE ~Fresh(s)
      BY <1>a, <1>4, <3>2 DEF LookUp, ResolutionTypeOK
    <3> QED
      BY <3>1, <3>2
  <2> QED
    BY <2>1, <2>2, <2>5 DEF ServedFits, Spans, Now
<1>5. ASSUME NEW c \in Callers, ReadList(c) PROVE ServedFits'
  BY <1>a, <1>b, <1>5 DEF ReadList, market, Goes, ServedFits, ResolutionTypeOK, Spans, Now
<1>6. ASSUME NEW c \in Callers, ListFails(c) PROVE ServedFits'
  <2>1. UNCHANGED names /\ \A d \in Callers : d # c => served'[d] = served[d]
    BY <1>a, <1>6 DEF ListFails, Missed, market, ResolutionTypeOK
  <2>2. \A d \in Callers : d # c /\ served[d] # None => Spans(served[d].seen)
    BY <1>b DEF ServedFits
  <2>3. served'[c].seen = [from |-> Now, upto |-> Now, failed |-> Stocks]
    BY <1>a, <1>6 DEF ListFails, Missed, Result, ResolutionTypeOK
  <2>5. Spans(served'[c].seen)
    BY <1>a, <2>3, NamesFacts DEF Spans
  <2> QED
    BY <2>1, <2>2, <2>5 DEF ServedFits, Spans, Now
<1>7. ASSUME NEW c \in Callers, NEW failed \in SUBSET Stocks, ReadBatch(c, failed) PROVE ServedFits'
  BY <1>a, <1>b, <1>7 DEF ReadBatch, market, Goes, ServedFits, ResolutionTypeOK, Spans, Now
<1>8. ASSUME NEW c \in Callers, BatchFails(c) PROVE ServedFits'
  BY <1>a, <1>b, <1>8 DEF BatchFails, market, Goes, ServedFits, ResolutionTypeOK, Spans, Now
<1>9. ASSUME NEW c \in Callers, KeepRows(c) PROVE ServedFits'
  <2>1. UNCHANGED names /\ \A d \in Callers : d # c => served'[d] = served[d]
    BY <1>a, <1>9 DEF KeepRows, Missed, market, ResolutionTypeOK
  <2>2. \A d \in Callers : d # c /\ served[d] # None => Spans(served[d].seen)
    BY <1>b DEF ServedFits
  <2>3. served'[c] = served[c] \/ served'[c].seen = lookup[c].seen
    BY <1>a, <1>9 DEF KeepRows, Missed, Result, ResolutionTypeOK
  <2>4. Spans(lookup[c].seen)
    BY <1>z, <1>9 DEF KeepRows, LookUpsFit, LookUpFits
  <2>5. served'[c] # None => Spans(served'[c].seen)
    BY <1>b, <1>9, <2>3, <2>4 DEF ServedFits
  <2> QED
    BY <2>1, <2>2, <2>5 DEF ServedFits, Spans, Now
<1>10. ASSUME NEW c \in Callers, NEW readable \in BOOLEAN, Scan(c, readable) PROVE ServedFits'
  BY <1>a, <1>b, <1>10 DEF Scan, market, Goes, ServedFits, ResolutionTypeOK, Spans, Now
<1>11. ASSUME NEW c \in Callers, ScanEnds(c) PROVE ServedFits'
  <2>1. UNCHANGED names /\ \A d \in Callers : d # c => served'[d] = served[d]
    BY <1>a, <1>11 DEF ScanEnds, Missed, market, ResolutionTypeOK
  <2>2. \A d \in Callers : d # c /\ served[d] # None => Spans(served[d].seen)
    BY <1>b DEF ServedFits
  <2>3. served'[c].seen = [lookup[c].seen EXCEPT !.upto = Now] /\ lookup[c].seen \in Evidence
    BY <1>a, <1>11 DEF ScanEnds, Missed, Result, ResolutionTypeOK, LookUpState
  <2>4. served'[c].seen.upto = Now /\ served'[c].seen.from \in 1 .. Now
    BY <1>z, <1>11, <2>3 DEF ScanEnds, LookUpsFit, LookUpFits, Evidence
  <2>5. Spans(served'[c].seen)
    BY <1>a, <2>4, NamesFacts DEF Spans
  <2> QED
    BY <2>1, <2>2, <2>5 DEF ServedFits, Spans, Now
<1>12. ASSUME NEW c \in Callers, Keep(c) PROVE ServedFits'
  <2>1. UNCHANGED names /\ \A d \in Callers : d # c => served'[d] = served[d]
    BY <1>a, <1>12 DEF Keep, market, ResolutionTypeOK
  <2>2. \A d \in Callers : d # c /\ served[d] # None => Spans(served[d].seen)
    BY <1>b DEF ServedFits
  <2>3. served'[c].seen = lookup[c].seen
    BY <1>a, <1>12 DEF Keep, Result, ResolutionTypeOK
  <2>5. Spans(served'[c].seen)
    BY <1>z, <1>12, <2>3 DEF Keep, LookUpsFit, LookUpFits, Supports
  <2> QED
    BY <2>1, <2>2, <2>5 DEF ServedFits, Spans, Now
<1>13. ASSUME NEW c \in Callers, AskPool(c) PROVE ServedFits'
  BY <1>a, <1>b, <1>13 DEF AskPool, market, Goes, ServedFits, ResolutionTypeOK, Spans, Now
<1>14. ASSUME NEW c \in Callers, PoolFails(c) PROVE ServedFits'
  BY <1>a, <1>b, <1>14 DEF PoolFails, market, Goes, ServedFits, ResolutionTypeOK, Spans, Now
<1>15. CASE UNCHANGED resolution
  BY <1>a, <1>b, <1>15 DEF resolution, ServedFits, ResolutionTypeOK, Spans, Now
<1> QED
  BY <1>1, <1>2, <1>3, <1>4, <1>5, <1>6, <1>7, <1>8, <1>9, <1>10, <1>11, <1>12, <1>13,
     <1>14, <1>15 DEF ResolutionNext, Market, LookingUp, AskingPool

(* What a thread was served is recent, and the first of its name.          *)
ServedWell(c) ==
  served[c] # None =>
    /\ served[c].token # None =>
         /\ WereCalled(served[c].token, served[c].symbol, served[c].seen)
         /\ served[c].at < served[c].since + Ttl
    /\ \A t \in Stocks :
         StayedCalled(t, served[c].symbol, served[c].seen) /\ t \notin served[c].seen.failed
           => served[c].token # None /\ served[c].token <= t
ServedAllWell == \A c \in Callers : ServedWell(c)

LEMMA ServedProperties == ServedAllWell <=> ServedIsRecent /\ FirstIsServed
BY DEF ServedAllWell, ServedWell, ServedIsRecent, FirstIsServed

(* An answer that was true stays so: the names it speaks of do not change. *)
LEMMA AnswerStays ==
  ASSUME ResolutionTypeOK, [ResolutionNext]_resolution, ServedFits, NEW d \in Callers,
         ServedWell(d), served'[d] = served[d]
  PROVE  ServedWell(d)'
<1>1. CASE served[d] = None
  BY <1>1 DEF ServedWell
<1>2. CASE served[d] # None
  <2> DEFINE seen == served[d].seen
  <2>1. Spans(seen)
    BY <1>2 DEF ServedFits
  <2>2. \A n \in seen.from .. seen.upto : names'[n] = names[n]
    BY <2>1, NamesGrow, NamesFacts DEF Spans
  <2> QED
    BY <1>2, <2>2 DEF ServedWell, WereCalled, StayedCalled, Stocks
<1> QED
  BY <1>1, <1>2

(* Evidence for a token makes an answer with that token a good one.        *)
LEMMA SupportedAnswer ==
  ASSUME NEW c \in Callers, NEW seen, NEW s, NEW t \in Stocks, NEW since \in Nat,
         Supports(seen, s, t), UNCHANGED names, clock \in Nat, clock < since + Ttl,
         served'[c] = Result(s, t, since, seen)
  PROVE  ServedWell(c)'
<1>1. /\ served'[c].token = t /\ served'[c].symbol = s /\ served'[c].seen = seen
      /\ served'[c].at = clock /\ served'[c].since = since
  BY DEF Result
<1>2. WereCalled(t, s, seen) /\ \A u \in Stocks :
        StayedCalled(u, s, seen) /\ u \notin seen.failed => t <= u
  BY DEF Supports
<1>3. t # None
  BY DEF Stocks
<1> QED
  BY <1>1, <1>2, <1>3 DEF ServedWell, WereCalled, StayedCalled, Stocks

(* Evidence that no token has the name makes the answer None a good one.   *)
LEMMA MissedAnswer ==
  ASSUME NEW c \in Callers, NEW seen, NEW s, NEW since, UNCHANGED names,
         served'[c] = Result(s, None, since, seen),
         \A u \in Stocks : ~(StayedCalled(u, s, seen) /\ u \notin seen.failed)
  PROVE  ServedWell(c)'
<1>1. served'[c].token = None /\ served'[c].symbol = s /\ served'[c].seen = seen
  BY DEF Result
<1> QED
  BY <1>1 DEF ServedWell, StayedCalled, Stocks

(* Every answer is recent, and the first token of its name. *)
LEMMA AnswersPreserved == ResolutionIInv /\ [ResolutionNext]_resolution => ServedAllWell'
<1> SUFFICES ASSUME ResolutionIInv, [ResolutionNext]_resolution PROVE ServedAllWell'
  OBVIOUS
<1>a. ResolutionTypeOK
  BY DEF ResolutionIInv
<1>b. ServedAllWell
  BY ServedProperties DEF ResolutionIInv, LookUpsAreTrue
<1>z. ResolutionTypeOK /\ LookUpsFit /\ CachesFit /\ ServedFits
  BY DEF ResolutionIInv
<1>1. ASSUME NEW t \in Stocks, NEW s \in Symbols, Rename(t, s) PROVE ServedAllWell'
  <2>1. UNCHANGED served
    BY <1>1 DEF Rename
  <2> QED
    BY <1>a, <1>b, <1>z, <2>1, AnswerStays DEF ServedAllWell
<1>2. ASSUME NEW t \in Stocks, CreatePool(t) PROVE ServedAllWell'
  <2>1. UNCHANGED served
    BY <1>2 DEF CreatePool
  <2> QED
    BY <1>a, <1>b, <1>z, <2>1, AnswerStays DEF ServedAllWell
<1>3. ASSUME Tick PROVE ServedAllWell'
  <2>1. UNCHANGED served
    BY <1>3 DEF Tick
  <2> QED
    BY <1>a, <1>b, <1>z, <2>1, AnswerStays DEF ServedAllWell
<1>4. ASSUME NEW c \in Callers, NEW s \in Symbols, LookUp(c, s) PROVE ServedAllWell'
  <2>1. UNCHANGED <<names, clock>> /\ \A d \in Callers : d # c => served'[d] = served[d]
    BY <1>a, <1>4 DEF LookUp, market, ResolutionTypeOK
  <2>2. \A d \in Callers : d # c => ServedWell(d)'
    BY <1>a, <1>b, <1>z, <2>1, AnswerStays DEF ServedAllWell
  <2>9. ServedWell(c)'
    <3>1. CASE Fresh(s)
      <4>1. /\ cache[s] \in Entries /\ clock \in Nat /\ clock < cache[s].filled + Ttl
            /\ Supports(cache[s].seen, s, cache[s].token)
        BY <1>a, <1>z, <1>4, <3>1, NamesFacts DEF ResolutionTypeOK, Fresh, CachesFit
      <4>2. cache[s].token \in Stocks /\ cache[s].filled \in Nat
        BY <4>1 DEF Entries
      <4>3. served'[c] = Result(s, cache[s].token, cache[s].filled, cache[s].seen)
        BY <1>a, <1>4, <3>1 DEF LookUp, ResolutionTypeOK
      <4> QED
        BY <1>4, <2>1, <4>1, <4>2, <4>3, SupportedAnswer
    <3>2. CASE ~Fresh(s)
      <4>1. served'[c] = None
        BY <1>a, <1>4, <3>2 DEF LookUp, ResolutionTypeOK
      <4> QED
        BY <4>1 DEF ServedWell
    <3> QED
      BY <3>1, <3>2
  <2> QED
    BY <2>2, <2>9 DEF ServedAllWell
<1>5. ASSUME NEW c \in Callers, ReadList(c) PROVE ServedAllWell'
  <2>1. UNCHANGED served
    BY <1>5 DEF ReadList
  <2> QED
    BY <1>a, <1>b, <1>z, <2>1, AnswerStays DEF ServedAllWell
<1>6. ASSUME NEW c \in Callers, ListFails(c) PROVE ServedAllWell'
  <2>1. UNCHANGED <<names, clock>> /\ \A d \in Callers : d # c => served'[d] = served[d]
    BY <1>a, <1>6 DEF ListFails, Missed, market, ResolutionTypeOK
  <2>2. \A d \in Callers : d # c => ServedWell(d)'
    BY <1>a, <1>b, <1>z, <2>1, AnswerStays DEF ServedAllWell
  <2> DEFINE seen == [from |-> Now, upto |-> Now, failed |-> Stocks]
  <2>3. served'[c] = Result(lookup[c].symbol, None, clock, seen)
    BY <1>a, <1>6 DEF ListFails, Missed, ResolutionTypeOK
  <2>4. seen.failed = Stocks
    OBVIOUS
  <2> HIDE DEF seen
  <2>9. ServedWell(c)'
    BY <1>6, <2>1, <2>3, <2>4, MissedAnswer
  <2> QED
    BY <2>2, <2>9 DEF ServedAllWell
<1>7. ASSUME NEW c \in Callers, NEW failed \in SUBSET Stocks, ReadBatch(c, failed) PROVE ServedAllWell'
  <2>1. UNCHANGED served
    BY <1>7 DEF ReadBatch
  <2> QED
    BY <1>a, <1>b, <1>z, <2>1, AnswerStays DEF ServedAllWell
<1>8. ASSUME NEW c \in Callers, BatchFails(c) PROVE ServedAllWell'
  <2>1. UNCHANGED served
    BY <1>8 DEF BatchFails
  <2> QED
    BY <1>a, <1>b, <1>z, <2>1, AnswerStays DEF ServedAllWell
<1>9. ASSUME NEW c \in Callers, KeepRows(c) PROVE ServedAllWell'
  <2>1. UNCHANGED <<names, clock>> /\ \A d \in Callers : d # c => served'[d] = served[d]
    BY <1>a, <1>9 DEF KeepRows, Missed, market, ResolutionTypeOK
  <2>2. \A d \in Callers : d # c => ServedWell(d)'
    BY <1>a, <1>b, <1>z, <2>1, AnswerStays DEF ServedAllWell
  <2> DEFINE rows == lookup[c].rows
             s == lookup[c].symbol
             seen == lookup[c].seen
  <2>3. /\ s \in Symbols /\ Spans(seen) /\ step[c] = "rows"
        /\ \A t \in Stocks : rows[t] = IF t \in seen.failed THEN None ELSE names[seen.upto][t]
    BY <1>z, <1>9 DEF KeepRows, LookUpsFit, LookUpFits
  <2>9. ServedWell(c)'
    <3>1. CASE Called(rows, s) = {}
      <4>1. served'[c] = Result(s, None, clock, seen)
        BY <1>a, <1>9, <3>1 DEF KeepRows, Missed, ResolutionTypeOK
      <4>2. seen.upto \in seen.from .. seen.upto
        BY <1>a, <2>3, NamesFacts DEF Spans
      <4>3. ASSUME NEW u \in Stocks, StayedCalled(u, s, seen), u \notin seen.failed PROVE FALSE
        <5>1. names[seen.upto][u] = s
          BY <4>2, <4>3 DEF StayedCalled
        <5> QED
          BY <2>3, <3>1, <4>3, <5>1 DEF Called
      <4> HIDE DEF seen, s
      <4> QED
        BY <1>9, <2>1, <4>1, <4>3, MissedAnswer
    <3>2. CASE Called(rows, s) # {}
      <4>1. UNCHANGED served
        BY <1>9, <3>2 DEF KeepRows
      <4> QED
        BY <1>a, <1>b, <1>z, <1>9, <4>1, AnswerStays DEF ServedAllWell
    <3> QED
      BY <3>1, <3>2
  <2> QED
    BY <2>2, <2>9 DEF ServedAllWell
<1>10. ASSUME NEW c \in Callers, NEW readable \in BOOLEAN, Scan(c, readable) PROVE ServedAllWell'
  <2>1. UNCHANGED served
    BY <1>10 DEF Scan
  <2> QED
    BY <1>a, <1>b, <1>z, <2>1, AnswerStays DEF ServedAllWell
<1>11. ASSUME NEW c \in Callers, ScanEnds(c) PROVE ServedAllWell'
  <2>1. UNCHANGED <<names, clock>> /\ \A d \in Callers : d # c => served'[d] = served[d]
    BY <1>a, <1>11 DEF ScanEnds, Missed, market, ResolutionTypeOK
  <2>2. \A d \in Callers : d # c => ServedWell(d)'
    BY <1>a, <1>b, <1>z, <2>1, AnswerStays DEF ServedAllWell
  <2> DEFINE seen == [lookup[c].seen EXCEPT !.upto = Now]
             s == lookup[c].symbol
  <2>3. served'[c] = Result(s, None, clock, seen) /\ lookup[c].seen \in Evidence
    BY <1>a, <1>11 DEF ScanEnds, Missed, ResolutionTypeOK, LookUpState
  <2>4. seen.upto = Now /\ seen.from = lookup[c].seen.from /\ seen.failed = lookup[c].seen.failed
    BY <2>3 DEF Evidence
  <2>5. \A t \in Stocks : t < lookup[c].next
    BY <1>a, <1>11 DEF ScanEnds, ResolutionTypeOK, LookUpState, Stocks
  <2> HIDE DEF seen
  <2>6. ASSUME NEW u \in Stocks, StayedCalled(u, s, seen), u \notin seen.failed PROVE FALSE
    <3>1. PICK n \in lookup[c].seen.from .. Now : names[n][u] # s
      BY <1>z, <1>11, <2>4, <2>5, <2>6 DEF ScanEnds, LookUpsFit, LookUpFits
    <3> QED
      BY <2>4, <2>6, <3>1 DEF StayedCalled
  <2> HIDE DEF s
  <2>9. ServedWell(c)'
    BY <1>11, <2>1, <2>3, <2>6, MissedAnswer
  <2> QED
    BY <2>2, <2>9 DEF ServedAllWell
<1>12. ASSUME NEW c \in Callers, Keep(c) PROVE ServedAllWell'
  <2>1. UNCHANGED <<names, clock>> /\ \A d \in Callers : d # c => served'[d] = served[d]
    BY <1>a, <1>12 DEF Keep, market, ResolutionTypeOK
  <2>2. \A d \in Callers : d # c => ServedWell(d)'
    BY <1>a, <1>b, <1>z, <2>1, AnswerStays DEF ServedAllWell
  <2>3. served'[c] = Result(lookup[c].symbol, lookup[c].token, clock, lookup[c].seen)
    BY <1>a, <1>12 DEF Keep, ResolutionTypeOK
  <2>4. /\ lookup[c].token \in Stocks /\ Supports(lookup[c].seen, lookup[c].symbol, lookup[c].token)
        /\ clock \in Nat /\ clock < clock + Ttl
    BY <1>a, <1>z, <1>12, NamesFacts DEF Keep, LookUpsFit, LookUpFits
  <2>9. ServedWell(c)'
    BY <1>12, <2>1, <2>3, <2>4, SupportedAnswer
  <2> QED
    BY <2>2, <2>9 DEF ServedAllWell
<1>13. ASSUME NEW c \in Callers, AskPool(c) PROVE ServedAllWell'
  <2>1. UNCHANGED served
    BY <1>13 DEF AskPool
  <2> QED
    BY <1>a, <1>b, <1>z, <2>1, AnswerStays DEF ServedAllWell
<1>14. ASSUME NEW c \in Callers, PoolFails(c) PROVE ServedAllWell'
  <2>1. UNCHANGED served
    BY <1>14 DEF PoolFails
  <2> QED
    BY <1>a, <1>b, <1>z, <2>1, AnswerStays DEF ServedAllWell
<1>15. CASE UNCHANGED resolution
  <2>1. UNCHANGED served
    BY <1>15 DEF resolution
  <2> QED
    BY <1>a, <1>b, <1>z, <2>1, AnswerStays DEF ServedAllWell
<1> QED
  BY <1>1, <1>2, <1>3, <1>4, <1>5, <1>6, <1>7, <1>8, <1>9, <1>10, <1>11, <1>12, <1>13,
     <1>14, <1>15 DEF ResolutionNext, Market, LookingUp, AskingPool

(* The kind of an instrument is what the factory says, or said during the call. *)
LEMMA KindsPreserved == ResolutionIInv /\ [ResolutionNext]_resolution => KindIsTrue'
<1> SUFFICES ASSUME ResolutionIInv, [ResolutionNext]_resolution PROVE KindIsTrue'
  OBVIOUS
<1>a. ResolutionTypeOK
  BY DEF ResolutionIInv
<1>b. KindIsTrue
  BY DEF ResolutionIInv, LookUpsAreTrue
<1>d. /\ pools \subseteq pooled
      /\ \A d \in Callers : /\ lookup[d].existing \subseteq pooled
                            /\ kind[d] # None => step[d] = "found"
  BY DEF ResolutionIInv, CachesFit, LookUpsFit, LookUpFits
<1>1. ASSUME NEW t \in Stocks, NEW s \in Symbols, Rename(t, s) PROVE KindIsTrue'
  BY <1>a, <1>b, <1>d, <1>1 DEF Rename, market, Goes, KindIsTrue, ResolutionTypeOK
<1>2. ASSUME NEW t \in Stocks, CreatePool(t) PROVE KindIsTrue'
  BY <1>a, <1>b, <1>d, <1>2 DEF CreatePool, market, Goes, KindIsTrue, ResolutionTypeOK
<1>3. ASSUME Tick PROVE KindIsTrue'
  BY <1>a, <1>b, <1>d, <1>3 DEF Tick, market, Goes, KindIsTrue, ResolutionTypeOK
<1>4. ASSUME NEW c \in Callers, NEW s \in Symbols, LookUp(c, s) PROVE KindIsTrue'
  <2>1. kind'[c] = None /\ UNCHANGED pooled
    BY <1>a, <1>4 DEF LookUp, market, ResolutionTypeOK
  <2>2. \A d \in Callers : d # c => lookup'[d] = lookup[d] /\ kind'[d] = kind[d]
    BY <1>a, <1>4 DEF LookUp, ResolutionTypeOK
  <2> QED
    BY NoneIsNoKind, <1>b, <2>1, <2>2 DEF KindIsTrue
<1>5. ASSUME NEW c \in Callers, ReadList(c) PROVE KindIsTrue'
  BY <1>a, <1>b, <1>d, <1>5 DEF ReadList, market, Goes, KindIsTrue, ResolutionTypeOK
<1>6. ASSUME NEW c \in Callers, ListFails(c) PROVE KindIsTrue'
  <2>1. kind[c] = None /\ UNCHANGED <<kind, pooled>>
    BY <1>d, <1>6 DEF ListFails, Missed, market
  <2>2. \A d \in Callers : d # c => lookup'[d] = lookup[d]
    BY <1>a, <1>6 DEF ListFails, Missed, ResolutionTypeOK
  <2> QED
    BY NoneIsNoKind, <1>b, <2>1, <2>2 DEF KindIsTrue
<1>7. ASSUME NEW c \in Callers, NEW failed \in SUBSET Stocks, ReadBatch(c, failed) PROVE KindIsTrue'
  BY <1>a, <1>b, <1>d, <1>7 DEF ReadBatch, market, Goes, KindIsTrue, ResolutionTypeOK
<1>8. ASSUME NEW c \in Callers, BatchFails(c) PROVE KindIsTrue'
  BY <1>a, <1>b, <1>d, <1>8 DEF BatchFails, market, Goes, KindIsTrue, ResolutionTypeOK
<1>9. ASSUME NEW c \in Callers, KeepRows(c) PROVE KindIsTrue'
  <2>1. kind[c] = None /\ UNCHANGED <<kind, pooled>>
    BY <1>d, <1>9 DEF KeepRows, Missed, market
  <2>2. \A d \in Callers : d # c => lookup'[d] = lookup[d]
    BY <1>a, <1>9 DEF KeepRows, Missed, ResolutionTypeOK
  <2> QED
    BY NoneIsNoKind, <1>b, <2>1, <2>2 DEF KindIsTrue
<1>10. ASSUME NEW c \in Callers, NEW readable \in BOOLEAN, Scan(c, readable) PROVE KindIsTrue'
  <2>1. kind[c] = None /\ UNCHANGED <<kind, pooled>>
    BY <1>d, <1>10 DEF Scan, market
  <2>2. \A d \in Callers : d # c => lookup'[d] = lookup[d]
    BY <1>a, <1>10 DEF Scan, ResolutionTypeOK
  <2> QED
    BY NoneIsNoKind, <1>b, <2>1, <2>2 DEF KindIsTrue
<1>11. ASSUME NEW c \in Callers, ScanEnds(c) PROVE KindIsTrue'
  <2>1. kind[c] = None /\ UNCHANGED <<kind, pooled>>
    BY <1>d, <1>11 DEF ScanEnds, Missed, market
  <2>2. \A d \in Callers : d # c => lookup'[d] = lookup[d]
    BY <1>a, <1>11 DEF ScanEnds, Missed, ResolutionTypeOK
  <2> QED
    BY NoneIsNoKind, <1>b, <2>1, <2>2 DEF KindIsTrue
<1>12. ASSUME NEW c \in Callers, Keep(c) PROVE KindIsTrue'
  BY <1>a, <1>b, <1>d, <1>12 DEF Keep, market, Goes, KindIsTrue, ResolutionTypeOK
<1>13. ASSUME NEW c \in Callers, AskPool(c) PROVE KindIsTrue'
  BY <1>a, <1>b, <1>d, <1>13 DEF AskPool, market, Goes, KindIsTrue, ResolutionTypeOK
<1>14. ASSUME NEW c \in Callers, PoolFails(c) PROVE KindIsTrue'
  BY <1>a, <1>b, <1>d, <1>14 DEF PoolFails, market, Goes, KindIsTrue, ResolutionTypeOK
<1>15. CASE UNCHANGED resolution
  BY <1>a, <1>b, <1>d, <1>15 DEF resolution, KindIsTrue, ResolutionTypeOK
<1> QED
  BY <1>1, <1>2, <1>3, <1>4, <1>5, <1>6, <1>7, <1>8, <1>9, <1>10, <1>11, <1>12, <1>13,
     <1>14, <1>15 DEF ResolutionNext, Market, LookingUp, AskingPool

-----------------------------------------------------------------------------
(* The invariant and what it gives *)

LEMMA ResolutionInitIsGood == ResolutionInit => ResolutionIInv
<1> SUFFICES ASSUME ResolutionInit PROVE ResolutionIInv
  OBVIOUS
<1>1. /\ Now = 1 /\ names \in Seq([Stocks -> Symbols])
  BY DEF ResolutionInit, Now
<1>2. ResolutionTypeOK
  BY <1>1, EvidenceFacts DEF ResolutionInit, ResolutionTypeOK, LookUpPlaces
<1>3. LookUpsFit
  BY DEF ResolutionInit, LookUpsFit, LookUpFits, NoLookUp
<1>4. CachesFit
  BY DEF ResolutionInit, CachesFit
<1>5. \A c \in Callers : served[c] = None /\ kind[c] = None
  BY DEF ResolutionInit
<1>6. ServedFits /\ ServedIsRecent /\ FirstIsServed
  BY <1>5 DEF ServedFits, ServedIsRecent, FirstIsServed
<1>7. KindIsTrue
  <2>1. None \notin {"oracle", "amm"}
    BY NoneIsNoKind
  <2> QED
    BY <1>5, <2>1 DEF KindIsTrue
<1> QED
  BY <1>2, <1>3, <1>4, <1>6, <1>7 DEF ResolutionIInv, LookUpsAreTrue

(* Every step keeps the invariant. *)
LEMMA ResolutionPreserved == ResolutionIInv /\ [ResolutionNext]_resolution => ResolutionIInv'
<1> SUFFICES ASSUME ResolutionIInv, [ResolutionNext]_resolution PROVE ResolutionIInv'
  OBVIOUS
<1>1. ResolutionTypeOK' /\ LookUpsFit' /\ CachesFit' /\ ServedFits'
  BY ResolutionTypePreserved, LookUpsPreserved, CachesPreserved, ServedPreserved
<1>2. ServedIsRecent' /\ FirstIsServed' /\ KindIsTrue'
  <2>1. ServedAllWell' => ServedIsRecent' /\ FirstIsServed'
    BY DEF ServedAllWell, ServedWell, ServedIsRecent, FirstIsServed
  <2> QED
    BY <2>1, AnswersPreserved, KindsPreserved
<1> QED
  BY <1>1, <1>2 DEF ResolutionIInv, LookUpsAreTrue

(* The inductive invariant of the look-ups (dex/handlers.py, the two caches). *)
THEOREM ResolutionInvariant == ResolutionSpec => []ResolutionIInv
BY ResolutionInitIsGood, ResolutionPreserved, PTL DEF ResolutionSpec

(* Whatever is renamed, listed or cached meanwhile, a look-up answers with the *)
(* first token of the name, as of the look-up that found it, not ten minutes   *)
(* ago; and a token is not called oracle-priced that had a pool.               *)
THEOREM AnswersAreTrue == ResolutionSpec => []LookUpsAreTrue
<1>1. ResolutionIInv => LookUpsAreTrue
  BY DEF ResolutionIInv
<1> QED
  BY <1>1, ResolutionInvariant, PTL
=============================================================================
