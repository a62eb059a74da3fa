---------------------------- MODULE SessionProofs ----------------------------
(***************************************************************************)
(* Session for any number of calls: a request is carried out at most once, *)
(* calls that start together share one automatic login, and the wallet is  *)
(* asked to sign when that is needed, and only then.                       *)
(***************************************************************************)
EXTENDS Session, FiniteSetTheorems, TLAPS

USE SessionAssumption
USE DEF backendVars, clientVars, threadVars, historyVars

-----------------------------------------------------------------------------
(* The inductive invariant                                                 *)

(* Where a call is between _login_lock being taken and released.           *)
Inside == {"outer", "login", "verified"}

(* _login_lock is held by the one call that is inside.                     *)
LockHeld == \A c \in Calls : pc[c] \in Inside <=> lock = c

(* A call logs in before its second send, if ever; a direct login sends    *)
(* nothing; a call has an outcome when it has returned.                    *)
PlacesFit ==
  \A c \in Calls :
    /\ pc[c] \in {"idle", "relogin"} \union Inside => ~resent[c]
    /\ c \in Logins => pc[c] \in {"idle", "login", "verified", "returned"}
    /\ reply[c] # "none" <=> pc[c] = "answered"
    /\ outcome[c] # "none" <=> pc[c] = "returned"

(* The calls that may have logged in: no call does so twice, so there is   *)
(* a session for each.                                                     *)
Over == {c \in Calls : pc[c] \in {"verified", "returned"} \/ resent[c]}
SessionsFit == born <= 1 + Cardinality(Over)

(* The session in the jar is the newest, unless somebody logged out; a     *)
(* call starts with one that existed.                                      *)
NoLogout == \A l \in Logouts : outcome[l] = "none"
JarFits ==
  /\ cookie # NoSession => cookie = born
  /\ \A c \in Calls : from[c] # NoSession => from[c] <= born
  /\ born > 1 /\ NoLogout => cookie = born

(* Whoever waited for a login, or ran one, saw an attempt after it started. *)
SeenFits ==
  \A c \in Calls :
    /\ seen[c] <= logins
    /\ resent[c] \/ c \in signers \/ (c \in Requests /\ pc[c] \in Inside) => seen[c] < logins
    /\ c \in signers => pc[c] # "idle"

(* A request is carried out once, and then not sent again; what it hears   *)
(* agrees.                                                                 *)
DoneOf(c) ==
  /\ executed[c] \in {0, 1}
  /\ pc[c] \notin {"answered", "returned"} => executed[c] = 0
  /\ pc[c] = "answered" =>
       /\ reply[c] = "ok" => executed[c] = 1
       /\ reply[c] \in {"refused", "401", "403"} => executed[c] = 0
  /\ outcome[c] = "ok" => executed[c] = 1
  /\ outcome[c] \notin {"none", "ok", "unavailable"} => executed[c] = 0
DoneFits == \A c \in Unsafe : DoneOf(c)

(* While no login has been attempted since a call started, and none was    *)
(* running then, the jar holds what the call was sent with, or nothing;    *)
(* and what was rejected stays so.                                         *)
Untouched(c) == c \in Requests /\ pc[c] # "idle" /\ c \notin midLogin /\ logins = seen[c]
QuietOf(c) ==
  Untouched(c) =>
    /\ lock = Nobody
    /\ pc[c] \in {"sent", "answered", "relogin"} => cookie \in {sentAs[c], NoSession}
    /\ pc[c] = "relogin" \/ reply[c] = "401" => sentAs[c] \notin valid
QuietFits == \A c \in Calls : QuietOf(c)

(* Once a login attempt that started after a call has gone through, the    *)
(* jar holds another session than when the call started.                   *)
Renewed(c) ==
  \/ seen[c] < logins /\ lock = Nobody /\ ~failed
  \/ seen[c] < logins /\ \E d \in Calls : pc[d] = "verified"
  \/ resent[c] /\ ~failed
FreshFits ==
  NoLogout => \A c \in Requests : pc[c] # "idle" /\ Renewed(c) => cookie # from[c]

IInv ==
  /\ TypeOK /\ LockHeld /\ PlacesFit /\ SessionsFit /\ JarFits /\ SeenFits
  /\ DoneFits /\ OneLoginPerBurst /\ QuietFits /\ FreshFits

-----------------------------------------------------------------------------
(* Facts about the calls                                                   *)

(* A call is of one kind.                                                  *)
LEMMA CallFacts ==
  /\ \A c \in Calls : c # Nobody /\ (c \in Requests \/ c \in Logins)
  /\ Requests \subseteq Calls /\ Unsafe \subseteq Requests /\ Logouts \subseteq Unsafe
  /\ Logins \subseteq Calls /\ Logins \intersect Requests = {}
BY DEF Calls, Requests, Unsafe

(* There is a session for each call that logs in, and one more.            *)
LEMMA SessionFacts ==
  /\ Sessions \subseteq Nat /\ 1 \in Sessions
  /\ Cardinality(Calls) \in Nat
  /\ \A n \in Nat : n \in Sessions <=> 1 <= n /\ n <= 1 + Cardinality(Calls)
<1>1. Cardinality(Calls) \in Nat
  BY FS_CardinalityType
<1> QED
  BY <1>1 DEF Sessions

(* What a response means to the caller.                                    *)
LEMMA MeaningFacts ==
  /\ Meaning("ok") = "ok" /\ Meaning("refused") = "apiError"
  /\ Meaning("401") = "notLoggedIn" /\ Meaning("403") = "forbidden"
  /\ Meaning("error") = "unavailable" /\ Meaning("lost") = "unavailable"
BY DEF Meaning

(* A response is the caller's, or starts a login; what a call concludes    *)
(* with is an outcome.                                                     *)
LEMMA HandleFacts ==
  ASSUME TypeOK, PlacesFit, NEW c \in Calls, Handle(c)
  PROVE  /\ reply[c] \in {"ok", "refused", "401", "403", "error", "lost"} /\ outcome[c] = "none"
         /\ Meaning(reply[c]) \in Outcomes \ {"none"}
         /\ c \in Requests /\ reply' = [reply EXCEPT ![c] = "none"]
         /\ \/ /\ reply[c] = "401" /\ armed /\ ~resent[c]
               /\ pc' = [pc EXCEPT ![c] = "relogin"] /\ UNCHANGED <<cookie, token, outcome>>
            \/ /\ pc' = [pc EXCEPT ![c] = "returned"]
               /\ outcome' = [outcome EXCEPT ![c] = Meaning(reply[c])]
               /\ \/ UNCHANGED <<cookie, token>>
                  \/ cookie' = NoSession /\ token' = "none" /\ c \in Logouts
<1>1. reply[c] \in {"ok", "refused", "401", "403", "error", "lost"} /\ outcome[c] = "none"
  BY DEF Handle, PlacesFit, TypeOK, Replies
<1>2. Meaning(reply[c]) \in Outcomes \ {"none"}
  BY <1>1, MeaningFacts DEF Outcomes
<1>3. c \in Requests
  BY CallFacts DEF Handle, PlacesFit
<1> QED
  BY <1>1, <1>2, <1>3 DEF Handle, Conclude, Goto

(* The calls that may have logged in are not more than the calls.          *)
LEMMA OverFacts ==
  /\ IsFiniteSet(Over) /\ Cardinality(Over) \in Nat
  /\ Cardinality(Over) <= Cardinality(Calls)
<1>1. Over \in SUBSET Calls
  BY DEF Over
<1> QED
  BY <1>1, FS_Subset, FS_CardinalityType

-----------------------------------------------------------------------------
(* Every step preserves the invariant                                      *)

(* Types: there is a session for every login that goes through.            *)
LEMMA TypePreserved ==
  ASSUME TypeOK, PlacesFit, SessionsFit, [Next]_vars
  PROVE  TypeOK'
<1>a. TypeOK /\ PlacesFit /\ SessionsFit
  OBVIOUS
<1>1. ASSUME NEW c \in Calls, Start(c) PROVE TypeOK'
  BY <1>a, CallFacts, <1>1 DEF Start, Goto, TypeOK, Steps, Outcomes, Replies
<1>2. ASSUME NEW c \in Calls, StartLogin(c) PROVE TypeOK'
  BY <1>a, CallFacts, <1>2 DEF StartLogin, LoginFree, Goto, TypeOK, Steps, Outcomes, Replies
<1>3. ASSUME NEW c \in Calls, FetchToken(c) PROVE TypeOK'
  BY <1>a, CallFacts, <1>3 DEF FetchToken, Conclude, Goto, TypeOK, Steps, Outcomes, Replies
<1>4. ASSUME NEW c \in Calls, Send(c) PROVE TypeOK'
  BY <1>a, CallFacts, <1>4 DEF Send, Goto, TypeOK, Steps, Outcomes, Replies
<1>5. ASSUME NEW c \in Calls, Process(c) PROVE TypeOK'
  BY <1>a, CallFacts, <1>5 DEF Process, Goto, TypeOK, Steps, Outcomes, Replies
<1>6. ASSUME NEW c \in Calls, DropToken(c) PROVE TypeOK'
  BY <1>a, CallFacts, <1>6 DEF DropToken, CsrfRetry, Goto, TypeOK, Steps, Outcomes, Replies
<1>7. ASSUME NEW c \in Calls, Handle(c) PROVE TypeOK'
  <2>3. UNCHANGED <<valid, born, executed, armed, lock, logins, seen, resent, again, sentAs,
                    sentFit, midLogin, from, signers, failed>>
    BY <1>7 DEF Handle
  <2>1. /\ pc' \in [Calls -> Steps] /\ outcome' \in [Calls -> Outcomes]
        /\ reply' \in [Calls -> Replies]
    BY <1>a, <1>7, HandleFacts DEF TypeOK, Steps, Replies
  <2>2. cookie' \in Sessions \union {NoSession} /\ token' \in {"none", "fits", "stale"}
    BY <1>a, <1>7, HandleFacts DEF TypeOK
  <2> QED
    BY <1>a, <2>3, <2>1, <2>2 DEF TypeOK
<1>8. ASSUME NEW c \in Calls, ShareLogin(c) PROVE TypeOK'
  BY <1>a, CallFacts, <1>8 DEF ShareLogin, LoginFree, MustLogIn, Resend, Goto, TypeOK,
         Steps, Outcomes, Replies
<1>9. ASSUME NEW c \in Calls, StartRelogin(c) PROVE TypeOK'
  <2>1. c \in Requests
    BY <1>a, <1>9, CallFacts DEF StartRelogin, PlacesFit
  <2> QED
    BY <1>a, <1>9, <2>1 DEF StartRelogin, Goto, TypeOK, Steps
<1>10. ASSUME NEW c \in Calls, CallRelogin(c) PROVE TypeOK'
  <2>1. pc' \in [Calls -> Steps]
    <3>1. \E s \in Steps : pc' = [pc EXCEPT ![c] = s]
      BY <1>10 DEF CallRelogin, Conclude, Goto, Steps
    <3> QED
      BY <1>a, <3>1 DEF TypeOK
  <2>2. outcome' \in [Calls -> Outcomes]
    <3>1. \E s \in Outcomes : outcome' = [outcome EXCEPT ![c] = s] \/ outcome' = outcome
      BY <1>10 DEF CallRelogin, Conclude, Outcomes
    <3> QED
      BY <1>a, <3>1 DEF TypeOK
  <2>3. cookie' \in Sessions \union {NoSession} /\ token' \in {"none", "fits", "stale"}
    BY <1>a, <1>10 DEF CallRelogin, Conclude, TypeOK
  <2>5. lock' \in Calls \union {Nobody} /\ logins' \in Nat
    <3>1. (lock' = lock /\ logins' = logins + 1) \/ (lock' = Nobody /\ logins' = logins)
      BY <1>10 DEF CallRelogin, Conclude, Unlocked
    <3> QED
      BY <1>a, <3>1 DEF TypeOK
  <2>6. failed' \in BOOLEAN
    <3>1. failed' = failed \/ failed' = TRUE
      BY <1>10 DEF CallRelogin, Conclude
    <3> QED
      BY <1>a, <3>1 DEF TypeOK
  <2>4. UNCHANGED <<valid, born, executed, armed, seen, resent, again, sentAs, sentFit, reply,
                    midLogin, from, signers>>
    BY <1>10 DEF CallRelogin
  <2> QED
    BY <1>a, <2>1, <2>2, <2>3, <2>4, <2>5, <2>6 DEF TypeOK
<1>11. ASSUME NEW c \in Calls, Verify(c) PROVE TypeOK'
  <2>1. c \notin Over
    BY <1>a, <1>11 DEF Verify, Over, PlacesFit, Inside
  <2>2. Cardinality(Over \union {c}) = Cardinality(Over) + 1
    BY <2>1, OverFacts, FS_AddElement
  <2>3. Over \union {c} \in SUBSET Calls
    BY DEF Over
  <2>4. Cardinality(Over) + 1 <= Cardinality(Calls)
    BY <2>2, <2>3, FS_Subset
  <2>5. born \in Nat /\ 1 <= born
    BY <1>a, SessionFacts DEF TypeOK
  <2>6. born + 1 <= 1 + Cardinality(Calls)
    BY <1>a, <2>4, <2>5, OverFacts, SessionFacts DEF SessionsFit
  <2>7. born + 1 \in Sessions
    BY <2>5, <2>6, SessionFacts
  <2> QED
    BY <1>a, <1>11, <2>7 DEF Verify, Goto, TypeOK, Steps
<1>12. ASSUME NEW c \in Calls, LoginFails(c) PROVE TypeOK'
  BY <1>a, CallFacts, <1>12 DEF LoginFails, Unlocked, Goto, TypeOK, Steps, Outcomes, Replies
<1>13. ASSUME NEW c \in Calls, FinishLogin(c) PROVE TypeOK'
  BY <1>a, CallFacts, <1>13 DEF FinishLogin, Unlocked, Resend, Goto, TypeOK, Steps,
         Outcomes, Replies
<1>14. ASSUME NEW s \in Sessions, Expire(s) PROVE TypeOK'
  BY <1>a, CallFacts, <1>14 DEF Expire, TypeOK, Steps, Outcomes, Replies
<1>15. ASSUME UNCHANGED vars PROVE TypeOK'
  BY <1>a, CallFacts, <1>15 DEF vars, TypeOK, Steps, Outcomes, Replies
<1> QED
  BY <1>1, <1>2, <1>3, <1>4, <1>5, <1>6, <1>7, <1>8, <1>9, <1>10, <1>11, <1>12, <1>13,
     <1>14, <1>15 DEF Next, Thread

(* The lock changes hands with the steps that log in.                      *)
LEMMA LockPreserved ==
  ASSUME TypeOK, PlacesFit, LockHeld, [Next]_vars
  PROVE  LockHeld'
<1>a. LockHeld /\ PlacesFit
  OBVIOUS
<1>t. /\ pc \in [Calls -> Steps] /\ outcome \in [Calls -> Outcomes] /\ reply \in [Calls -> Replies]
      /\ seen \in [Calls -> Nat] /\ logins \in Nat
      /\ resent \in [Calls -> BOOLEAN] /\ again \in [Calls -> BOOLEAN]
      /\ sentAs \in [Calls -> Sessions \union {NoSession}]
      /\ from \in [Calls -> Sessions \union {NoSession}]
      /\ executed \in [Calls -> Nat]
  BY DEF TypeOK
<1>1. ASSUME NEW c \in Calls, Start(c) PROVE LockHeld'
  BY <1>a, <1>t, <1>1, CallFacts DEF Start, Goto, LockHeld, Inside
<1>2. ASSUME NEW c \in Calls, StartLogin(c) PROVE LockHeld'
  BY <1>a, <1>t, <1>2, CallFacts DEF StartLogin, LoginFree, Goto, LockHeld, Inside
<1>3. ASSUME NEW c \in Calls, FetchToken(c) PROVE LockHeld'
  BY <1>a, <1>t, <1>3, CallFacts DEF FetchToken, Conclude, Goto, LockHeld, Inside
<1>4. ASSUME NEW c \in Calls, Send(c) PROVE LockHeld'
  BY <1>a, <1>t, <1>4, CallFacts DEF Send, Goto, LockHeld, Inside
<1>5. ASSUME NEW c \in Calls, Process(c) PROVE LockHeld'
  BY <1>a, <1>t, <1>5, CallFacts DEF Process, Goto, LockHeld, Inside
<1>6. ASSUME NEW c \in Calls, DropToken(c) PROVE LockHeld'
  BY <1>a, <1>t, <1>6, CallFacts DEF DropToken, CsrfRetry, Goto, LockHeld, Inside
<1>7. ASSUME NEW c \in Calls, Handle(c) PROVE LockHeld'
  BY <1>a, <1>t, <1>7, CallFacts DEF Handle, CsrfRetry, Conclude, Goto, LockHeld, Inside
<1>8. ASSUME NEW c \in Calls, ShareLogin(c) PROVE LockHeld'
  BY <1>a, <1>t, <1>8, CallFacts DEF ShareLogin, LoginFree, MustLogIn, Resend, Goto,
         LockHeld, Inside
<1>9. ASSUME NEW c \in Calls, StartRelogin(c) PROVE LockHeld'
  BY <1>a, <1>t, <1>9, CallFacts DEF StartRelogin, LoginFree, MustLogIn, Goto, LockHeld, Inside
<1>10. ASSUME NEW c \in Calls, CallRelogin(c) PROVE LockHeld'
  BY <1>a, <1>t, <1>10, CallFacts DEF CallRelogin, Conclude, Unlocked, Goto, LockHeld, Inside
<1>11. ASSUME NEW c \in Calls, Verify(c) PROVE LockHeld'
  BY <1>a, <1>t, <1>11, CallFacts DEF Verify, Goto, LockHeld, Inside
<1>12. ASSUME NEW c \in Calls, LoginFails(c) PROVE LockHeld'
  BY <1>a, <1>t, <1>12, CallFacts DEF LoginFails, Unlocked, Goto, LockHeld, Inside
<1>13. ASSUME NEW c \in Calls, FinishLogin(c) PROVE LockHeld'
  BY <1>a, <1>t, <1>13, CallFacts DEF FinishLogin, Unlocked, Resend, Goto, LockHeld, Inside
<1>14. ASSUME NEW s \in Sessions, Expire(s) PROVE LockHeld'
  BY <1>a, <1>t, <1>14 DEF Expire, LockHeld, Inside
<1>15. ASSUME UNCHANGED vars PROVE LockHeld'
  BY <1>a, <1>t, <1>15 DEF vars, LockHeld, Inside
<1> QED
  BY <1>1, <1>2, <1>3, <1>4, <1>5, <1>6, <1>7, <1>8, <1>9, <1>10, <1>11, <1>12, <1>13,
     <1>14, <1>15 DEF Next, Thread

(* A call is sent a second time at most once.                              *)
LEMMA PlacesPreserved ==
  ASSUME TypeOK, PlacesFit, [Next]_vars
  PROVE  PlacesFit'
<1>a. TypeOK /\ PlacesFit
  OBVIOUS
<1>t. /\ pc \in [Calls -> Steps] /\ outcome \in [Calls -> Outcomes] /\ reply \in [Calls -> Replies]
      /\ seen \in [Calls -> Nat] /\ logins \in Nat
      /\ resent \in [Calls -> BOOLEAN] /\ again \in [Calls -> BOOLEAN]
      /\ sentAs \in [Calls -> Sessions \union {NoSession}]
      /\ from \in [Calls -> Sessions \union {NoSession}]
      /\ executed \in [Calls -> Nat]
  BY DEF TypeOK
<1>1. ASSUME NEW c \in Calls, Start(c) PROVE PlacesFit'
  BY <1>a, <1>t, <1>1, CallFacts DEF Start, Goto, PlacesFit, Inside, Steps, Replies
<1>2. ASSUME NEW c \in Calls, StartLogin(c) PROVE PlacesFit'
  BY <1>a, <1>t, <1>2, CallFacts DEF StartLogin, LoginFree, Goto, PlacesFit, Inside, Steps,
         Replies
<1>3. ASSUME NEW c \in Calls, FetchToken(c) PROVE PlacesFit'
  BY <1>a, <1>t, <1>3, CallFacts DEF FetchToken, Conclude, Goto, PlacesFit, Inside, Steps,
         Replies
<1>4. ASSUME NEW c \in Calls, Send(c) PROVE PlacesFit'
  BY <1>a, <1>t, <1>4, CallFacts DEF Send, Goto, PlacesFit, Inside, Steps, Replies
<1>5. ASSUME NEW c \in Calls, Process(c) PROVE PlacesFit'
  BY <1>a, <1>t, <1>5, CallFacts DEF Process, Goto, PlacesFit, Inside, Steps, Replies
<1>6. ASSUME NEW c \in Calls, DropToken(c) PROVE PlacesFit'
  BY <1>a, <1>t, <1>6, CallFacts DEF DropToken, CsrfRetry, Goto, PlacesFit, Inside, Steps,
         Replies
<1>7. ASSUME NEW c \in Calls, Handle(c) PROVE PlacesFit'
  <2>1. UNCHANGED resent
    BY <1>7 DEF Handle
  <2> QED
    BY <1>a, <1>t, <1>7, <2>1, HandleFacts, CallFacts DEF PlacesFit, Inside
<1>8. ASSUME NEW c \in Calls, ShareLogin(c) PROVE PlacesFit'
  BY <1>a, <1>t, <1>8, CallFacts DEF ShareLogin, LoginFree, MustLogIn, Resend, Goto,
         PlacesFit, Inside, Steps, Replies
<1>9. ASSUME NEW c \in Calls, StartRelogin(c) PROVE PlacesFit'
  BY <1>a, <1>t, <1>9, CallFacts DEF StartRelogin, LoginFree, MustLogIn, Goto, PlacesFit,
         Inside, Steps, Replies
<1>10. ASSUME NEW c \in Calls, CallRelogin(c) PROVE PlacesFit'
  BY <1>a, <1>t, <1>10, CallFacts DEF CallRelogin, Conclude, Unlocked, Goto, PlacesFit,
         Inside, Steps, Replies
<1>11. ASSUME NEW c \in Calls, Verify(c) PROVE PlacesFit'
  BY <1>a, <1>t, <1>11, CallFacts DEF Verify, Goto, PlacesFit, Inside, Steps, Replies
<1>12. ASSUME NEW c \in Calls, LoginFails(c) PROVE PlacesFit'
  BY <1>a, <1>t, <1>12, CallFacts DEF LoginFails, Unlocked, Goto, PlacesFit, Inside, Steps,
         Replies
<1>13. ASSUME NEW c \in Calls, FinishLogin(c) PROVE PlacesFit'
  BY <1>a, <1>t, <1>13, CallFacts DEF FinishLogin, Unlocked, Resend, Goto, PlacesFit,
         Inside, Steps, Replies
<1>14. ASSUME NEW s \in Sessions, Expire(s) PROVE PlacesFit'
  BY <1>a, <1>t, <1>14 DEF Expire, PlacesFit, Inside, Steps, Replies
<1>15. ASSUME UNCHANGED vars PROVE PlacesFit'
  BY <1>a, <1>t, <1>15 DEF vars, PlacesFit, Inside, Steps, Replies
<1> QED
  BY <1>1, <1>2, <1>3, <1>4, <1>5, <1>6, <1>7, <1>8, <1>9, <1>10, <1>11, <1>12, <1>13,
     <1>14, <1>15 DEF Next, Thread

(* A call that may have logged in does not come back.                      *)
LEMMA OverGrows ==
  ASSUME TypeOK, PlacesFit, [Next]_vars
  PROVE  Over \subseteq Over'
<1>a. PlacesFit
  OBVIOUS
<1>t. pc \in [Calls -> Steps] /\ resent \in [Calls -> BOOLEAN]
  BY DEF TypeOK
<1>1. ASSUME NEW c \in Calls, Start(c) PROVE Over \subseteq Over'
  BY <1>a, <1>t, <1>1 DEF Start, Goto, Over, PlacesFit, Inside
<1>2. ASSUME NEW c \in Calls, StartLogin(c) PROVE Over \subseteq Over'
  BY <1>a, <1>t, <1>2 DEF StartLogin, LoginFree, Goto, Over, PlacesFit, Inside
<1>3. ASSUME NEW c \in Calls, FetchToken(c) PROVE Over \subseteq Over'
  BY <1>a, <1>t, <1>3 DEF FetchToken, Conclude, Goto, Over, PlacesFit, Inside
<1>4. ASSUME NEW c \in Calls, Send(c) PROVE Over \subseteq Over'
  BY <1>a, <1>t, <1>4 DEF Send, Goto, Over, PlacesFit, Inside
<1>5. ASSUME NEW c \in Calls, Process(c) PROVE Over \subseteq Over'
  BY <1>a, <1>t, <1>5 DEF Process, Goto, Over, PlacesFit, Inside
<1>6. ASSUME NEW c \in Calls, DropToken(c) PROVE Over \subseteq Over'
  BY <1>a, <1>t, <1>6 DEF DropToken, CsrfRetry, Goto, Over, PlacesFit, Inside
<1>7. ASSUME NEW c \in Calls, Handle(c) PROVE Over \subseteq Over'
  BY <1>a, <1>t, <1>7 DEF Handle, CsrfRetry, Conclude, Goto, Over, PlacesFit, Inside
<1>8. ASSUME NEW c \in Calls, ShareLogin(c) PROVE Over \subseteq Over'
  BY <1>a, <1>t, <1>8 DEF ShareLogin, LoginFree, MustLogIn, Resend, Goto, Over, PlacesFit,
         Inside
<1>9. ASSUME NEW c \in Calls, StartRelogin(c) PROVE Over \subseteq Over'
  BY <1>a, <1>t, <1>9 DEF StartRelogin, LoginFree, MustLogIn, Goto, Over, PlacesFit, Inside
<1>10. ASSUME NEW c \in Calls, CallRelogin(c) PROVE Over \subseteq Over'
  BY <1>a, <1>t, <1>10 DEF CallRelogin, Conclude, Unlocked, Goto, Over, PlacesFit, Inside
<1>11. ASSUME NEW c \in Calls, Verify(c) PROVE Over \subseteq Over'
  BY <1>a, <1>t, <1>11 DEF Verify, Goto, Over, PlacesFit, Inside
<1>12. ASSUME NEW c \in Calls, LoginFails(c) PROVE Over \subseteq Over'
  BY <1>a, <1>t, <1>12 DEF LoginFails, Unlocked, Goto, Over, PlacesFit, Inside
<1>13. ASSUME NEW c \in Calls, FinishLogin(c) PROVE Over \subseteq Over'
  BY <1>a, <1>t, <1>13 DEF FinishLogin, Unlocked, Resend, Goto, Over, PlacesFit, Inside
<1>14. ASSUME NEW s \in Sessions, Expire(s) PROVE Over \subseteq Over'
  BY <1>a, <1>t, <1>14 DEF Expire, Over, PlacesFit, Inside
<1>15. ASSUME UNCHANGED vars PROVE Over \subseteq Over'
  BY <1>a, <1>t, <1>15 DEF vars, Over, PlacesFit, Inside
<1> QED
  BY <1>1, <1>2, <1>3, <1>4, <1>5, <1>6, <1>7, <1>8, <1>9, <1>10, <1>11, <1>12, <1>13,
     <1>14, <1>15 DEF Next, Thread

(* Only a verified login makes a session.                                  *)
LEMMA SessionsCounted ==
  ASSUME TypeOK, [Next]_vars
  PROVE  born' = born \/ \E v \in Calls : Verify(v)
<1>1. ASSUME NEW c \in Calls, Start(c) PROVE born' = born \/ \E v \in Calls : Verify(v)
  BY <1>1 DEF Start, Goto, Verify
<1>2. ASSUME NEW c \in Calls, StartLogin(c) PROVE born' = born \/ \E v \in Calls : Verify(v)
  BY <1>2 DEF StartLogin, LoginFree, Goto, Verify
<1>3. ASSUME NEW c \in Calls, FetchToken(c) PROVE born' = born \/ \E v \in Calls : Verify(v)
  BY <1>3 DEF FetchToken, Conclude, Goto, Verify
<1>4. ASSUME NEW c \in Calls, Send(c) PROVE born' = born \/ \E v \in Calls : Verify(v)
  BY <1>4 DEF Send, Goto, Verify
<1>5. ASSUME NEW c \in Calls, Process(c) PROVE born' = born \/ \E v \in Calls : Verify(v)
  BY <1>5 DEF Process, Goto, Verify
<1>6. ASSUME NEW c \in Calls, DropToken(c) PROVE born' = born \/ \E v \in Calls : Verify(v)
  BY <1>6 DEF DropToken, CsrfRetry, Goto, Verify
<1>7. ASSUME NEW c \in Calls, Handle(c) PROVE born' = born \/ \E v \in Calls : Verify(v)
  BY <1>7 DEF Handle, CsrfRetry, Conclude, Goto, Verify
<1>8. ASSUME NEW c \in Calls, ShareLogin(c) PROVE born' = born \/ \E v \in Calls : Verify(v)
  BY <1>8 DEF ShareLogin, LoginFree, MustLogIn, Resend, Goto, Verify
<1>9. ASSUME NEW c \in Calls, StartRelogin(c) PROVE born' = born \/ \E v \in Calls : Verify(v)
  BY <1>9 DEF StartRelogin, LoginFree, MustLogIn, Goto, Verify
<1>10. ASSUME NEW c \in Calls, CallRelogin(c) PROVE born' = born \/ \E v \in Calls : Verify(v)
  BY <1>10 DEF CallRelogin, Conclude, Unlocked, Goto, Verify
<1>11. ASSUME NEW c \in Calls, Verify(c) PROVE born' = born \/ \E v \in Calls : Verify(v)
  BY <1>11 DEF Verify, Goto, Verify
<1>12. ASSUME NEW c \in Calls, LoginFails(c) PROVE born' = born \/ \E v \in Calls : Verify(v)
  BY <1>12 DEF LoginFails, Unlocked, Goto, Verify
<1>13. ASSUME NEW c \in Calls, FinishLogin(c) PROVE born' = born \/ \E v \in Calls : Verify(v)
  BY <1>13 DEF FinishLogin, Unlocked, Resend, Goto, Verify
<1>14. ASSUME NEW s \in Sessions, Expire(s) PROVE born' = born \/ \E v \in Calls : Verify(v)
  BY <1>14 DEF Expire, Verify
<1>15. ASSUME UNCHANGED vars PROVE born' = born \/ \E v \in Calls : Verify(v)
  BY <1>15 DEF vars, Verify
<1> QED
  BY <1>1, <1>2, <1>3, <1>4, <1>5, <1>6, <1>7, <1>8, <1>9, <1>10, <1>11, <1>12, <1>13,
     <1>14, <1>15 DEF Next, Thread

(* There is a session for each call that logged in, and one more.          *)
LEMMA SessionsPreserved ==
  ASSUME TypeOK, PlacesFit, SessionsFit, [Next]_vars
  PROVE  SessionsFit'
<1>1. Over \subseteq Over' /\ Over' \in SUBSET Calls
  BY OverGrows DEF Over
<1>2. IsFiniteSet(Over') /\ Cardinality(Over') \in Nat /\ Cardinality(Over) <= Cardinality(Over')
  BY <1>1, FS_Subset, FS_CardinalityType
<1>3. born \in Nat
  BY SessionFacts DEF TypeOK
<1>4. CASE born' = born
  BY <1>2, <1>3, <1>4, OverFacts DEF SessionsFit
<1>5. ASSUME NEW c \in Calls, Verify(c)
      PROVE  SessionsFit'
  <2>1. c \notin Over /\ c \in Over'
    BY <1>5 DEF Verify, Goto, Over, PlacesFit, Inside, TypeOK
  <2>2. Cardinality(Over \union {c}) = Cardinality(Over) + 1
    BY <2>1, OverFacts, FS_AddElement
  <2>3. Cardinality(Over \union {c}) <= Cardinality(Over')
    BY <1>1, <1>2, <2>1, FS_Subset
  <2>4. born' = born + 1
    BY <1>5 DEF Verify
  <2> QED
    BY <1>2, <1>3, <2>2, <2>3, <2>4, OverFacts DEF SessionsFit
<1> QED
  BY <1>4, <1>5, SessionsCounted

(* Each login makes the newest session, and puts it in the jar.            *)
LEMMA JarPreserved ==
  ASSUME TypeOK, PlacesFit, JarFits, [Next]_vars
  PROVE  JarFits'
<1>a. TypeOK /\ JarFits /\ PlacesFit
  OBVIOUS
<1>t. /\ pc \in [Calls -> Steps] /\ outcome \in [Calls -> Outcomes] /\ reply \in [Calls -> Replies]
      /\ seen \in [Calls -> Nat] /\ logins \in Nat
      /\ resent \in [Calls -> BOOLEAN] /\ again \in [Calls -> BOOLEAN]
      /\ sentAs \in [Calls -> Sessions \union {NoSession}]
      /\ from \in [Calls -> Sessions \union {NoSession}]
      /\ executed \in [Calls -> Nat]
  BY DEF TypeOK
<1>b. /\ born \in Nat /\ cookie \in Nat \union {NoSession}
      /\ \A d \in Calls : from[d] \in Nat \union {NoSession} /\ sentAs[d] \in Nat \union {NoSession}
  BY SessionFacts DEF TypeOK
<1>1. ASSUME NEW c \in Calls, Start(c) PROVE JarFits'
  BY <1>a, <1>t, <1>b, <1>1, CallFacts DEF Start, Goto, JarFits, NoLogout, PlacesFit, Inside
<1>2. ASSUME NEW c \in Calls, StartLogin(c) PROVE JarFits'
  BY <1>a, <1>t, <1>b, <1>2, CallFacts DEF StartLogin, LoginFree, Goto, JarFits, NoLogout,
         PlacesFit, Inside
<1>3. ASSUME NEW c \in Calls, FetchToken(c) PROVE JarFits'
  BY <1>a, <1>t, <1>b, <1>3, CallFacts DEF FetchToken, Conclude, Goto, JarFits, NoLogout,
         PlacesFit, Inside
<1>4. ASSUME NEW c \in Calls, Send(c) PROVE JarFits'
  BY <1>a, <1>t, <1>b, <1>4, CallFacts DEF Send, Goto, JarFits, NoLogout, PlacesFit, Inside
<1>5. ASSUME NEW c \in Calls, Process(c) PROVE JarFits'
  BY <1>a, <1>t, <1>b, <1>5, CallFacts DEF Process, Goto, JarFits, NoLogout, PlacesFit, Inside
<1>6. ASSUME NEW c \in Calls, DropToken(c) PROVE JarFits'
  BY <1>a, <1>t, <1>b, <1>6, CallFacts DEF DropToken, CsrfRetry, Goto, JarFits, NoLogout,
         PlacesFit, Inside
<1>7. ASSUME NEW c \in Calls, Handle(c) PROVE JarFits'
  <2>1. UNCHANGED <<born, from>>
    BY <1>7 DEF Handle
  <2> QED
    BY <1>a, <1>t, <1>b, <1>7, <2>1, HandleFacts, CallFacts DEF JarFits, NoLogout
<1>8. ASSUME NEW c \in Calls, ShareLogin(c) PROVE JarFits'
  BY <1>a, <1>t, <1>b, <1>8, CallFacts DEF ShareLogin, LoginFree, MustLogIn, Resend, Goto,
         JarFits, NoLogout, PlacesFit, Inside
<1>9. ASSUME NEW c \in Calls, StartRelogin(c) PROVE JarFits'
  BY <1>a, <1>t, <1>b, <1>9, CallFacts DEF StartRelogin, LoginFree, MustLogIn, Goto,
         JarFits, NoLogout, PlacesFit, Inside
<1>10. ASSUME NEW c \in Calls, CallRelogin(c) PROVE JarFits'
  BY <1>a, <1>t, <1>b, <1>10, CallFacts DEF CallRelogin, Conclude, Unlocked, Goto, JarFits,
         NoLogout, PlacesFit, Inside
<1>11. ASSUME NEW c \in Calls, Verify(c) PROVE JarFits'
  BY <1>a, <1>t, <1>b, <1>11, CallFacts DEF Verify, Goto, JarFits, NoLogout, PlacesFit, Inside
<1>12. ASSUME NEW c \in Calls, LoginFails(c) PROVE JarFits'
  BY <1>a, <1>t, <1>b, <1>12, CallFacts DEF LoginFails, Unlocked, Goto, JarFits, NoLogout,
         PlacesFit, Inside
<1>13. ASSUME NEW c \in Calls, FinishLogin(c) PROVE JarFits'
  BY <1>a, <1>t, <1>b, <1>13, CallFacts DEF FinishLogin, Unlocked, Resend, Goto, JarFits,
         NoLogout, PlacesFit, Inside
<1>14. ASSUME NEW s \in Sessions, Expire(s) PROVE JarFits'
  BY <1>a, <1>t, <1>b, <1>14 DEF Expire, JarFits, NoLogout, PlacesFit, Inside
<1>15. ASSUME UNCHANGED vars PROVE JarFits'
  BY <1>a, <1>t, <1>b, <1>15 DEF vars, JarFits, NoLogout, PlacesFit, Inside
<1> QED
  BY <1>1, <1>2, <1>3, <1>4, <1>5, <1>6, <1>7, <1>8, <1>9, <1>10, <1>11, <1>12, <1>13,
     <1>14, <1>15 DEF Next, Thread

(* A call that waited for the lock finds the attempts counted on.          *)
LEMMA SeenPreserved ==
  ASSUME TypeOK, PlacesFit, SeenFits, [Next]_vars
  PROVE  SeenFits'
<1>a. SeenFits /\ PlacesFit
  OBVIOUS
<1>t. /\ pc \in [Calls -> Steps] /\ outcome \in [Calls -> Outcomes] /\ reply \in [Calls -> Replies]
      /\ seen \in [Calls -> Nat] /\ logins \in Nat
      /\ resent \in [Calls -> BOOLEAN] /\ again \in [Calls -> BOOLEAN]
      /\ sentAs \in [Calls -> Sessions \union {NoSession}]
      /\ from \in [Calls -> Sessions \union {NoSession}]
      /\ executed \in [Calls -> Nat]
  BY DEF TypeOK
<1>1. ASSUME NEW c \in Calls, Start(c) PROVE SeenFits'
  BY <1>a, <1>t, <1>1, CallFacts DEF Start, Goto, SeenFits, PlacesFit, Inside
<1>2. ASSUME NEW c \in Calls, StartLogin(c) PROVE SeenFits'
  BY <1>a, <1>t, <1>2, CallFacts DEF StartLogin, LoginFree, Goto, SeenFits, PlacesFit, Inside
<1>3. ASSUME NEW c \in Calls, FetchToken(c) PROVE SeenFits'
  BY <1>a, <1>t, <1>3, CallFacts DEF FetchToken, Conclude, Goto, SeenFits, PlacesFit, Inside
<1>4. ASSUME NEW c \in Calls, Send(c) PROVE SeenFits'
  BY <1>a, <1>t, <1>4, CallFacts DEF Send, Goto, SeenFits, PlacesFit, Inside
<1>5. ASSUME NEW c \in Calls, Process(c) PROVE SeenFits'
  BY <1>a, <1>t, <1>5, CallFacts DEF Process, Goto, SeenFits, PlacesFit, Inside
<1>6. ASSUME NEW c \in Calls, DropToken(c) PROVE SeenFits'
  BY <1>a, <1>t, <1>6, CallFacts DEF DropToken, CsrfRetry, Goto, SeenFits, PlacesFit, Inside
<1>7. ASSUME NEW c \in Calls, Handle(c) PROVE SeenFits'
  BY <1>a, <1>t, <1>7, CallFacts DEF Handle, CsrfRetry, Conclude, Goto, SeenFits,
         PlacesFit, Inside
<1>8. ASSUME NEW c \in Calls, ShareLogin(c) PROVE SeenFits'
  BY <1>a, <1>t, <1>8, CallFacts DEF ShareLogin, LoginFree, MustLogIn, Resend, Goto,
         SeenFits, PlacesFit, Inside
<1>9. ASSUME NEW c \in Calls, StartRelogin(c) PROVE SeenFits'
  BY <1>a, <1>t, <1>9, CallFacts DEF StartRelogin, LoginFree, MustLogIn, Goto, SeenFits,
         PlacesFit, Inside
<1>10. ASSUME NEW c \in Calls, CallRelogin(c) PROVE SeenFits'
  BY <1>a, <1>t, <1>10, CallFacts DEF CallRelogin, Conclude, Unlocked, Goto, SeenFits,
         PlacesFit, Inside
<1>11. ASSUME NEW c \in Calls, Verify(c) PROVE SeenFits'
  BY <1>a, <1>t, <1>11, CallFacts DEF Verify, Goto, SeenFits, PlacesFit, Inside
<1>12. ASSUME NEW c \in Calls, LoginFails(c) PROVE SeenFits'
  BY <1>a, <1>t, <1>12, CallFacts DEF LoginFails, Unlocked, Goto, SeenFits, PlacesFit, Inside
<1>13. ASSUME NEW c \in Calls, FinishLogin(c) PROVE SeenFits'
  BY <1>a, <1>t, <1>13, CallFacts DEF FinishLogin, Unlocked, Resend, Goto, SeenFits,
         PlacesFit, Inside
<1>14. ASSUME NEW s \in Sessions, Expire(s) PROVE SeenFits'
  BY <1>a, <1>t, <1>14 DEF Expire, SeenFits, PlacesFit, Inside
<1>15. ASSUME UNCHANGED vars PROVE SeenFits'
  BY <1>a, <1>t, <1>15 DEF vars, SeenFits, PlacesFit, Inside
<1> QED
  BY <1>1, <1>2, <1>3, <1>4, <1>5, <1>6, <1>7, <1>8, <1>9, <1>10, <1>11, <1>12, <1>13,
     <1>14, <1>15 DEF Next, Thread

(* A call starts a login only if no attempt was made since it started.     *)
LEMMA SharedPreserved ==
  ASSUME TypeOK, SeenFits, OneLoginPerBurst, [Next]_vars
  PROVE  OneLoginPerBurst'
<1>a. OneLoginPerBurst /\ SeenFits
  OBVIOUS
<1>s. signers \subseteq Calls
  BY CallFacts DEF TypeOK
<1>t. /\ pc \in [Calls -> Steps] /\ outcome \in [Calls -> Outcomes] /\ reply \in [Calls -> Replies]
      /\ seen \in [Calls -> Nat] /\ logins \in Nat
      /\ resent \in [Calls -> BOOLEAN] /\ again \in [Calls -> BOOLEAN]
      /\ sentAs \in [Calls -> Sessions \union {NoSession}]
      /\ from \in [Calls -> Sessions \union {NoSession}]
      /\ executed \in [Calls -> Nat]
  BY DEF TypeOK
<1>1. ASSUME NEW c \in Calls, Start(c) PROVE OneLoginPerBurst'
  BY <1>a, <1>s, <1>t, <1>1 DEF SeenFits, Start, Goto, OneLoginPerBurst
<1>2. ASSUME NEW c \in Calls, StartLogin(c) PROVE OneLoginPerBurst'
  BY <1>a, <1>s, <1>t, <1>2 DEF StartLogin, LoginFree, Goto, OneLoginPerBurst
<1>3. ASSUME NEW c \in Calls, FetchToken(c) PROVE OneLoginPerBurst'
  BY <1>a, <1>s, <1>t, <1>3 DEF FetchToken, Conclude, Goto, OneLoginPerBurst
<1>4. ASSUME NEW c \in Calls, Send(c) PROVE OneLoginPerBurst'
  BY <1>a, <1>s, <1>t, <1>4 DEF Send, Goto, OneLoginPerBurst
<1>5. ASSUME NEW c \in Calls, Process(c) PROVE OneLoginPerBurst'
  BY <1>a, <1>s, <1>t, <1>5 DEF Process, Goto, OneLoginPerBurst
<1>6. ASSUME NEW c \in Calls, DropToken(c) PROVE OneLoginPerBurst'
  BY <1>a, <1>s, <1>t, <1>6 DEF DropToken, CsrfRetry, Goto, OneLoginPerBurst
<1>7. ASSUME NEW c \in Calls, Handle(c) PROVE OneLoginPerBurst'
  BY <1>a, <1>s, <1>t, <1>7 DEF Handle, CsrfRetry, Conclude, Goto, OneLoginPerBurst
<1>8. ASSUME NEW c \in Calls, ShareLogin(c) PROVE OneLoginPerBurst'
  BY <1>a, <1>s, <1>t, <1>8 DEF ShareLogin, LoginFree, MustLogIn, Resend, Goto, OneLoginPerBurst
<1>9. ASSUME NEW c \in Calls, StartRelogin(c) PROVE OneLoginPerBurst'
  BY <1>a, <1>s, <1>t, <1>9 DEF SeenFits, StartRelogin, LoginFree, MustLogIn, Goto,
         OneLoginPerBurst
<1>10. ASSUME NEW c \in Calls, CallRelogin(c) PROVE OneLoginPerBurst'
  BY <1>a, <1>s, <1>t, <1>10 DEF CallRelogin, Conclude, Unlocked, Goto, OneLoginPerBurst
<1>11. ASSUME NEW c \in Calls, Verify(c) PROVE OneLoginPerBurst'
  BY <1>a, <1>s, <1>t, <1>11 DEF Verify, Goto, OneLoginPerBurst
<1>12. ASSUME NEW c \in Calls, LoginFails(c) PROVE OneLoginPerBurst'
  BY <1>a, <1>s, <1>t, <1>12 DEF LoginFails, Unlocked, Goto, OneLoginPerBurst
<1>13. ASSUME NEW c \in Calls, FinishLogin(c) PROVE OneLoginPerBurst'
  BY <1>a, <1>s, <1>t, <1>13 DEF FinishLogin, Unlocked, Resend, Goto, OneLoginPerBurst
<1>14. ASSUME NEW s \in Sessions, Expire(s) PROVE OneLoginPerBurst'
  BY <1>a, <1>s, <1>t, <1>14 DEF Expire, OneLoginPerBurst
<1>15. ASSUME UNCHANGED vars PROVE OneLoginPerBurst'
  BY <1>a, <1>s, <1>t, <1>15 DEF vars, OneLoginPerBurst
<1> QED
  BY <1>1, <1>2, <1>3, <1>4, <1>5, <1>6, <1>7, <1>8, <1>9, <1>10, <1>11, <1>12, <1>13,
     <1>14, <1>15 DEF Next, Thread

(* What was carried out is not sent again, and its caller hears so.        *)
LEMMA DonePreserved ==
  ASSUME TypeOK, PlacesFit, DoneFits, [Next]_vars
  PROVE  DoneFits'
<1>a. TypeOK /\ DoneFits /\ PlacesFit
  OBVIOUS
<1>t. /\ pc \in [Calls -> Steps] /\ outcome \in [Calls -> Outcomes] /\ reply \in [Calls -> Replies]
      /\ seen \in [Calls -> Nat] /\ logins \in Nat
      /\ resent \in [Calls -> BOOLEAN] /\ again \in [Calls -> BOOLEAN]
      /\ sentAs \in [Calls -> Sessions \union {NoSession}]
      /\ from \in [Calls -> Sessions \union {NoSession}]
      /\ executed \in [Calls -> Nat]
  BY DEF TypeOK
<1>1. ASSUME NEW c \in Calls, Start(c) PROVE DoneFits'
  BY <1>a, <1>t, <1>1, CallFacts DEF Start, Goto, DoneFits, DoneOf, PlacesFit, Inside
<1>2. ASSUME NEW c \in Calls, StartLogin(c) PROVE DoneFits'
  BY <1>a, <1>t, <1>2, CallFacts DEF StartLogin, LoginFree, Goto, DoneFits, DoneOf,
         PlacesFit, Inside
<1>3. ASSUME NEW c \in Calls, FetchToken(c) PROVE DoneFits'
  BY <1>a, <1>t, <1>3, CallFacts DEF FetchToken, Conclude, Goto, DoneFits, DoneOf,
         PlacesFit, Inside
<1>4. ASSUME NEW c \in Calls, Send(c) PROVE DoneFits'
  BY <1>a, <1>t, <1>4, CallFacts DEF Send, Goto, DoneFits, DoneOf, PlacesFit, Inside
<1>5. ASSUME NEW c \in Calls, Process(c) PROVE DoneFits'
  BY <1>a, <1>t, <1>5, CallFacts DEF Process, Goto, DoneFits, DoneOf, PlacesFit, Inside
<1>6. ASSUME NEW c \in Calls, DropToken(c) PROVE DoneFits'
  BY <1>a, <1>t, <1>6, CallFacts DEF DropToken, CsrfRetry, Goto, DoneFits, DoneOf,
         PlacesFit, Inside
<1>7. ASSUME NEW c \in Calls, Handle(c) PROVE DoneFits'
  <2>1. UNCHANGED executed
    BY <1>7 DEF Handle
  <2>2. c \in Unsafe => DoneOf(c)'
    BY <1>a, <1>t, <1>7, <2>1, HandleFacts, MeaningFacts DEF DoneFits, DoneOf, PlacesFit
  <2>3. \A d \in Unsafe : d # c => DoneOf(d)'
    BY <1>a, <1>t, <1>7, <2>1, HandleFacts, CallFacts DEF DoneFits, DoneOf
  <2> QED
    BY <2>2, <2>3 DEF DoneFits
<1>8. ASSUME NEW c \in Calls, ShareLogin(c) PROVE DoneFits'
  BY <1>a, <1>t, <1>8, CallFacts DEF ShareLogin, LoginFree, MustLogIn, Resend, Goto,
         DoneFits, DoneOf, PlacesFit, Inside
<1>9. ASSUME NEW c \in Calls, StartRelogin(c) PROVE DoneFits'
  BY <1>a, <1>t, <1>9, CallFacts DEF StartRelogin, LoginFree, MustLogIn, Goto, DoneFits,
         DoneOf, PlacesFit, Inside
<1>10. ASSUME NEW c \in Calls, CallRelogin(c) PROVE DoneFits'
  BY <1>a, <1>t, <1>10, CallFacts DEF CallRelogin, Conclude, Unlocked, Goto, DoneFits,
         DoneOf, PlacesFit, Inside
<1>11. ASSUME NEW c \in Calls, Verify(c) PROVE DoneFits'
  BY <1>a, <1>t, <1>11, CallFacts DEF Verify, Goto, DoneFits, DoneOf, PlacesFit, Inside
<1>12. ASSUME NEW c \in Calls, LoginFails(c) PROVE DoneFits'
  BY <1>a, <1>t, <1>12, CallFacts DEF LoginFails, Unlocked, Goto, DoneFits, DoneOf,
         PlacesFit, Inside
<1>13. ASSUME NEW c \in Calls, FinishLogin(c) PROVE DoneFits'
  BY <1>a, <1>t, <1>13, CallFacts DEF FinishLogin, Unlocked, Resend, Goto, DoneFits,
         DoneOf, PlacesFit, Inside
<1>14. ASSUME NEW s \in Sessions, Expire(s) PROVE DoneFits'
  BY <1>a, <1>t, <1>14 DEF Expire, DoneFits, DoneOf, PlacesFit, Inside
<1>15. ASSUME UNCHANGED vars PROVE DoneFits'
  BY <1>a, <1>t, <1>15 DEF vars, DoneFits, DoneOf, PlacesFit, Inside
<1> QED
  BY <1>1, <1>2, <1>3, <1>4, <1>5, <1>6, <1>7, <1>8, <1>9, <1>10, <1>11, <1>12, <1>13,
     <1>14, <1>15 DEF Next, Thread

(* Without a login attempt nobody puts a session in the jar, nor makes one *)
(* valid.                                                                  *)
LEMMA QuietPreserved ==
  ASSUME TypeOK, LockHeld, PlacesFit, SeenFits, QuietFits, [Next]_vars
  PROVE  QuietFits'
<1>a. TypeOK /\ QuietFits /\ PlacesFit /\ LockHeld /\ SeenFits
  OBVIOUS
<1>t. /\ pc \in [Calls -> Steps] /\ outcome \in [Calls -> Outcomes] /\ reply \in [Calls -> Replies]
      /\ seen \in [Calls -> Nat] /\ logins \in Nat
      /\ resent \in [Calls -> BOOLEAN] /\ again \in [Calls -> BOOLEAN]
      /\ sentAs \in [Calls -> Sessions \union {NoSession}]
      /\ from \in [Calls -> Sessions \union {NoSession}]
      /\ executed \in [Calls -> Nat]
  BY DEF TypeOK
<1>v. NoSession \notin valid
  BY SessionFacts DEF TypeOK
<1>1. ASSUME NEW c \in Calls, Start(c) PROVE QuietFits'
  BY <1>a, <1>t, <1>v, <1>1, CallFacts DEF Start, Goto, QuietFits, QuietOf, Untouched,
         PlacesFit, SeenFits, LockHeld, Inside
<1>2. ASSUME NEW c \in Calls, StartLogin(c) PROVE QuietFits'
  BY <1>a, <1>t, <1>v, <1>2, CallFacts DEF StartLogin, LoginFree, Goto, QuietFits, QuietOf,
         Untouched, PlacesFit, SeenFits, LockHeld, Inside
<1>3. ASSUME NEW c \in Calls, FetchToken(c) PROVE QuietFits'
  BY <1>a, <1>t, <1>v, <1>3, CallFacts DEF FetchToken, Conclude, Goto, QuietFits, QuietOf,
         Untouched, PlacesFit, SeenFits, LockHeld, Inside
<1>4. ASSUME NEW c \in Calls, Send(c) PROVE QuietFits'
  BY <1>a, <1>t, <1>v, <1>4, CallFacts DEF Send, Goto, QuietFits, QuietOf, Untouched,
         PlacesFit, SeenFits, LockHeld, Inside
<1>5. ASSUME NEW c \in Calls, Process(c) PROVE QuietFits'
  BY <1>a, <1>t, <1>v, <1>5, CallFacts DEF Process, Goto, QuietFits, QuietOf, Untouched,
         PlacesFit, SeenFits, LockHeld, Inside
<1>6. ASSUME NEW c \in Calls, DropToken(c) PROVE QuietFits'
  BY <1>a, <1>t, <1>v, <1>6, CallFacts DEF DropToken, CsrfRetry, Goto, QuietFits, QuietOf,
         Untouched, PlacesFit, SeenFits, LockHeld, Inside
<1>7. ASSUME NEW c \in Calls, Handle(c) PROVE QuietFits'
  <2>1. UNCHANGED <<valid, lock, logins, seen, sentAs, midLogin>>
    BY <1>7 DEF Handle
  <2>2. pc[c] = "answered"
    BY <1>7 DEF Handle
  <2>3. UNCHANGED cookie \/ cookie' = NoSession
    BY <1>a, <1>7, HandleFacts
  <2> QED
    BY <1>a, <1>t, <1>7, <2>1, <2>2, <2>3, HandleFacts, CallFacts
       DEF QuietFits, QuietOf, Untouched
<1>8. ASSUME NEW c \in Calls, ShareLogin(c) PROVE QuietFits'
  BY <1>a, <1>t, <1>v, <1>8, CallFacts DEF ShareLogin, LoginFree, MustLogIn, Resend, Goto,
         QuietFits, QuietOf, Untouched, PlacesFit, SeenFits, LockHeld, Inside
<1>9. ASSUME NEW c \in Calls, StartRelogin(c) PROVE QuietFits'
  BY <1>a, <1>t, <1>v, <1>9, CallFacts DEF StartRelogin, LoginFree, MustLogIn, Goto,
         QuietFits, QuietOf, Untouched, PlacesFit, SeenFits, LockHeld, Inside
<1>10. ASSUME NEW c \in Calls, CallRelogin(c) PROVE QuietFits'
  BY <1>a, <1>t, <1>v, <1>10, CallFacts DEF CallRelogin, Conclude, Unlocked, Goto,
         QuietFits, QuietOf, Untouched, PlacesFit, SeenFits, LockHeld, Inside
<1>11. ASSUME NEW c \in Calls, Verify(c) PROVE QuietFits'
  BY <1>a, <1>t, <1>v, <1>11, CallFacts DEF Verify, Goto, QuietFits, QuietOf, Untouched,
         PlacesFit, SeenFits, LockHeld, Inside
<1>12. ASSUME NEW c \in Calls, LoginFails(c) PROVE QuietFits'
  BY <1>a, <1>t, <1>v, <1>12, CallFacts DEF LoginFails, Unlocked, Goto, QuietFits, QuietOf,
         Untouched, PlacesFit, SeenFits, LockHeld, Inside
<1>13. ASSUME NEW c \in Calls, FinishLogin(c) PROVE QuietFits'
  BY <1>a, <1>t, <1>v, <1>13, CallFacts DEF FinishLogin, Unlocked, Resend, Goto, QuietFits,
         QuietOf, Untouched, PlacesFit, SeenFits, LockHeld, Inside
<1>14. ASSUME NEW s \in Sessions, Expire(s) PROVE QuietFits'
  BY <1>a, <1>t, <1>v, <1>14 DEF Expire, QuietFits, QuietOf, Untouched, PlacesFit,
         SeenFits, LockHeld, Inside
<1>15. ASSUME UNCHANGED vars PROVE QuietFits'
  BY <1>a, <1>t, <1>v, <1>15 DEF vars, QuietFits, QuietOf, Untouched, PlacesFit, SeenFits,
         LockHeld, Inside
<1> QED
  BY <1>1, <1>2, <1>3, <1>4, <1>5, <1>6, <1>7, <1>8, <1>9, <1>10, <1>11, <1>12, <1>13,
     <1>14, <1>15 DEF Next, Thread

(* A login that goes through after a call has started puts another session *)
(* in the jar than the call found there.                                   *)
LEMMA FreshPreserved ==
  ASSUME TypeOK, LockHeld, PlacesFit, JarFits, SeenFits, FreshFits, [Next]_vars
  PROVE  FreshFits'
<1>a. TypeOK /\ FreshFits /\ PlacesFit /\ LockHeld /\ SeenFits /\ JarFits
  OBVIOUS
<1>t. /\ pc \in [Calls -> Steps] /\ outcome \in [Calls -> Outcomes] /\ reply \in [Calls -> Replies]
      /\ seen \in [Calls -> Nat] /\ logins \in Nat
      /\ resent \in [Calls -> BOOLEAN] /\ again \in [Calls -> BOOLEAN]
      /\ sentAs \in [Calls -> Sessions \union {NoSession}]
      /\ from \in [Calls -> Sessions \union {NoSession}]
      /\ executed \in [Calls -> Nat]
  BY DEF TypeOK
<1>b. /\ born \in Nat /\ cookie \in Nat \union {NoSession}
      /\ \A d \in Calls : from[d] \in Nat \union {NoSession} /\ sentAs[d] \in Nat \union {NoSession}
  BY SessionFacts DEF TypeOK
<1>1. ASSUME NEW c \in Calls, Start(c) PROVE FreshFits'
  BY <1>a, <1>t, <1>b, <1>1, CallFacts DEF Start, Goto, FreshFits, Renewed, NoLogout,
         JarFits, PlacesFit, SeenFits, LockHeld, Inside
<1>2. ASSUME NEW c \in Calls, StartLogin(c) PROVE FreshFits'
  BY <1>a, <1>t, <1>b, <1>2, CallFacts DEF StartLogin, LoginFree, Goto, FreshFits, Renewed,
         NoLogout, JarFits, PlacesFit, SeenFits, LockHeld, Inside
<1>3. ASSUME NEW c \in Calls, FetchToken(c) PROVE FreshFits'
  BY <1>a, <1>t, <1>b, <1>3, CallFacts DEF FetchToken, Conclude, Goto, FreshFits, Renewed,
         NoLogout, JarFits, PlacesFit, SeenFits, LockHeld, Inside
<1>4. ASSUME NEW c \in Calls, Send(c) PROVE FreshFits'
  BY <1>a, <1>t, <1>b, <1>4, CallFacts DEF Send, Goto, FreshFits, Renewed, NoLogout,
         JarFits, PlacesFit, SeenFits, LockHeld, Inside
<1>5. ASSUME NEW c \in Calls, Process(c) PROVE FreshFits'
  BY <1>a, <1>t, <1>b, <1>5, CallFacts DEF Process, Goto, FreshFits, Renewed, NoLogout,
         JarFits, PlacesFit, SeenFits, LockHeld, Inside
<1>6. ASSUME NEW c \in Calls, DropToken(c) PROVE FreshFits'
  BY <1>a, <1>t, <1>b, <1>6, CallFacts DEF DropToken, CsrfRetry, Goto, FreshFits, Renewed,
         NoLogout, JarFits, PlacesFit, SeenFits, LockHeld, Inside
<1>7. ASSUME NEW c \in Calls, Handle(c) PROVE FreshFits'
  <2>1. UNCHANGED <<lock, logins, seen, resent, failed, from>>
    BY <1>7 DEF Handle
  <2>2. NoLogout' => NoLogout /\ cookie' = cookie
    BY <1>a, <1>t, <1>7, HandleFacts, CallFacts DEF NoLogout
  <2>3. \A d \in Calls : /\ pc'[d] = "idle" <=> pc[d] = "idle"
                         /\ pc'[d] = "verified" <=> pc[d] = "verified"
    BY <1>a, <1>t, <1>7, HandleFacts DEF PlacesFit
  <2> QED
    BY <1>a, <2>1, <2>2, <2>3, CallFacts DEF FreshFits, Renewed
<1>8. ASSUME NEW c \in Calls, ShareLogin(c) PROVE FreshFits'
  BY <1>a, <1>t, <1>b, <1>8, CallFacts DEF ShareLogin, LoginFree, MustLogIn, Resend, Goto,
         FreshFits, Renewed, NoLogout, JarFits, PlacesFit, SeenFits, LockHeld, Inside
<1>9. ASSUME NEW c \in Calls, StartRelogin(c) PROVE FreshFits'
  BY <1>a, <1>t, <1>b, <1>9, CallFacts DEF StartRelogin, LoginFree, MustLogIn, Goto,
         FreshFits, Renewed, NoLogout, JarFits, PlacesFit, SeenFits, LockHeld, Inside
<1>10. ASSUME NEW c \in Calls, CallRelogin(c) PROVE FreshFits'
  BY <1>a, <1>t, <1>b, <1>10, CallFacts DEF CallRelogin, Conclude, Unlocked, Goto,
         FreshFits, Renewed, NoLogout, JarFits, PlacesFit, SeenFits, LockHeld, Inside
<1>11. ASSUME NEW c \in Calls, Verify(c) PROVE FreshFits'
  BY <1>a, <1>t, <1>b, <1>11, CallFacts DEF Verify, Goto, FreshFits, Renewed, NoLogout,
         JarFits, PlacesFit, SeenFits, LockHeld, Inside
<1>12. ASSUME NEW c \in Calls, LoginFails(c) PROVE FreshFits'
  BY <1>a, <1>t, <1>b, <1>12, CallFacts DEF LoginFails, Unlocked, Goto, FreshFits, Renewed,
         NoLogout, JarFits, PlacesFit, SeenFits, LockHeld, Inside
<1>13. ASSUME NEW c \in Calls, FinishLogin(c) PROVE FreshFits'
  BY <1>a, <1>t, <1>b, <1>13, CallFacts DEF FinishLogin, Unlocked, Resend, Goto, FreshFits,
         Renewed, NoLogout, JarFits, PlacesFit, SeenFits, LockHeld, Inside
<1>14. ASSUME NEW s \in Sessions, Expire(s) PROVE FreshFits'
  BY <1>a, <1>t, <1>b, <1>14 DEF Expire, FreshFits, Renewed, NoLogout, JarFits, PlacesFit,
         SeenFits, LockHeld, Inside
<1>15. ASSUME UNCHANGED vars PROVE FreshFits'
  BY <1>a, <1>t, <1>b, <1>15 DEF vars, FreshFits, Renewed, NoLogout, JarFits, PlacesFit,
         SeenFits, LockHeld, Inside
<1> QED
  BY <1>1, <1>2, <1>3, <1>4, <1>5, <1>6, <1>7, <1>8, <1>9, <1>10, <1>11, <1>12, <1>13,
     <1>14, <1>15 DEF Next, Thread

-----------------------------------------------------------------------------
(* The theorems                                                            *)

(* The invariant holds of a client that nobody has called yet, with a      *)
(* session restored by import_session or without one.                      *)
LEMMA InitIInv == Init => IInv
<1> SUFFICES ASSUME Init PROVE IInv
  OBVIOUS
<1>1. /\ born = 1 /\ lock = Nobody /\ logins = 0 /\ signers = {}
      /\ cookie \in {1, NoSession}
  BY DEF Init
<1>2. \A c \in Calls : /\ pc[c] = "idle" /\ seen[c] = 0 /\ resent[c] = FALSE /\ reply[c] = "none"
                       /\ outcome[c] = "none" /\ from[c] = NoSession /\ executed[c] = 0
  BY DEF Init
<1>3. TypeOK
  <2>1. /\ valid \subseteq Sessions /\ born \in Sessions /\ cookie \in Sessions \union {NoSession}
        /\ token \in {"none", "fits", "stale"} /\ armed \in BOOLEAN
        /\ lock \in Calls \union {Nobody} /\ logins \in Nat
        /\ midLogin \subseteq Calls /\ signers \subseteq Requests /\ failed \in BOOLEAN
    BY SessionFacts DEF Init
  <2>2. /\ executed \in [Calls -> Nat] /\ seen \in [Calls -> Nat]
        /\ resent \in [Calls -> BOOLEAN] /\ again \in [Calls -> BOOLEAN]
        /\ sentAs \in [Calls -> Sessions \union {NoSession}] /\ sentFit \in [Calls -> BOOLEAN]
        /\ from \in [Calls -> Sessions \union {NoSession}]
    BY DEF Init
  <2>3. /\ pc \in [Calls -> Steps] /\ outcome \in [Calls -> Outcomes]
        /\ reply \in [Calls -> Replies]
    BY DEF Init, Steps, Replies, Outcomes
  <2> QED
    BY <2>1, <2>2, <2>3 DEF TypeOK
<1>4. LockHeld /\ PlacesFit
  BY <1>1, <1>2 DEF LockHeld, PlacesFit, Inside
<1>5. SessionsFit
  BY <1>1, OverFacts DEF SessionsFit
<1>6. JarFits /\ SeenFits /\ OneLoginPerBurst
  BY <1>1, <1>2, CallFacts DEF JarFits, SeenFits, OneLoginPerBurst, Inside
<1>7. DoneFits
  BY <1>2, CallFacts DEF DoneFits, DoneOf
<1>8. QuietFits /\ FreshFits
  BY <1>2, CallFacts DEF QuietFits, QuietOf, Untouched, FreshFits
<1> QED
  BY <1>3, <1>4, <1>5, <1>6, <1>7, <1>8 DEF IInv

(* The invariant holds in every state a program can reach.                 *)
THEOREM Invariance == Spec => []IInv
<1>1. ASSUME IInv, [Next]_vars PROVE IInv'
  <2>1. TypeOK' /\ LockHeld' /\ PlacesFit' /\ SessionsFit'
    BY <1>1, TypePreserved, LockPreserved, PlacesPreserved, SessionsPreserved DEF IInv
  <2>2. JarFits' /\ SeenFits' /\ OneLoginPerBurst'
    BY <1>1, JarPreserved, SeenPreserved, SharedPreserved DEF IInv
  <2>3. DoneFits' /\ QuietFits' /\ FreshFits'
    BY <1>1, DonePreserved, QuietPreserved, FreshPreserved DEF IInv
  <2> QED
    BY <2>1, <2>2, <2>3 DEF IInv
<1> QED
  BY InitIInv, <1>1, PTL DEF Spec

(* Every variable keeps its type: there is a session for each login that   *)
(* goes through, since no call logs in twice.                              *)
THEOREM TypeCorrect == Spec => []TypeOK
<1>1. IInv => TypeOK
  BY DEF IInv
<1> QED
  BY Invariance, <1>1, PTL

(* However a POST, PUT or DELETE is sent again, by _unsafe after a 403 or  *)
(* by _send_with_relogin after a 401, the backend carries it out at most   *)
(* once, and its caller hears what agrees with that.                       *)
THEOREM CarriesOutOnce == Spec => []CarriedOutOnce
<1>1. IInv => CarriedOutOnce
  BY DEF IInv, DoneFits, DoneOf, CarriedOutOnce
<1> QED
  BY Invariance, <1>1, PTL

(* Of the requests that read the same _login_attempts, one asks the wallet *)
(* to sign.                                                                *)
THEOREM SharesOneLogin == Spec => []OneLoginPerBurst
<1>1. IInv => OneLoginPerBurst
  BY DEF IInv
<1> QED
  BY Invariance, <1>1, PTL

(* _send_with_relogin resends with another session than the one rejected,  *)
(* and does not log in over one that is good for a request that started    *)
(* while no login was running.                                             *)
THEOREM RejectionsAreHandled == Spec => RejectionsHandled
<1>1. ASSUME IInv, [Next]_vars, NEW c \in Requests, pc[c] = "sending", pc'[c] = "sent"
      PROVE  Send(c)
  <2>1. pc \in [Calls -> Steps] /\ c \in Calls
    BY <1>1, CallFacts DEF IInv, TypeOK
  <2>2. ASSUME NEW d \in Calls, d # c, Start(d) \/ StartLogin(d) \/ Thread(d)
        PROVE  pc'[c] = pc[c]
    BY <2>1, <2>2 DEF Start, StartLogin, Thread, FetchToken, Send, Process, DropToken, Handle,
       ShareLogin, StartRelogin, CallRelogin, Verify, LoginFails, FinishLogin,
        Conclude, Resend, Goto
  <2>3. CASE Start(c) \/ StartLogin(c) \/ Thread(c)
    BY <1>1, <2>1, <2>3 DEF Start, StartLogin, Thread, FetchToken, Process, DropToken, Handle,
       ShareLogin, StartRelogin, CallRelogin, Verify, LoginFails, FinishLogin,
        Conclude, Resend, Goto
  <2>4. CASE (\E s \in Sessions : Expire(s)) \/ UNCHANGED vars
    BY <1>1, <2>4 DEF Expire, vars
  <2> QED
    BY <1>1, <2>2, <2>3, <2>4 DEF Next
<1>2. ASSUME IInv, [Next]_vars, NEW c \in Requests, pc[c] = "relogin", pc'[c] = "outer"
      PROVE  StartRelogin(c)
  <2>1. pc \in [Calls -> Steps] /\ c \in Calls
    BY <1>2, CallFacts DEF IInv, TypeOK
  <2>2. ASSUME NEW d \in Calls, d # c, Start(d) \/ StartLogin(d) \/ Thread(d)
        PROVE  pc'[c] = pc[c]
    BY <2>1, <2>2 DEF Start, StartLogin, Thread, FetchToken, Send, Process, DropToken, Handle,
       ShareLogin, StartRelogin, CallRelogin, Verify, LoginFails, FinishLogin,
        Conclude, Resend, Goto
  <2>3. CASE Start(c) \/ StartLogin(c) \/ Thread(c)
    BY <1>2, <2>1, <2>3 DEF Start, StartLogin, Thread, FetchToken, Send, Process,
           DropToken, Handle,
       ShareLogin, CallRelogin, Verify, LoginFails, FinishLogin,
        Conclude, Resend, Goto
  <2>4. CASE (\E s \in Sessions : Expire(s)) \/ UNCHANGED vars
    BY <1>2, <2>4 DEF Expire, vars
  <2> QED
    BY <1>2, <2>2, <2>3, <2>4 DEF Next
<1>3. ASSUME IInv, [Next]_vars PROVE ResendsWithNewSession
  <2> SUFFICES ASSUME NEW c \in Requests, pc[c] = "sending", pc'[c] = "sent", resent[c], ~failed,
                      sentAs[c] = from[c], \A l \in Logouts : outcome[l] = "none"
               PROVE  sentAs'[c] # sentAs[c]
    BY DEF ResendsWithNewSession
  <2>1. sentAs'[c] = cookie
    BY <1>1, <1>3, CallFacts DEF Send, IInv, TypeOK
  <2>2. cookie # from[c]
    BY <1>3 DEF IInv, FreshFits, Renewed, NoLogout
  <2> QED
    BY <2>1, <2>2
<1>4. ASSUME IInv, [Next]_vars PROVE QuietStartSparesLogin
  <2> SUFFICES ASSUME NEW c \in Requests, pc[c] = "relogin", pc'[c] = "outer", c \notin midLogin
               PROVE  cookie \notin valid
    BY DEF QuietStartSparesLogin
  <2>1. c \in Calls /\ logins = seen[c]
    BY <1>2, <1>4, CallFacts DEF StartRelogin, MustLogIn
  <2>2. cookie \in {sentAs[c], NoSession} /\ sentAs[c] \notin valid
    BY <1>4, <2>1 DEF IInv, QuietFits, QuietOf, Untouched
  <2>3. NoSession \notin valid
    BY <1>4, SessionFacts DEF IInv, TypeOK
  <2> QED
    BY <2>2, <2>3
<1> QED
  BY Invariance, <1>3, <1>4, PTL DEF Spec, RejectionsHandled
=============================================================================
