---------------------------- MODULE RemoteBridge ----------------------------
(***************************************************************************)
(* A browser wallet behind a hosted page: _RemoteBridge and                *)
(* RemoteBrowserSigner of browser.py.                                      *)
(*                                                                         *)
(* A thread of the application asks the signer for its address, for a      *)
(* signature or to submit a transaction, one call after the other.  Each   *)
(* request() parks its operation under a fresh token, hands the URL with   *)
(* that token to the application's deliver callback and waits.  The user   *)
(* may open the URL in any number of tabs: each tab gets the page from     *)
(* render(), asks the wallet, and posts what it said, which the            *)
(* application passes to resolve().                                        *)
(***************************************************************************)
EXTENDS Naturals, FiniteSets, Threads

CONSTANTS
  Tabs,         \* browser tabs the user may open
  Accounts,     \* accounts the wallet can answer with
  MaxRequests   \* bound on the requests of one thread

ASSUME RemoteAssumption == None \notin Accounts /\ MaxRequests \in Nat

VARIABLES
  stage,      \* where each thread is, Inside request() or Outside
  want,       \* the method of the signer each thread called last
  ask,        \* the operation, and the account, of each thread's latest request()
  made,       \* how many requests each thread has made
  address,    \* the signer's _address
  pending,    \* _pending: a token's result, and whether its event is set
  delivered,  \* tokens whose URL the user has got
  got,        \* what request() found in its entry
  outcome,    \* how the last call of each thread ended
  tab         \* what each tab shows and what became of its answer

vars == <<stage, want, ask, made, address, pending, delivered, got, outcome, tab>>

-----------------------------------------------------------------------------
(* A token is made by secrets.token_urlsafe for one request(). *)

Methods == {"address", "sign", "send"}
Ops == {"connect", "sign", "send"}
Tokens == Callers \X (1 .. MaxRequests)
Parked(c) == <<c, made[c]>>

Says(kind, a) == [kind |-> kind, account |-> a]
Failure == Says("error", None)
TimedOut == Says("timed out", None)
DeliverRaised == Says("deliver raised", None)
Answers == [kind : {"account", "signature", "hash"}, account : Accounts] \cup {Failure}

\* What the wallet may say to a request: a transaction, like a message, names
\* the account that is to sign it.
SaysTo(a) ==
  {Failure} \cup CASE a.op = "connect" -> {Says("account", b) : b \in Accounts}
                 [] a.op = "sign" -> {Says("signature", a.account)}
                 [] a.op = "send" -> {Says("hash", a.account)}

Request == [op : Ops, account : Accounts \cup {None}]
Entry == [result : Answers \cup {None}, set : BOOLEAN]

ASSUME NoneIsNoAnswer ==
  None \notin Answers \cup Request \cup Entry \cup Tokens \cup {TimedOut, DeliverRaised}

\* "deliver" .. "failed" are the places inside request().
Inside == {"deliver", "wait", "woken", "leave", "expired", "failed"}
Outside == {"start", "store", "done"}

At(c, place) == stage[c] = place
Moved(c, place) == [stage EXCEPT ![c] = place]

Blank == [token |-> None, shows |-> None, status |-> "blank", answer |-> None, inTime |-> FALSE]
TabRecord ==
  [token  : Tokens \cup {None},
   shows  : Request \cup {None},
   status : {"blank", "asking", "answered", "accepted", "refused"},
   answer : Answers \cup {None},
   inTime : BOOLEAN]

TypeOK ==
  /\ stage \in [Callers -> Inside \cup Outside]
  /\ want \in [Callers -> Methods]
  /\ ask \in [Callers -> Request]
  /\ made \in [Callers -> 0 .. MaxRequests]
  /\ address \in Accounts \cup {None}
  /\ pending \in [Tokens -> Entry \cup {None}]
  /\ delivered \subseteq Tokens
  /\ got \in [Callers -> Answers \cup {None}]
  /\ outcome \in [Callers -> Answers \cup {None, TimedOut, DeliverRaised}]
  /\ tab \in [Tabs -> TabRecord]

\* A signer that has just been made, or one that connected before.
Init ==
  /\ stage = [c \in Callers |-> "done"]
  /\ want = [c \in Callers |-> "address"]
  /\ ask = [c \in Callers |-> [op |-> "connect", account |-> None]]
  /\ made = [c \in Callers |-> 0]
  /\ address \in Accounts \cup {None}
  /\ pending = [t \in Tokens |-> None]
  /\ delivered = {}
  /\ got = [c \in Callers |-> None]
  /\ outcome = [c \in Callers |-> None]
  /\ tab = [w \in Tabs |-> Blank]

-----------------------------------------------------------------------------
(* The calling threads *)

Park(c, o, a) ==
  /\ made[c] < MaxRequests
  /\ made' = [made EXCEPT ![c] = @ + 1]
  /\ ask' = [ask EXCEPT ![c] = [op |-> o, account |-> a]]
  /\ pending' = [pending EXCEPT ![<<c, made[c] + 1>>] = [result |-> None, set |-> FALSE]]
  /\ got' = [got EXCEPT ![c] = None]
  /\ stage' = Moved(c, "deliver")

\* The address property, or sign_message, which reads it first.
Call(c, m) ==
  /\ At(c, "done") /\ m # "send"
  /\ want' = [want EXCEPT ![c] = m]
  /\ outcome' = [outcome EXCEPT ![c] = None]
  /\ stage' = Moved(c, "start")
  /\ UNCHANGED <<ask, made, address, pending, delivered, got, tab>>

\* submit_transaction: the sender is in the transaction.
Submit(c, a) ==
  /\ At(c, "done")
  /\ want' = [want EXCEPT ![c] = "send"]
  /\ outcome' = [outcome EXCEPT ![c] = None]
  /\ Park(c, "send", a)
  /\ UNCHANGED <<address, delivered, tab>>

\* The address property, when nobody has connected yet.
Connect(c) ==
  /\ At(c, "start") /\ address = None
  /\ Park(c, "connect", None)
  /\ UNCHANGED <<want, address, delivered, outcome, tab>>

\* The address property returns _address; sign_message asks that account to sign.
UseAddress(c) ==
  /\ At(c, "start") /\ address # None
  /\ IF want[c] = "sign"
     THEN /\ Park(c, "sign", address)
          /\ UNCHANGED outcome
     ELSE /\ stage' = Moved(c, "done")
          /\ outcome' = [outcome EXCEPT ![c] = Says("account", address)]
          /\ UNCHANGED <<ask, made, pending, got>>
  /\ UNCHANGED <<want, address, delivered, tab>>

\* The callback gets the URL to the user; the user may act before it returns.
HandOver(c) ==
  /\ At(c, "deliver") /\ Parked(c) \notin delivered
  /\ delivered' = delivered \cup {Parked(c)}
  /\ UNCHANGED <<stage, want, ask, made, address, pending, got, outcome, tab>>

DeliverReturns(c) ==
  /\ At(c, "deliver")
  /\ stage' = Moved(c, "wait")
  /\ UNCHANGED <<want, ask, made, address, pending, delivered, got, outcome, tab>>

DeliverRaises(c) ==
  /\ At(c, "deliver")
  /\ stage' = Moved(c, "failed")
  /\ UNCHANGED <<want, ask, made, address, pending, delivered, got, outcome, tab>>

\* event.wait returns True.
Wake(c) ==
  /\ At(c, "wait") /\ pending[Parked(c)].set
  /\ stage' = Moved(c, "woken")
  /\ UNCHANGED <<want, ask, made, address, pending, delivered, got, outcome, tab>>

\* A bug the properties must catch: the clock decides, not the event.
TimeOut_Clock(c) ==
  /\ At(c, "wait")
  /\ stage' = Moved(c, "expired")
  /\ UNCHANGED <<want, ask, made, address, pending, delivered, got, outcome, tab>>

\* event.wait returns False: the entry stays in _pending until Leave.
TimeOut(c) ==
  /\ At(c, "wait") /\ ~pending[Parked(c)].set
  /\ stage' = Moved(c, "expired")
  /\ UNCHANGED <<want, ask, made, address, pending, delivered, got, outcome, tab>>

\* The result is read under the lock, in a critical section of its own.
ReadResult(c) ==
  /\ At(c, "woken")
  /\ got' = [got EXCEPT ![c] = pending[Parked(c)].result]
  /\ stage' = Moved(c, "leave")
  /\ UNCHANGED <<want, ask, made, address, pending, delivered, outcome, tab>>

Ended(c, how) ==
  /\ stage' = Moved(c, "done")
  /\ outcome' = [outcome EXCEPT ![c] = how]

\* The finally clause takes the entry out; then the error is raised or the
\* value returned.
Leave(c) ==
  /\ At(c, "leave") \/ At(c, "expired") \/ At(c, "failed")
  /\ pending' = [pending EXCEPT ![Parked(c)] = None]
  /\ \/ At(c, "expired") /\ Ended(c, TimedOut)
     \/ At(c, "failed") /\ Ended(c, DeliverRaised)
     \/ At(c, "leave") /\ (got[c] = Failure \/ ask[c].op # "connect") /\ Ended(c, got[c])
     \/ /\ At(c, "leave") /\ got[c] # Failure /\ ask[c].op = "connect"
        /\ stage' = Moved(c, "store")
        /\ UNCHANGED outcome
  /\ UNCHANGED <<want, ask, made, address, delivered, got, tab>>

\* self._address = ...: another thread that connected meanwhile is overwritten.
\* The property then reads _address again.
StoreAddress(c) ==
  /\ At(c, "store")
  /\ address' = got[c].account
  /\ stage' = Moved(c, "start")
  /\ UNCHANGED <<want, ask, made, pending, delivered, got, outcome, tab>>

-----------------------------------------------------------------------------
(* Tabs, and the application's two routes *)

\* GET /sign: render() finds the operation or raises "unknown or expired".
OpenUrl(w, t) ==
  /\ tab[w].status = "blank" /\ t \in delivered
  /\ tab' = [tab EXCEPT ![w].token = t,
               ![w].shows = IF pending[t] = None THEN None ELSE ask[t[1]],
               ![w].status = IF pending[t] = None THEN "refused" ELSE "asking"]
  /\ UNCHANGED <<stage, want, ask, made, address, pending, delivered, got, outcome>>

\* The wallet answers the page, long after the page was rendered perhaps.
WalletSays(w, answer) ==
  /\ tab[w].status = "asking"
  /\ answer \in SaysTo(tab[w].shows)
  /\ tab' = [tab EXCEPT ![w].status = "answered", ![w].answer = answer]
  /\ UNCHANGED <<stage, want, ask, made, address, pending, delivered, got, outcome>>

\* A bug the properties must catch: the answer goes to the call that waits, whichever.
Resolve_AnyCall(w) ==
  /\ tab[w].status = "answered"
  /\ \E t \in Tokens :
       /\ pending[t] # None
       /\ pending' = [pending EXCEPT ![t].result = tab[w].answer, ![t].set = TRUE]
  /\ tab' = [tab EXCEPT ![w].status = "accepted"]
  /\ UNCHANGED <<stage, want, ask, made, address, delivered, got, outcome>>

\* POST /result: resolve() under the lock.  An answer is in time when the call
\* has not stopped waiting.
Resolve(w) ==
  LET t == tab[w].token IN
  /\ tab[w].status = "answered"
  /\ IF pending[t] = None
     THEN /\ tab' = [tab EXCEPT ![w].status = "refused"]
          /\ UNCHANGED pending
     ELSE /\ pending' = [pending EXCEPT ![t].result = tab[w].answer, ![t].set = TRUE]
          /\ tab' = [tab EXCEPT ![w].status = "accepted",
                       ![w].inTime = At(t[1], "deliver") \/ At(t[1], "wait")]
  /\ UNCHANGED <<stage, want, ask, made, address, delivered, got, outcome>>

-----------------------------------------------------------------------------
Signer(c) ==
  \/ Connect(c) \/ UseAddress(c) \/ HandOver(c) \/ DeliverReturns(c)
  \/ DeliverRaises(c) \/ Wake(c) \/ TimeOut(c) \/ ReadResult(c) \/ Leave(c)
  \/ StoreAddress(c)

Caller(c) == (\E m \in Methods : Call(c, m)) \/ (\E a \in Accounts : Submit(c, a)) \/ Signer(c)

Tab(w) ==
  \/ \E t \in delivered : OpenUrl(w, t)
  \/ \E answer \in Answers : WalletSays(w, answer)
  \/ Resolve(w)

Next == (\E c \in Callers : Caller(c)) \/ (\E w \in Tabs : Tab(w))

Spec == Init /\ [][Next]_vars

-----------------------------------------------------------------------------
(* Properties *)

\* _pending holds exactly the operations of the calls that are inside
\* request(): no error path leaves one behind, and no thread finds its own gone
\* (ReadResult and Leave would raise KeyError).
PendingIsInside ==
  \A t \in Tokens : pending[t] # None <=> t = Parked(t[1]) /\ stage[t[1]] \in Inside

\* What a call returns was said by the wallet to a page of that very call, and a
\* signature or a transaction is by the account the call asked for, however many
\* users, tabs and threads share the bridge.
AnswerIsOwn ==
  \A c \in Callers :
    /\ got[c] # None =>
         \E w \in Tabs : /\ tab[w].status = "accepted" /\ tab[w].answer = got[c]
                         /\ tab[w].token = Parked(c)
    /\ At(c, "done") /\ want[c] # "address" /\ outcome[c].kind \in {"signature", "hash"}
         => ask[c].op = want[c] /\ outcome[c].account = ask[c].account

\* An answer that was accepted before the call stopped waiting is not turned
\* into a time-out.
InTimeIsHeard ==
  \A w \in Tabs : tab[w].inTime =>
    LET c == tab[w].token[1] IN
    Parked(c) = tab[w].token => ~At(c, "expired") /\ outcome[c] # TimedOut

\* A page is told "unknown or expired" only when its call is over, for good.
RefusedIsOver == \A w \in Tabs : tab[w].status = "refused" => pending[tab[w].token] = None

\* The deadline of a call and the answers to it agree on which came first.
DeadlineIsClean == InTimeIsHeard /\ RefusedIsOver

-----------------------------------------------------------------------------
(* The inductive invariant: what the properties rest on *)

CallsFit ==
  \A c \in Callers :
    /\ stage[c] \in Inside =>
         /\ made[c] # 0
         /\ ask[c].op = want[c] \/ (ask[c].op = "connect" /\ want[c] # "send")
    /\ stage[c] \in {"start", "store"} => want[c] # "send"
    /\ stage[c] = "store" => got[c] \in Answers \ {Failure}
    /\ stage[c] = "woken" => pending[Parked(c)].set
    /\ stage[c] = "leave" => got[c] # None
    /\ stage[c] # "done" => outcome[c] = None
    /\ stage[c] = "done" /\ want[c] # "address" => outcome[c] # None

EntriesFit ==
  \A t \in Tokens : pending[t] # None =>
    /\ pending[t].set <=> pending[t].result # None
    /\ pending[t].result # None =>
         \E w \in Tabs : /\ tab[w].status = "accepted" /\ tab[w].answer = pending[t].result
                         /\ tab[w].token = t

Latest(t) == t = Parked(t[1])

TabsFit ==
  \A w \in Tabs :
    LET t == tab[w].token IN
    /\ tab[w].status # "blank" => t \in Tokens /\ t[2] <= made[t[1]]
    /\ tab[w].status \in {"asking", "answered", "accepted"} =>
         tab[w].shows \in Request /\ (Latest(t) => tab[w].shows = ask[t[1]])
    /\ tab[w].status \in {"answered", "accepted"} =>
         tab[w].answer \in Answers \cap SaysTo(tab[w].shows)
    /\ tab[w].inTime =>
         /\ tab[w].status = "accepted"
         /\ Latest(t) /\ stage[t[1]] \in {"deliver", "wait"} => pending[t].set

DeliveredFit == \A t \in delivered : t[2] <= made[t[1]]

IInv ==
  /\ TypeOK /\ PendingIsInside /\ CallsFit /\ EntriesFit /\ TabsFit /\ DeliveredFit
  /\ AnswerIsOwn /\ DeadlineIsClean
=============================================================================
