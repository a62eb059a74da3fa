------------------------------- MODULE Session -------------------------------
(***************************************************************************)
(* The authenticated backend session of PrimeDelta: the request paths of   *)
(* PrimeDeltaClient (src/primedelta/primedelta_client.py: _request,        *)
(* _unsafe, _send_with_relogin, login_attempt, login, logout) and login(), *)
(* logout() and import_session() of the facade (primedelta.py), on one     *)
(* client that several threads share.                                      *)
(*                                                                         *)
(* Each call runs in a thread of its own.  The backend takes a request     *)
(* with the session cookie and CSRF token it was sent with, some time      *)
(* later; a session may expire at any moment.                              *)
(***************************************************************************)
EXTENDS Naturals, FiniteSets

CONSTANTS
  Gets,         (* calls that send a GET                                     *)
  Mutations,    (* calls that send a POST, PUT or DELETE                     *)
  Logins,       (* direct calls of login()                                   *)
  Logouts,      (* calls of logout()                                         *)
  AutoRelogin,  (* the client was built with auto_relogin                    *)
  NoSession,    (* the cookie jar holds no session                           *)
  Nobody        (* no thread holds _login_lock                               *)

Unsafe   == Mutations \union Logouts
Requests == Gets \union Unsafe
Calls    == Requests \union Logins

(* The session the client starts with, and one per login that goes through *)
Sessions == 1..(1 + Cardinality(Calls))

ASSUME SessionAssumption ==
  /\ IsFiniteSet(Calls)
  /\ Gets \intersect Unsafe = {} /\ Mutations \intersect Logouts = {}
  /\ Logins \intersect Requests = {}
  /\ AutoRelogin \in BOOLEAN
  /\ NoSession \notin Nat
  /\ Nobody \notin Calls

VARIABLES
  \* The backend.
  valid,      (* the sessions it accepts                                     *)
  born,       (* sessions created so far                                     *)
  executed,   (* how often each call's request was carried out               *)
  \* The client object.
  cookie,     (* the session cookie in the jar                               *)
  token,      (* _csrf_token: None, or whether it still fits the CSRF cookie *)
  armed,      (* _relogin is set                                             *)
  lock,       (* the thread that holds _login_lock                           *)
  logins,     (* _login_attempts                                             *)
  \* The threads.
  pc,         (* where each call is                                          *)
  seen,       (* attempts, read before the first send                        *)
  resent,     (* it is in its second send() of _send_with_relogin            *)
  again,      (* it is in the second request of that send()                  *)
  sentAs,     (* the session its request carries                             *)
  sentFit,    (* its CSRF token fitted when it was sent                      *)
  reply,      (* the response, or "lost"                                     *)
  outcome,    (* what the call returned or raised                            *)
  \* History.
  midLogin,   (* calls that started while a login was running                *)
  from,       (* the session in the jar when each call started               *)
  signers,    (* requests that started an automatic login                    *)
  failed      (* the last login attempt to end did not log in                *)

backendVars == <<valid, born, executed>>
clientVars  == <<cookie, token, armed, lock, logins>>
threadVars  == <<pc, seen, resent, again, sentAs, sentFit, reply, outcome>>
historyVars == <<midLogin, from, signers, failed>>
vars        == <<backendVars, clientVars, threadVars, historyVars>>

Steps == {"idle", "sending", "sent", "answered", "relogin", "outer", "login",
          "verified", "returned"}

(* "refused" stands for a 400, a 404 and a 403 of _BUSINESS_403_CODES, and *)
(* "error" for a 5xx.                                                      *)
Replies == {"none", "ok", "refused", "401", "403", "error", "lost"}

(* "crash" stands for the TypeError of calling a _relogin that is None.    *)
Outcomes == {"none", "ok", "apiError", "forbidden", "notLoggedIn", "unavailable",
             "loginFailed", "hookFailed", "crash"}

TypeOK ==
  /\ valid \subseteq Sessions
  /\ born \in Sessions
  /\ executed \in [Calls -> Nat]
  /\ cookie \in Sessions \union {NoSession}
  /\ token \in {"none", "fits", "stale"}
  /\ armed \in BOOLEAN
  /\ lock \in Calls \union {Nobody}
  /\ logins \in Nat
  /\ pc \in [Calls -> Steps]
  /\ seen \in [Calls -> Nat]
  /\ resent \in [Calls -> BOOLEAN]
  /\ again \in [Calls -> BOOLEAN]
  /\ sentAs \in [Calls -> Sessions \union {NoSession}]
  /\ sentFit \in [Calls -> BOOLEAN]
  /\ reply \in [Calls -> Replies]
  /\ outcome \in [Calls -> Outcomes]
  /\ midLogin \subseteq Calls
  /\ from \in [Calls -> Sessions \union {NoSession}]
  /\ signers \subseteq Requests
  /\ failed \in BOOLEAN

-----------------------------------------------------------------------------
(* Helpers.                                                                *)

Goto(c, step) == pc' = [pc EXCEPT ![c] = step]

(* Returning or raising; logout() drops the session whatever happened.     *)
Conclude(c, what) ==
  /\ Goto(c, "returned")
  /\ outcome' = [outcome EXCEPT ![c] = what]
  /\ IF c \in Logouts
     THEN cookie' = NoSession /\ token' = "none"
     ELSE UNCHANGED <<cookie, token>>

(* _handle: what a response means to the caller.                           *)
Meaning_Unread(answer) == answer
Meaning_AmbiguousRefused(answer) ==
  CASE answer = "ok"                            -> "ok"
    [] answer \in {"refused", "error", "lost"}  -> "apiError"
    [] answer = "401"                           -> "notLoggedIn"
    [] answer = "403"                           -> "forbidden"
Meaning(answer) ==
  CASE answer = "ok"                -> "ok"
    [] answer = "refused"           -> "apiError"
    [] answer = "401"               -> "notLoggedIn"
    [] answer = "403"               -> "forbidden"
    [] answer \in {"error", "lost"} -> "unavailable"

(* _unsafe sends once more, with a fresh token, after a 403 that may be    *)
(* about the token; but not when another thread has already dropped it.    *)
CsrfRetry(c) ==
  c \in Unsafe /\ ~again[c] /\ reply[c] = "403" /\ token # "none"

(* Under _login_lock, a request that got a 401 logs in unless a login has  *)
(* been attempted since it started.                                        *)
MustLogIn_Always(c) == TRUE
MustLogIn_Never(c) == FALSE
MustLogIn(c) == logins = seen[c]

(* The lock that makes logins take turns.                                  *)
LoginFree == lock = Nobody

(* login_attempt is left, whether it logged in or not.                     *)
Unlocked_Kept == lock
Unlocked == Nobody

-----------------------------------------------------------------------------
(* A request.                                                              *)

(* attempts = self._login_attempts; a logout disarms the keep-alive first. *)
Start(c) ==
  /\ c \in Requests
  /\ pc[c] = "idle"
  /\ seen' = [seen EXCEPT ![c] = logins]
  /\ armed' = (armed /\ c \notin Logouts)
  /\ from' = [from EXCEPT ![c] = cookie]
  /\ midLogin' = IF lock = Nobody THEN midLogin ELSE midLogin \union {c}
  /\ Goto(c, "sending")
  /\ UNCHANGED <<backendVars, cookie, token, lock, logins, resent, again, sentAs, sentFit,
                 reply, outcome, signers, failed>>

(* _ensure_csrf_token.  The token it fetched may already be outdated by a  *)
(* login that finished meanwhile.                                          *)
FetchToken(c) ==
  /\ c \in Unsafe
  /\ pc[c] = "sending"
  /\ token = "none"
  /\ \/ /\ token' \in {"fits", "stale"}
        /\ UNCHANGED <<cookie, pc, outcome>>
     \/ Conclude(c, "unavailable")
  /\ UNCHANGED <<backendVars, armed, lock, logins, seen, resent, again, sentAs, sentFit,
                 reply, historyVars>>

(* The request leaves with the cookies of the moment.                      *)
Send(c) ==
  /\ pc[c] = "sending"
  /\ c \in Unsafe => token # "none"
  /\ sentAs' = [sentAs EXCEPT ![c] = cookie]
  /\ sentFit' = [sentFit EXCEPT ![c] = c \in Unsafe => token = "fits"]
  /\ Goto(c, "sent")
  /\ UNCHANGED <<backendVars, clientVars, seen, resent, again, reply, outcome, historyVars>>

(* The backend's turn, or the network's: a response may be lost, or be a   *)
(* 5xx, whether or not the request was carried out.  A 401, a 403 and a    *)
(* 4xx come before it is.                                                  *)
Process(c) ==
  /\ pc[c] = "sent"
  /\ LET welcome == sentFit[c] /\ sentAs[c] \in valid
     IN  \E answer \in Replies \ {"none"}, done \in BOOLEAN :
           /\ answer = "401" => sentAs[c] \notin valid
           /\ answer \in {"ok", "refused"} => welcome
           /\ done => welcome
           /\ answer = "ok" => done
           /\ answer \in {"refused", "401", "403"} => ~done
           /\ reply' = [reply EXCEPT ![c] = answer]
           /\ executed' = IF done THEN [executed EXCEPT ![c] = @ + 1] ELSE executed
           /\ valid' = IF done /\ c \in Logouts THEN valid \ {sentAs[c]} ELSE valid
  /\ sentFit' = [sentFit EXCEPT ![c] = FALSE]
  /\ Goto(c, "answered")
  /\ UNCHANGED <<born, clientVars, seen, resent, again, sentAs, outcome,
                 historyVars>>

(* The 403 that sends an unsafe request again within the same send().      *)
DropToken(c) ==
  /\ pc[c] = "answered"
  /\ CsrfRetry(c)
  /\ token' = "none"
  /\ again' = [again EXCEPT ![c] = TRUE]
  /\ reply' = [reply EXCEPT ![c] = "none"]
  /\ Goto(c, "sending")
  /\ UNCHANGED <<backendVars, cookie, armed, lock, logins, seen, resent, sentAs, sentFit,
                 outcome, historyVars>>

(* The first 401 with a keep-alive armed goes for the lock; any other      *)
(* response is the caller's.                                               *)
Handle(c) ==
  /\ pc[c] = "answered"
  /\ ~CsrfRetry(c)
  /\ reply' = [reply EXCEPT ![c] = "none"]
  /\ IF reply[c] = "401" /\ armed /\ ~resent[c]
     THEN Goto(c, "relogin") /\ UNCHANGED <<cookie, token, outcome>>
     ELSE Conclude(c, Meaning(reply[c]))
  /\ UNCHANGED <<backendVars, armed, lock, logins, seen, resent, again, sentAs, sentFit,
                 historyVars>>

-----------------------------------------------------------------------------
(* Logging in again.                                                       *)

(* send() once more: the session and the token are read anew.              *)
Resend(c) ==
  /\ resent' = [resent EXCEPT ![c] = TRUE]
  /\ again' = [again EXCEPT ![c] = FALSE]
  /\ Goto(c, "sending")

(* _login_lock, and the look at _login_attempts under it.                  *)
ShareLogin(c) ==
  /\ pc[c] = "relogin"
  /\ LoginFree
  /\ ~MustLogIn(c)
  /\ Resend(c)
  /\ UNCHANGED <<backendVars, clientVars, seen, sentAs, sentFit, reply, outcome,
                 historyVars>>

StartRelogin(c) ==
  /\ pc[c] = "relogin"
  /\ LoginFree
  /\ MustLogIn(c)
  /\ lock' = c
  /\ logins' = logins + 1
  /\ signers' = signers \union {c}
  /\ Goto(c, "outer")
  /\ UNCHANGED <<backendVars, cookie, token, armed, seen, resent, again, sentAs, sentFit,
                 reply, outcome, midLogin, from, failed>>

(* self._relogin(), which logout() may have cleared meanwhile, enters      *)
(* login_attempt again.                                                    *)
CallRelogin(c) ==
  /\ pc[c] = "outer"
  /\ IF armed
     THEN /\ logins' = logins + 1
          /\ Goto(c, "login")
          /\ UNCHANGED <<lock, cookie, token, outcome, failed>>
     ELSE /\ Conclude(c, "crash")
          /\ lock' = Unlocked
          /\ failed' = TRUE
          /\ UNCHANGED logins
  /\ UNCHANGED <<backendVars, armed, seen, resent, again, sentAs, sentFit, reply, midLogin,
                 from, signers>>

(* login(), called directly.                                               *)
StartLogin(c) ==
  /\ c \in Logins
  /\ pc[c] = "idle"
  /\ LoginFree
  /\ lock' = c
  /\ logins' = logins + 1
  /\ Goto(c, "login")
  /\ UNCHANGED <<backendVars, cookie, token, armed, seen, resent, again, sentAs, sentFit,
                 reply, outcome, historyVars>>

(* The nonce, the signature and the verification went through: the         *)
(* response sets a new session cookie and a new CSRF cookie.               *)
Verify(c) ==
  /\ pc[c] = "login"
  /\ born' = born + 1
  /\ valid' = valid \union {born + 1}
  /\ cookie' = born + 1
  /\ token' = "stale"
  /\ Goto(c, "verified")
  /\ UNCHANGED <<executed, armed, lock, logins, seen, resent, again, sentAs, sentFit,
                 reply, outcome, historyVars>>

(* It did not: no nonce, the wallet refused, the backend did.              *)
LoginFails(c) ==
  /\ pc[c] = "login"
  /\ Goto(c, "returned")
  /\ outcome' = [outcome EXCEPT ![c] = "loginFailed"]
  /\ IF c \in Logouts
     THEN cookie' = NoSession /\ token' = "none"
     ELSE UNCHANGED cookie /\ token' \in {token, "fits"}
  /\ lock' = Unlocked
  /\ failed' = TRUE
  /\ UNCHANGED <<backendVars, armed, logins, seen, resent, again, sentAs, sentFit, reply,
                 midLogin, from, signers>>

(* The token is dropped, the keep-alive armed, and the on_login hook       *)
(* called, which may raise; then the request is sent again.                *)
FinishLogin(c) ==
  /\ pc[c] = "verified"
  /\ armed' = (AutoRelogin \/ armed)
  /\ lock' = Unlocked
  /\ \/ /\ c \in Requests
        /\ Resend(c)
        /\ token' = "none"
        /\ failed' = FALSE
        /\ UNCHANGED <<cookie, outcome>>
     \/ /\ c \in Logins
        /\ Goto(c, "returned")
        /\ outcome' = [outcome EXCEPT ![c] = "ok"]
        /\ token' = "none"
        /\ failed' = FALSE
        /\ UNCHANGED <<cookie, resent, again>>
     \/ /\ Goto(c, "returned")
        /\ outcome' = [outcome EXCEPT ![c] = "hookFailed"]
        /\ token' = "none"
        /\ cookie' = IF c \in Logouts THEN NoSession ELSE cookie
        /\ failed' = FALSE
        /\ UNCHANGED <<resent, again>>
  /\ UNCHANGED <<backendVars, logins, seen, sentAs, sentFit, reply, midLogin,
                 from, signers>>

(* A session expires, is revoked, or is replaced elsewhere.                *)
Expire(s) ==
  /\ s \in valid
  /\ valid' = valid \ {s}
  /\ UNCHANGED <<born, executed, clientVars, threadVars, historyVars>>

-----------------------------------------------------------------------------
(* A client that has not logged in, or has restored a session with         *)
(* import_session, which may be stale.                                     *)
Init ==
  /\ born = 1
  /\ valid \in {{}, {1}}
  /\ executed = [c \in Calls |-> 0]
  /\ \/ cookie = NoSession /\ armed = FALSE
     \/ cookie = 1 /\ armed = AutoRelogin
  /\ token = "none"
  /\ lock = Nobody /\ logins = 0
  /\ pc = [c \in Calls |-> "idle"]
  /\ seen = [c \in Calls |-> 0]
  /\ resent = [c \in Calls |-> FALSE]
  /\ again = [c \in Calls |-> FALSE]
  /\ sentAs = [c \in Calls |-> NoSession]
  /\ sentFit = [c \in Calls |-> FALSE]
  /\ reply = [c \in Calls |-> "none"]
  /\ outcome = [c \in Calls |-> "none"]
  /\ midLogin = {} /\ from = [c \in Calls |-> NoSession] /\ signers = {} /\ failed = FALSE

Thread(c) ==
  \/ FetchToken(c) \/ Send(c) \/ Process(c) \/ DropToken(c) \/ Handle(c)
  \/ ShareLogin(c) \/ StartRelogin(c) \/ CallRelogin(c)
  \/ Verify(c) \/ LoginFails(c) \/ FinishLogin(c)

Next ==
  \/ \E c \in Calls : Start(c) \/ StartLogin(c) \/ Thread(c)
  \/ \E s \in Sessions : Expire(s)

(* Every request gets a response or times out, and a thread that may take  *)
(* a step does; nobody is obliged to start a call.                         *)
Fairness == \A c \in Calls : WF_vars(Thread(c))
Spec == Init /\ [][Next]_vars /\ Fairness

-----------------------------------------------------------------------------
(* Properties.                                                             *)

(* However often a request is sent again, it is carried out at most once,  *)
(* a caller that hears "ok" had it carried out, and one that hears that it *)
(* was refused, or that it is not logged in, did not.                      *)
CarriedOutOnce ==
  \A c \in Unsafe :
    /\ executed[c] <= 1
    /\ outcome[c] = "ok" => executed[c] = 1
    /\ outcome[c] \notin {"none", "ok", "unavailable"} => executed[c] = 0

(* Requests that started under the same count of login attempts share one  *)
(* automatic login between them, also when it is refused: the wallet is    *)
(* asked to sign once for all of them.                                     *)
OneLoginPerBurst ==
  \A c, d \in signers : seen[c] = seen[d] => c = d

(* A request that goes out again after a 401 carries another session than  *)
(* the one rejected, unless the login it waited for failed, somebody       *)
(* logged out, or the rejected session was itself newer than the request.  *)
ResendsWithNewSession ==
  \A c \in Requests :
    /\ pc[c] = "sending" /\ pc'[c] = "sent" /\ resent[c] /\ ~again[c]
    => \/ sentAs'[c] # sentAs[c]
       \/ failed \/ sentAs[c] # from[c]
       \/ \E l \in Logouts : outcome[l] # "none"

(* A request that started while no login was running never has the wallet  *)
(* sign over a session that is still good.  One that started during a      *)
(* login may: it read the count that this login had already raised.        *)
QuietStartSparesLogin ==
  \A c \in Requests :
    pc[c] = "relogin" /\ pc'[c] = "outer" /\ cookie \in valid => c \in midLogin

(* What follows a 401: the resend carries a session that was not rejected, *)
(* and of the requests that started while no login was running none signs  *)
(* in when another already has.                                            *)
RejectionsHandled == [][ResendsWithNewSession /\ QuietStartSparesLogin]_vars

(* No call waits for ever, neither for _login_lock nor in a loop of 401s   *)
(* and 403s: in the end none is under way.                                 *)
CallsReturn == <>[](\A c \in Calls : pc[c] \in {"idle", "returned"})

-----------------------------------------------------------------------------
(* What the changelog and the comments of the code say, and the code does  *)
(* not do.                                                                 *)

(* "Disarm keep-alive first, else the logout call's own auth or the next   *)
(* authed call would silently re-login and undo the logout" (logout(),     *)
(* primedelta.py:1046-1047).                                               *)
LogoutSticks ==
  (Logins = {} /\ \E l \in Logouts : outcome[l] # "none") => cookie = NoSession

(* "a request that got its 401 before a login finished is resent instead   *)
(* of starting another one" (CHANGELOG.md:30-31): here of a request that   *)
(* was rejected with an older session than the one the login has set, and  *)
(* of a second login while that one is still good.                         *)
RejectedIsResent ==
  \A c \in Requests, l \in Calls :
    []( pc[c] = "relogin" /\ pc[l] = "verified" /\ sentAs[c] # cookie
        => [](pc[c] = "outer" => cookie \notin valid) )
=============================================================================
