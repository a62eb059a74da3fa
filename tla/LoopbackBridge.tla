--------------------------- MODULE LoopbackBridge ---------------------------
(***************************************************************************)
(* The loopback wallet bridge of BrowserSigner (src/primedelta/browser.py, *)
(* class _LoopbackBridge, and the page script _SESSION_PAGE that serves    *)
(* it).                                                                    *)
(*                                                                         *)
(* A caller's thread runs request(): it parks a job, wakes a browser page, *)
(* and waits for the wallet's answer until it gives up.  A page asks       *)
(* GET /next for a job, shows it to the wallet and posts the answer to     *)
(* POST /result; each HTTP request runs in a thread of its own.  All of    *)
(* them share the bridge's tables under one condition variable, and one    *)
(* step here is one critical section (or one unlocked effect) of one of    *)
(* those threads.                                                          *)
(*                                                                         *)
(* Time is abstracted: each deadline of the code (timeout, poll_seconds,   *)
(* tab_grace_seconds, reopen_seconds) may pass at any moment.              *)
(***************************************************************************)
EXTENDS SequencesExt

CONSTANTS
  Calls,        (* request() invocations; a call is named by its state token *)
  Tabs,         (* page loads, each with the HTTP handler threads it causes  *)
  Sends,        (* the calls whose op is "send" (a transaction)              *)
  Hooked,       (* the calls made under signing_call with a late hook        *)
  Cancellable,  (* the calls made under signing_call with a cancel event     *)
  NoCall        (* "no job in hand"                                          *)

ASSUME BridgeAssumption ==
  /\ Sends \subseteq Calls
  /\ Hooked \subseteq Calls
  /\ Cancellable \subseteq Calls
  /\ NoCall \notin Calls

VARIABLES
  \* The bridge object, shared by all threads.
  bridge,      (* "new" (no server), "open" (serving) or "closed"            *)
  jobs,        (* keys of _jobs: calls whose request() is still waiting      *)
  late,        (* keys of _late: dispatched calls whose request() gave up    *)
  queue,       (* _queue: calls no page has picked up yet                    *)
  dispatched,  (* job["dispatched"] of each call                             *)
  closedJob,   (* job["closed"] of each call                                 *)
  result,      (* job["result"] of each call                                 *)
  recent,      (* the last poll is within tab_grace_seconds                  *)
  urlShown,    (* opener() has handed the page URL to the user               *)
  \* The callers' threads.
  pc,          (* where each call's request() is                             *)
  window,      (* opened_at / reopened / loaded of _wait                     *)
  cancelled,   (* the calls whose cancel event is set                        *)
  outcome,     (* what request() returned or raised                          *)
  \* The pages and the handler threads that serve them.
  tab,         (* where each page, or the handler it waits for, is           *)
  alive,       (* the browser tab is still open                              *)
  job,         (* the call the page or its handler holds                     *)
  \* History.
  shown,       (* calls a page has received, so that the wallet may act      *)
  answer,      (* what the wallet answered                                   *)
  refused,     (* calls whose posted answer got a 404                        *)
  reported     (* calls whose hash went to the late-transaction hook         *)

bridgeVars  == <<bridge, jobs, late, queue, dispatched, closedJob, result, recent, urlShown>>
callVars    == <<pc, window, cancelled, outcome>>
tabVars     == <<tab, alive, job>>
historyVars == <<shown, answer, refused, reported>>
vars        == <<bridgeVars, callVars, tabVars, historyVars>>

Answers == {"none", "value", "error"}

(* What request() can tell its caller.  The first three say that nothing   *)
(* was sent to the wallet; the next two say that it may still complete;    *)
(* "signerClosed" says neither.                                            *)
NothingSent  == {"cancelled", "timeoutUnsent", "closedUnsent"}
MayComplete  == {"timeoutSent", "closedSent"}
Outcomes     == NothingSent \union MayComplete
                  \union {"none", "signerClosed", "value", "walletError"}

CallStates == {"idle", "starting", "opening", "waiting", "leaving", "raising", "returned"}
TabStates  == {"unloaded", "idle", "polling", "replying", "requeuing",
               "wallet", "posting", "resolving", "acking", "stopped"}

TypeOK ==
  /\ bridge \in {"new", "open", "closed"}
  /\ jobs \subseteq Calls
  /\ late \subseteq Calls
  /\ queue \in Seq(Calls)
  /\ dispatched \in [Calls -> BOOLEAN]
  /\ closedJob \in [Calls -> BOOLEAN]
  /\ result \in [Calls -> Answers]
  /\ recent \in BOOLEAN
  /\ urlShown \in BOOLEAN
  /\ pc \in [Calls -> CallStates]
  /\ window \in [Calls -> {"none", "opened", "loaded", "reopened"}]
  /\ cancelled \subseteq Cancellable
  /\ outcome \in [Calls -> Outcomes]
  /\ tab \in [Tabs -> TabStates]
  /\ alive \in [Tabs -> BOOLEAN]
  /\ job \in [Tabs -> Calls \union {NoCall}]
  /\ shown \subseteq Calls
  /\ answer \in [Calls -> Answers]
  /\ refused \subseteq Calls
  /\ reported \subseteq Calls

-----------------------------------------------------------------------------
(* Helpers.                                                                *)

(* job["done"].is_set(): set together with the result or with closed.      *)
Done_NotByClose(c) == result[c] # "none"
Done(c) == result[c] # "none" \/ closedJob[c]

(* _polling > 0: some handler is inside _next_job.                         *)
SomePolling == \E t \in Tabs : tab[t] = "polling"

(* _tab_busy(): a page is showing a job nobody has answered yet.           *)
TabBusy == \E c \in jobs : dispatched[c] /\ ~Done(c)

(* _queue.remove(state), guarded by "if state in self._queue".             *)
Without_Forgotten(q, c) == q
Without(q, c) == RemoveFirst(q, c)

(* A queued call whose cancel event is set is not given to a page.         *)
Withdrawn(c) == c \in cancelled

(* The queue once its head is popped.                                      *)
Popped_Peeked == queue
Popped == Tail(queue)

(* A request() that leaves without an answer after a page got its job      *)
(* leaves the job behind for the late answer.                              *)
LeftBehind_EvenIfDone(c) == dispatched[c]
LeftBehind(c) == dispatched[c] /\ ~Done(c)

(* _late after close().                                                    *)
LateAfterClose_Kept == late
LateAfterClose == {}

(* Where a page is once its poll returned no job: the 204 sends it back.   *)
AfterEmptyPoll_Served == "replying"
AfterEmptyPoll == "idle"

Goto(c, state) == pc' = [pc EXCEPT ![c] = state]

GotoTab(t, state) == tab' = [tab EXCEPT ![t] = state]

-----------------------------------------------------------------------------
(* The caller's thread.                                                    *)

(* request() before it parks a job: a set cancel event, then _start(),     *)
(* which binds the server once and refuses a closed bridge.                *)
Begin(c) ==
  /\ pc[c] = "idle"
  /\ \/ /\ c \in cancelled
        /\ Goto(c, "returned")
        /\ outcome' = [outcome EXCEPT ![c] = "cancelled"]
        /\ UNCHANGED bridge
     \/ /\ c \notin cancelled
        /\ bridge = "closed"
        /\ Goto(c, "returned")
        /\ outcome' = [outcome EXCEPT ![c] = "signerClosed"]
        /\ UNCHANGED bridge
     \/ /\ c \notin cancelled
        /\ bridge # "closed"
        /\ bridge' = "open"
        /\ Goto(c, "starting")
        /\ UNCHANGED outcome
  /\ UNCHANGED <<jobs, late, queue, dispatched, closedJob, result, recent,
                 urlShown, window, cancelled, tabVars, historyVars>>

(* The first critical section: park a fresh job and decide whether a page  *)
(* is already listening.  It does not look at _closed again.               *)
Enqueue(c) ==
  /\ pc[c] = "starting"
  /\ jobs' = jobs \union {c}
  /\ queue' = Append(queue, c)
  /\ Goto(c, IF SomePolling \/ TabBusy \/ recent THEN "waiting" ELSE "opening")
  /\ UNCHANGED <<bridge, late, dispatched, closedJob, result, recent, urlShown,
                 window, cancelled, outcome, tabVars, historyVars>>

(* opener(self.page_url): page_url calls _start(), which raises when the   *)
(* bridge has been closed.  The second call of opener is the last one.     *)
OpenPage(c) ==
  /\ pc[c] = "opening"
  /\ \/ /\ bridge = "closed"
        /\ Goto(c, "raising")
        /\ UNCHANGED <<urlShown, window>>
     \/ /\ bridge # "closed"
        /\ urlShown' = TRUE
        /\ window' = [window EXCEPT ![c] = IF @ = "none" THEN "opened" ELSE @]
        /\ Goto(c, "waiting")
  /\ UNCHANGED <<bridge, jobs, late, queue, dispatched, closedJob, result, recent,
                 cancelled, outcome, tabVars, historyVars>>

(* _wait sees that no page will pick the job up (no poll, no busy tab, the *)
(* grace period over) and no page has loaded since it opened one.          *)
Reopen(c) ==
  /\ pc[c] = "waiting"
  /\ ~dispatched[c] /\ ~SomePolling /\ ~TabBusy /\ ~recent
  /\ window[c] \in {"none", "opened"}
  /\ window' = [window EXCEPT ![c] = "reopened"]
  /\ Goto(c, "opening")
  /\ UNCHANGED <<bridgeVars, cancelled, outcome, tabVars, historyVars>>

(* The three ways _wait returns: the answer or close() woke it, the        *)
(* timeout passed, or the cancel event is set and no page has the job.     *)
Wake(c) ==
  /\ pc[c] = "waiting"
  /\ Done(c)
  /\ Goto(c, "leaving")
  /\ UNCHANGED <<bridgeVars, window, cancelled, outcome, tabVars, historyVars>>

GiveUp(c) ==
  /\ pc[c] = "waiting"
  /\ ~Done(c)
  /\ Goto(c, "leaving")
  /\ UNCHANGED <<bridgeVars, window, cancelled, outcome, tabVars, historyVars>>

NoticeCancel(c) ==
  /\ pc[c] = "waiting"
  /\ c \in cancelled
  /\ ~dispatched[c]
  /\ Goto(c, "leaving")
  /\ UNCHANGED <<bridgeVars, window, cancelled, outcome, tabVars, historyVars>>

(* What request() makes of the job once it has left the tables.            *)
Verdict_CloseHidesWallet(c) ==
  CASE pc[c] = "raising"                 -> "signerClosed"
    [] pc[c] # "raising" /\ closedJob[c] -> "closedUnsent"
    [] OTHER                             -> IF Done(c) THEN result[c] ELSE "timeoutSent"
Verdict(c) ==
  CASE pc[c] = "raising"                        -> "signerClosed"
    [] pc[c] # "raising" /\ closedJob[c]        ->
         IF dispatched[c] THEN "closedSent" ELSE "closedUnsent"
    [] pc[c] # "raising" /\ ~Done(c)            ->
         IF dispatched[c] THEN "timeoutSent"
         ELSE IF c \in cancelled THEN "cancelled" ELSE "timeoutUnsent"
    [] OTHER                                    ->
         IF result[c] = "error" THEN "walletError" ELSE "value"

(* The finally block, and the answer, error or timeout it leads to.        *)
Finish(c) ==
  /\ pc[c] \in {"leaving", "raising"}
  /\ jobs' = jobs \ {c}
  /\ queue' = Without(queue, c)
  /\ late' = IF LeftBehind(c) THEN late \union {c} ELSE late
  /\ outcome' = [outcome EXCEPT ![c] = Verdict(c)]
  /\ Goto(c, "returned")
  /\ UNCHANGED <<bridge, dispatched, closedJob, result, recent, urlShown,
                 window, cancelled, tabVars, historyVars>>

(* The application sets the cancel event of signing_call.                  *)
Cancel(c) ==
  /\ c \in Cancellable \ cancelled
  /\ cancelled' = cancelled \union {c}
  /\ UNCHANGED <<bridgeVars, pc, window, outcome, tabVars, historyVars>>

(* close(), which the application may call at any time, and again.         *)
Close ==
  /\ bridge' = "closed"
  /\ late' = LateAfterClose
  /\ closedJob' = [c \in Calls |-> closedJob[c] \/ (c \in jobs /\ ~Done(c))]
  /\ queue' = <<>>
  /\ UNCHANGED <<jobs, dispatched, result, recent, urlShown,
                 callVars, tabVars, historyVars>>

(* tab_grace_seconds pass since the last poll.                             *)
GracePasses ==
  /\ recent
  /\ recent' = FALSE
  /\ UNCHANGED <<bridge, jobs, late, queue, dispatched, closedJob, result, urlShown,
                 callVars, tabVars, historyVars>>

-----------------------------------------------------------------------------
(* The pages, and the handler threads of their HTTP requests.              *)

(* GET / : the user's browser loads the page from the URL it was shown.    *)
LoadPage(t) ==
  /\ tab[t] = "unloaded"
  /\ urlShown /\ bridge = "open"
  /\ GotoTab(t, "idle")
  /\ alive' = [alive EXCEPT ![t] = TRUE]
  /\ window' = [c \in Calls |-> IF window[c] = "opened" THEN "loaded" ELSE window[c]]
  /\ UNCHANGED <<bridgeVars, pc, cancelled, outcome, job, historyVars>>

(* The user closes the tab, whatever its handler thread is doing.          *)
CloseTab(t) ==
  /\ alive[t]
  /\ alive' = [alive EXCEPT ![t] = FALSE]
  /\ UNCHANGED <<bridgeVars, callVars, tab, job, historyVars>>

(* GET /next reaches _next_job, or nobody listens and the page stops.      *)
AskNext(t) ==
  /\ tab[t] = "idle" /\ alive[t]
  /\ GotoTab(t, IF bridge = "open" THEN "polling" ELSE "stopped")
  /\ UNCHANGED <<bridgeVars, callVars, alive, job, historyVars>>

(* _next_job pops the head of the queue; a cancelled job is dropped and    *)
(* the loop goes on.  The event is set without _cond: setting it between   *)
(* the look at it and the dispatch is setting it after the dispatch, since *)
(* a caller that sees it set takes _cond before it reads anything else.    *)
Discard(t) ==
  /\ tab[t] = "polling" /\ alive[t] /\ bridge = "open"
  /\ queue # <<>>
  /\ Withdrawn(Head(queue))
  /\ queue' = Popped
  /\ UNCHANGED <<bridge, jobs, late, dispatched, closedJob, result, recent, urlShown,
                 callVars, tabVars, historyVars>>

Dispatch(t) ==
  /\ tab[t] = "polling" /\ alive[t] /\ bridge = "open"
  /\ queue # <<>>
  /\ ~Withdrawn(Head(queue))
  /\ queue' = Popped
  /\ dispatched' = [dispatched EXCEPT ![Head(queue)] = TRUE]
  /\ job' = [job EXCEPT ![t] = Head(queue)]
  /\ GotoTab(t, "replying")
  /\ recent' = TRUE
  /\ UNCHANGED <<bridge, jobs, late, closedJob, result, urlShown,
                 callVars, alive, historyVars>>

(* _next_job returns None: the server is down, the page has gone away, or  *)
(* poll_seconds passed with nothing queued.  The page gets a 204.          *)
PollEmpty(t) ==
  /\ tab[t] = "polling"
  /\ \/ bridge # "open"
     \/ ~alive[t]
     \/ queue = <<>>
  /\ GotoTab(t, AfterEmptyPoll)
  /\ recent' = TRUE
  /\ UNCHANGED <<bridge, jobs, late, queue, dispatched, closedJob, result, urlShown,
                 callVars, alive, job, historyVars>>

(* The handler writes the job to the page.  A page that has gone away      *)
(* either makes the write fail or loses what was written.                  *)
Deliver(t) ==
  /\ tab[t] = "replying"
  /\ alive[t]
  /\ GotoTab(t, "wallet")
  /\ shown' = shown \union {job[t]}
  /\ UNCHANGED <<bridgeVars, callVars, alive, job, answer, refused, reported>>

DeliverToNobody(t) ==
  /\ tab[t] = "replying"
  /\ ~alive[t]
  /\ \/ GotoTab(t, "requeuing")
     \/ GotoTab(t, "stopped")
  /\ UNCHANGED <<bridgeVars, callVars, alive, job, historyVars>>

(* _requeue(), after the write raised OSError.                             *)
Requeue(t) ==
  /\ tab[t] = "requeuing"
  /\ GotoTab(t, "stopped")
  /\ IF job[t] \in jobs
     THEN /\ dispatched' = [dispatched EXCEPT ![job[t]] = FALSE]
          /\ queue' = Cons(job[t], queue)
     ELSE UNCHANGED <<dispatched, queue>>
  /\ UNCHANGED <<bridge, jobs, late, closedJob, result, recent, urlShown,
                 callVars, alive, job, historyVars>>

(* perform(): the user approves or refuses, and the page posts the answer. *)
WalletAnswers(t, a) ==
  /\ tab[t] = "wallet" /\ alive[t]
  /\ answer' = [answer EXCEPT ![job[t]] = a]
  /\ GotoTab(t, "posting")
  /\ UNCHANGED <<bridgeVars, callVars, alive, job, shown, refused, reported>>

(* POST /result, first critical section: _take_late().                     *)
TakeLate(t) ==
  /\ tab[t] = "posting"
  /\ late' = late \ {job[t]}
  /\ GotoTab(t, IF job[t] \in late THEN "acking" ELSE "resolving")
  /\ UNCHANGED <<bridge, jobs, queue, dispatched, closedJob, result, recent, urlShown,
                 callVars, alive, job, historyVars>>

(* POST /result, second critical section: _resolve(), then 204 or 404.     *)
Resolve(t) ==
  /\ tab[t] = "resolving"
  /\ LET c == job[t]
         accepted == c \in jobs /\ dispatched[c] /\ ~Done(c)
     IN  /\ result'  = IF accepted THEN [result EXCEPT ![c] = answer[c]] ELSE result
         /\ recent'  = (accepted \/ recent)
         /\ refused' = IF accepted THEN refused ELSE refused \union {c}
  /\ GotoTab(t, "idle")
  /\ UNCHANGED <<bridge, jobs, late, queue, dispatched, closedJob, urlShown,
                 callVars, alive, job, shown, answer, reported>>

(* The 204 for a late answer, then _report_late(); when the write to a     *)
(* page that has gone away raises, _report_late() is never reached.        *)
AckLate(t) ==
  /\ tab[t] = "acking"
  /\ GotoTab(t, "idle")
  /\ LET c == job[t]
         reports == c \in Hooked /\ c \in Sends /\ answer[c] = "value"
     IN  \/ reported' = IF reports THEN reported \union {c} ELSE reported
         \/ ~alive[t] /\ UNCHANGED reported
  /\ UNCHANGED <<bridgeVars, callVars, alive, job, shown, answer, refused>>

-----------------------------------------------------------------------------
Init ==
  /\ bridge = "new"
  /\ jobs = {} /\ late = {} /\ queue = <<>>
  /\ dispatched = [c \in Calls |-> FALSE]
  /\ closedJob = [c \in Calls |-> FALSE]
  /\ result = [c \in Calls |-> "none"]
  /\ recent = FALSE /\ urlShown = FALSE
  /\ pc = [c \in Calls |-> "idle"]
  /\ window = [c \in Calls |-> "none"]
  /\ cancelled = {}
  /\ outcome = [c \in Calls |-> "none"]
  /\ tab = [t \in Tabs |-> "unloaded"]
  /\ alive = [t \in Tabs |-> FALSE]
  /\ job = [t \in Tabs |-> NoCall]
  /\ shown = {} /\ refused = {} /\ reported = {}
  /\ answer = [c \in Calls |-> "none"]

Caller(c) == Begin(c) \/ Enqueue(c) \/ OpenPage(c) \/ Reopen(c) \/ Wake(c)
               \/ NoticeCancel(c) \/ Finish(c)

Handler(t) == Discard(t) \/ Dispatch(t) \/ PollEmpty(t) \/ Deliver(t)
                \/ DeliverToNobody(t) \/ Requeue(t) \/ TakeLate(t) \/ Resolve(t)
                \/ AckLate(t)

Page(t) == LoadPage(t) \/ AskNext(t) \/ (\E a \in {"value", "error"} : WalletAnswers(t, a))

Next ==
  \/ \E c \in Calls : Caller(c) \/ GiveUp(c) \/ Cancel(c)
  \/ \E t \in Tabs : Handler(t) \/ Page(t) \/ CloseTab(t)
  \/ Close
  \/ GracePasses

Spec == Init /\ [][Next]_vars

-----------------------------------------------------------------------------
(* A patient user: no call times out, no tab is closed, every prompt is    *)
(* answered.  Threads are scheduled fairly and the grace period passes;    *)
(* nobody is obliged to cancel or to close.                                *)
PatientNext ==
  \/ \E c \in Calls : Caller(c) \/ Cancel(c)
  \/ \E t \in Tabs : Handler(t) \/ Page(t)
  \/ Close
  \/ GracePasses

PatientSpec ==
  /\ Init /\ [][PatientNext]_vars
  /\ \A c \in Calls : WF_vars(Caller(c))
  /\ \A t \in Tabs : WF_vars(Handler(t)) /\ WF_vars(Page(t))
  /\ WF_vars(GracePasses)

-----------------------------------------------------------------------------
(* Properties.                                                             *)

(* The bridge keeps the promise of WalletCalls.                            *)
Told(c) ==
  CASE outcome[c] = "none"        -> "none"
    [] outcome[c] = "value"       -> "value"
    [] outcome[c] = "walletError" -> "error"
    [] outcome[c] \in NothingSent -> "unsent"
    [] OTHER                      -> "unknown"

Promise == INSTANCE WalletCalls WITH
  seen <- shown,
  told <- [c \in Calls |-> Told(c)],
  late <- reported

(* Every run of the bridge is one of WalletCalls: a request reaches the    *)
(* wallet at most once, request() returns or raises the wallet's answer    *)
(* and never claims "nothing was sent" of a request a page has or will     *)
(* get, and the late-transaction hook hears once, and only of a            *)
(* transaction whose caller got no answer.                                 *)
KeepsPromise == Promise!Spec

(* An error that says nothing was sent to the wallet tells the truth, then *)
(* and for ever: no page has received, or will receive, that request.      *)
HonestOutcome == \A c \in Calls : outcome[c] \in NothingSent => c \notin shown

(* _next_job never meets a state it has no job for (a KeyError that would  *)
(* kill the poll), a dispatched job or the same job twice: every queued    *)
(* call is pending, undispatched and queued once.                          *)
QueueSound ==
  /\ \A i \in 1..Len(queue) : queue[i] \in jobs /\ ~dispatched[queue[i]]
  /\ \A i, j \in 1..Len(queue) : queue[i] = queue[j] => i = j

(* Closing forgets what was never answered: nothing is kept for a late     *)
(* answer, and no request that was left unanswered still looks pending.    *)
ClosedForgets ==
  bridge = "closed" =>
    /\ late = {}
    /\ \A c \in jobs : dispatched[c] => Done(c)

(* No request reaches a wallet twice, not even when it was handed to a     *)
(* page that had gone away and went back to the queue.                     *)
ShownOnce ==
  [][\A t \in Tabs : tab[t] # "wallet" /\ tab'[t] = "wallet" => job[t] \notin shown]_vars

(* With a patient user every request that starts comes back: none is lost  *)
(* between the queue and the pages, and close() wakes whoever waits, also  *)
(* a request that slipped in while the bridge was closing.                 *)
EveryRequestReturns ==
  \A c \in Calls : pc[c] = "starting" ~> pc[c] = "returned"

(* A wallet answer posted to an open bridge is accepted, if late then once *)
(* (CHANGELOG.md:31-36, "A wallet answer that arrives after the signer     *)
(* gave up is accepted").                                                  *)
AnswersAccepted == bridge # "closed" => refused = {}

-----------------------------------------------------------------------------
(* The inductive invariant behind HonestOutcome, QueueSound, ShownOnce and *)
(* KeepsPromise.                                                           *)

(* The pages and handlers that hold a call, on its way to the wallet and   *)
(* back.                                                                   *)
OnTheWay(t)  == tab[t] \in {"replying", "requeuing"}
Answering(t) == tab[t] \in {"posting", "resolving", "acking"}
Holding(t)   == OnTheWay(t) \/ tab[t] = "wallet" \/ Answering(t)

(* A call is in _jobs exactly between its two critical sections.           *)
JobsTable ==
  \A c \in Calls :
    /\ c \in jobs <=> pc[c] \in {"opening", "waiting", "leaving", "raising"}
    /\ outcome[c] # "none" <=> pc[c] = "returned"
    /\ pc[c] \in {"idle", "starting"} => ~dispatched[c]

(* A call some page has, or has had: its caller is not told otherwise.     *)
Exposed(c) ==
  /\ pc[c] \notin {"idle", "starting"}
  /\ c \in jobs => dispatched[c]
  /\ c \notin jobs => outcome[c] \notin NothingSent

(* A call is with one page at a time, and has not been shown before it     *)
(* reaches that page.                                                      *)
OneHolder ==
  /\ \A t \in Tabs : Holding(t) => job[t] \in Calls /\ Exposed(job[t])
  /\ \A t, u \in Tabs : Holding(t) /\ Holding(u) /\ job[t] = job[u] => t = u
  /\ \A t \in Tabs : OnTheWay(t) => job[t] \notin shown

(* What the wallet has answered, and what became of it.                    *)
AnswersTrack ==
  /\ \A c \in shown : Exposed(c)
  /\ \A c \in Calls : c \notin shown => answer[c] = "none"
  /\ \A c \in Calls : result[c] # "none" => answer[c] = result[c]
  /\ \A t \in Tabs : tab[t] = "wallet" => job[t] \in shown /\ answer[job[t]] = "none"
  /\ \A t \in Tabs : Answering(t) => answer[job[t]] # "none"

(* A call kept for its late answer has returned without one, and its hash  *)
(* has not been reported.                                                  *)
LateTable ==
  /\ \A c \in late \union reported : pc[c] = "returned" /\ Told(c) = "unknown"
  /\ late \intersect reported = {}
  /\ \A t \in Tabs :
       tab[t] = "acking" =>
         /\ pc[job[t]] = "returned" /\ Told(job[t]) = "unknown"
         /\ job[t] \notin late \union reported

IInv == TypeOK /\ JobsTable /\ QueueSound /\ OneHolder /\ AnswersTrack /\ LateTable

=============================================================================
