---------------------------- MODULE HostedClient ----------------------------
(***************************************************************************)
(* One PrimeDelta client whose wallet is behind a hosted page: what its    *)
(* public calls do between the caller and the parts they are made of.      *)
(*                                                                         *)
(* A call is a sequence of steps: it looks tickers and pools up            *)
(* (Resolution), gets a signature of the platform, places an order or asks *)
(* for a withdrawal, or sends a transaction.  A send passes the gates of   *)
(* the send path (the kill switch, the chain check, _tx_lock) and asks the *)
(* wallet (RemoteBridge).  craft() runs a call with _crafting set: its     *)
(* transactions go on a list for another wallet and are never sent.        *)
(***************************************************************************)
EXTENDS RemoteBridge, Resolution

CONSTANTS
  Scenarios,  \* the calls of the threads: functions from Callers to Calls
  Chains,     \* what the endpoint may be: "expected", "local" (Anvil) or "other"
  IsDev,      \* network = "dev"
  MayHalt     \* whether the application uses the kill switch

ASSUME HostedAssumption ==
  /\ Chains \subseteq {"expected", "local", "other"}
  /\ IsDev \in BOOLEAN /\ MayHalt \in BOOLEAN

VARIABLES
  call,       \* what each thread calls: its steps, and whether in a craft()
  next,       \* the step it is at
  place,      \* where in that step
  crafting,   \* _crafting: the thread on whose list sends are put, or None
  captured,   \* that list, for each thread that crafts
  heard,      \* what each send of each thread returned
  clashed,    \* whether two craft() have been entered at once
  ended,      \* how the call came out
  ordered,    \* threads whose order or withdrawal the platform has taken
  status,     \* the account's status on the platform
  halted,     \* _halted
  excused,    \* threads that were past the kill switch when it was engaged
  chain,      \* the chain the endpoint is on
  chainRead,  \* the provider has cached eth_chainId
  verified,   \* _chain_verified
  unchecked,  \* threads whose last check could not read the chain
  txLock      \* _tx_lock: its owner, or None

switch == <<halted, excused>>
guard == <<chain, chainRead, verified, unchecked>>
course == <<call, ended, ordered, status>>
lists == <<crafting, captured, heard, clashed>>
client == <<next, place, course, lists, switch, guard, txLock>>
everything == <<client, vars, resolution>>

-----------------------------------------------------------------------------
(* Calls *)

Statuses == {"verified", "minted", "known"}
OtherSteps == {"list", "ask", "account", "refuse", "post", "sign", "send", "pool"}
StepKinds == Symbols \cup Statuses \cup OtherSteps
Errors == {"halted", "wrong chain", "nested", "cannot craft", "not found", "failed"}

ASSUME NoneIsNoEnding == None \notin Errors \cup {"returned"}

ASSUME ScenariosAssumption ==
  /\ Symbols \cap (Statuses \cup OtherSteps) = {}
  /\ \A calls \in Scenarios, c \in Callers :
       calls[c].steps \in Seq(StepKinds) /\ calls[c].craft \in BOOLEAN

Sending == {"gated", "queue", "build", "address", "capture", "preflight", "sent"}
Locked == Sending \ {"gated", "queue"}
Places == Sending \cup
  {"start", "check", "enter", "entering", "step", "account", "signing", "lookup", "exit",
   "over"}

\* The public calls, each with the order of its steps: what it asks the platform
\* for, reads of the account, looks up, and sends.
Identity == <<"verified", "ask", "account", "send">>
DepositStablecoin == <<"minted", "ask", "account", "send">>
DepositStock == <<"minted", "ask", "account", "send">>
ClaimStablecoin == <<"list", "ask", "account", "send">>
ClaimStock == <<"list", "ask", "account", "send">>
RequestStablecoin == <<"refuse", "known", "post">>
RequestStock == <<"refuse", "minted", "post">>
LimitOrder == <<"refuse", "post">>
SellOrder == <<"refuse", "post">>
ConfirmAgent == <<"ask", "sign", "post">>
LinkAgent == <<"sign", "post">>
InstrumentKind(s) == <<s, "pool">>
Transfer == <<"send">>

Finished(c) == next[c] > Len(call[c].steps)
AtStep(c, what) == place[c] = "step" /\ ~Finished(c) /\ call[c].steps[next[c]] = what
Proceed(c, where) == place' = [place EXCEPT ![c] = where]
StepDone(c) == next' = [next EXCEPT ![c] = @ + 1] /\ Proceed(c, "step")

\* An error leaves the call; inside craft() it first passes the scope's finally.
Raise(c, why) ==
  /\ ended' = [ended EXCEPT ![c] = why]
  /\ Proceed(c, IF call[c].craft THEN "exit" ELSE "over")
  /\ UNCHANGED <<next, call, ordered, status>>

Accepted == chain = "expected" \/ (IsDev /\ chain = "local")

ClientInit ==
  /\ call \in Scenarios
  /\ next = [c \in Callers |-> 1]
  /\ place = [c \in Callers |-> "start"]
  /\ crafting = None
  /\ captured = [c \in Callers |-> <<>>]
  /\ heard = [c \in Callers |-> {}]
  /\ clashed = FALSE
  /\ ended = [c \in Callers |-> None]
  /\ ordered = {}
  /\ status \in {"new", "verified", "minted"}
  /\ halted = FALSE
  /\ excused = {}
  /\ chain \in Chains
  /\ chainRead = FALSE
  /\ verified = FALSE
  /\ unchecked = {}
  /\ txLock = None
  /\ Init
  /\ ResolutionInit

-----------------------------------------------------------------------------
(* craft() *)

Begin(c) ==
  /\ place[c] = "start"
  /\ Proceed(c, IF call[c].craft THEN "check" ELSE "step")
  /\ UNCHANGED <<next, course, lists, switch, guard, txLock, vars, resolution>>

\* A bug the properties must catch: the scope of a nested craft() is entered first.
TestCraft_Inside(c) ==
  /\ place[c] = "enter"
  /\ IF crafting = None
     THEN Proceed(c, "entering") /\ UNCHANGED <<next, course>>
     ELSE Raise(c, "nested")
  /\ UNCHANGED <<lists, switch, guard, txLock, vars, resolution>>

\* _crafting_scope tests _crafting, in a step of its own: no lock is held, and
\* another thread may come between this and EnterCraft.
TestCraft(c) ==
  /\ place[c] = "enter"
  /\ IF crafting = None
     THEN Proceed(c, "entering") /\ UNCHANGED course
     ELSE /\ ended' = [ended EXCEPT ![c] = "nested"]
          /\ Proceed(c, "over")
          /\ UNCHANGED <<call, ordered, status>>
  /\ UNCHANGED <<next, lists, switch, guard, txLock, vars, resolution>>

\* The list of this craft() becomes the client's, over that of one that was
\* entered meanwhile.
EnterCraft(c) ==
  /\ place[c] = "entering"
  /\ crafting' = c
  /\ clashed' = (clashed \/ crafting # None)
  /\ Proceed(c, "step")
  /\ UNCHANGED <<next, course, captured, heard, switch, guard, txLock, vars, resolution>>

\* The finally of the scope, on every way out, whoever's list is there.
ExitCraft(c) ==
  /\ place[c] = "exit"
  /\ crafting' = None
  /\ ended' = [ended EXCEPT ![c] = IF @ = None THEN "returned" ELSE @]
  /\ Proceed(c, "over")
  /\ UNCHANGED <<next, call, ordered, status, captured, heard, clashed, switch, guard>>
  /\ UNCHANGED <<txLock, vars, resolution>>

Return(c) ==
  /\ place[c] = "step" /\ Finished(c)
  /\ IF call[c].craft
     THEN Proceed(c, "exit") /\ UNCHANGED ended
     ELSE Proceed(c, "over") /\ ended' = [ended EXCEPT ![c] = "returned"]
  /\ UNCHANGED <<next, call, ordered, status, lists, switch, guard, txLock, vars, resolution>>

-----------------------------------------------------------------------------
(* The send path *)

\* A bug the properties must catch: a craft(), which sends nothing, need not be halted.
Gate_Crafts(c) ==
  /\ AtStep(c, "send")
  /\ IF halted /\ crafting = None
     THEN Raise(c, "halted")
     ELSE Proceed(c, "gated") /\ UNCHANGED <<next, course>>
  /\ UNCHANGED <<lists, switch, guard, txLock, vars, resolution>>

Gate(c) ==
  /\ AtStep(c, "send")
  /\ IF halted
     THEN Raise(c, "halted")
     ELSE Proceed(c, "gated") /\ UNCHANGED <<next, course>>
  /\ UNCHANGED <<lists, switch, guard, txLock, vars, resolution>>

ChecksChain(c) == place[c] \in {"check", "gated"}
Checked(c) == Proceed(c, IF place[c] = "check" THEN "enter" ELSE "queue")

\* _verify_chain, with the provider's cache of eth_chainId under it.
VerifyChain(c) ==
  /\ ChecksChain(c)
  /\ unchecked' = unchecked \ {c}
  /\ IF verified \/ Accepted
     THEN Checked(c) /\ verified' = TRUE /\ UNCHANGED <<next, course>>
     ELSE /\ IF place[c] = "gated" THEN Raise(c, "wrong chain")
             ELSE /\ ended' = [ended EXCEPT ![c] = "wrong chain"]
                  /\ Proceed(c, "over")
                  /\ UNCHANGED <<next, call, ordered, status>>
          /\ UNCHANGED verified
  /\ chainRead' = TRUE
  /\ UNCHANGED <<lists, switch, chain, txLock, vars, resolution>>

\* A bug the properties must catch: a check that could not read counts as one.
ChainUnknown_Verified(c) ==
  /\ ChecksChain(c) /\ ~verified /\ ~chainRead
  /\ Checked(c)
  /\ verified' = TRUE
  /\ unchecked' = unchecked \cup {c}
  /\ UNCHANGED <<next, course, lists, switch, chain, chainRead, txLock, vars, resolution>>

\* The endpoint does not answer: this check is skipped, the next one is not.
ChainUnknown(c) ==
  /\ ChecksChain(c) /\ ~verified /\ ~chainRead
  /\ Checked(c)
  /\ unchecked' = unchecked \cup {c}
  /\ UNCHANGED <<next, course, lists, switch, chain, chainRead, verified, txLock, vars, resolution>>

TakeLock(c) ==
  /\ place[c] = "queue" /\ txLock = None
  /\ txLock' = c
  /\ Proceed(c, "build")
  /\ UNCHANGED <<next, course, lists, switch, guard, vars, resolution>>

\* self._signer.address, which may have to connect.
ReadAddress(c) ==
  /\ place[c] = "build"
  /\ Call(c, "address")
  /\ Proceed(c, "address")
  /\ UNCHANGED <<next, course, lists, switch, guard, txLock, resolution>>

SendReturns(c, what) ==
  /\ heard' = [heard EXCEPT ![c] = @ \cup {<<next[c], what>>}]
  /\ excused' = excused \ {c}
  /\ StepDone(c)
  /\ txLock' = None
  /\ UNCHANGED <<course, halted>>

\* A bug the properties must catch: only a send that succeeds releases the lock.
SendRaises_Locked(c) ==
  /\ excused' = excused \ {c}
  /\ Raise(c, "failed")
  /\ UNCHANGED <<txLock, heard, halted>>

SendRaises(c) ==
  /\ excused' = excused \ {c}
  /\ txLock' = None
  /\ Raise(c, "failed")
  /\ UNCHANGED <<heard, halted>>

Answered(c, where) == place[c] = where /\ At(c, "done")
Said(c, what) == outcome[c].kind = what

\* The address is known, and some craft() is under way: the send is for a list.
\* The test is a step of its own.
Divert(c) ==
  /\ Answered(c, "address") /\ Said(c, "account") /\ crafting # None
  /\ Proceed(c, "capture")
  /\ UNCHANGED <<next, course, lists, switch, guard, txLock, vars, resolution>>

\* A bug the properties must catch: the latest transaction comes first.
Capture_Front(c) ==
  /\ place[c] = "capture" /\ crafting # None
  /\ captured' = [captured EXCEPT ![crafting] = <<<<c, next[c]>>>> \o @]
  /\ SendReturns(c, "sentinel")
  /\ UNCHANGED <<crafting, clashed, guard, vars, resolution>>

\* _crafting is read again, and the transaction is put on the list that is there
\* now: that of this call, or of whichever thread crafts.  Nothing parts that
\* read from the append it is an operand of.
Capture(c) ==
  /\ place[c] = "capture" /\ crafting # None
  /\ captured' = [captured EXCEPT ![crafting] = Append(@, <<c, next[c]>>)]
  /\ SendReturns(c, "sentinel")
  /\ UNCHANGED <<crafting, clashed, guard, vars, resolution>>

Build(c) ==
  /\ Answered(c, "address") /\ Said(c, "account") /\ crafting = None
  /\ Proceed(c, "preflight")
  /\ UNCHANGED <<next, course, lists, switch, guard, txLock, vars, resolution>>

\* The simulated call passes, or cannot be made, and the wallet is asked.
AskWallet(c) ==
  /\ place[c] = "preflight"
  /\ Submit(c, outcome[c].account)
  /\ Proceed(c, "sent")
  /\ UNCHANGED <<next, course, lists, switch, guard, txLock, resolution>>

\* The receipt of the hash the wallet gave is there, and not a revert.
Mined(c) ==
  /\ Answered(c, "sent") /\ Said(c, "hash")
  /\ SendReturns(c, "hash")
  /\ UNCHANGED <<crafting, captured, clashed, guard, vars, resolution>>

\* No address; while crafting, calldata that cannot be encoded or a list that is
\* gone by now (AttributeError); a preflight that reverts, an error of the wallet
\* or a time-out, a transaction that reverts or whose receipt does not come.
SendFails(c) ==
  /\ \/ Answered(c, "address") /\ ~Said(c, "account")
     \/ place[c] \in {"capture", "preflight"}
     \/ Answered(c, "sent")
  /\ SendRaises(c)
  /\ UNCHANGED <<crafting, captured, clashed, guard, vars, resolution>>

-----------------------------------------------------------------------------
(* The platform *)

Meets(what) ==
  CASE what = "verified" -> status = "verified"
    [] what = "minted" -> status = "minted"
    [] what = "known" -> status \in {"verified", "minted"}

\* get_account_status: another status than the call needs is an error, and so is
\* a request that fails.
CheckStatus(c) ==
  \E what \in Statuses :
    /\ AtStep(c, what)
    /\ \/ Meets(what) /\ StepDone(c) /\ UNCHANGED course
       \/ Raise(c, "failed")
    /\ UNCHANGED <<lists, switch, guard, txLock, vars, resolution>>

\* _get_claimable_withdrawal: exactly one of the listed withdrawals has the id.
FindWithdrawal(c) ==
  /\ AtStep(c, "list")
  /\ \/ StepDone(c) /\ UNCHANGED course
     \/ \E why \in {"not found", "failed"} : Raise(c, why)
  /\ UNCHANGED <<lists, switch, guard, txLock, vars, resolution>>

\* A request for a signature of the platform, or for an approval to sign, which
\* changes nothing there.
Ask(c) ==
  /\ AtStep(c, "ask")
  /\ \/ StepDone(c) /\ UNCHANGED course
     \/ Raise(c, "failed")
  /\ UNCHANGED <<lists, switch, guard, txLock, vars, resolution>>

\* The arguments of a mint or a burn name the account: the wallet may have to
\* connect, and _tx_lock is not held.
NameAccount(c) ==
  /\ AtStep(c, "account")
  /\ Call(c, "address")
  /\ Proceed(c, "account")
  /\ UNCHANGED <<next, course, lists, switch, guard, txLock, resolution>>

\* confirm_ai_agent and link_ai_agent have the wallet sign the platform's message.
AskToSign(c) ==
  /\ AtStep(c, "sign")
  /\ Call(c, "sign")
  /\ Proceed(c, "signing")
  /\ UNCHANGED <<next, course, lists, switch, guard, txLock, resolution>>

WalletAnswers(c) ==
  /\ \/ Answered(c, "account") /\ Said(c, "account") /\ StepDone(c) /\ UNCHANGED course
     \/ Answered(c, "signing") /\ Said(c, "signature") /\ StepDone(c) /\ UNCHANGED course
     \/ Answered(c, "account") /\ ~Said(c, "account") /\ Raise(c, "failed")
     \/ Answered(c, "signing") /\ ~Said(c, "signature") /\ Raise(c, "failed")
  /\ UNCHANGED <<lists, switch, guard, txLock, vars, resolution>>

\* _reject_backend_action_while_crafting
Refuse(c) ==
  /\ AtStep(c, "refuse")
  /\ IF crafting # None
     THEN Raise(c, "cannot craft")
     ELSE StepDone(c) /\ UNCHANGED course
  /\ UNCHANGED <<lists, switch, guard, txLock, vars, resolution>>

\* The platform takes the order or the withdrawal, or the call fails.
Post(c) ==
  /\ AtStep(c, "post")
  /\ \/ /\ ordered' = ordered \cup {c}
        /\ StepDone(c)
        /\ UNCHANGED <<call, ended, status>>
     \/ Raise(c, "failed")
  /\ UNCHANGED <<lists, switch, guard, txLock, vars, resolution>>

-----------------------------------------------------------------------------
(* Look-ups *)

BeginLookUp(c) ==
  \E s \in Symbols :
    /\ AtStep(c, s)
    /\ LookUp(c, s)
    /\ Proceed(c, "lookup")
    /\ UNCHANGED <<next, course, lists, switch, guard, txLock, vars>>

EndLookUp(c) ==
  /\ place[c] = "lookup"
  /\ \/ step[c] = "found" /\ StepDone(c) /\ UNCHANGED course
     \/ step[c] = "missed" /\ Raise(c, "not found")
  /\ UNCHANGED <<lists, switch, guard, txLock, vars, resolution>>

\* instrument_kind asks for the pool of the token it has just looked up.
PoolStep(c) ==
  /\ AtStep(c, "pool")
  /\ \/ AskPool(c) /\ StepDone(c) /\ UNCHANGED course
     \/ PoolFails(c) /\ Raise(c, "failed")
  /\ UNCHANGED <<lists, switch, guard, txLock, vars>>

-----------------------------------------------------------------------------
(* The application's kill switch, and everything together *)

Halt ==
  /\ MayHalt /\ ~halted
  /\ halted' = TRUE
  /\ excused' = {c \in Callers : place[c] \in Sending}
  /\ UNCHANGED <<next, place, course, lists, guard, txLock, vars, resolution>>

Resume ==
  /\ halted
  /\ halted' = FALSE
  /\ excused' = {}
  /\ UNCHANGED <<next, place, course, lists, guard, txLock, vars, resolution>>

Client(c) ==
  \/ Begin(c) \/ TestCraft(c) \/ EnterCraft(c) \/ ExitCraft(c) \/ Return(c)
  \/ Gate(c) \/ VerifyChain(c) \/ ChainUnknown(c) \/ TakeLock(c)
  \/ ReadAddress(c) \/ Divert(c) \/ Capture(c) \/ Build(c) \/ AskWallet(c) \/ Mined(c)
  \/ SendFails(c)
  \/ CheckStatus(c) \/ FindWithdrawal(c) \/ Ask(c) \/ Refuse(c) \/ Post(c)
  \/ NameAccount(c) \/ AskToSign(c) \/ WalletAnswers(c)
  \/ BeginLookUp(c) \/ EndLookUp(c) \/ PoolStep(c)

Wallet ==
  \/ \E c \in Callers : Signer(c)
  \/ \E w \in Tabs : Tab(w)

LookUps == Market \/ \E c \in Callers : LookingUp(c)

Over == (\A c \in Callers : place[c] = "over") /\ UNCHANGED everything

ClientNext ==
  \/ \E c \in Callers : Client(c)
  \/ Wallet /\ UNCHANGED <<client, resolution>>
  \/ LookUps /\ UNCHANGED <<client, vars>>
  \/ Halt
  \/ Resume
  \/ Over

ClientSpec == ClientInit /\ [][ClientNext]_everything

-----------------------------------------------------------------------------
(* Properties *)

ClientTypeOK ==
  /\ call \in Scenarios
  /\ next \in [Callers -> Nat \ {0}]
  /\ \A c \in Callers : next[c] <= Len(call[c].steps) + 1
  /\ place \in [Callers -> Places]
  /\ crafting \in Callers \cup {None}
  /\ captured \in [Callers -> Seq(Callers \X Nat)]
  /\ heard \in [Callers -> SUBSET (Nat \X {"sentinel", "hash"})]
  /\ ended \in [Callers -> Errors \cup {None, "returned"}]
  /\ ordered \cup excused \cup unchecked \subseteq Callers
  /\ status \in {"new", "verified", "minted"}
  /\ {halted, chainRead, verified, clashed} \subseteq BOOLEAN
  /\ chain \in Chains
  /\ txLock \in Callers \cup {None}

\* _tx_lock is held exactly by the thread that builds, has signed or waits for a
\* transaction: no error keeps it, and the wallet is asked for one at a time.
LockIsHeld == \A c \in Callers : txLock = c <=> place[c] \in Locked

\* Until two craft() have been entered at once, which only two threads can do
\* between the test and the setting of _crafting (primedelta.py:999-1002 "Not
\* thread-safe"), a scope belongs to the call that entered it.
InCraft(c) == call[c].craft /\ place[c] \notin {"start", "check", "enter", "entering", "over"}
CraftIsOwn == ~clashed => \A c \in Callers : crafting = c <=> InCraft(c)

\* What a place of a call says of its step.
PlaceFits(c) ==
  LET does == call[c].steps[next[c]] IN
  /\ place[c] \in Sending \cup {"account", "signing", "lookup"} => ~Finished(c)
  /\ place[c] \in Sending => does = "send"
  /\ place[c] = "account" => does = "account"
  /\ place[c] = "signing" => does = "sign"
  /\ place[c] = "lookup" => does \in Symbols
  /\ place[c] \in {"check", "enter", "entering", "exit"} => call[c].craft
  /\ place[c] = "preflight" =>
       At(c, "done") /\ \E a \in Accounts : outcome[c] = Says("account", a)
  /\ place[c] \in {"address", "account", "signing", "sent"} /\ At(c, "done") => outcome[c] # None
  /\ ~clashed /\ call[c].craft =>
       /\ place[c] \notin {"preflight", "sent"}
       /\ \A i \in 1 .. next[c] - 1 : call[c].steps[i] # "refuse"

PlacesFit == \A c \in Callers : PlaceFits(c)

VerifiedIsAccepted == verified => Accepted

\* What the list of a craft() holds: sends that are done, of each call in the
\* order of its steps; and as long as scopes do not clash, of its own call every
\* one, and besides them only sends of calls that are not crafted.
ListFits(d) ==
  /\ \A k \in DOMAIN captured[d] :
       LET c == captured[d][k][1]
           i == captured[d][k][2] IN
       i \in 1 .. next[c] - 1 /\ call[c].steps[i] = "send"
  /\ \A k, m \in DOMAIN captured[d] :
       k < m /\ captured[d][k][1] = captured[d][m][1] => captured[d][k][2] < captured[d][m][2]
  /\ ~clashed =>
       /\ \A k \in DOMAIN captured[d] :
            call[captured[d][k][1]].craft => captured[d][k][1] = d
       /\ call[d].craft => \A i \in 1 .. next[d] - 1 :
            call[d].steps[i] = "send" => \E k \in DOMAIN captured[d] : captured[d][k] = <<d, i>>

\* The entries of a list that are a given send, and the only list it is on.
Spots(tx, d) == {k \in DOMAIN captured[d] : captured[d][k] = tx}
OnlyOn(tx, d) == \A e \in Callers : e # d => Spots(tx, e) = {}

\* What a send returned says whether it is on a list.
HeardFits(c) == \A answer \in heard[c] :
  /\ answer[1] < next[c]
  /\ answer[2] = "sentinel" => \E d \in Callers : Spots(<<c, answer[1]>>, d) # {}
  /\ answer[2] = "hash" => \A d \in Callers : Spots(<<c, answer[1]>>, d) = {}

ListsFit == \A d \in Callers :
  /\ ListFits(d) /\ HeardFits(d)
  /\ \A k \in DOMAIN captured[d] : OnlyOn(captured[d][k], d)

\* A call that returned, or is about to, has made all of its steps.
EndsFit == \A c \in Callers :
  /\ ended[c] = "returned" => place[c] = "over" /\ Finished(c)
  /\ place[c] = "exit" /\ ended[c] = None => Finished(c)

\* The states of the client, of its bridge and of its look-ups fit together: the
\* types, the lock, the scope of craft() and its list (as long as no two have been
\* entered at once), and the operations parked in the bridge.
ClientIInv ==
  /\ ClientTypeOK /\ LockIsHeld /\ CraftIsOwn /\ PlacesFit /\ VerifiedIsAccepted
  /\ ListsFit /\ EndsFit
  /\ IInv /\ ResolutionIInv

\* What runs in craft() has no effect: none of its transactions reaches the
\* wallet, and an action that refuses to be crafted is not carried out, whatever
\* threads that do not craft do on the client meanwhile, and also when two craft()
\* overlap, the later being refused (primedelta.py:969-976 "WITHOUT broadcasting").
\* Nothing is said once two have been entered at once, nor of an action that does
\* not refuse (the agent calls of primedelta.py:1121-1146 act for real).
Guarded(c) == \A i \in DOMAIN call[c].steps :
  call[c].steps[i] = "post" => \E j \in 1 .. i - 1 : call[c].steps[j] = "refuse"
CraftHasNoEffect ==
  ~clashed => \A c \in Callers : call[c].craft =>
    ask[c].op # "send" /\ (Guarded(c) => c \notin ordered)

\* craft() returns one transaction for each send of its action, in send order,
\* and besides them only sends of calls that are not crafted themselves: unless
\* two craft() have been entered at once.
Own(c) == {k \in DOMAIN captured[c] : captured[c][k][1] = c}
CraftIsComplete ==
  ~clashed => \A c \in Callers : call[c].craft /\ ended[c] = "returned" =>
    /\ {captured[c][k][2] : k \in Own(c)} =
         {i \in DOMAIN call[c].steps : call[c].steps[i] = "send"}
    /\ \A k, m \in Own(c) : k < m => captured[c][k][2] < captured[c][m][2]
    /\ \A k \in DOMAIN captured[c] \ Own(c) : ~call[captured[c][k][1]].craft

\* A send that came back with the placeholder hash was put on exactly one list,
\* and once, one that came back with a hash on none: also when two craft() clash.
SentOrListed ==
  \A c \in Callers : \A answer \in heard[c] :
    LET tx == <<c, answer[1]>> IN
    IF answer[2] = "sentinel"
    THEN \E d \in Callers : OnlyOn(tx, d) /\ \E k \in DOMAIN captured[d] : Spots(tx, d) = {k}
    ELSE \A d \in Callers : Spots(tx, d) = {}

\* The lists of craft() are exact, also when other threads send on the client
\* meanwhile, whose sends go on the same list (primedelta.py:999-1001), or find
\* it gone.  A list is lost with its craft() when that raises, and a stray send
\* with it.
ListsAreExact == CraftIsComplete /\ SentOrListed

\* After halt() no further transaction passes, until resume(): only those that
\* were in the send path when it was called may still be sent, one for each
\* thread (primedelta.py:2517-2520 "every subsequent on-chain send").
HaltHolds == halted => \A c \in Callers : place[c] \in Sending => c \in excused

\* On an endpoint of another chain nothing is sent or crafted, except by a call
\* whose own check could not read the chain; a check that was skipped does not
\* spare the next one (CHANGELOG.md:151-158).
WrongChainIsRefused ==
  ~Accepted => \A c \in Callers : place[c] \in Sending \ {"gated"} => c \in unchecked
=============================================================================
