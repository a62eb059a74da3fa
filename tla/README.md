# Formal models of the Prime Delta Python SDK

This directory holds TLA+ specifications of the parts of `primedelta-python`
whose correctness depends on the order in which things happen: threads that
share one client, a wallet in a browser page, a backend session that expires, a
blockchain node that lags, drops and refuses, and pools that move between what
the client reads and what it sends. Each specification is model-checked with TLC
on small instances; the wallet bridges, the on-chain sender, the session, the
approvals, the oracle-pool quotes, the positions, the look-ups and the client that joins them are
also proved with TLAPS, for any number of calls, threads, pages, tokens and amounts.

Paths below are relative to the repository (`src/primedelta/...`).

## 1. The system

The SDK is a library: it has no process of its own. An application builds one
`PrimeDelta` client and may call it from several threads. What is shared and
mutable:

| Component | Code | State | Operations | Interacts with |
|---|---|---|---|---|
| Loopback wallet bridge | `browser.py`: `_LoopbackBridge`, `_SESSION_PAGE` | `_jobs`, `_late`, `_queue`, `_polling`, `_last_poll`, `_server`, `_closed` under one condition variable; per page: the job it shows | `request`, `close`, `GET /`, `GET /next`, `POST /result`, the cancel event and late hook of `signing_call` | the browser page (HTTP), the user's wallet, the caller's thread |
| Remote wallet bridge | `browser.py`: `_RemoteBridge`, `RemoteBrowserSigner` | `_pending` under a lock; the signer's `_address` | `address`, `sign_message`, `submit_transaction`, `render`, `resolve` | the application's own web server and `deliver` callback, the send path |
| On-chain sender | `primedelta.py`: `_sending` ... `_reserve_nonce`, `clear_stuck_transactions` | `_tx_lock`, `_next_nonce`, `_sent_nonces`, `_halted` | send a call, send DEL, clear, halt, resume | signer, RPC node (several replicas), another application with the same key |
| Backend session | `primedelta_client.py`: `_request` ... `logout`; `primedelta.py`: `login`, `logout`, `import_session` | cookie jar, `_csrf_token`, `_relogin`, `_login_lock`, `_login_attempts` | GET, mutation, login, logout, keep-alive | backend; the wallet signs each login |
| Reads after writes, approvals | `primedelta.py`: `_note_write`, `_fresh_block`, `_read_at_block`; `dex/handlers.py`: `_approve_if_insufficient`, `_set_allowance` | `_last_write_block`; the allowances on chain | swap, add liquidity, deposit, approve | sender, RPC replicas |
| Crafting | `primedelta.py`: `craft`, `_crafting_scope`, `_reject_backend_action_while_crafting` | `_crafting`, read and written without a lock | craft | the send path of every operation and thread, orders and withdrawals |
| Send guards | `primedelta.py`: `_sending`, `_verify_chain`, `_install_chain_id_cache`, `halt`, `resume` | `_halted`, `_chain_verified`, the provider's `eth_chainId` | every send | sender, crafting |
| Oracle pools | `dex/handlers.py`: `add_quote`, `_lp_position`, `oracle_quote`, `_DclexPoolHandler` | none | quotes, positions, adds, removals, swaps | the pool and router contracts, signed prices, other traders and LPs |
| Oracle-free positions | `dex/handlers.py`: `_AMMPoolHandler`; `primedelta.py`: `lp_positions` | none | add, increase, remove, collect, burn, preview, list | the position manager, the sender, other wallets |
| Symbols and pools | `dex/handlers.py`: `_resolve_stock_token`, `_pool_takes_bounds`, `_lookup_amm_pool_address` | three caches of the module, shared by all clients, without a lock | look up a token or a pool | every DEX operation |
| Signers | `signer.py` | key material | sign, submit | node, KMS |
| Mint platform calls | rest of `primedelta.py`, `primedelta_client.py`, `types.py` | none of their own | identity, deposits, claims, withdrawals, orders, AI agents: a few REST calls and sends each; the others one REST call each | backend, wallet, send path |
| Price streams | `prices_stream`, `pyth_prices_stream` | none | iterate server-sent events | backend, Hermes |
| Configuration | `settings.py`, `networks/`, `contracts.py` | none after start | load | files, environment |

### What is hard, and what makes each component correct

* **Wallet bridge.** Handler threads, caller threads, tabs that are closed
  mid-write, cancellation, timeouts and `close()` interleave around four tables.
  A transaction the user approves cannot be taken back, so: a request is shown to
  the wallet at most once; an error that says "nothing was sent to the wallet" is
  true for ever; the caller hears what the wallet answered and nothing else; a
  late transaction hash reaches the hook once; nobody waits for ever.
* **Sender.** The node answers from replicas that lag, may drop a transaction,
  may refuse or lose a broadcast; receipts time out. A send takes effect at most
  once however often it is retried; what the caller is told is true; no nonce is
  skipped and nothing queues behind somebody else's stuck transaction; a clear
  that comes through has unblocked the account; every exit releases the lock.
* **Session.** Expiry meets concurrency: one login (one wallet prompt) per burst
  of 401s, nothing is carried out twice by a resend, every call returns.
* **Approvals.** Read, approve and use are three steps: other threads and stale
  replicas come between them.
* **Remote bridge.** Tabs answer late, twice or never, in any number: an answer
  that came in time is heard, and what is returned was said to that very call.
* **Oracle pools.** Integer arithmetic that rounds up here and down there, on reads
  that need not be of one block: a quote must be what the pool does, or on the safe
  side of it.
* **Oracle-free positions.** Owner, liquidity, allowances and the list of
  positions are read before they are used, and the pool decides which token comes
  first: nothing may change sides, nothing be given away, nothing half emptied.

* **Crafting and the send guards.** `_crafting` belongs to the client, not to the
  thread: what one thread crafts, another's send may land on, and the flag is read
  only when the wallet has given its address, minutes later perhaps. Nothing
  crafted may take effect, no send may be lost or doubled between the lists and the
  wallet, the lock is released on every way out, and the kill switch and the chain
  check stop what comes after them.
* **Look-ups.** A cache that several threads fill, each with what it read a while
  ago, from a batch or a scan that may fail in part: a ticker must mean a token that
  has that name, lately, and the first one of it; a miss must not be remembered.

`PROJECT.json` lists each hazard at its line, with the properties that watch it.

## 2. The modules

| Module | What it is |
|---|---|
| `WalletCalls` | abstract: what a wallet signer promises its caller |
| `LoopbackBridge` | the bridge and its page, one step per critical section |
| `MCLoopbackBridge` | its instances for TLC: symmetry and a view |
| `LoopbackBridgeProofs` | the proofs about it |
| `TxSender` / `MCTxSender` | the on-chain send path |
| `TxSenderProofs` | the proofs about it |
| `Session` / `MCSession` | the authenticated session |
| `SessionProofs` | the proofs about it |
| `Approvals` / `MCApprovals` | reads after writes, and the flows that read an allowance, approve and spend |
| `ApprovalsProofs` | the proofs about it |
| `Threads` | the threads that the parts of one client share |
| `RemoteBridge` | the hosted wallet page and its signer |
| `Resolution` | tickers to tokens, tokens to pools |
| `HostedClient` / `MCHostedClient` | public calls, `craft()` and the guards of the send path, composed with `RemoteBridge` and `Resolution` |
| `HostedPartsProofs` | the proofs about `RemoteBridge` and `Resolution` |
| `HostedClientProofs` | the proofs about the client, from these |
| `OraclePool` / `MCOraclePool` | quotes and positions of an oracle-priced pool, and the transactions sent with them |
| `OraclePoolProofs` | the proofs about it |
| `Positions` / `MCPositions` | oracle-free positions |
| `PositionsProofs` | the proofs about them |

Definitions named `X_Something` just before `X` are plausible bugs of `X`. No
specification uses them: putting one in the place of `X` must break the property
`PROJECT.json` names for it, which shows that the property can tell the code
from a broken version of it.

### LoopbackBridge

`jobs`, `late`, `queue` are the keys of the bridge's tables; `dispatched`,
`closedJob`, `result` the fields of a job; `bridge` is `_server` and `_closed`
together; `recent` says that `_last_poll` is within `tab_grace_seconds`;
`window` is `opened_at`, `reopened` and `_page_loaded` as `_wait` sees them.
A call is named by its state token. A page is one load of the session page: the
page script and the handler thread it is waiting for take turns, so one variable
`tab` says where both are. Actions of a caller's thread are `Begin` (the checks
and `_start`), `Enqueue` (first critical section of `request`), `OpenPage`,
`Reopen`, `Wake`, `GiveUp`, `NoticeCancel` (the ways through `_wait`) and
`Finish` (the `finally` block and the verdict). `Discard`, `Dispatch` and
`PollEmpty` are the ways out of `_next_job`; `Deliver`, `DeliverToNobody`,
`Requeue` are the reply and its failure; `TakeLate`, `Resolve`, `AckLate` the
three steps of `do_POST`. Deadlines are nondeterministic: each may pass at any
moment.

The history variables `shown`, `answer`, `refused`, `reported` record what the
wallet was given, what it said, whose answer got a 404, whose hash was reported.

`WalletCalls` has four steps: the wallet is shown a request, it answers, the
caller is told, the late hook is told. `LoopbackBridge` implements it with
`shown`, `answer`, `Told(outcome)` and `reported` for its variables.

### TxSender

The node is `chain` (mined transactions of the account, in nonce order) and
`pool` (who holds each unmined nonce). Replicas show at the action that reads:
`ReadLatest` may return any nonce up to `MaxLag` behind, `ReadPending` any
pending nonce the pool supports. One call is a thread: `Enter` (`_halted`),
`Acquire` (`_tx_lock`), `ReadLatest`, `ReadPending`, `EstimateFails` /
`CannotPay` (`_gas_limit`), `Reserve`, `Submit` (before the signer), one of
`Accepted`, `BroadcastFails`, `Refused`, then `Receipt`, `TimesOut` or
`PollFails`. `Raise` is the `except TransactionFailed` of
`_send_with_nonce_retry`. `clear_stuck_transactions` shares `Submit` and the
broadcast with the sends, and adds `FindStuck`, `Replace`, `Settle`,
`SettleTimesOut`, `Cleared`. `evicted` and `unwatched` are history: nonces where
the node dropped what it had taken and took nothing since, and nonces of ours that
no call looks after any more: its broadcast failed on the way back, its receipt poll
failed, or the clear that replaced it left. `foreign` is history too: the nonces the
other application took while they were in `_sent_nonces`, or that were put there while it
held them. The code tells whose a transaction is by its nonce, so these count as the
client's own; `QueuesBehindOwn` says that nothing else of the other application is ever
below a nonce being signed, and `StuckIsRaised`, which the docstring promises and which
looks at who holds the nonce, is refuted.

The `pending` nonce is the largest prefix the node holds; the model lets a
replica know fewer. Gas price and amounts are abstracted: "cannot pay" and
"reverts" are choices.

### Session

`valid` are the sessions the backend accepts, `cookie` the one in the jar,
`token` whether `_csrf_token` is None, fits the CSRF cookie or is stale. A
request is `Start` (reads `_login_attempts`; a logout disarms the keep-alive),
`FetchToken`, `Send`, `Process` (the backend and the network together), then
`DropToken` (the 403 retry), `Handle`, and after a 401 `ShareLogin`, or
`StartRelogin`, `CallRelogin`, `Verify` / `LoginFails`, `FinishLogin`.
`StartLogin` is a direct `login()`. The two nested `login_attempt()` of an
automatic login each count, as they do in the code. `midLogin`, `from`,
`signers`, `failed` are history.

### Approvals

`allowance` is the history of one token's allowance for one spender, a block per
transaction of the client that went through; `spender` is what differs between
the flows: the router and the position manager need at least the amount and ask
for no more than it, a pool gets exactly the cap and, if it takes no bounds, asks
for whatever its reserves say. A flow is `Pin` (`_fresh_block`),
`ReadAllowance` (`_read_at_block`, with its fall back to "latest", and the
comparison), then once or twice `BeginSend`, `FindStuck`, `EstimateReverts` or
`Broadcast`, `Receipt` or `GiveUp`: the send path of `TxSender` cut down to what
becomes of a transaction and when its sender hears of it. A transaction that was
given up may still mine. `stale` and `raced` are history: the calls whose read
missed a transaction of ours, and those another transaction of ours overtook
between their read and their use; what the flows promise, they promise to the
others.

### RemoteBridge

`pending` is `_pending`, an entry being the operation's result and its event;
`address` is the signer's `_address`; a token is the number of a request of a
thread. A thread is `Call` (`address` or `sign_message`) or `Submit`
(`submit_transaction`), then `Connect` or `UseAddress` (the address property, and the
signature that reads it first), each with `Park` (the first critical section of
`request`), `HandOver` with `DeliverReturns` or `DeliverRaises`, `Wake` or `TimeOut`
(the two ways out of `event.wait`), `ReadResult`, `Leave` (the `finally`), and
`StoreAddress`. A tab is `OpenUrl` (`render()`, for a token that is known, or a
refusal), `WalletSays` and `Resolve`. The deadline may pass at any moment; the user
may open a URL as soon as `deliver` has it, also twice, and answer whenever they
like. The module has no configuration of its own: its properties are checked, and
its actions all taken, below the calls of `HostedClient`.

### Resolution

`cache` is `_STOCK_ADDR_CACHE`, `pools` `_POOL_ADDR_CACHE`. A look-up is `LookUp` (a
hit answers at once), `ReadList` or `ListFails`, `ReadBatch` or `BatchFails`, then
`KeepRows` (the batch: every name it returned is cached) or one `Scan` for each
token up to the first match, `ScanEnds`, and `Keep`. `AskPool` and `PoolFails` are
`_lookup_amm_pool_address`. `names` is the history of what the tokens were called;
`seen` goes with what a look-up reads and caches: the span of that history it could
have seen, and the tokens it could not read. `LookUpsAreTrue` is stated on that
evidence. `KeepRows` caches its rows in one step: the loop makes no call, and a
reader between two of its assignments would see an older entry, which the cache
already allows. `AskPool` is one step: the cache of pools only grows, and so does
the set of pools. Its read of the factory is taken as that of a replica that is up to
date; one behind the creation of a pool would call its token oracle-priced once more,
and nothing of that is remembered. `contracts.pools` is empty on every bundled network.

### HostedClient

The public calls of one client whose wallet is behind a hosted page. It EXTENDS
`RemoteBridge` and `Resolution` and changes their variables only through their
actions; `client` are its own. A call is a sequence of steps (`Identity`,
`DepositStock`, `ClaimStablecoin`, `LimitOrder`, `LinkAgent`, `InstrumentKind`, ...:
one definition for each kind of public call, with the order of its requests, reads of
the account, look-ups and sends), `next` is the step a thread is at, `place` where in
it. A send is `Gate` (`_halted`), `VerifyChain` or `ChainUnknown` (with the
provider's cache of the chain id under `_chain_verified`), `TakeLock`,
`ReadAddress`, then `Divert` and `Capture` (a craft is on: the list that is there by then,
a placeholder hash) or `Build`, `AskWallet`, `Mined`, and `SendFails` from each of them.
`Begin`, `TestCraft`, `EnterCraft` and `ExitCraft` are `craft()`; `Refuse` is
`_reject_backend_action_while_crafting`; `Post` is an order, a withdrawal or the
confirmation of an agent. `_crafting` is not locked, and each test of it is a step apart
from what follows: two threads may both find it free and enter, and a list may be another
one, or gone, when a send comes to it. `clashed` is history and says that two `craft()`
have been entered at once. `heard`, `ordered`, `excused` and `unchecked` are history too.

What is abstracted: the platform answers a request or fails it, as it likes
(`Session` has how); what a receipt says is a choice (`TxSender` and `Approvals` have
what it means). Only `VerifyChain` sets `chainRead`: in the code other calls fill the
provider's cache too, after which `ChainUnknown` is no longer possible, so the
model allows more. With a key signer `craft()` runs the same lines with an address
that is known at once.

### OraclePool

`pool` is the contract's reserves and LP supply, with what the client found out
about it: whether its calls take bounds, and whether supply and reserves are read
at one block (by Multicall3, or pinned because the client has sent before).
`seen` is what the reads returned, `quote` what the client told the user, `order`
what was sent. `AskPool`, `ReadReserves`, `AddQuote` and `Position` are
`add_quote` and `_lp_position`; `AskSwap`, `ReadReserves`, `OracleQuote` or
`RefuseQuote` are `oracle_quote`, which reads the multiplier last; `Send` sends
with the bounds the quote gives. The price inside a signed update is a number
(`_share_price_wad` decodes and checks it); the 28 digits of `Decimal` are not
modelled.

The pool and the router are external: an add takes the LP's part of a reserve
rounded up to it or at most one unit below (`Takes`), a removal pays it rounded
down (`Pays`), a swap charges the rate of the trade or of a part of it, which is
what a comment in `oracle_quote` says of the deployed versions. Others add, remove,
trade, sign prices and split shares meanwhile.

### Positions

`chain` is the position manager, the price and the two allowances; `before` is the
block before, which a replica may still answer from (`Views`); reads are not
pinned, except the allowances. `order` is token0 and token1. A call is `Begin`, a
refusal or its reads (`ReadPool`; `ReadOwner`, `ReadPosition`; `ReadCount`,
`ReadNext`; `Preview`), `ReadAllowance` and `Approve` for each token, then `Add` or
`Multicall`, their reverts, or `Fails` (the kill switch, a deadline, the rest of the
send path). A transaction is mined at once: what becomes of it on its way is
`TxSender`'s and `Approvals`' matter. Liquidity is counted in units worth `price`;
ticks, square roots and rounding are the contracts'. `changed` is history: what a
call depends on and somebody else changed since a block before it began.

## 3. The runs

| Run | Expect | Checks | Shows |
|---|---|---|---|
| `bridge_safe` | pass | `IInv`, `HonestOutcome`, `ClosedForgets`, `KeepsPromise`, `ShownOnce` | Two concurrent requests and two pages under every interleaving of callers, handler threads, tab closings, cancels, timeouts and close(): the inductive invariant of the proofs, honest errors, one showing per request, and that the bridge implements WalletCalls. |
| `bridge_patient` | pass | `EveryRequestReturns` | With a user who answers every prompt and closes no tab, each of two requests that has started comes back, whatever cancel and close() do. |
| `bridge_late_race` | violation | `AnswersAccepted` | A late answer can fall between do_POST's two critical sections and get a 404. |
| `tx_send` | pass | `TypeOK`, `AtMostOnce`, `TruthfulOutcome`, `NoncesInOrder`, `ClearedMeansMined`, `SendsReturn` | Two concurrent sends, or a send and a clear_stuck_transactions, on an account another application also uses, with lagging replicas, drops, reverts, timeouts, refused and lost broadcasts, and the kill switch: what the outcomes and the nonces promise, what a clear that comes through promises of the account, and that every call let into the send path comes out of it. |
| `tx_stuck` | violation | `StuckIsRaised` | A broadcast that never reached the node leaves its nonce in _sent_nonces; when another application's transaction takes that nonce, the next send counts it as the client's own and signs behind it. |
| `session_share` | pass | `TypeOK`, `CarriedOutOnce`, `OneLoginPerBurst`, `RejectionsHandled`, `CallsReturn` | A GET, a POST and a direct login(), or a POST and a logout(), on one client whose sessions may expire at any moment: no request is carried out twice, there is one automatic login per burst, a resend carries a new session, a request that started while no login was running does not sign in over a good one, and no call waits for ever for the login lock or loops on 401s and 403s. |
| `session_logout` | violation | `LogoutSticks` | An automatic login that is in flight while logout() runs sets a new session after it. |
| `session_relogin` | violation | `RejectedIsResent` | A request that starts while a direct login() is running, and gets its 401 before that login has finished, logs in once more over its good session. |
| `approve_flows` | pass | `IInv`, `ReadsHeardWrites`, `CapKept`, `NeededApproveSent` | Two flows that spend and one approve() or revoke_approval(), for each kind of spender, on replicas that lag, with transactions that time out, mine later or are dropped: reads reflect the client's own writes, and an accurate read that nothing of ours overtakes leads to an allowance that fits. |
| `hosted_client` | pass | `ClientIInv`, `AnswerIsOwn`, `DeadlineIsClean`, `CraftHasNoEffect`, `ListsAreExact`, `HaltHolds`, `WrongChainIsRefused`, `LookUpsAreTrue` | Pairs of public calls on one client with a hosted wallet: a craft() beside a send, a craft() beside or within another's, a claim beside an approve and a swap, a signature beside a send, an order and a confirmation of an agent in a craft(), and look-ups of tickers and pools. With two tabs that open any URL and answer late, twice or never, endpoints of another chain or that do not answer, the kill switch, threads that come between the test and the use of _crafting, and tokens that are renamed, of one name or unreadable. |
| `oracle_quotes` | pass | `TypeOK`, `BudgetKept`, `PromiseInPool`, `AddQuotesHold`, `PositionsHold`, `QuoteIsFloor` | Adds, removals and swaps quoted from reads of a pool that moves meanwhile, with and without reads at one block, with and without bounds, and every rate a pool version may charge: what the quotes promise of the transactions sent with them. |
| `amm_positions` | pass | `TypeOK`, `DoesAsAsked`, `PreparedIsAccepted`, `ListIsExact` | Two of add, increase, remove, collect, burn, preview and list on one wallet, with a trade, a position that changes hands or liquidity a stranger adds in between, on replicas a block behind, for both orders of the two tokens. |

### Bounds, symmetry, views

* Two calls and two pages are the smallest bridge where a request can meet
  another's busy tab, a page can come back with an answer while a second page
  polls, and a requeued job can overtake another.
* Two sends are what the nonce bookkeeping is about (the one that went wrong and
  the next one); `MaxNonce = 1` gives nonces 0 and 1, so the second send can
  collide with, follow or skip the first; sends that would need nonce 2 wait.
  `MaxLag = 1` lets a replica miss one transaction. `MaxTries` and `MaxLooks`
  stand for the code's 5 and 5: the loops carry no state from one round to
  another beyond what the model keeps, so two rounds show a retry and one look
  more shows a recheck. `Together` lets two calls take part, two sends or a send and a
  clear; which of the sends enters first does not matter, so it is always the same one.
* Three calls are the fewest with two requests that meet one 401 beside a direct
  `login()`; `Together` of `MCSession` lets a `logout()` meet a mutation only. The proofs
  know none of these restrictions.
* Two flows and one `approve()` are the fewest that can spend, overwrite and
  revoke each other's allowance; amounts 0 to 2 tell "none", "less", "equal" and
  "more" apart; `MaxLag = 1` lets a replica miss one block.
* Sessions are bounded by the number of calls: each call logs in at most once.
* `hosted_client`: two threads are the fewest that can race for `_address`, for
  `_crafting` or for the cache; two tabs let two pages answer one call, or one page
  each; three requests of a thread (`MaxRequests`) are an address, a second address
  and a transaction. `MCScenarios` are eight pairs of calls: a craft of two sends
  beside a send (`Crafting`), two crafts at once (`Nesting`), a claim beside two
  sends (`Trading`), linking an agent beside a send (`Signing`), an order in a craft
  beside two withdrawals and a mint (`Ordering`), the confirmation of an agent in a craft
  beside a send (`Linking`), look-ups (`Naming`) and look-ups with
  pools (`Sorting`). To keep them small, each leaves something as it is: the endpoint
  may be of another chain in `Trading` and `Nesting` and be the local node in
  `Nesting`; `halt()` is called in `Crafting` and `Trading`; tokens are renamed and
  the clock goes in `Naming`, where single reads do not fail; pools are created in
  `Sorting`; the wallet is connected from the start in `Nesting`, `Trading` and `Linking`, and
  either way in `Signing`. The proofs know none of these restrictions.
* Two tokens are the fewest with one name; one renaming, one tick and a time to live of
  one let an entry be fresh, stale, or filled by a slower look-up than the last.
* `oracle_quotes`: a `Wad` of 100 and a `Scale` of 2 leave remainders in every
  division, which is where the roundings differ; reserves to 6, 3 LP units, two
  changes between the first read and the transaction (a torn read needs one, a
  torn read that is then overtaken two). The proofs do away with these bounds.
* `amm_positions`: two calls, three positions (one of the wallet's, one of the
  wallet's or a stranger's, one to be minted) and one move of others: with the other
  call, two actors come between the steps of a call. Desired amounts and minima
  differ between the sides, so that a swap of sides shows; one price has a zero
  side, as a position out of range does.
* `SYMMETRY` is used in runs without liveness only, over calls of the same kind
  and over pages; no property or configuration tells them apart.
* `VIEW LiveState` (bridge, sender, session, approvals) identifies states that differ only in
  locals no action or property reads again: the fields of a call that has
  returned, the job of a page that holds none, a session no request carries, the block a
  finished read was pinned to, the history of nonces that are mined.

### Fairness

* `LoopbackBridge!PatientSpec`: threads are scheduled (weak fairness of each
  caller, handler and page) and the grace period passes. The user is patient: no
  timeout, no closed tab, every prompt answered. Nothing makes anybody cancel or
  close.
* `TxSender!FairSpec`: a thread in the send path goes on. The wait for a receipt
  has a deadline (`receipt_timeout`) and every RPC call has one, so `TimesOut`
  or `PollFails` is always possible; nothing is assumed of the chain.
* `Session!Spec`: every request gets a response or times out (`_HTTP_TIMEOUT`),
  and a thread that can step does. Nobody has to start a call.

`HostedClient` (with `RemoteBridge` and `Resolution`), `OraclePool`, `Approvals` and
`Positions` have safety properties only and assume no fairness.

### Properties in two parts

Some properties are a conjunction of two that belong together: `NoncesInOrder` is
`QueuesBehindOwn` and `SkipsNone`, `RejectionsHandled` is `ResendsWithNewSession` and
`QuietStartSparesLogin`, `DoesAsAsked` is `SidesKept` and `AddsToOwn`,
`DeadlineIsClean` is `InTimeIsHeard` and `RefusedIsOver`, `ListsAreExact` is
`CraftIsComplete` and `SentOrListed`, `LookUpsAreTrue` is `ServedIsRecent`,
`FirstIsServed` and `KindIsTrue`.

## 4. What is proved

* `LoopbackBridgeProofs!Invariance` (`IInv`): The inductive invariant of the bridge holds in every reachable state, for any sets of calls and pages.
* `LoopbackBridgeProofs!TypeCorrect`: Every variable of the bridge keeps its type.
* `LoopbackBridgeProofs!QueueIsSound`: Every queued request is pending, undispatched and queued once, so that _next_job never meets a state it has no job for.
* `LoopbackBridgeProofs!OutcomesAreHonest` (`HonestOutcome`): An error that says nothing was sent to the wallet is true when it is raised and stays true.
* `LoopbackBridgeProofs!NothingShownTwice` (`ShownOnce`): No request is given to a wallet twice.
* `LoopbackBridgeProofs!BridgeKeepsPromise` (`KeepsPromise`): The bridge implements WalletCalls, by a refinement mapping, for any sets of calls and pages.
* `LoopbackBridgeProofs!ClosingForgets` (`ClosedForgets`): After close() no request is kept for a late answer and every one a page has is resolved.
* `TxSenderProofs!Invariance`: The inductive invariant of the send path holds in every reachable state, for any sets of sends and clears, any lag of the replicas and any number of nonces, tries and looks.
* `TxSenderProofs!TypeCorrect` (`TypeOK`): Every variable keeps its type: what is signed, counted as sent or replaced are nonces of the account.
* `TxSenderProofs!TakesEffectOnce` (`AtMostOnce`): However often a send starts over, whatever the node drops, refuses or loses, it takes effect at most once.
* `TxSenderProofs!OutcomesAreTrue` (`TruthfulOutcome`): A hash that is returned is of a transaction that succeeded, and an error that says that nothing was sent, that it was refused or that it reverted leaves nothing that could still run.
* `TxSenderProofs!NoncesAreInOrder` (`NoncesInOrder`): Below the nonce being signed every unmined transaction is at a nonce the client sent at and watches no more, and is the client's own unless another application's took that nonce while _sent_nonces had it; and no nonce is left out, except where the node dropped what it had taken.
* `TxSenderProofs!ClearedIsMined` (`ClearedMeansMined`): A clear_stuck_transactions that comes through has seen every nonce it found stuck mined, and the replacements it names.
* `SessionProofs!Invariance`: The inductive invariant of the session holds in every reachable state, for any finite set of calls.
* `SessionProofs!TypeCorrect` (`TypeOK`): Every variable keeps its type; no more sessions come into being than calls, since no call logs in twice.
* `SessionProofs!CarriesOutOnce` (`CarriedOutOnce`): However a mutation is sent again after a 401 or a 403, the backend carries it out at most once, and its caller hears what agrees with that.
* `SessionProofs!SharesOneLogin` (`OneLoginPerBurst`): Of the requests that read the same count of login attempts one asks the wallet to sign, also when that login fails.
* `SessionProofs!RejectionsAreHandled` (`RejectionsHandled`): A resend after a 401 carries another session than the rejected one, unless the login failed or somebody logged out, and of the requests that started while no login was running none replaces a session that is good, for any calls. Requests that start during a login do (session_relogin).
* `ApprovalsProofs!Invariance` (`IInv`): The inductive invariant of Approvals holds in every reachable state, for any sets of flows, amounts and lag.
* `ApprovalsProofs!ReadsAreFresh` (`ReadsHeardWrites`): A pinned read reflects every write of the client that any thread had heard of.
* `ApprovalsProofs!CapsAreKept` (`CapKept`): A pool that enforces no bounds takes no more than the caller's cap, unless the read missed, or another transaction of the client overtook, the flow.
* `ApprovalsProofs!NeededApprovesAreSent` (`NeededApproveSent`): No approve that is needed is skipped: a spender is refused the token only when the read missed, or another transaction of the client overtook, the flow.
* `ApprovalsProofs!TypeCorrect`: Every variable of Approvals keeps its type.
* `OraclePoolProofs!TypeCorrect` (`TypeOK`): No reserve, balance, quote or minimum is ever negative, for any amounts, prices, multipliers and fee curve.
* `OraclePoolProofs!AddCostsAtMostBudget` (`BudgetKept`): An add sized by a dUSD budget costs at most the budget and is the largest that does.
* `OraclePoolProofs!PromiseIsInPool` (`PromiseInPool`): A quoted swap promises less than the reserve it is paid from holds, for any fee curve with some sensitivity.
* `OraclePoolProofs!AddTakesItsQuote` (`AddQuotesHold`): When nothing moved an add takes exactly the quoted amounts and does not revert.
* `OraclePoolProofs!PositionIsPaid` (`PositionsHold`): A removal pays at least the position shown, whatever other LPs added and removed meanwhile.
* `OraclePoolProofs!QuoteIsTheFloor` (`QuoteIsFloor`): When nothing moved a swap is filled at the quote or better, whatever part of the trade the pool's rate is taken for.
* `HostedPartsProofs!BridgeInvariant`: The inductive invariant of RemoteBridge holds for any number of threads, tabs, accounts and requests.
* `HostedPartsProofs!PendingIsExact`: The parked operations are exactly those of the calls inside request(): none is left behind and none is missing when it is read.
* `HostedPartsProofs!AnswersAreOwn` (`AnswerIsOwn`): A call returns only what the wallet said to a page of that very call.
* `HostedPartsProofs!DeadlinesAreClean` (`DeadlineIsClean`): An answer accepted in time is never a time-out, and a refused page belongs to a call that is over.
* `HostedPartsProofs!ResolutionInvariant`: The inductive invariant of Resolution: what is cached or half read is supported by the names seen, for any tokens, tickers, threads and times to live.
* `HostedPartsProofs!AnswersAreTrue` (`LookUpsAreTrue`): A look-up serves a token that had the name, the first that has it, less than the time to live ago, and a kind that is true.
* `HostedClientProofs!ClientInvariant` (`ClientIInv`): The lock, the places of the calls, the bridge and the look-ups fit together, for any calls in any number of threads, and so do the scope of craft() and its list until two craft() have been entered at once, which nothing in the code prevents.
* `HostedClientProofs!ClientUsesBridge`: Every behaviour of the client is, seen from the bridge, a behaviour of RemoteBridge: the calls around it ask nothing that its threads do not.
* `HostedClientProofs!ClientUsesLookUps`: Every behaviour of the client is, seen from the caches, a behaviour of Resolution.
* `HostedClientProofs!HaltIsObeyed` (`HaltHolds`): After halt() only the sends it found under way are in the send path, for any number of threads.
* `HostedClientProofs!WrongChainsAreRefused` (`WrongChainIsRefused`): On another chain only a call whose own check could not read the chain passes it.
* `HostedClientProofs!CraftsHaveNoEffect` (`CraftHasNoEffect`): Until two craft() have been entered at once, no call inside craft() has the wallet send, and none whose action refuses to be crafted before it acts has the platform act, whatever threads that do not craft do meanwhile and however overlapping craft() are refused.
* `HostedClientProofs!ListsAlwaysExact` (`ListsAreExact`): A send that came back with the placeholder hash is on one list, once, and one with a hash on none, whatever threads send or craft. Until two craft() have been entered at once, a craft() that returns has listed exactly the sends of its action, in their order, and besides them only sends of calls that are not crafted.
* `PositionsProofs!Invariant`: The inductive invariant of the positions holds in every reachable state, for any number of calls, ids and moves of others, any amounts and prices, and both orders of the tokens.
* `PositionsProofs!TypeCorrect` (`TypeOK`): Every variable keeps its type: no allowance and no liquidity is ever overdrawn.
* `PositionsProofs!AlwaysEnumerated`: Through every mint, burn and transfer the manager enumerates the wallet's positions, each once: what lp_positions() relies on when it reads an index at a time.
* `PositionsProofs!AsAsked` (`DoesAsAsked`): A call that came through paid, took and reported for each side what its caller asked for, whichever token the pool has first, and what it paid for is the wallet's.
* `PositionsProofs!Accepted` (`PreparedIsAccepted`): What a call prepared is accepted, unless what it prepared it from changed meanwhile.
* `PositionsProofs!ExactList` (`ListIsExact`): A list read an index at a time is the wallet's positions, each once, unless one came or went meanwhile.

### LoopbackBridgeProofs

From `BridgeAssumption` only (`Sends`, `Hooked`, `Cancellable` are sets of calls;
`NoCall` is not a call); the sets need not be finite.

The argument. `HonestOutcome` is not inductive: a call that has been told
"nothing was sent" must also not be on its way to a page. `IInv` says where a
call can be:
`JobsTable` ties `_jobs` to the caller's program counter; `QueueSound` says a
queued call is pending, undispatched and queued once; `OneHolder` that at most
one page or handler holds a call, that a held call is *exposed* (if still pending
it is dispatched, if returned its caller was not told "nothing was sent") and
that a call on its way has not been shown; `AnswersTrack` relates what is shown,
answered and stored; `LateTable` says that what is kept for a late answer has
returned without one. One lemma per conjunct shows that a step preserves it. The
interesting steps are `Requeue` (the job goes back to the queue and out of the
page's hands at once, so it is never in both), `Finish` (the only step that tells
the caller) and `AckLate`. `RemoveFirst` of the community modules is given what
the proof needs of it by two lemmas.

The refinement uses `IInv`: `Deliver` maps to `Show`, `WalletAnswers` to
`Answer`, `Begin` (when it raises) and `Finish` to `Tell`, `AckLate` to
`ReportLate`, and every other step to a stutter.

`ClosedForgets` is preserved by every step of a state of `IInv`: `close()` answers
whatever waits, `Dispatch` gives out nothing afterwards, `Finish` keeps nothing, and an
answer that comes replaces one.

TLC checks `IInv` as an invariant as well (run `bridge_safe`).

### TxSenderProofs

From `SenderAssumption` only: sends and clears are different calls, `Other`, `Free`,
`Nobody` and `Unset` are not mistaken for values, the bounds are naturals. Any number
of sends and clears, also infinitely many, any lag and any `MaxNonce`.

None of the properties is inductive. `IInv` has three threads. *What a call has under
way*: `EffectFits` says that a send has at most the transaction at its `nonce` alive,
none before it broadcasts or once it starts over, and that its outcome agrees;
`AtMostOnce` and `TruthfulOutcome` follow. It needs `LockHeld` and `PlacesFit` (one call
inside `_tx_lock`, so nobody else signs at that nonce) and `PoolFits` (a mined nonce is
not held: a late mining or replacement cannot bring a second effect). *What a clear
found*: `ClearFits` says that its span is an unbroken row from the latest nonce it
read, that what lies before its nonce is mined or replaced, and once it settles, mined.
*Which nonces are whose*: `SentFits` says that each nonce in `_sent_nonces` is mined, or
some call tends it, or it was left unwatched; `NextFits` that from the first unmined
nonce to `_next_nonce` every one was given to the node by this client, `ReadFits` that
so it was up to the pending nonce a send has read. `NextFits` survives the steps of
the node because what it drops is remembered in `evicted`, and the steps of the client
because `TimesOut` and a doubtful broadcast reset `_next_nonce`.

The attempt corrected the property. The excuse `NoncesInOrder` used to make for holes
(nonces whose receipt poll failed) was too narrow, which the bounds of the run did not
show: a broadcast that failed on the way back, or a clear that was left, also
leaves a nonce nobody looks after, and the node may drop several. What the code keeps
is what is stated now: holes only where the node dropped what it had taken, and below
a signed nonce only nonces of the client's own that no call looks after.

### SessionProofs

From `SessionAssumption`: the calls are finitely many (sessions are numbered by
logins), and their kinds do not overlap. Fairness is not used.

`CarriedOutOnce` needs `DoneFits`: a request that is going to be sent was not carried
out, and what was heard of it agrees with what happened. `OneLoginPerBurst` is inductive
together with `SeenFits`: a call that logs in or waits for a login has seen fewer
attempts than there are now, so whoever takes the lock with the count unchanged is the
first of its burst. The type of `cookie` is not obvious, since a login makes a new
session: `SessionsFit` counts them by the calls that are over or resent, of which each
was one call (`PlacesFit`: a call that resent does not log in again).
`RejectionsHandled` is an action property. `QuietStartSparesLogin` follows from `QuietFits`:
while no login was attempted since a request started, the jar holds what it was sent
with, or nothing, and what was rejected stays rejected. `ResendsWithNewSession` follows
from `JarFits` (the jar holds the newest session) and `FreshFits` (after a login that
went through it is not the one the request started with). Nothing is claimed of a request that
starts while a login is running: it has read a count that this login had already raised,
and what the changelog says of it is refuted (`session_relogin`).

### ApprovalsProofs

From `ApprovalsAssumption` only: flows and `approve()` calls are different calls,
`MaxAmount` and `MaxLag` are naturals, `Nobody` is not a call. Any number of
flows, also infinitely many.

`CapKept` and `NeededApproveSent` speak of the moment the spender takes the
token, so the invariant has to carry what the read established up to there.
`FitsUntilUsed` does: as long as an undisturbed flow is `OnTheWay` (about to
spend, with its own transaction unmined, or with its own approve just mined),
the allowance of the latest block is one that suffices it. The two steps that
could break it are `MineApprove` and `MineUse` of another call; `OthersRaced`
shows that they overtake every flow that is on its way. `FlightSound` (the
unmined transactions are of different calls, which wait or gave up) says that
a flow whose transaction has been mined is no longer on its way. `AckNoted` and
`PinCovers` are what `ReadsHeardWrites` needs: `_last_write_block` is as late as
any write a thread has heard of, and a pin is no earlier. TLC checks this `IInv`
too (run `approve_flows`).

### OraclePoolProofs

From `PoolAssumption` only: the constants are of the right kind, `Wad`, `Scale` and
denominators are not zero, and the pools to begin with are pools. No bound on
amounts, prices or curve is used, except that `PromiseInPool` and `QuoteIsFloor`
speak of sells only where `Sensitivity > 0`: a pool without sensitivity can be
quoted a sell its reserve cannot pay.

The arithmetic comes first, as lemmas on division: `MinOutLemma` (a slippage never
raises the minimum above the quote), `SellMonotone` (a larger part of a sell is
charged a larger rate), `SellRoom` (what a sell pays is less than the reserve),
`RestLemma` (what is left of a reserve after the others add or remove is at least
a holder's part). `IInv` is `TypeOK` with `Computed` (a quote is what the formulas
make of `seen`), `Fresh` (while nothing moved, `seen` is the pool), `ShareKept`
(adds and removals of others never lower what a unit of LP is worth, so a position
read at one block is still paid) and `OneRead`. One lemma per action preserves it;
each theorem then looks at the one action that mines the transaction.

### HostedPartsProofs: the bridge

From `ThreadsAssumption`, `RemoteAssumption` and `NoneIsNoAnswer`, which only say that
`None` is no value of another kind and `MaxRequests` a natural.

`AnswerIsOwn` speaks of what a thread found and was returned; the answer gets there by
way of a page, an entry and an event. The invariant follows it: `TabsFit` (what a page
shows is what its call asks, as long as that is the call's latest; what it answered
is an answer to that), `EntriesFit` (an entry that is set holds an answer an accepted
page of that token gave), `CallsFit` (a call that woke finds its entry set, and one that
leaves with a result has one), `PendingIsInside` (so that an entry is there until
`Leave`, and gone after it: hence a refused page's call is over). `DeadlineIsClean`
needs that an accepted answer in time has set the event, so that `TimeOut` is no longer
possible; this is the part of `TabsFit` about `inTime`.

### HostedPartsProofs: the look-ups

From `ThreadsAssumption`, `ResolutionAssumption` (a positive time to live) and
`NoneIsNoKind`.

What is cached was found by some look-up earlier, so the invariant keeps the evidence
with it: `Supports(seen, s, t)` says that in the span `seen` the token `t` was called
`s`, and that no smaller token was called so all the time. `NamesGrow` shows that
evidence, once true, stays true: the history of names only grows. `LookUpFits` says the
same of a look-up that is half done: the rows of a batch are the names at one moment,
and of the tokens a scan has passed each was unreadable or, at some time, called
otherwise. `CachesFit` then survives any order of fills, since each entry brings its own
evidence.

### HostedClientProofs

From the assumptions above and `ScenariosAssumption` (calls are sequences of steps, and no
ticker has the name of a step). No assumption is made of what a crafted call does, or of
how threads meet in `craft()`: `CraftHasNoEffect` speaks of orders only where the call
refuses to be crafted before it (`Guarded`; section 5 has the others), and the parts
about scopes hold until `clashed`.

`BridgeSteps` and `LookUpSteps` show that every step of a client is a step, or a
stutter, of each part: so `ClientUsesBridge` and `ClientUsesLookUps`, and what is proved
of the parts holds in the client. `ClientIInv` adds the client's own: `LockIsHeld`,
`CraftIsOwn` (`_crafting` is the thread that is between `EnterCraft` and `ExitCraft`
of its own craft, so a refused nested craft resets nothing; until two have been entered at
once), `PlacesFit` (what a place says of the step and of the wallet; until then a crafted
call never gets past an address, nor past a refusal) and `VerifiedIsAccepted`.
`HaltHolds` and `WrongChainIsRefused` follow by induction next to it, `CraftHasNoEffect` with `CraftsDoNotPost`: what a guarded call has
ordered it has ordered past its own refusal.

`ListsAreExact` speaks of calls that have returned; the invariant says what the lists
hold on the way: `ListFits` (an entry is a send that its call has made, entries of one call
in the order of its steps; until two crafts are entered at once, on the list of a crafted
call every send it has made, and none of another crafted call),
`HeardFits` (what a send returned agrees with where it is), that no entry is on two lists,
and `EndsFit` (a call that returned made all its steps, which needs that no error is
`None`: `NoneIsNoEnding`). `Capture` and `Mined` have lemmas of their own; every other step
either leaves `next` alone or is over with a step that is no send (`StepEnds`).

### PositionsProofs

From `PositionsAssumption`: wallet, stranger and nobody are three; in the states the
chain may begin with, the wallet's positions are enumerated; every price is worth
something. Ids, amounts, minima, shares, the calls and what others do are unbounded.

`AsAsked` needs most of the invariant. `TypeOK` alone is not inductive: that
liquidity never becomes negative when a position is burnt or shrunk needs the guards, and
that a mint is of an id that is nobody's needs `Enumerated`. A call in the middle is in
`CallFits`: `PlaceOf` (which kind of call is where; `token0`, once read, is the pool's),
and one conjunct for each thing a call has read and relies on later: `OwnerOf`,
`LiquidityOf`, `ApprovedOf`, `HeldOf`. Each says "it is still so, or it is among what
something else changed under this call", and `ViewsOf` says the same of the block before,
which a replica may still answer from. `AskedOf` and `AcceptedOf` say of a call that
has returned what the properties say of it.

Others' moves disturb a conjunct only by way of what they add to `changed`, and a
transaction of one call is another's "something else": so there is a lemma for what a
new block does to the calls that did not send it, and one for the call that did.
`ExactList` has to turn a sequence read by index into a set: as many ids as the manager
holds, each the one at its index, and `Enumerated` makes that the wallet's. The
arithmetic (what liquidity fits an amount, what it is worth) is a group of lemmas at the
beginning; the largest liquidity that fits exists by the least-number principle, taken
from the library's well-founded minimum.

**Model-checked only:** every liveness property (`EveryRequestReturns`,
`SendsReturn`, `CallsReturn`), since fairness and `ENABLED` are out of the
prover's reach. Every invariant and every action property of a passing run is proved.

## 5. What the models found

Each is a run that TLC must find violated; the details, with the lines quoted, are in `PROJECT.json`.

* **bridge_late_race** (`AnswersAccepted`, doc_code_divergence): do_POST takes _cond once in _take_late and again in _resolve (browser.py:590-594). A request() that times out in between moves its job from _jobs to _late (371-377) after the first look and before the second, so the wallet's answer is in neither table: the page gets a 404, the answer is lost and no hook hears of it. CHANGELOG.md:31-34 says of a late answer that it "used to get a 404. It is now accepted once".
* **session_logout** (`LogoutSticks`, code_bug): logout() disarms the keep-alive and clears the cookies without _login_lock. An automatic login already in flight in another thread then stores its new session cookie and re-arms the keep-alive (primedelta.py:1030-1034): the client is logged in after logout() returned. The comment at primedelta.py:1046-1047: "Disarm keep-alive first, else the logout call's own auth or the next authed call would silently re-login and undo the logout".
* **tx_stuck** (`StuckIsRaised`, doc_code_divergence): _pending_nonce_unless_stuck tells whose the transactions below the pending nonce are by their nonces (2316), and _submit records a nonce before the broadcast (2331-2333). After a broadcast that fails without reaching the node (2336-2345 keeps the nonce, for it may have) another application's transaction that takes the nonce counts as the client's own: the next send passes the check and is signed behind it. The docstring, primedelta.py:2301-2304: "unless an earlier transaction this client did not send sits unmined below it (a pending nonce above the latest one that `_sent_nonces` does not explain): then `StuckTransaction`"; CHANGELOG.md:50-54: "**A wedged account raises `StuckTransaction` instead of queueing behind it.**"
* **session_relogin** (`RejectedIsResent`, doc_code_divergence): _login_attempts is counted when a login starts (primedelta_client.py:198-206), so a request that starts while a direct login() is running, with the old cookie, reads the new count (324). Its 401 comes before that login has finished; when it gets _login_lock the count is the one it read (333), and it has the wallet sign a second login (334-335) although the first has just set a good session. CHANGELOG.md:30-31 says that "a request that got its 401 before a login finished is resent instead of starting another one".

Eight more are facts of the models without a run of their own; the hazards in
`PROJECT.json` say where each is.

* A refused broadcast leaves the retry loop at the first attempt, so a "nonce too
  low" is not parsed and retried (`TxSender`, `Refused`; the comment at
  `primedelta.py:2104-2106` says it is).
* A pool cap may be raised by another thread's approve before the pool spends it
  (`Approvals`; `CapKept` excuses the overtaken flows).
* `increase_liquidity` may add to a position that left the wallet after its owner
  was read (`Positions`; `AddsToOwn` excuses these).
* `confirm_ai_agent` and `link_ai_agent` do not call
  `_reject_backend_action_while_crafting`: within `craft()` the wallet signs and the
  platform acts (`HostedClient`, `ConfirmAgent`, which `MCScenarios` crafts). The docstring
  (`primedelta.py:995-997`) says of backend REST actions that they raise `CannotCraft`
  "rather than silently executing for real"; in brackets it names orders, withdrawals and
  cancels. `CraftHasNoEffect` speaks of the actions that refuse (`Guarded`).
* A send that was past the check of `_halted` when `halt()` was called goes out
  (`HostedClient`; `HaltHolds` excuses exactly these, one for each thread).
* A send of another thread lands on the list of a `craft()` that began after it, and its
  caller gets the placeholder hash; when the craft then raises, the list is lost, and that
  send with it (`HostedClient`, `Capture`). A send that finds the list gone between the
  two reads of `_crafting` ends with an `AttributeError` (`SendFails` of "capture").
* Two `craft()` entered at once, by two threads that both pass the test of `_crafting`,
  share the later one's list, and when the first of them leaves, the other's remaining
  sends are broadcast (`HostedClient`, `TestCraft`, `EnterCraft` and `ExitCraft`). The
  docstring (`primedelta.py:999-1002`) says that `craft()` is "Not thread-safe", so this
  is no finding: `clashed` remembers it, and what craft() promises is stated up to then.
* The page of a hosted wallet may show "Done" for an answer that came after the
  deadline (`RemoteBridge`, `Resolve` of a call that has expired).

## 6. Not modelled, and why

* **Key and KMS signers** (not modelled): Gas rounding and the low-s normalisation are planned as pure operators; signing itself is cryptography.
* **Facade: mint platform calls** (partly): The calls that mix requests of the platform with the wallet: the digital identity, deposits, claims, withdrawals, orders, and the confirmation of AI agents, as sequences of steps. The calls that are one request each (account data, listings, policies) only validate and parse, and their state is the platform's.
* **Price streams** (not modelled): Server-sent events passed through to an iterator; no state is kept between events.
* **Network and endpoint configuration** (not modelled): Loads static JSON once and reads environment variables; no state changes afterwards.
* **Oracle pool: quotes, positions, liquidity and swaps** (partly): The arithmetic of add_quote, _lp_position and oracle_quote, the order of their reads, and what the transactions sent with them meet. The exact-output swaps and the token-to-token ones take no quote of the client's and differ in the router's call only; the approvals before them are in Approvals.
* **AMM quoter** (not modelled): quote_swap, spot_price and pool_fee are one view each of a Uniswap contract, scaled.
* **Resolution of symbols and pools** (partly): Tickers to tokens with their cache, batch and scan, tokens to pools, instrument_kind. Left out: which pools take bounds, and contracts.pools, which is empty on every bundled network.

Parts of modelled components that are left out: `_pool_takes_bounds`, whose cache is
never filled again (the hazard in `PROJECT.json` says what it remembers); the retry on
"nonce too low" when a wallet submits, which cannot happen, since the wallet's errors
are `BrowserSignerError` and not the one the loop parses; the two exact-output swaps and
the token-to-token ones, which differ in the router's call only. Key and KMS signing is
arithmetic on secrets with no state; what a fee quote of an AMM pool says is one view.

The HTTP handler's answers to requests with a wrong path, host or session, or a
malformed body, change no state and are left out; so are `_bind`'s fallback port,
printing, and the wording of errors beyond what an error claims.

Grain of the steps. What a lock encloses is one step; without one, a test and what follows
it are two, except where noted: `Dispatch` looks at a cancel event and hands the job out in
one step (`browser.py:454-456`), since a cancel that falls between the two is no different
from one that comes right after, which the model has; `Capture` loads `_crafting` and
appends to it in one step (`primedelta.py:2166`), since CPython from 3.10 on changes threads
at jumps and calls and none lies between the two (free-threaded builds are not modelled);
`KeepRows` and `AskPool` as said above. Reads of the oracle and AMM pools and of `pool_for` are not pinned by the code;
`Positions` lets them be a block behind, `Resolution` and `OraclePool` take them as current
(in `OraclePool` what moves between two reads is modelled).

## 7. Plan

In order of what matters most:

1. *(done)* `LoopbackBridge`, `WalletCalls`, the refinement and its proof.
2. *(done)* `TxSender`, with `clear_stuck_transactions`.
3. *(done)* `Session`.
4. *(done)* `Approvals`: reads pinned to the client's last write, and the
   read-approve-use flows of the DEX handlers, with proofs.
5. *(done)* `RemoteBridge`.
6. *(done)* `OraclePool`, with proofs.
7. *(done)* `Positions`.
8. *(done)* `Resolution`, composed with the calls that use it, with proofs.
9. *(done)* `HostedClient`: crafting, the guards of the send path and the calls that mix
   platform and wallet, composed with `RemoteBridge` and `Resolution`, with proofs of all
   three.
10. Pure operators of `signer.py`: the gas margin and low-s, checked against
    reference definitions and, without recursion, proved.
11. *(done)* Proofs of `TxSender`, `Session` and the rest of `LoopbackBridge`.
12. *(done)* Proofs of `Positions` and of the lists of `craft()`.
