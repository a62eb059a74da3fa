----------------------------- MODULE Resolution -----------------------------
(***************************************************************************)
(* From a ticker to a token, and from a token to its pool: the memoized    *)
(* look-ups of dex/handlers.py that every trade starts with.               *)
(*                                                                         *)
(* The caches belong to the process: the threads, and the clients of one   *)
(* network, share them without a lock.  A look-up that misses reads the    *)
(* router's list and then what each token is called, in one batch or one   *)
(* by one, while tokens are renamed and other look-ups fill the cache.  A  *)
(* name is what the replica that answers shows at that time.               *)
(***************************************************************************)
EXTENDS Naturals, Sequences, FiniteSetsExt, Threads

CONSTANTS
  Symbols,      \* tickers
  ListLength,   \* Router.allStockTokens() lists the tokens 1 .. ListLength
  Ttl,          \* _SYMBOL_TTL_SECONDS
  MaxClock,     \* bound on the clock
  MaxRenames    \* bound on the renamings

ASSUME ResolutionAssumption ==
  /\ None \notin Symbols \cup Nat
  /\ {ListLength, MaxClock, MaxRenames} \subseteq Nat /\ Ttl \in Nat \ {0}

ASSUME NoneIsNoKind == None \notin {"amm", "oracle", "failed"}

VARIABLES
  names,    \* what the tokens have been called, the present names last
  pooled,   \* tokens the factory has a pool for
  batches,  \* whether this network has a Multicall3
  clock,    \* time.monotonic()
  cache,    \* _STOCK_ADDR_CACHE: an entry, or None, for each symbol
  pools,    \* _POOL_ADDR_CACHE: the tokens whose pool it knows
  lookup,   \* what each thread's look-up has read so far
  step,     \* where each thread is in its look-up
  served,   \* what its look-up returned, and on what evidence
  kind      \* what instrument_kind answered it

resolution == <<names, pooled, batches, clock, cache, pools, lookup, step, served, kind>>
market == <<names, pooled, batches, clock>>

-----------------------------------------------------------------------------
Stocks == 1 .. ListLength
Now == Len(names)
Name(t) == names[Now][t]
LookUpPlaces == {"out", "list", "batch", "rows", "scan", "keep", "found", "missed"}

\* A look-up of symbol: from and upto say which names it could have seen,
\* failed which tokens it could not read, existing which pools there were when
\* it began.  The evidence goes with what is cached.
Evidence == [from : Nat, upto : Nat, failed : SUBSET Stocks]
LookUpState ==
  [symbol : Symbols \cup {None}, token : Stocks \cup {None}, next : Nat \ {0},
   rows : [Stocks -> Symbols \cup {None}], seen : Evidence, existing : SUBSET Stocks]
Entries == [token : Stocks, filled : Nat, seen : Evidence]
Results ==
  [symbol : Symbols, token : Stocks \cup {None}, at : Nat, since : Nat, seen : Evidence]
NothingSeen == [from |-> 1, upto |-> 1, failed |-> {}]
NoLookUp ==
  [symbol |-> None, token |-> None, next |-> 1, rows |-> [t \in Stocks |-> None],
   seen |-> NothingSeen, existing |-> {}]

Cached(t, seen) == [token |-> t, filled |-> clock, seen |-> seen]
Result(s, t, since, seen) ==
  [symbol |-> s, token |-> t, at |-> clock, since |-> since, seen |-> seen]

ResolutionTypeOK ==
  /\ names \in Seq([Stocks -> Symbols]) /\ Now \in 1 .. MaxRenames + 1
  /\ pooled \subseteq Stocks /\ pools \subseteq Stocks /\ batches \in BOOLEAN
  /\ clock \in 0 .. MaxClock
  /\ cache \in [Symbols -> Entries \cup {None}]
  /\ lookup \in [Callers -> LookUpState]
  /\ step \in [Callers -> LookUpPlaces]
  /\ served \in [Callers -> Results \cup {None}]
  /\ kind \in [Callers -> {"amm", "oracle", "failed", None}]

ResolutionInit ==
  /\ \E calls \in [Stocks -> Symbols] : names = <<calls>>
  /\ pooled \in SUBSET Stocks
  /\ batches \in BOOLEAN
  /\ clock = 0
  /\ cache = [s \in Symbols |-> None]
  /\ pools = {}
  /\ lookup = [c \in Callers |-> NoLookUp]
  /\ step = [c \in Callers |-> "out"]
  /\ served = [c \in Callers |-> None]
  /\ kind = [c \in Callers |-> None]

-----------------------------------------------------------------------------
(* What happens outside *)

Rename(t, s) ==
  /\ Now <= MaxRenames /\ Name(t) # s
  /\ names' = Append(names, [names[Now] EXCEPT ![t] = s])
  /\ UNCHANGED <<pooled, batches, clock, cache, pools, lookup, step, served, kind>>

CreatePool(t) ==
  /\ t \notin pooled
  /\ pooled' = pooled \cup {t}
  /\ UNCHANGED <<names, batches, clock, cache, pools, lookup, step, served, kind>>

Tick ==
  /\ clock < MaxClock
  /\ clock' = clock + 1
  /\ UNCHANGED <<names, pooled, batches, cache, pools, lookup, step, served, kind>>

-----------------------------------------------------------------------------
(* _resolve_stock_token *)

Goes(c, place) == step' = [step EXCEPT ![c] = place]

\* A bug the properties must catch: an entry is as good as new for ever.
Fresh_Always(s) == cache[s] # None
Fresh(s) == cache[s] # None /\ clock < cache[s].filled + Ttl

\* A hit answers at once.  (contracts.pools is empty on every bundled network,
\* so a miss goes to the router.)
LookUp(c, s) ==
  /\ step[c] \in {"out", "found", "missed"}
  /\ IF Fresh(s)
     THEN /\ served' = [served EXCEPT ![c] =
               Result(s, cache[s].token, cache[s].filled, cache[s].seen)]
          /\ lookup' = [lookup EXCEPT ![c] =
               [NoLookUp EXCEPT !.symbol = s, !.token = cache[s].token, !.existing = pooled]]
          /\ Goes(c, "found")
     ELSE /\ lookup' = [lookup EXCEPT ![c] =
               [NoLookUp EXCEPT !.symbol = s, !.seen.from = Now, !.existing = pooled]]
          /\ served' = [served EXCEPT ![c] = None]
          /\ Goes(c, "list")
  /\ kind' = [kind EXCEPT ![c] = None]
  /\ UNCHANGED <<market, cache, pools>>

ReadList(c) ==
  /\ step[c] = "list"
  /\ Goes(c, IF batches THEN "batch" ELSE "scan")
  /\ UNCHANGED <<market, cache, pools, lookup, served, kind>>

Missed(c, seen) ==
  /\ served' = [served EXCEPT ![c] = Result(lookup[c].symbol, None, clock, seen)]
  /\ lookup' = [lookup EXCEPT ![c] = NoLookUp]
  /\ Goes(c, "missed")

\* A list that cannot be read is answered with PoolNotFound all the same.
ListFails(c) ==
  /\ step[c] = "list"
  /\ Missed(c, [from |-> Now, upto |-> Now, failed |-> Stocks])
  /\ UNCHANGED <<market, cache, pools, kind>>

\* aggregate3, where single calls may fail; a batch that fails as a whole
\* leaves the scan.
ReadBatch(c, failed) ==
  /\ step[c] = "batch"
  /\ lookup' = [lookup EXCEPT
       ![c].rows = [t \in Stocks |-> IF t \in failed THEN None ELSE Name(t)],
       ![c].seen = [@ EXCEPT !.upto = Now, !.failed = failed]]
  /\ Goes(c, "rows")
  /\ UNCHANGED <<market, cache, pools, served, kind>>

BatchFails(c) ==
  /\ step[c] = "batch"
  /\ Goes(c, "scan")
  /\ UNCHANGED <<market, cache, pools, lookup, served, kind>>

Called(rows, s) == {t \in Stocks : rows[t] = s}

FirstOf(rows, s) == Min(Called(rows, s))

\* Every name the batch returned is cached, the first token of a name first.
KeepRows(c) ==
  LET rows == lookup[c].rows
      s == lookup[c].symbol
  IN
  /\ step[c] = "rows"
  /\ cache' = [x \in Symbols |->
       IF Called(rows, x) = {} THEN cache[x] ELSE Cached(FirstOf(rows, x), lookup[c].seen)]
  /\ IF Called(rows, s) = {}
     THEN Missed(c, lookup[c].seen)
     ELSE /\ lookup' = [lookup EXCEPT ![c].token = FirstOf(rows, s), ![c].rows = NoLookUp.rows]
          /\ Goes(c, "keep")
          /\ UNCHANGED served
  /\ UNCHANGED <<market, pools, kind>>

\* One symbol() of the scan: an error is skipped like another name.
Scan(c, readable) ==
  LET t == lookup[c].next
      failed == lookup[c].seen.failed \cup (IF readable THEN {} ELSE {t})
  IN
  /\ step[c] = "scan" /\ t \in Stocks
  /\ IF readable /\ Name(t) = lookup[c].symbol
     THEN /\ lookup' = [lookup EXCEPT ![c].token = t, ![c].seen = [@ EXCEPT !.upto = Now]]
          /\ Goes(c, "keep")
     ELSE /\ lookup' = [lookup EXCEPT ![c].next = t + 1,
               ![c].seen = [@ EXCEPT !.failed = failed]]
          /\ UNCHANGED step
  /\ UNCHANGED <<market, cache, pools, served, kind>>

ScanEnds(c) ==
  /\ step[c] = "scan" /\ lookup[c].next \notin Stocks
  /\ Missed(c, [lookup[c].seen EXCEPT !.upto = Now])
  /\ UNCHANGED <<market, cache, pools, kind>>

\* The token found is cached again, now, whoever cached what in between.
Keep(c) ==
  LET s == lookup[c].symbol IN
  /\ step[c] = "keep"
  /\ cache' = [cache EXCEPT ![s] = Cached(lookup[c].token, lookup[c].seen)]
  /\ served' = [served EXCEPT ![c] = Result(s, lookup[c].token, clock, lookup[c].seen)]
  /\ lookup' = [lookup EXCEPT ![c].seen = NothingSeen, ![c].next = 1]
  /\ Goes(c, "found")
  /\ UNCHANGED <<market, pools, kind>>

-----------------------------------------------------------------------------
(* _lookup_amm_pool_address, and what instrument_kind makes of it *)

\* A pool that is found is remembered for ever; a token without one is asked
\* for again at the next call.  The factory is read at a replica that is up to
\* date; one behind a pool's creation would only say "oracle" once more.
AskPool(c) ==
  LET t == lookup[c].token IN
  /\ step[c] = "found" /\ kind[c] = None
  /\ pools' = pools \cup ({t} \cap pooled)
  /\ kind' = [kind EXCEPT ![c] = IF t \in pools \cup pooled THEN "amm" ELSE "oracle"]
  /\ UNCHANGED <<market, cache, lookup, step, served>>

PoolFails(c) ==
  /\ step[c] = "found" /\ kind[c] = None /\ lookup[c].token \notin pools
  /\ kind' = [kind EXCEPT ![c] = "failed"]
  /\ UNCHANGED <<market, cache, pools, lookup, step, served>>

-----------------------------------------------------------------------------
Market ==
  \/ \E t \in Stocks, s \in Symbols : Rename(t, s)
  \/ \E t \in Stocks : CreatePool(t)
  \/ Tick

LookingUp(c) ==
  \/ ReadList(c) \/ ListFails(c) \/ BatchFails(c) \/ KeepRows(c) \/ ScanEnds(c) \/ Keep(c)
  \/ \E failed \in SUBSET Stocks : ReadBatch(c, failed)
  \/ \E readable \in BOOLEAN : Scan(c, readable)

AskingPool(c) == AskPool(c) \/ PoolFails(c)

ResolutionNext ==
  \/ Market
  \/ \E c \in Callers : LookingUp(c) \/ AskingPool(c) \/ \E s \in Symbols : LookUp(c, s)

ResolutionSpec == ResolutionInit /\ [][ResolutionNext]_resolution

-----------------------------------------------------------------------------
(* Properties *)

WereCalled(t, s, seen) == \E n \in seen.from .. seen.upto : names[n][t] = s
StayedCalled(t, s, seen) == \A n \in seen.from .. seen.upto : names[n][t] = s

\* A ticker leads to a token that had that name while the look-up that found it
\* was under way, and that look-up ended less than the ten minutes ago that
\* CHANGELOG.md:355-361 gives a name: a token that was renamed is not traded
\* under its old name for longer, whichever thread cached what in which order.
ServedIsRecent ==
  \A c \in Callers : served[c] # None /\ served[c].token # None =>
    /\ WereCalled(served[c].token, served[c].symbol, served[c].seen)
    /\ served[c].at < served[c].since + Ttl

\* Of two tokens with one name the first of the router's list is served, and
\* PoolNotFound means there is none: unless that token's name could not be read,
\* or changed, while the look-up was under way.
FirstIsServed ==
  \A c \in Callers : served[c] # None =>
    \A t \in Stocks :
      /\ StayedCalled(t, served[c].symbol, served[c].seen)
      /\ t \notin served[c].seen.failed
      => served[c].token # None /\ served[c].token <= t

\* instrument_kind calls a token oracle-priced only if it had no pool when the
\* call began, and "amm" only if it has one: no miss is remembered.
KindIsTrue ==
  \A c \in Callers :
    /\ kind[c] = "oracle" => lookup[c].token \notin lookup[c].existing
    /\ kind[c] = "amm" => lookup[c].token \in pooled

\* What a look-up tells a trade is what the chain says, or lately said: which
\* token the ticker means, and whether it has a pool.
LookUpsAreTrue == ServedIsRecent /\ FirstIsServed /\ KindIsTrue

-----------------------------------------------------------------------------
(* The inductive invariant: what the properties rest on *)

Spans(seen) == seen.upto \in 1 .. Now /\ seen.from \in 1 .. seen.upto

\* seen is evidence that the ticker s means t.
Supports(seen, s, t) ==
  /\ Spans(seen)
  /\ WereCalled(t, s, seen)
  /\ \A u \in Stocks : StayedCalled(u, s, seen) /\ u \notin seen.failed => t <= u

LookUpFits(c) ==
  LET l == lookup[c]
      seen == lookup[c].seen
  IN
  /\ step[c] \notin {"out", "missed"} => l.symbol \in Symbols
  /\ step[c] \in {"list", "batch", "scan"} => seen.from \in 1 .. Now
  /\ step[c] \in {"list", "batch"} => l.next = 1
  /\ step[c] = "rows" =>
       /\ Spans(seen)
       /\ \A t \in Stocks : l.rows[t] = IF t \in seen.failed THEN None ELSE names[seen.upto][t]
  /\ step[c] = "scan" =>
       \A t \in Stocks : t < l.next =>
         t \in seen.failed \/ \E n \in seen.from .. Now : names[n][t] # l.symbol
  /\ step[c] = "keep" => l.token \in Stocks /\ Supports(seen, l.symbol, l.token)
  /\ step[c] = "found" => l.token \in Stocks
  /\ l.existing \subseteq pooled
  /\ kind[c] # None => step[c] = "found"

LookUpsFit == \A c \in Callers : LookUpFits(c)

CachesFit ==
  /\ \A s \in Symbols : cache[s] # None => Supports(cache[s].seen, s, cache[s].token)
  /\ pools \subseteq pooled

ServedFits == \A c \in Callers : served[c] # None => Spans(served[c].seen)

ResolutionIInv ==
  ResolutionTypeOK /\ LookUpsFit /\ CachesFit /\ ServedFits /\ LookUpsAreTrue
=============================================================================
