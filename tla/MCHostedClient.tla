--------------------------- MODULE MCHostedClient ---------------------------
(* Small instances of HostedClient: pairs of calls, and for each pair what  *)
(* else may happen meanwhile.                                               *)
EXTENDS HostedClient, TLC

CONSTANTS c1, c2, A, B

Plain(steps) == [steps |-> steps, craft |-> FALSE]
Craft(steps) == [steps |-> steps, craft |-> TRUE]
Pair(first, second) == (c1 :> first) @@ (c2 :> second)

Crafting == Pair(Craft(<<"send", "send">>), Plain(Transfer))
Nesting == Pair(Craft(Transfer \o Transfer), Craft(DepositStablecoin))
Trading == Pair(Plain(<<"send", "send">>), Plain(ClaimStablecoin))
Signing == Pair(Plain(LinkAgent), Plain(Transfer))
Ordering == Pair(Craft(LimitOrder), Plain(RequestStablecoin \o RequestStock \o Identity))
Linking == Pair(Craft(ConfirmAgent), Plain(Transfer))
Naming == Pair(Plain(<<A, A>>), Plain(<<A>>))
Sorting == Pair(Plain(InstrumentKind(A)), Plain(InstrumentKind(A)))

MCScenarios == {Crafting, Nesting, Trading, Signing, Ordering, Linking, Naming, Sorting}

\* What a scenario leaves as it is.
LooksUp == call \in {Naming, Sorting}
MCInit ==
  /\ ClientInit
  /\ chain = "expected" \/ call = Nesting \/ (chain = "other" /\ call = Trading)
  /\ status = "minted" \/ call = Ordering \/ (status = "new" /\ call = Nesting)
  /\ \E t \in Stocks : Name(t) = A
  /\ LooksUp \/ (names = <<[t \in Stocks |-> A]>> /\ batches)
  /\ call = Sorting \/ pooled = {}
  /\ call = Signing \/ (address # None <=> call \in {Nesting, Trading, Linking})

MCNext ==
  /\ ClientNext
  /\ IF call = Naming
     THEN \A c \in Callers : lookup'[c].seen.failed = {}
     ELSE UNCHANGED <<names, clock>>
  /\ call = Sorting \/ UNCHANGED pooled
  /\ call \in {Crafting, Trading} \/ UNCHANGED halted
MCSpec == MCInit /\ [][MCNext]_everything

HostedSymmetry == Permutations(Tabs) \cup Permutations(Accounts)
=============================================================================
