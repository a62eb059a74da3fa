---------------------------- MODULE MCPositions ----------------------------
(* Small instances of Positions. *)
EXTENDS Positions, TLC

Of(stock, stable) == [stock |-> stock, stable |-> stable]

MCChains ==
  {[owner |-> <<Wallet, o, NoOne>>, held |-> IF o = Wallet THEN <<1, 2>> ELSE <<1>>, next |-> 3,
    liquidity |-> <<1, l, 0>>, owed |-> <<Of(1, 0), Of(0, 0), Of(0, 0)>>,
    allowance |-> Of(1, 0), price |-> Of(1, 2)] : o \in {Wallet, Stranger}, l \in {0}}

MCWants == {Of(1, 2), Of(2, 1)}
MCFloors == {Of(0, 0), Of(1, 0)}
MCPrices == {Of(1, 2), Of(0, 1)}
CallsAlike == Permutations(Calls)
=============================================================================
