---------------------------- MODULE MCOraclePool ----------------------------
(* Small instances of OraclePool. *)
EXTENDS OraclePool

MCStart ==
  {[pool |-> [stock |-> 5, stable |-> 6, supply |-> 2, bounds |-> b, oneBlock |-> b],
    mine |-> 1, share |-> 100, mult |-> <<1, 1>>] : b \in BOOLEAN}
MCTrades == {<<-1, 1>>}
MCMultipliers == {<<1, 1>>, <<2, 1>>}
=============================================================================
