-------------------------- MODULE MCLoopbackBridge --------------------------
(* Small instances of LoopbackBridge for TLC.                              *)
EXTENDS LoopbackBridge, TLC

(* Pages are interchangeable, and so are calls of the same kind.           *)
AllSymmetry == Permutations(Tabs) \union Permutations(Calls)

(* What a state is told apart by.  The locals of a call are dead once it   *)
(* has left the tables, what a page held is dead once it holds no call,    *)
(* and nobody asks whether a stopped page is still open.                   *)
LiveState ==
  <<bridge, jobs, late, queue, recent, urlShown, pc, outcome, tab, historyVars,
    [c \in Calls |->
       IF pc[c] = "returned" THEN <<>>
       ELSE <<dispatched[c], closedJob[c], result[c], window[c], c \in cancelled>>],
    [t \in Tabs |-> IF Holding(t) THEN job[t] ELSE NoCall],
    [t \in Tabs |-> alive[t] /\ tab[t] # "stopped"]>>
=============================================================================
