----------------------------- MODULE MCTxSender -----------------------------
(* Small instances of TxSender for TLC.                                    *)
EXTENDS TxSender, TLC

CONSTANTS s1, s2

(* Two calls take part: the send s1 with a clear, or with the send s2,     *)
(* which is like it and so may be the one that enters later.               *)
Started == {c \in Calls : pc[c] # "idle"}
Together == s2 \in Started => s1 \in Started /\ Started \intersect Clears = {}
MCNext == Next /\ Together'
MCSpec == Init /\ [][MCNext]_vars /\ Fairness

(* Two states that differ only in what nobody reads again are one state:   *)
(* _halted when every call has entered, the locals of a call outside the   *)
(* steps that use them, and the history of nonces that are mined.          *)
LiveState ==
  LET still(f, when(_), none) == [c \in Calls |-> IF when(c) THEN f[c] ELSE none]
      running(c) == pc[c] \notin {"idle", "returned"}
      looking(c) == pc[c] \in {"reading", "latestRead"}
      using(c)   == running(c) /\ ~looking(c)
      signed(c)  == pc[c] = "broadcast"
      gap(c)     == pc[c] = "latestRead" \/ (c \in Clears /\ using(c))
      unmined(ns) == {n \in ns : Mined <= n}
  IN <<nodeVars, halted /\ Calls # Started, lock, next, sent, pc, span, swapped, outcome,
       still(latest, gap, 0), still(nonce, using, 0), still(ours, signed, FALSE),
       still(looks, looking, 0), still(tries, running, 0),
       unmined(evicted), unmined(unwatched), unmined(foreign)>>
=============================================================================
