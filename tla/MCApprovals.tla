---------------------------- MODULE MCApprovals ----------------------------
(***************************************************************************)
(* Model values for Approvals: flows of one kind are interchangeable, and  *)
(* what a read was pinned to matters until its call starts to send.        *)
(***************************************************************************)
EXTENDS Approvals

UseSymmetry == Permutations(Uses) \union Permutations(Approvals)

Reading(c) == pc[c] \in {"idle", "pinned", "ready"}
OfReads(f) == [c \in Calls |-> IF Reading(c) THEN f[c] ELSE 0]
LiveState  ==
  <<fixedVars, nodeVars, clientVars, pc, step, outcome, acked, stale, raced, taken, refused,
    OfReads(pin), OfReads(saw), OfReads(heard)>>
=============================================================================
