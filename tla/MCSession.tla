----------------------------- MODULE MCSession -----------------------------
(* Small instances of Session for TLC.                                     *)
EXTENDS Session, TLC

(* Four calls take part, but those that log out only meet mutations.       *)
Started == {c \in Calls : pc[c] # "idle"}
Together == Started \intersect Logouts # {} => Started \subseteq Mutations \union Logouts
MCNext == Next /\ Together'
MCSpec == Init /\ [][MCNext]_vars /\ Fairness

(* Two states that differ only in what nobody reads again are one state:   *)
(* a session no request carries, how often a GET was answered and how, the *)
(* count a request read before it was sent again, and what a call that has *)
(* returned kept.  Nothing masked is in a property, but in TypeOK.         *)
LiveState ==
  LET still(f, when(_), none) == [c \in Calls |-> IF when(c) THEN f[c] ELSE none]
      running(c)  == pc[c] # "returned"
      underway(c) == pc[c] = "sent"
      mutation(c) == c \in Unsafe
      quiet(c)    == running(c) /\ ~resent[c] /\ pc[c] \notin {"outer", "login", "verified"}
      counted(c)  == quiet(c) \/ c \in signers
      told(c)     == mutation(c) \/ c \in Logouts
      unsent(c)   == running(c) /\ (resent[c] => pc[c] = "sending")
  IN <<valid \intersect ({cookie} \union {sentAs[c] : c \in {d \in Calls : underway(d)}}),
       born, still(executed, mutation, 0), clientVars, pc, reply,
       still(outcome, told, "none"),
       still(seen, counted, 0), still(resent, running, FALSE),
       still(again, running, FALSE), still(sentAs, running, NoSession),
       sentFit, {c \in midLogin : quiet(c)}, still(from, unsent, NoSession),
       signers, failed>>
=============================================================================
