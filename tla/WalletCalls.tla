---------------------------- MODULE WalletCalls ----------------------------
(***************************************************************************)
(* What a wallet signer promises the code that calls it, whatever carries  *)
(* the request to the wallet and whatever is lost on the way: a request    *)
(* reaches the wallet at most once, the caller hears only what the wallet  *)
(* answered, and an error that says "nothing was sent" is the truth.       *)
(***************************************************************************)
CONSTANTS
  Calls        (* the calls of a signer's sign_message, submit_transaction.. *)

VARIABLES
  seen,        (* the calls the wallet has been given                        *)
  answer,      (* what the wallet answered                                   *)
  told,        (* what the caller has been told                              *)
  late         (* the calls whose late answer went to the application's hook *)

vars == <<seen, answer, told, late>>

Answers == {"none", "value", "error"}

(* "unsent": an error that says nothing was sent to the wallet; "unknown": *)
(* an error that does not say so.                                          *)
Told == {"none", "unsent", "unknown", "value", "error"}

TypeOK ==
  /\ seen \subseteq Calls
  /\ answer \in [Calls -> Answers]
  /\ told \in [Calls -> Told]
  /\ late \subseteq Calls

Init ==
  /\ seen = {}
  /\ answer = [c \in Calls |-> "none"]
  /\ told = [c \in Calls |-> "none"]
  /\ late = {}

(* The wallet gets the request, once, unless the caller has been told that *)
(* it will not.                                                            *)
Show(c) ==
  /\ c \notin seen
  /\ told[c] # "unsent"
  /\ seen' = seen \union {c}
  /\ UNCHANGED <<answer, told, late>>

(* The user approves or refuses, also after the caller has gone away.      *)
Answer(c, a) ==
  /\ c \in seen
  /\ answer[c] = "none"
  /\ answer' = [answer EXCEPT ![c] = a]
  /\ UNCHANGED <<seen, told, late>>

(* The caller is told once: the wallet's own answer, or an error that does *)
(* not deny what the wallet has seen.                                      *)
Tell(c, what) ==
  /\ told[c] = "none"
  /\ what \in {"value", "error"} => answer[c] = what
  /\ what = "unsent" => c \notin seen
  /\ told' = [told EXCEPT ![c] = what]
  /\ UNCHANGED <<seen, answer, late>>

(* A value the caller never got goes to the hook, once.                    *)
ReportLate(c) ==
  /\ told[c] = "unknown"
  /\ answer[c] = "value"
  /\ c \notin late
  /\ late' = late \union {c}
  /\ UNCHANGED <<seen, answer, told>>

Next ==
  \E c \in Calls :
    \/ Show(c)
    \/ \E a \in Answers \ {"none"} : Answer(c, a)
    \/ \E what \in Told \ {"none"} : Tell(c, what)
    \/ ReportLate(c)

Spec == Init /\ [][Next]_vars
=============================================================================
