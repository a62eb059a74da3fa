------------------------- MODULE HostedClientProofs -------------------------
(***************************************************************************)
(* One client with all its parts: its steps are steps of the bridge and of *)
(* the look-ups, which therefore keep what is proved of them, and the      *)
(* client's own rules hold for any calls, threads, tabs and tokens.        *)
(***************************************************************************)
EXTENDS HostedClient, HostedPartsProofs

USE ThreadsAssumption

-----------------------------------------------------------------------------
(* Facts about calls and answers *)

(* The steps of a call are a sequence of steps.                            *)
LEMMA CallFacts ==
  ASSUME ClientTypeOK, NEW c \in Callers
  PROVE  /\ call[c].steps \in Seq(StepKinds) /\ call[c].craft \in BOOLEAN
         /\ Len(call[c].steps) \in Nat /\ next[c] \in Nat /\ next[c] >= 1
         /\ DOMAIN call[c].steps = 1 .. Len(call[c].steps)
<1>1. call[c].steps \in Seq(StepKinds) /\ call[c].craft \in BOOLEAN
  BY ScenariosAssumption DEF ClientTypeOK
<1>2. next[c] \in Nat /\ next[c] >= 1
  BY DEF ClientTypeOK
<1> QED
  BY <1>1, <1>2

(* The names of the steps, of which none is a ticker.                      *)
LEMMA StepFacts == \A s \in Symbols : s \notin Statuses \cup OtherSteps
BY ScenariosAssumption

(* What the wallet names an account for.                                   *)
LEMMA AccountSaid ==
  ASSUME TypeOK, NEW c \in Callers, outcome[c] # None, Said(c, "account")
  PROVE  \E a \in Accounts : outcome[c] = Says("account", a)
<1>1. outcome[c] \in Answers \cup {TimedOut, DeliverRaised}
  BY DEF TypeOK
<1>2. outcome[c] # Failure /\ outcome[c] # TimedOut /\ outcome[c] # DeliverRaised
  <2>1. Failure.kind = "error" /\ TimedOut.kind = "timed out" /\ DeliverRaised.kind = "deliver raised"
    BY DEF Failure, TimedOut, DeliverRaised, Says
  <2>2. outcome[c].kind = "account"
    BY DEF Said
  <2> QED
    BY <2>1, <2>2
<1>3. outcome[c] \in [kind : {"account", "signature", "hash"}, account : Accounts]
  BY <1>1, <1>2 DEF Answers
<1>4. outcome[c] = [kind |-> outcome[c].kind, account |-> outcome[c].account]
  BY <1>3
<1>5. outcome[c].account \in Accounts
  BY <1>3
<1> QED
  BY <1>4, <1>5 DEF Said, Says

(* A call that is done with the wallet keeps its outcome, and one that gets *)
(* done has one.                                                            *)
LEMMA WalletKeeps ==
  ASSUME IInv, Wallet
  PROVE  \A c \in Callers :
           /\ At(c, "done") => At(c, "done")' /\ outcome'[c] = outcome[c]
           /\ At(c, "done")' => At(c, "done") \/ outcome'[c] # None
<1> DEFINE Keeps == \A c \in Callers :
           /\ At(c, "done") => At(c, "done")' /\ outcome'[c] = outcome[c]
           /\ At(c, "done")' => At(c, "done") \/ outcome'[c] # None
<1>a. TypeOK /\ CallsFit
  BY DEF IInv
<1>0. stage \in [Callers -> Inside \cup Outside]
      /\ outcome \in [Callers -> Answers \cup {None, TimedOut, DeliverRaised}]
  BY <1>a DEF TypeOK
<1>1. ASSUME NEW d \in Callers, Connect(d) PROVE Keeps
  BY <1>0, <1>1 DEF Connect, Park, At, Moved
<1>2. ASSUME NEW d \in Callers, UseAddress(d) PROVE Keeps
  <2>1. CASE want[d] = "sign"
    BY <1>0, <1>2, <2>1 DEF UseAddress, Park, At, Moved
  <2>2. CASE want[d] # "sign"
    <3>1. address \in Accounts
      BY <1>a, <1>2 DEF UseAddress, TypeOK
    <3>2. Says("account", address) \in Answers
      BY <3>1 DEF Says, Answers
    <3>3. Says("account", address) # None
      BY <3>2, AnswerFacts
    <3>4. stage' = [stage EXCEPT ![d] = "done"]
          /\ outcome' = [outcome EXCEPT ![d] = Says("account", address)]
      BY <1>2, <2>2 DEF UseAddress, Moved
    <3> QED
      BY <1>0, <1>2, <3>3, <3>4 DEF UseAddress, At
  <2> QED
    BY <2>1, <2>2
<1>3. ASSUME NEW d \in Callers, HandOver(d) PROVE Keeps
  BY <1>3 DEF HandOver, At
<1>4. ASSUME NEW d \in Callers, DeliverReturns(d) PROVE Keeps
  BY <1>0, <1>4 DEF DeliverReturns, At, Moved
<1>5. ASSUME NEW d \in Callers, DeliverRaises(d) PROVE Keeps
  BY <1>0, <1>5 DEF DeliverRaises, At, Moved
<1>6. ASSUME NEW d \in Callers, Wake(d) PROVE Keeps
  BY <1>0, <1>6 DEF Wake, At, Moved
<1>7. ASSUME NEW d \in Callers, TimeOut(d) PROVE Keeps
  BY <1>0, <1>7 DEF TimeOut, At, Moved
<1>8. ASSUME NEW d \in Callers, ReadResult(d) PROVE Keeps
  BY <1>0, <1>8 DEF ReadResult, At, Moved
<1>9. ASSUME NEW d \in Callers, Leave(d) PROVE Keeps
  <2>1. At(d, "leave") => got[d] # None
    BY <1>a DEF CallsFit, At
  <2>2. stage[d] # "done"
    BY <1>9 DEF Leave, At
  <2>3. \A e \in Callers : e # d => stage'[e] = stage[e] /\ outcome'[e] = outcome[e]
    BY <1>0, <1>9 DEF Leave, Ended, Moved
  <2>4. stage'[d] = "done" => outcome'[d] # None
    <3>1. CASE At(d, "expired") /\ Ended(d, TimedOut)
      BY <1>0, <3>1, AnswerFacts DEF Ended
    <3>2. CASE At(d, "failed") /\ Ended(d, DeliverRaised)
      <4>1. DeliverRaised # None
        BY NoneIsNoAnswer
      <4> QED
        BY <1>0, <3>2, <4>1 DEF Ended
    <3>3. CASE At(d, "leave") /\ Ended(d, got[d])
      BY <1>0, <2>1, <3>3 DEF Ended
    <3>4. CASE stage' = Moved(d, "store")
      BY <1>0, <3>4 DEF Moved
    <3> QED
      BY <1>9, <3>1, <3>2, <3>3, <3>4 DEF Leave
  <2> QED
    BY <2>2, <2>3, <2>4 DEF At
<1>10. ASSUME NEW d \in Callers, StoreAddress(d) PROVE Keeps
  BY <1>0, <1>10 DEF StoreAddress, At, Moved
<1>11. ASSUME NEW w \in Tabs, Tab(w) PROVE Keeps
  BY <1>11 DEF Tab, OpenUrl, WalletSays, Resolve, At
<1> QED
  BY <1>1, <1>2, <1>3, <1>4, <1>5, <1>6, <1>7, <1>8, <1>9, <1>10, <1>11 DEF Wallet, Signer

-----------------------------------------------------------------------------
(* The steps of a client are steps of its parts *)

(* What the client does to its bridge, the bridge allows. *)
LEMMA BridgeSteps == ClientIInv /\ [ClientNext]_everything => [Next]_vars
<1> SUFFICES ASSUME ClientIInv, [ClientNext]_everything PROVE [Next]_vars
  OBVIOUS
<1>a. PlacesFit /\ TypeOK
  BY DEF ClientIInv, IInv
<1>1. ASSUME NEW c \in Callers, Begin(c) PROVE [Next]_vars
  BY <1>1 DEF Begin
<1>2. ASSUME NEW c \in Callers, EnterCraft(c) PROVE [Next]_vars
  BY <1>2 DEF EnterCraft
<1>3. ASSUME NEW c \in Callers, ExitCraft(c) PROVE [Next]_vars
  BY <1>3 DEF ExitCraft
<1>4. ASSUME NEW c \in Callers, Return(c) PROVE [Next]_vars
  BY <1>4 DEF Return
<1>5. ASSUME NEW c \in Callers, Gate(c) PROVE [Next]_vars
  BY <1>5 DEF Gate
<1>6. ASSUME NEW c \in Callers, VerifyChain(c) PROVE [Next]_vars
  BY <1>6 DEF VerifyChain
<1>7. ASSUME NEW c \in Callers, ChainUnknown(c) PROVE [Next]_vars
  BY <1>7 DEF ChainUnknown
<1>8. ASSUME NEW c \in Callers, TakeLock(c) PROVE [Next]_vars
  BY <1>8 DEF TakeLock
<1>9. ASSUME NEW c \in Callers, ReadAddress(c) PROVE [Next]_vars
  BY <1>9 DEF ReadAddress, Methods, Next, Caller
<1>10. ASSUME NEW c \in Callers, Capture(c) PROVE [Next]_vars
  BY <1>10 DEF Capture
<1>11. ASSUME NEW c \in Callers, Build(c) PROVE [Next]_vars
  BY <1>11 DEF Build
<1>12. ASSUME NEW c \in Callers, AskWallet(c) PROVE [Next]_vars
  <2>1. outcome[c].account \in Accounts
    <3>1. PICK a \in Accounts : outcome[c] = Says("account", a)
      BY <1>a, <1>12 DEF AskWallet, PlacesFit, PlaceFits
    <3> QED
      BY <3>1 DEF Says
  <2> QED
    BY <1>12, <2>1 DEF AskWallet, Next, Caller
<1>13. ASSUME NEW c \in Callers, Mined(c) PROVE [Next]_vars
  BY <1>13 DEF Mined
<1>14. ASSUME NEW c \in Callers, SendFails(c) PROVE [Next]_vars
  BY <1>14 DEF SendFails
<1>15. ASSUME NEW c \in Callers, CheckStatus(c) PROVE [Next]_vars
  BY <1>15 DEF CheckStatus
<1>16. ASSUME NEW c \in Callers, FindWithdrawal(c) PROVE [Next]_vars
  BY <1>16 DEF FindWithdrawal
<1>17. ASSUME NEW c \in Callers, Ask(c) PROVE [Next]_vars
  BY <1>17 DEF Ask
<1>18. ASSUME NEW c \in Callers, Refuse(c) PROVE [Next]_vars
  BY <1>18 DEF Refuse
<1>19. ASSUME NEW c \in Callers, Post(c) PROVE [Next]_vars
  BY <1>19 DEF Post
<1>20. ASSUME NEW c \in Callers, NameAccount(c) PROVE [Next]_vars
  BY <1>20 DEF NameAccount, Methods, Next, Caller
<1>21. ASSUME NEW c \in Callers, AskToSign(c) PROVE [Next]_vars
  BY <1>21 DEF AskToSign, Methods, Next, Caller
<1>22. ASSUME NEW c \in Callers, WalletAnswers(c) PROVE [Next]_vars
  BY <1>22 DEF WalletAnswers
<1>23. ASSUME NEW c \in Callers, BeginLookUp(c) PROVE [Next]_vars
  BY <1>23 DEF BeginLookUp
<1>24. ASSUME NEW c \in Callers, EndLookUp(c) PROVE [Next]_vars
  BY <1>24 DEF EndLookUp
<1>25. ASSUME NEW c \in Callers, PoolStep(c) PROVE [Next]_vars
  BY <1>25 DEF PoolStep
<1>26. ASSUME Wallet, UNCHANGED <<client, resolution>> PROVE [Next]_vars
  BY <1>26 DEF Wallet, Next, Caller
<1>27. ASSUME LookUps, UNCHANGED <<client, vars>> PROVE [Next]_vars
  BY <1>27 DEF vars
<1>28. ASSUME Halt PROVE [Next]_vars
  BY <1>28 DEF Halt
<1>29. ASSUME Resume PROVE [Next]_vars
  BY <1>29 DEF Resume
<1>30. ASSUME UNCHANGED everything PROVE [Next]_vars
  BY <1>30 DEF everything
<1>31. ASSUME NEW c \in Callers, TestCraft(c) PROVE [Next]_vars
  BY <1>31 DEF TestCraft
<1>32. ASSUME NEW c \in Callers, Divert(c) PROVE [Next]_vars
  BY <1>32 DEF Divert
<1> QED
  BY <1>1, <1>2, <1>3, <1>4, <1>5, <1>6, <1>7, <1>8, <1>9, <1>10, <1>11, <1>12, <1>13,
     <1>14, <1>15, <1>16, <1>17, <1>18, <1>19, <1>20, <1>21, <1>22, <1>23, <1>24, <1>25,
     <1>26, <1>27, <1>28, <1>29, <1>30, <1>31, <1>32 DEF ClientNext, Client, Over

(* What it does to its look-ups, they allow. *)
LEMMA LookUpSteps == [ClientNext]_everything => [ResolutionNext]_resolution
<1> SUFFICES ASSUME [ClientNext]_everything PROVE [ResolutionNext]_resolution
  OBVIOUS
<1>1. ASSUME NEW c \in Callers, Begin(c) PROVE [ResolutionNext]_resolution
  BY <1>1 DEF Begin
<1>2. ASSUME NEW c \in Callers, EnterCraft(c) PROVE [ResolutionNext]_resolution
  BY <1>2 DEF EnterCraft
<1>3. ASSUME NEW c \in Callers, ExitCraft(c) PROVE [ResolutionNext]_resolution
  BY <1>3 DEF ExitCraft
<1>4. ASSUME NEW c \in Callers, Return(c) PROVE [ResolutionNext]_resolution
  BY <1>4 DEF Return
<1>5. ASSUME NEW c \in Callers, Gate(c) PROVE [ResolutionNext]_resolution
  BY <1>5 DEF Gate
<1>6. ASSUME NEW c \in Callers, VerifyChain(c) PROVE [ResolutionNext]_resolution
  BY <1>6 DEF VerifyChain
<1>7. ASSUME NEW c \in Callers, ChainUnknown(c) PROVE [ResolutionNext]_resolution
  BY <1>7 DEF ChainUnknown
<1>8. ASSUME NEW c \in Callers, TakeLock(c) PROVE [ResolutionNext]_resolution
  BY <1>8 DEF TakeLock
<1>9. ASSUME NEW c \in Callers, ReadAddress(c) PROVE [ResolutionNext]_resolution
  BY <1>9 DEF ReadAddress
<1>10. ASSUME NEW c \in Callers, Capture(c) PROVE [ResolutionNext]_resolution
  BY <1>10 DEF Capture
<1>11. ASSUME NEW c \in Callers, Build(c) PROVE [ResolutionNext]_resolution
  BY <1>11 DEF Build
<1>12. ASSUME NEW c \in Callers, AskWallet(c) PROVE [ResolutionNext]_resolution
  BY <1>12 DEF AskWallet
<1>13. ASSUME NEW c \in Callers, Mined(c) PROVE [ResolutionNext]_resolution
  BY <1>13 DEF Mined
<1>14. ASSUME NEW c \in Callers, SendFails(c) PROVE [ResolutionNext]_resolution
  BY <1>14 DEF SendFails
<1>15. ASSUME NEW c \in Callers, CheckStatus(c) PROVE [ResolutionNext]_resolution
  BY <1>15 DEF CheckStatus
<1>16. ASSUME NEW c \in Callers, FindWithdrawal(c) PROVE [ResolutionNext]_resolution
  BY <1>16 DEF FindWithdrawal
<1>17. ASSUME NEW c \in Callers, Ask(c) PROVE [ResolutionNext]_resolution
  BY <1>17 DEF Ask
<1>18. ASSUME NEW c \in Callers, Refuse(c) PROVE [ResolutionNext]_resolution
  BY <1>18 DEF Refuse
<1>19. ASSUME NEW c \in Callers, Post(c) PROVE [ResolutionNext]_resolution
  BY <1>19 DEF Post
<1>20. ASSUME NEW c \in Callers, NameAccount(c) PROVE [ResolutionNext]_resolution
  BY <1>20 DEF NameAccount
<1>21. ASSUME NEW c \in Callers, AskToSign(c) PROVE [ResolutionNext]_resolution
  BY <1>21 DEF AskToSign
<1>22. ASSUME NEW c \in Callers, WalletAnswers(c) PROVE [ResolutionNext]_resolution
  BY <1>22 DEF WalletAnswers
<1>23. ASSUME NEW c \in Callers, BeginLookUp(c) PROVE [ResolutionNext]_resolution
  BY <1>23 DEF BeginLookUp, ResolutionNext
<1>24. ASSUME NEW c \in Callers, EndLookUp(c) PROVE [ResolutionNext]_resolution
  BY <1>24 DEF EndLookUp
<1>25. ASSUME NEW c \in Callers, PoolStep(c) PROVE [ResolutionNext]_resolution
  BY <1>25 DEF PoolStep, ResolutionNext, AskingPool
<1>26. ASSUME Wallet, UNCHANGED <<client, resolution>> PROVE [ResolutionNext]_resolution
  BY <1>26 DEF resolution
<1>27. ASSUME LookUps, UNCHANGED <<client, vars>> PROVE [ResolutionNext]_resolution
  BY <1>27 DEF LookUps, ResolutionNext
<1>28. ASSUME Halt PROVE [ResolutionNext]_resolution
  BY <1>28 DEF Halt
<1>29. ASSUME Resume PROVE [ResolutionNext]_resolution
  BY <1>29 DEF Resume
<1>30. ASSUME UNCHANGED everything PROVE [ResolutionNext]_resolution
  BY <1>30 DEF everything
<1>31. ASSUME NEW c \in Callers, TestCraft(c) PROVE [ResolutionNext]_resolution
  BY <1>31 DEF TestCraft
<1>32. ASSUME NEW c \in Callers, Divert(c) PROVE [ResolutionNext]_resolution
  BY <1>32 DEF Divert
<1> QED
  BY <1>1, <1>2, <1>3, <1>4, <1>5, <1>6, <1>7, <1>8, <1>9, <1>10, <1>11, <1>12, <1>13,
     <1>14, <1>15, <1>16, <1>17, <1>18, <1>19, <1>20, <1>21, <1>22, <1>23, <1>24, <1>25,
     <1>26, <1>27, <1>28, <1>29, <1>30, <1>31, <1>32 DEF ClientNext, Client, Over

-----------------------------------------------------------------------------
(* One lemma for each of the client's own conjuncts *)

(* The lock is taken and released with the places it guards. *)
LEMMA LockPreserved == ClientIInv /\ [ClientNext]_everything => LockIsHeld'
<1> SUFFICES ASSUME ClientIInv, [ClientNext]_everything PROVE LockIsHeld'
  OBVIOUS
<1>a. place \in [Callers -> Places]
  BY DEF ClientIInv, ClientTypeOK
<1>b. LockIsHeld
  BY DEF ClientIInv
<1>c. txLock \in Callers \cup {None}
  BY DEF ClientIInv, ClientTypeOK
<1>1. ASSUME NEW c \in Callers, Begin(c) PROVE LockIsHeld'
  BY <1>a, <1>b, <1>c, <1>1 DEF Begin, Proceed, LockIsHeld, Sending, Locked, At, AtStep
<1>2. ASSUME NEW c \in Callers, EnterCraft(c) PROVE LockIsHeld'
  BY <1>a, <1>b, <1>c, <1>2 DEF EnterCraft, Proceed, LockIsHeld, Sending, Locked, At, AtStep
<1>3. ASSUME NEW c \in Callers, ExitCraft(c) PROVE LockIsHeld'
  BY <1>a, <1>b, <1>c, <1>3 DEF ExitCraft, Proceed, LockIsHeld, Sending, Locked, At, AtStep
<1>4. ASSUME NEW c \in Callers, Return(c) PROVE LockIsHeld'
  BY <1>a, <1>b, <1>c, <1>4 DEF Return, Proceed, LockIsHeld, Sending, Locked, At, AtStep
<1>5. ASSUME NEW c \in Callers, Gate(c) PROVE LockIsHeld'
  BY <1>a, <1>b, <1>c, <1>5 DEF Gate, Proceed, Raise, LockIsHeld, Sending, Locked, At, AtStep
<1>6. ASSUME NEW c \in Callers, VerifyChain(c) PROVE LockIsHeld'
  BY <1>a, <1>b, <1>c, <1>6 DEF VerifyChain, Proceed, Raise, Checked, ChecksChain,
         LockIsHeld, Sending, Locked, At, AtStep
<1>7. ASSUME NEW c \in Callers, ChainUnknown(c) PROVE LockIsHeld'
  BY <1>a, <1>b, <1>c, <1>7 DEF ChainUnknown, Proceed, Checked, ChecksChain, LockIsHeld,
         Sending, Locked, At, AtStep
<1>8. ASSUME NEW c \in Callers, TakeLock(c) PROVE LockIsHeld'
  BY <1>a, <1>b, <1>c, <1>8 DEF TakeLock, Proceed, LockIsHeld, Sending, Locked, At, AtStep
<1>9. ASSUME NEW c \in Callers, ReadAddress(c) PROVE LockIsHeld'
  BY <1>a, <1>b, <1>c, <1>9 DEF ReadAddress, Proceed, LockIsHeld, Sending, Locked, At, AtStep
<1>10. ASSUME NEW c \in Callers, Capture(c) PROVE LockIsHeld'
  BY <1>a, <1>b, <1>c, <1>10 DEF Capture, Proceed, SendReturns, StepDone, Answered,
         LockIsHeld, Sending, Locked, At, AtStep
<1>11. ASSUME NEW c \in Callers, Build(c) PROVE LockIsHeld'
  BY <1>a, <1>b, <1>c, <1>11 DEF Build, Proceed, Answered, LockIsHeld, Sending, Locked, At,
         AtStep
<1>12. ASSUME NEW c \in Callers, AskWallet(c) PROVE LockIsHeld'
  BY <1>a, <1>b, <1>c, <1>12 DEF AskWallet, Proceed, LockIsHeld, Sending, Locked, At, AtStep
<1>13. ASSUME NEW c \in Callers, Mined(c) PROVE LockIsHeld'
  BY <1>a, <1>b, <1>c, <1>13 DEF Mined, Proceed, SendReturns, StepDone, Answered,
         LockIsHeld, Sending, Locked, At, AtStep
<1>14. ASSUME NEW c \in Callers, SendFails(c) PROVE LockIsHeld'
  BY <1>a, <1>b, <1>c, <1>14 DEF SendFails, Proceed, SendRaises, Raise, Answered,
         LockIsHeld, Sending, Locked, At, AtStep
<1>15. ASSUME NEW c \in Callers, CheckStatus(c) PROVE LockIsHeld'
  BY <1>a, <1>b, <1>c, <1>15 DEF CheckStatus, Proceed, StepDone, Raise, LockIsHeld,
         Sending, Locked, At, AtStep
<1>16. ASSUME NEW c \in Callers, FindWithdrawal(c) PROVE LockIsHeld'
  BY <1>a, <1>b, <1>c, <1>16 DEF FindWithdrawal, Proceed, StepDone, Raise, LockIsHeld,
         Sending, Locked, At, AtStep
<1>17. ASSUME NEW c \in Callers, Ask(c) PROVE LockIsHeld'
  BY <1>a, <1>b, <1>c, <1>17 DEF Ask, Proceed, StepDone, Raise, LockIsHeld, Sending,
         Locked, At, AtStep
<1>18. ASSUME NEW c \in Callers, Refuse(c) PROVE LockIsHeld'
  BY <1>a, <1>b, <1>c, <1>18 DEF Refuse, Proceed, StepDone, Raise, LockIsHeld, Sending,
         Locked, At, AtStep
<1>19. ASSUME NEW c \in Callers, Post(c) PROVE LockIsHeld'
  BY <1>a, <1>b, <1>c, <1>19 DEF Post, Proceed, StepDone, Raise, LockIsHeld, Sending,
         Locked, At, AtStep
<1>20. ASSUME NEW c \in Callers, NameAccount(c) PROVE LockIsHeld'
  BY <1>a, <1>b, <1>c, <1>20 DEF NameAccount, Proceed, LockIsHeld, Sending, Locked, At, AtStep
<1>21. ASSUME NEW c \in Callers, AskToSign(c) PROVE LockIsHeld'
  BY <1>a, <1>b, <1>c, <1>21 DEF AskToSign, Proceed, LockIsHeld, Sending, Locked, At, AtStep
<1>22. ASSUME NEW c \in Callers, WalletAnswers(c) PROVE LockIsHeld'
  BY <1>a, <1>b, <1>c, <1>22 DEF WalletAnswers, Proceed, StepDone, Raise, Answered,
         LockIsHeld, Sending, Locked, At, AtStep
<1>23. ASSUME NEW c \in Callers, BeginLookUp(c) PROVE LockIsHeld'
  BY <1>a, <1>b, <1>c, <1>23 DEF BeginLookUp, Proceed, LockIsHeld, Sending, Locked, At, AtStep
<1>24. ASSUME NEW c \in Callers, EndLookUp(c) PROVE LockIsHeld'
  BY <1>a, <1>b, <1>c, <1>24 DEF EndLookUp, Proceed, StepDone, Raise, LockIsHeld, Sending,
         Locked, At, AtStep
<1>25. ASSUME NEW c \in Callers, PoolStep(c) PROVE LockIsHeld'
  BY <1>a, <1>b, <1>c, <1>25 DEF PoolStep, Proceed, StepDone, Raise, LockIsHeld, Sending,
         Locked, At, AtStep
<1>26. ASSUME Wallet, UNCHANGED <<client, resolution>> PROVE LockIsHeld'
  BY <1>a, <1>b, <1>c, <1>26 DEF client, LockIsHeld, Sending, Locked, At, AtStep
<1>27. ASSUME LookUps, UNCHANGED <<client, vars>> PROVE LockIsHeld'
  BY <1>a, <1>b, <1>c, <1>27 DEF client, LockIsHeld, Sending, Locked, At, AtStep
<1>28. ASSUME Halt PROVE LockIsHeld'
  BY <1>a, <1>b, <1>c, <1>28 DEF Halt, LockIsHeld, Sending, Locked, At, AtStep
<1>29. ASSUME Resume PROVE LockIsHeld'
  BY <1>a, <1>b, <1>c, <1>29 DEF Resume, LockIsHeld, Sending, Locked, At, AtStep
<1>30. ASSUME UNCHANGED everything PROVE LockIsHeld'
  BY <1>a, <1>b, <1>c, <1>30 DEF everything, client, LockIsHeld, Sending, Locked, At, AtStep
<1>31. ASSUME NEW c \in Callers, TestCraft(c) PROVE LockIsHeld'
  BY <1>a, <1>b, <1>c, <1>31 DEF TestCraft, Proceed, LockIsHeld, Sending, Locked, At, AtStep
<1>32. ASSUME NEW c \in Callers, Divert(c) PROVE LockIsHeld'
  BY <1>a, <1>b, <1>c, <1>32 DEF Divert, Proceed, Answered, LockIsHeld, Sending, Locked, At, AtStep
<1> QED
  BY <1>1, <1>2, <1>3, <1>4, <1>5, <1>6, <1>7, <1>8, <1>9, <1>10, <1>11, <1>12, <1>13,
     <1>14, <1>15, <1>16, <1>17, <1>18, <1>19, <1>20, <1>21, <1>22, <1>23, <1>24, <1>25,
     <1>26, <1>27, <1>28, <1>29, <1>30, <1>31, <1>32 DEF ClientNext, Client, Over

(* As long as no two craft() have been entered at once, a scope belongs to one *)
(* call.                                                                   *)
LEMMA CraftPreserved == ClientIInv /\ [ClientNext]_everything => CraftIsOwn'
<1> SUFFICES ASSUME ClientIInv, [ClientNext]_everything PROVE CraftIsOwn'
  OBVIOUS
<1>a. place \in [Callers -> Places]
  BY DEF ClientIInv, ClientTypeOK
<1>b. CraftIsOwn
  BY DEF ClientIInv
<1>c. crafting \in Callers \cup {None}
  BY DEF ClientIInv, ClientTypeOK
<1>d. \A c \in Callers : call[c].craft \in BOOLEAN
  BY CallFacts DEF ClientIInv
<1>z. \A c \in Callers : place[c] \in {"check", "enter", "entering", "exit"} => call[c].craft
  BY DEF ClientIInv, PlacesFit, PlaceFits
<1>1. ASSUME NEW c \in Callers, Begin(c) PROVE CraftIsOwn'
  BY <1>a, <1>b, <1>c, <1>d, <1>1 DEF Begin, Proceed, CraftIsOwn, InCraft, Sending, course,
         lists, At, AtStep
<1>2. ASSUME NEW c \in Callers, EnterCraft(c) PROVE CraftIsOwn'
  BY <1>a, <1>b, <1>c, <1>z, <1>2 DEF EnterCraft, Proceed, CraftIsOwn, InCraft, course, lists
<1>3. ASSUME NEW c \in Callers, ExitCraft(c) PROVE CraftIsOwn'
  BY <1>a, <1>b, <1>c, <1>z, <1>3 DEF ExitCraft, Proceed, CraftIsOwn, InCraft, course, lists
<1>4. ASSUME NEW c \in Callers, Return(c) PROVE CraftIsOwn'
  BY <1>a, <1>b, <1>c, <1>d, <1>4 DEF Return, Proceed, CraftIsOwn, InCraft, Sending,
         course, lists, At, AtStep
<1>5. ASSUME NEW c \in Callers, Gate(c) PROVE CraftIsOwn'
  BY <1>a, <1>b, <1>c, <1>d, <1>5 DEF Gate, Proceed, Raise, CraftIsOwn, InCraft, Sending,
         course, lists, At, AtStep
<1>6. ASSUME NEW c \in Callers, VerifyChain(c) PROVE CraftIsOwn'
  BY <1>a, <1>b, <1>c, <1>d, <1>6 DEF VerifyChain, Proceed, Raise, Checked, ChecksChain,
         CraftIsOwn, InCraft, Sending, course, lists, At, AtStep
<1>7. ASSUME NEW c \in Callers, ChainUnknown(c) PROVE CraftIsOwn'
  BY <1>a, <1>b, <1>c, <1>d, <1>7 DEF ChainUnknown, Proceed, Checked, ChecksChain,
         CraftIsOwn, InCraft, Sending, course, lists, At, AtStep
<1>8. ASSUME NEW c \in Callers, TakeLock(c) PROVE CraftIsOwn'
  BY <1>a, <1>b, <1>c, <1>d, <1>8 DEF TakeLock, Proceed, CraftIsOwn, InCraft, Sending,
         course, lists, At, AtStep
<1>9. ASSUME NEW c \in Callers, ReadAddress(c) PROVE CraftIsOwn'
  BY <1>a, <1>b, <1>c, <1>d, <1>9 DEF ReadAddress, Proceed, CraftIsOwn, InCraft, Sending,
         course, lists, At, AtStep
<1>10. ASSUME NEW c \in Callers, Capture(c) PROVE CraftIsOwn'
  BY <1>a, <1>b, <1>c, <1>d, <1>10 DEF Capture, Proceed, SendReturns, StepDone, Answered,
         CraftIsOwn, InCraft, Sending, course, lists, At, AtStep
<1>11. ASSUME NEW c \in Callers, Build(c) PROVE CraftIsOwn'
  BY <1>a, <1>b, <1>c, <1>d, <1>11 DEF Build, Proceed, Answered, CraftIsOwn, InCraft,
         Sending, course, lists, At, AtStep
<1>12. ASSUME NEW c \in Callers, AskWallet(c) PROVE CraftIsOwn'
  BY <1>a, <1>b, <1>c, <1>d, <1>12 DEF AskWallet, Proceed, CraftIsOwn, InCraft, Sending,
         course, lists, At, AtStep
<1>13. ASSUME NEW c \in Callers, Mined(c) PROVE CraftIsOwn'
  BY <1>a, <1>b, <1>c, <1>d, <1>13 DEF Mined, Proceed, SendReturns, StepDone, Answered,
         CraftIsOwn, InCraft, Sending, course, lists, At, AtStep
<1>14. ASSUME NEW c \in Callers, SendFails(c) PROVE CraftIsOwn'
  BY <1>a, <1>b, <1>c, <1>d, <1>14 DEF SendFails, Proceed, SendRaises, Raise, Answered,
         CraftIsOwn, InCraft, Sending, course, lists, At, AtStep
<1>15. ASSUME NEW c \in Callers, CheckStatus(c) PROVE CraftIsOwn'
  BY <1>a, <1>b, <1>c, <1>d, <1>15 DEF CheckStatus, Proceed, StepDone, Raise, CraftIsOwn,
         InCraft, Sending, course, lists, At, AtStep
<1>16. ASSUME NEW c \in Callers, FindWithdrawal(c) PROVE CraftIsOwn'
  BY <1>a, <1>b, <1>c, <1>d, <1>16 DEF FindWithdrawal, Proceed, StepDone, Raise,
         CraftIsOwn, InCraft, Sending, course, lists, At, AtStep
<1>17. ASSUME NEW c \in Callers, Ask(c) PROVE CraftIsOwn'
  BY <1>a, <1>b, <1>c, <1>d, <1>17 DEF Ask, Proceed, StepDone, Raise, CraftIsOwn, InCraft,
         Sending, course, lists, At, AtStep
<1>18. ASSUME NEW c \in Callers, Refuse(c) PROVE CraftIsOwn'
  BY <1>a, <1>b, <1>c, <1>d, <1>18 DEF Refuse, Proceed, StepDone, Raise, CraftIsOwn,
         InCraft, Sending, course, lists, At, AtStep
<1>19. ASSUME NEW c \in Callers, Post(c) PROVE CraftIsOwn'
  BY <1>a, <1>b, <1>c, <1>d, <1>19 DEF Post, Proceed, StepDone, Raise, CraftIsOwn, InCraft,
         Sending, course, lists, At, AtStep
<1>20. ASSUME NEW c \in Callers, NameAccount(c) PROVE CraftIsOwn'
  BY <1>a, <1>b, <1>c, <1>d, <1>20 DEF NameAccount, Proceed, CraftIsOwn, InCraft, Sending,
         course, lists, At, AtStep
<1>21. ASSUME NEW c \in Callers, AskToSign(c) PROVE CraftIsOwn'
  BY <1>a, <1>b, <1>c, <1>d, <1>21 DEF AskToSign, Proceed, CraftIsOwn, InCraft, Sending,
         course, lists, At, AtStep
<1>22. ASSUME NEW c \in Callers, WalletAnswers(c) PROVE CraftIsOwn'
  BY <1>a, <1>b, <1>c, <1>d, <1>22 DEF WalletAnswers, Proceed, StepDone, Raise, Answered,
         CraftIsOwn, InCraft, Sending, course, lists, At, AtStep
<1>23. ASSUME NEW c \in Callers, BeginLookUp(c) PROVE CraftIsOwn'
  BY <1>a, <1>b, <1>c, <1>d, <1>23 DEF BeginLookUp, Proceed, CraftIsOwn, InCraft, Sending,
         course, lists, At, AtStep
<1>24. ASSUME NEW c \in Callers, EndLookUp(c) PROVE CraftIsOwn'
  BY <1>a, <1>b, <1>c, <1>d, <1>24 DEF EndLookUp, Proceed, StepDone, Raise, CraftIsOwn,
         InCraft, Sending, course, lists, At, AtStep
<1>25. ASSUME NEW c \in Callers, PoolStep(c) PROVE CraftIsOwn'
  BY <1>a, <1>b, <1>c, <1>d, <1>25 DEF PoolStep, Proceed, StepDone, Raise, CraftIsOwn,
         InCraft, Sending, course, lists, At, AtStep
<1>26. ASSUME Wallet, UNCHANGED <<client, resolution>> PROVE CraftIsOwn'
  BY <1>a, <1>b, <1>c, <1>d, <1>26 DEF client, CraftIsOwn, InCraft, Sending, course, lists,
         At, AtStep
<1>27. ASSUME LookUps, UNCHANGED <<client, vars>> PROVE CraftIsOwn'
  BY <1>a, <1>b, <1>c, <1>d, <1>27 DEF client, CraftIsOwn, InCraft, Sending, course, lists,
         At, AtStep
<1>28. ASSUME Halt PROVE CraftIsOwn'
  BY <1>a, <1>b, <1>c, <1>d, <1>28 DEF Halt, CraftIsOwn, InCraft, Sending, course, lists,
         At, AtStep
<1>29. ASSUME Resume PROVE CraftIsOwn'
  BY <1>a, <1>b, <1>c, <1>d, <1>29 DEF Resume, CraftIsOwn, InCraft, Sending, course, lists,
         At, AtStep
<1>30. ASSUME UNCHANGED everything PROVE CraftIsOwn'
  BY <1>a, <1>b, <1>c, <1>d, <1>30 DEF everything, client, CraftIsOwn, InCraft, Sending,
         course, lists, At, AtStep
<1>31. ASSUME NEW c \in Callers, TestCraft(c) PROVE CraftIsOwn'
  BY <1>a, <1>b, <1>c, <1>d, <1>31 DEF TestCraft, Proceed, CraftIsOwn, InCraft, Sending,
         course, lists, At, AtStep
<1>32. ASSUME NEW c \in Callers, Divert(c) PROVE CraftIsOwn'
  BY <1>a, <1>b, <1>c, <1>d, <1>32 DEF Divert, Proceed, Answered, CraftIsOwn, InCraft, Sending,
         course, lists, At, AtStep
<1> QED
  BY <1>1, <1>2, <1>3, <1>4, <1>5, <1>6, <1>7, <1>8, <1>9, <1>10, <1>11, <1>12, <1>13,
     <1>14, <1>15, <1>16, <1>17, <1>18, <1>19, <1>20, <1>21, <1>22, <1>23, <1>24, <1>25,
     <1>26, <1>27, <1>28, <1>29, <1>30, <1>31, <1>32 DEF ClientNext, Client, Over

(* The chain is never taken for checked when it is another. *)
LEMMA VerifiedPreserved == ClientIInv /\ [ClientNext]_everything => VerifiedIsAccepted'
<1> SUFFICES ASSUME ClientIInv, [ClientNext]_everything PROVE VerifiedIsAccepted'
  OBVIOUS
<1>b. VerifiedIsAccepted
  BY DEF ClientIInv
<1>1. ASSUME NEW c \in Callers, Begin(c) PROVE VerifiedIsAccepted'
  BY <1>b, <1>1 DEF Begin, Proceed, VerifiedIsAccepted, Accepted, guard
<1>2. ASSUME NEW c \in Callers, EnterCraft(c) PROVE VerifiedIsAccepted'
  BY <1>b, <1>2 DEF EnterCraft, Proceed, VerifiedIsAccepted, Accepted, guard
<1>3. ASSUME NEW c \in Callers, ExitCraft(c) PROVE VerifiedIsAccepted'
  BY <1>b, <1>3 DEF ExitCraft, Proceed, VerifiedIsAccepted, Accepted, guard
<1>4. ASSUME NEW c \in Callers, Return(c) PROVE VerifiedIsAccepted'
  BY <1>b, <1>4 DEF Return, Proceed, VerifiedIsAccepted, Accepted, guard
<1>5. ASSUME NEW c \in Callers, Gate(c) PROVE VerifiedIsAccepted'
  BY <1>b, <1>5 DEF Gate, Proceed, Raise, VerifiedIsAccepted, Accepted, guard
<1>6. ASSUME NEW c \in Callers, VerifyChain(c) PROVE VerifiedIsAccepted'
  BY <1>b, <1>6 DEF VerifyChain, Proceed, Raise, Checked, ChecksChain, VerifiedIsAccepted,
         Accepted, guard
<1>7. ASSUME NEW c \in Callers, ChainUnknown(c) PROVE VerifiedIsAccepted'
  BY <1>b, <1>7 DEF ChainUnknown, Proceed, Checked, ChecksChain, VerifiedIsAccepted,
         Accepted, guard
<1>8. ASSUME NEW c \in Callers, TakeLock(c) PROVE VerifiedIsAccepted'
  BY <1>b, <1>8 DEF TakeLock, Proceed, VerifiedIsAccepted, Accepted, guard
<1>9. ASSUME NEW c \in Callers, ReadAddress(c) PROVE VerifiedIsAccepted'
  BY <1>b, <1>9 DEF ReadAddress, Proceed, VerifiedIsAccepted, Accepted, guard
<1>10. ASSUME NEW c \in Callers, Capture(c) PROVE VerifiedIsAccepted'
  BY <1>b, <1>10 DEF Capture, Proceed, SendReturns, StepDone, Answered, VerifiedIsAccepted,
         Accepted, guard
<1>11. ASSUME NEW c \in Callers, Build(c) PROVE VerifiedIsAccepted'
  BY <1>b, <1>11 DEF Build, Proceed, Answered, VerifiedIsAccepted, Accepted, guard
<1>12. ASSUME NEW c \in Callers, AskWallet(c) PROVE VerifiedIsAccepted'
  BY <1>b, <1>12 DEF AskWallet, Proceed, VerifiedIsAccepted, Accepted, guard
<1>13. ASSUME NEW c \in Callers, Mined(c) PROVE VerifiedIsAccepted'
  BY <1>b, <1>13 DEF Mined, Proceed, SendReturns, StepDone, Answered, VerifiedIsAccepted,
         Accepted, guard
<1>14. ASSUME NEW c \in Callers, SendFails(c) PROVE VerifiedIsAccepted'
  BY <1>b, <1>14 DEF SendFails, Proceed, SendRaises, Raise, Answered, VerifiedIsAccepted,
         Accepted, guard
<1>15. ASSUME NEW c \in Callers, CheckStatus(c) PROVE VerifiedIsAccepted'
  BY <1>b, <1>15 DEF CheckStatus, Proceed, StepDone, Raise, VerifiedIsAccepted, Accepted, guard
<1>16. ASSUME NEW c \in Callers, FindWithdrawal(c) PROVE VerifiedIsAccepted'
  BY <1>b, <1>16 DEF FindWithdrawal, Proceed, StepDone, Raise, VerifiedIsAccepted,
         Accepted, guard
<1>17. ASSUME NEW c \in Callers, Ask(c) PROVE VerifiedIsAccepted'
  BY <1>b, <1>17 DEF Ask, Proceed, StepDone, Raise, VerifiedIsAccepted, Accepted, guard
<1>18. ASSUME NEW c \in Callers, Refuse(c) PROVE VerifiedIsAccepted'
  BY <1>b, <1>18 DEF Refuse, Proceed, StepDone, Raise, VerifiedIsAccepted, Accepted, guard
<1>19. ASSUME NEW c \in Callers, Post(c) PROVE VerifiedIsAccepted'
  BY <1>b, <1>19 DEF Post, Proceed, StepDone, Raise, VerifiedIsAccepted, Accepted, guard
<1>20. ASSUME NEW c \in Callers, NameAccount(c) PROVE VerifiedIsAccepted'
  BY <1>b, <1>20 DEF NameAccount, Proceed, VerifiedIsAccepted, Accepted, guard
<1>21. ASSUME NEW c \in Callers, AskToSign(c) PROVE VerifiedIsAccepted'
  BY <1>b, <1>21 DEF AskToSign, Proceed, VerifiedIsAccepted, Accepted, guard
<1>22. ASSUME NEW c \in Callers, WalletAnswers(c) PROVE VerifiedIsAccepted'
  BY <1>b, <1>22 DEF WalletAnswers, Proceed, StepDone, Raise, Answered, VerifiedIsAccepted,
         Accepted, guard
<1>23. ASSUME NEW c \in Callers, BeginLookUp(c) PROVE VerifiedIsAccepted'
  BY <1>b, <1>23 DEF BeginLookUp, Proceed, VerifiedIsAccepted, Accepted, guard
<1>24. ASSUME NEW c \in Callers, EndLookUp(c) PROVE VerifiedIsAccepted'
  BY <1>b, <1>24 DEF EndLookUp, Proceed, StepDone, Raise, VerifiedIsAccepted, Accepted, guard
<1>25. ASSUME NEW c \in Callers, PoolStep(c) PROVE VerifiedIsAccepted'
  BY <1>b, <1>25 DEF PoolStep, Proceed, StepDone, Raise, VerifiedIsAccepted, Accepted, guard
<1>26. ASSUME Wallet, UNCHANGED <<client, resolution>> PROVE VerifiedIsAccepted'
  BY <1>b, <1>26 DEF client, VerifiedIsAccepted, Accepted, guard
<1>27. ASSUME LookUps, UNCHANGED <<client, vars>> PROVE VerifiedIsAccepted'
  BY <1>b, <1>27 DEF client, VerifiedIsAccepted, Accepted, guard
<1>28. ASSUME Halt PROVE VerifiedIsAccepted'
  BY <1>b, <1>28 DEF Halt, VerifiedIsAccepted, Accepted, guard
<1>29. ASSUME Resume PROVE VerifiedIsAccepted'
  BY <1>b, <1>29 DEF Resume, VerifiedIsAccepted, Accepted, guard
<1>30. ASSUME UNCHANGED everything PROVE VerifiedIsAccepted'
  BY <1>b, <1>30 DEF everything, client, VerifiedIsAccepted, Accepted, guard
<1>31. ASSUME NEW c \in Callers, TestCraft(c) PROVE VerifiedIsAccepted'
  BY <1>b, <1>31 DEF TestCraft, Proceed, VerifiedIsAccepted, Accepted, guard
<1>32. ASSUME NEW c \in Callers, Divert(c) PROVE VerifiedIsAccepted'
  BY <1>b, <1>32 DEF Divert, Proceed, Answered, VerifiedIsAccepted, Accepted, guard
<1> QED
  BY <1>1, <1>2, <1>3, <1>4, <1>5, <1>6, <1>7, <1>8, <1>9, <1>10, <1>11, <1>12, <1>13,
     <1>14, <1>15, <1>16, <1>17, <1>18, <1>19, <1>20, <1>21, <1>22, <1>23, <1>24, <1>25,
     <1>26, <1>27, <1>28, <1>29, <1>30, <1>31, <1>32 DEF ClientNext, Client, Over

(* What is left of a call that makes one step of its own.                  *)
LEMMA OneStep ==
  ASSUME PlacesFit, UNCHANGED <<call, clashed>>, NEW c \in Callers,
         \A d \in Callers : d # c =>
           /\ place'[d] = place[d] /\ next'[d] = next[d]
           /\ stage'[d] = stage[d] /\ outcome'[d] = outcome[d],
         PlaceFits(c)'
  PROVE  PlacesFit'
<1>1. \A d \in Callers : d # c => PlaceFits(d)'
  BY DEF PlacesFit, PlaceFits, Finished, At
<1> QED
  BY <1>1 DEF PlacesFit

(* A step of the wallet leaves the places alone.                           *)
LEMMA WalletRests ==
  ASSUME PlacesFit, IInv, Wallet, UNCHANGED <<client, resolution>>
  PROVE  PlacesFit'
<1>1. UNCHANGED <<place, next, call, clashed>>
  BY DEF client, course, lists
<1>2. ASSUME NEW c \in Callers PROVE PlaceFits(c)'
  <2>1. /\ At(c, "done") => At(c, "done")' /\ outcome'[c] = outcome[c]
        /\ At(c, "done")' => At(c, "done") \/ outcome'[c] # None
    BY WalletKeeps
  <2>2. PlaceFits(c)
    BY DEF PlacesFit
  <2> QED
    BY <1>1, <2>1, <2>2 DEF PlaceFits, Finished
<1> QED
  BY <1>2 DEF PlacesFit

(* A step of a call that asks or looks something up, once it is known,     *)
(* and a send that fails: each is over and done with, or raises.           *)
EndsStep(c) ==
  \/ CheckStatus(c) \/ FindWithdrawal(c) \/ Ask(c) \/ Refuse(c) \/ Post(c)
  \/ WalletAnswers(c) \/ EndLookUp(c) \/ PoolStep(c) \/ SendFails(c)
Passes(c) ==
  /\ StepDone(c) /\ UNCHANGED <<call, ended, status>>
  /\ call[c].steps[next[c]] # "send"
  /\ ~clashed /\ call[c].craft => call[c].steps[next[c]] # "refuse"
Raises(c) == \E why \in Errors : Raise(c, why)

LEMMA StepEnds ==
  ASSUME ClientIInv, NEW c \in Callers, EndsStep(c)
  PROVE  /\ place[c] \in Sending \cup {"step", "account", "signing", "lookup"}
         /\ ~Finished(c) /\ UNCHANGED <<call, captured, heard, clashed, stage, outcome>>
         /\ Passes(c) \/ Raises(c)
<1> DEFINE Ends ==
             /\ place[c] \in Sending \cup {"step", "account", "signing", "lookup"}
             /\ ~Finished(c) /\ UNCHANGED <<call, captured, heard, clashed, stage, outcome>>
             /\ Passes(c) \/ Raises(c)
<1>1. PlaceFits(c) /\ \A s \in Symbols : s \notin {"send", "refuse"}
  BY StepFacts DEF ClientIInv, PlacesFit, OtherSteps
<1>2. CASE CheckStatus(c)
  BY <1>2 DEF CheckStatus, AtStep, Statuses, Passes, Raises, Errors, Raise, course, lists, vars
<1>3. CASE FindWithdrawal(c)
  BY <1>3 DEF FindWithdrawal, AtStep, Passes, Raises, Errors, Raise, course, lists, vars
<1>4. CASE Ask(c)
  BY <1>4 DEF Ask, AtStep, Passes, Raises, Errors, Raise, course, lists, vars
<1>5. CASE Refuse(c)
  <2>1. ~clashed /\ call[c].craft => crafting # None
    BY <1>5 DEF ClientIInv, CraftIsOwn, InCraft, Refuse, AtStep
  <2> QED
    BY <1>5, <2>1 DEF Refuse, AtStep, Passes, Raises, Errors, Raise, course, lists, vars
<1>6. CASE Post(c)
  BY <1>6 DEF Post, AtStep, Passes, Raises, Errors, Raise, course, lists, vars
<1>7. CASE WalletAnswers(c)
  <2>1. place[c] \in {"account", "signing"} /\ ~Finished(c)
    BY <1>1, <1>7 DEF WalletAnswers, Answered, PlaceFits
  <2>2. call[c].steps[next[c]] \in {"account", "sign"}
    BY <1>1, <2>1 DEF PlaceFits
  <2> QED
    BY <1>7, <2>1, <2>2 DEF WalletAnswers, Passes, Raises, Errors, Raise, course, lists, vars
<1>8. CASE EndLookUp(c)
  BY <1>1, <1>8 DEF EndLookUp, PlaceFits, Passes, Raises, Errors, Raise, course, lists, vars
<1>9. CASE PoolStep(c)
  BY <1>9 DEF PoolStep, AtStep, Passes, Raises, Errors, Raise, course, lists, vars
<1>10. CASE SendFails(c)
  <2>1. place[c] \in Sending
    BY <1>10 DEF SendFails, Answered, Sending
  <2>2. ~Finished(c)
    BY <1>1, <2>1 DEF PlaceFits
  <2> QED
    BY <1>10, <2>1, <2>2
       DEF SendFails, SendRaises, Raises, Errors, Raise, course, lists, vars
<1> QED
  BY <1>2, <1>3, <1>4, <1>5, <1>6, <1>7, <1>8, <1>9, <1>10 DEF EndsStep

(* Where a step that is over leaves the places.                            *)
LEMMA StepEndFits ==
  ASSUME ClientIInv, NEW c \in Callers, EndsStep(c)
  PROVE  PlacesFit'
<1>1. /\ ~Finished(c) /\ UNCHANGED <<call, clashed, stage, outcome>>
      /\ Passes(c) \/ Raises(c)
  BY StepEnds
<1>2. /\ PlacesFit /\ PlaceFits(c) /\ ClientTypeOK
      /\ place \in [Callers -> Places] /\ next \in [Callers -> Nat \ {0}]
      /\ next[c] \in Nat /\ call[c].craft \in BOOLEAN
  BY CallFacts DEF ClientIInv, PlacesFit, ClientTypeOK
<1>3. \A d \in Callers : d # c => place'[d] = place[d] /\ next'[d] = next[d]
  BY <1>1, <1>2 DEF Passes, Raises, StepDone, Raise, Proceed
<1>4. CASE Passes(c)
  <2>1. place'[c] = "step" /\ next'[c] = next[c] + 1
    BY <1>2, <1>4 DEF Passes, StepDone, Proceed
  <2>2. ~clashed /\ call[c].craft => \A i \in 1 .. next'[c] - 1 : call[c].steps[i] # "refuse"
    <3>1. \A i \in 1 .. next'[c] - 1 : i = next[c] \/ i \in 1 .. next[c] - 1
      BY <1>2, <2>1
    <3> QED
      BY <1>2, <1>4, <3>1 DEF Passes, PlaceFits
  <2>3. PlaceFits(c)'
    BY <1>1, <2>1, <2>2 DEF PlaceFits, Sending
  <2> QED
    BY <1>1, <1>2, <1>3, <2>3, OneStep
<1>5. CASE Raises(c)
  <2>1. next' = next /\ place'[c] = IF call[c].craft THEN "exit" ELSE "over"
    BY <1>2, <1>5 DEF Raises, Raise, Proceed
  <2>2. PlaceFits(c)'
    BY <1>1, <1>2, <2>1 DEF PlaceFits, Sending
  <2> QED
    BY <1>1, <1>2, <1>3, <2>2, OneStep
<1> QED
  BY <1>1, <1>4, <1>5

(* The places of a call keep to its steps. *)
LEMMA PlacesPreserved == ClientIInv /\ [ClientNext]_everything => PlacesFit'
<1> SUFFICES ASSUME ClientIInv, [ClientNext]_everything PROVE PlacesFit'
  OBVIOUS
<1>a. place \in [Callers -> Places]
  BY DEF ClientIInv, ClientTypeOK
<1>b. next \in [Callers -> Nat \ {0}]
  BY DEF ClientIInv, ClientTypeOK
<1>c. \A c \in Callers : Len(call[c].steps) \in Nat /\ call[c].craft \in BOOLEAN
  BY CallFacts DEF ClientIInv
<1>d. PlacesFit /\ CraftIsOwn
  BY DEF ClientIInv
<1>z. IInv
  BY DEF ClientIInv
<1>f. outcome \in [Callers -> Answers \cup {None, TimedOut, DeliverRaised}]
      /\ stage \in [Callers -> Inside \cup Outside]
  BY DEF ClientIInv, IInv, TypeOK
<1>h. "refuse" \notin Symbols
  BY StepFacts DEF OtherSteps
<1>i. TypeOK /\ crafting \in Callers \cup {None}
  BY DEF ClientIInv, ClientTypeOK, IInv
<1>x. ClientIInv
  OBVIOUS
<1>1. ASSUME NEW c \in Callers, Begin(c) PROVE PlacesFit'
  BY <1>a, <1>b, <1>c, <1>d, <1>1 DEF Begin, Proceed, PlacesFit, PlaceFits, Sending,
         course, lists, vars, Finished, At, AtStep, Statuses, Said
<1>2. ASSUME NEW c \in Callers, EnterCraft(c) PROVE PlacesFit'
  BY <1>a, <1>b, <1>c, <1>d, <1>2 DEF EnterCraft, Proceed, PlacesFit, PlaceFits, Sending,
         course, lists, vars, Finished, At, AtStep, Statuses, Said
<1>3. ASSUME NEW c \in Callers, ExitCraft(c) PROVE PlacesFit'
  BY <1>a, <1>b, <1>c, <1>d, <1>3 DEF ExitCraft, Proceed, PlacesFit, PlaceFits, Sending,
         course, lists, vars, Finished, At, AtStep, Statuses, Said
<1>4. ASSUME NEW c \in Callers, Return(c) PROVE PlacesFit'
  BY <1>a, <1>b, <1>c, <1>d, <1>4 DEF Return, Proceed, PlacesFit, PlaceFits, Sending,
         course, lists, vars, Finished, At, AtStep, Statuses, Said
<1>5. ASSUME NEW c \in Callers, Gate(c) PROVE PlacesFit'
  BY <1>a, <1>b, <1>c, <1>d, <1>5 DEF Gate, Proceed, Raise, PlacesFit, PlaceFits, Sending,
         course, lists, vars, Finished, At, AtStep, Statuses, Said
<1>6. ASSUME NEW c \in Callers, VerifyChain(c) PROVE PlacesFit'
  <2>7. PlaceFits(c)
    BY <1>d DEF PlacesFit
  <2>8. /\ UNCHANGED <<call, clashed>>
        /\ \A d \in Callers : d # c =>
             /\ place'[d] = place[d] /\ next'[d] = next[d]
             /\ stage'[d] = stage[d] /\ outcome'[d] = outcome[d]
    BY <1>a, <1>b, <1>f, <1>6 DEF VerifyChain, Proceed, Raise, Checked, ChecksChain,
           course, lists, vars
  <2>9. PlaceFits(c)'
    BY <1>a, <1>b, <1>c, <1>f, <2>7, <1>6
       DEF VerifyChain, Proceed, Raise, Checked, ChecksChain, PlaceFits, Sending, course,
           lists, vars, Finished, At, AtStep, Said
  <2> QED
    BY <1>d, <2>8, <2>9, OneStep
<1>7. ASSUME NEW c \in Callers, ChainUnknown(c) PROVE PlacesFit'
  BY <1>a, <1>b, <1>c, <1>d, <1>7 DEF ChainUnknown, Proceed, Checked, ChecksChain,
         PlacesFit, PlaceFits, Sending, course, lists, vars, Finished, At, AtStep,
         Statuses, Said
<1>8. ASSUME NEW c \in Callers, TakeLock(c) PROVE PlacesFit'
  BY <1>a, <1>b, <1>c, <1>d, <1>8 DEF TakeLock, Proceed, PlacesFit, PlaceFits, Sending,
         course, lists, vars, Finished, At, AtStep, Statuses, Said
<1>9. ASSUME NEW c \in Callers, ReadAddress(c) PROVE PlacesFit'
  <2>7. PlaceFits(c)
    BY <1>d DEF PlacesFit
  <2>8. /\ UNCHANGED <<call, clashed>>
        /\ \A d \in Callers : d # c =>
             /\ place'[d] = place[d] /\ next'[d] = next[d]
             /\ stage'[d] = stage[d] /\ outcome'[d] = outcome[d]
    BY <1>a, <1>b, <1>f, <1>9 DEF ReadAddress, Proceed, Call, Moved, course, lists, vars
  <2>9. PlaceFits(c)'
    BY <1>a, <1>b, <1>c, <1>f, <2>7, <1>9
       DEF ReadAddress, Proceed, Call, Moved, PlaceFits, Sending, course, lists, vars, Finished,
           At, AtStep, Said
  <2> QED
    BY <1>d, <2>8, <2>9, OneStep
<1>10. ASSUME NEW c \in Callers, Capture(c) PROVE PlacesFit'
  BY <1>a, <1>b, <1>c, <1>d, <1>10 DEF Capture, Proceed, SendReturns, StepDone, Answered,
         PlacesFit, PlaceFits, Sending, course, lists, vars, Finished, At, AtStep,
         Statuses, Said
<1>11. ASSUME NEW c \in Callers, Build(c) PROVE PlacesFit'
  <2>1. \E a \in Accounts : outcome[c] = Says("account", a)
    <3>1. outcome[c] # None
      BY <1>d, <1>11 DEF PlacesFit, PlaceFits, Build, Answered
    <3> QED
      BY <1>i, <3>1, <1>11, AccountSaid DEF Build
  <2>7. PlaceFits(c)
    BY <1>d DEF PlacesFit
  <2>8. /\ UNCHANGED <<call, clashed>>
        /\ \A d \in Callers : d # c =>
             /\ place'[d] = place[d] /\ next'[d] = next[d]
             /\ stage'[d] = stage[d] /\ outcome'[d] = outcome[d]
    BY <1>a, <1>b, <1>f, <1>11 DEF Build, Proceed, Answered, course, lists, vars
  <2>2. clashed \/ ~call[c].craft
    BY <1>d, <1>i, <1>11 DEF CraftIsOwn, InCraft, Build, Answered
  <2>9. PlaceFits(c)'
    BY <1>a, <1>b, <1>c, <1>f, <2>7, <1>11, <2>1, <2>2
       DEF Build, Proceed, Answered, PlaceFits, Sending, course, lists, vars, Finished, At,
           AtStep, Said
  <2> QED
    BY <1>d, <2>8, <2>9, OneStep
<1>12. ASSUME NEW c \in Callers, AskWallet(c) PROVE PlacesFit'
  <2>7. PlaceFits(c)
    BY <1>d DEF PlacesFit
  <2>8. /\ UNCHANGED <<call, clashed>>
        /\ \A d \in Callers : d # c =>
             /\ place'[d] = place[d] /\ next'[d] = next[d]
             /\ stage'[d] = stage[d] /\ outcome'[d] = outcome[d]
    BY <1>a, <1>b, <1>f, <1>12 DEF AskWallet, Proceed, Submit, Park, Moved, course, lists, vars
  <2>9. PlaceFits(c)'
    BY <1>a, <1>b, <1>c, <1>f, <2>7, <1>12
       DEF AskWallet, Proceed, Submit, Park, Moved, PlaceFits, Sending, course, lists, vars,
           Finished, At, AtStep, Said
  <2> QED
    BY <1>d, <2>8, <2>9, OneStep
<1>13. ASSUME NEW c \in Callers, Mined(c) PROVE PlacesFit'
  BY <1>a, <1>b, <1>c, <1>d, <1>13 DEF Mined, Proceed, SendReturns, StepDone, Answered,
         PlacesFit, PlaceFits, Sending, course, lists, vars, Finished, At, AtStep,
         Statuses, Said
<1>14. ASSUME NEW c \in Callers, SendFails(c) PROVE PlacesFit'
  BY <1>x, <1>14, StepEndFits DEF EndsStep
<1>15. ASSUME NEW c \in Callers, CheckStatus(c) PROVE PlacesFit'
  BY <1>x, <1>15, StepEndFits DEF EndsStep
<1>16. ASSUME NEW c \in Callers, FindWithdrawal(c) PROVE PlacesFit'
  BY <1>x, <1>16, StepEndFits DEF EndsStep
<1>17. ASSUME NEW c \in Callers, Ask(c) PROVE PlacesFit'
  BY <1>x, <1>17, StepEndFits DEF EndsStep
<1>18. ASSUME NEW c \in Callers, Refuse(c) PROVE PlacesFit'
  BY <1>x, <1>18, StepEndFits DEF EndsStep
<1>19. ASSUME NEW c \in Callers, Post(c) PROVE PlacesFit'
  BY <1>x, <1>19, StepEndFits DEF EndsStep
<1>20. ASSUME NEW c \in Callers, NameAccount(c) PROVE PlacesFit'
  <2>7. PlaceFits(c)
    BY <1>d DEF PlacesFit
  <2>8. /\ UNCHANGED <<call, clashed>>
        /\ \A d \in Callers : d # c =>
             /\ place'[d] = place[d] /\ next'[d] = next[d]
             /\ stage'[d] = stage[d] /\ outcome'[d] = outcome[d]
    BY <1>a, <1>b, <1>f, <1>20 DEF NameAccount, Proceed, Call, Moved, course, lists, vars
  <2>9. PlaceFits(c)'
    BY <1>a, <1>b, <1>c, <1>f, <2>7, <1>20
       DEF NameAccount, Proceed, Call, Moved, PlaceFits, Sending, course, lists, vars, Finished,
           At, AtStep, Said
  <2> QED
    BY <1>d, <2>8, <2>9, OneStep
<1>21. ASSUME NEW c \in Callers, AskToSign(c) PROVE PlacesFit'
  <2>7. PlaceFits(c)
    BY <1>d DEF PlacesFit
  <2>8. /\ UNCHANGED <<call, clashed>>
        /\ \A d \in Callers : d # c =>
             /\ place'[d] = place[d] /\ next'[d] = next[d]
             /\ stage'[d] = stage[d] /\ outcome'[d] = outcome[d]
    BY <1>a, <1>b, <1>f, <1>21 DEF AskToSign, Proceed, Call, Moved, course, lists, vars
  <2>9. PlaceFits(c)'
    BY <1>a, <1>b, <1>c, <1>f, <2>7, <1>21
       DEF AskToSign, Proceed, Call, Moved, PlaceFits, Sending, course, lists, vars, Finished, At,
           AtStep, Said
  <2> QED
    BY <1>d, <2>8, <2>9, OneStep
<1>22. ASSUME NEW c \in Callers, WalletAnswers(c) PROVE PlacesFit'
  BY <1>x, <1>22, StepEndFits DEF EndsStep
<1>23. ASSUME NEW c \in Callers, BeginLookUp(c) PROVE PlacesFit'
  BY <1>a, <1>b, <1>c, <1>d, <1>23 DEF BeginLookUp, Proceed, PlacesFit, PlaceFits, Sending,
         course, lists, vars, Finished, At, AtStep, Statuses, Said
<1>24. ASSUME NEW c \in Callers, EndLookUp(c) PROVE PlacesFit'
  BY <1>x, <1>24, StepEndFits DEF EndsStep
<1>25. ASSUME NEW c \in Callers, PoolStep(c) PROVE PlacesFit'
  BY <1>x, <1>25, StepEndFits DEF EndsStep
<1>26. ASSUME Wallet, UNCHANGED <<client, resolution>> PROVE PlacesFit'
  BY <1>d, <1>z, <1>26, WalletRests
<1>27. ASSUME LookUps, UNCHANGED <<client, vars>> PROVE PlacesFit'
  BY <1>a, <1>b, <1>c, <1>d, <1>27 DEF client, PlacesFit, PlaceFits, Sending, course,
         lists, vars, Finished, At, AtStep, Statuses, Said
<1>28. ASSUME Halt PROVE PlacesFit'
  BY <1>a, <1>b, <1>c, <1>d, <1>28 DEF Halt, PlacesFit, PlaceFits, Sending, course, lists,
         vars, Finished, At, AtStep, Statuses, Said
<1>29. ASSUME Resume PROVE PlacesFit'
  BY <1>a, <1>b, <1>c, <1>d, <1>29 DEF Resume, PlacesFit, PlaceFits, Sending, course,
         lists, vars, Finished, At, AtStep, Statuses, Said
<1>30. ASSUME UNCHANGED everything PROVE PlacesFit'
  BY <1>a, <1>b, <1>c, <1>d, <1>30 DEF everything, client, PlacesFit, PlaceFits, Sending,
         course, lists, vars, Finished, At, AtStep, Statuses, Said
<1>31. ASSUME NEW c \in Callers, TestCraft(c) PROVE PlacesFit'
  BY <1>a, <1>b, <1>c, <1>d, <1>31 DEF TestCraft, Proceed, PlacesFit, PlaceFits, Sending,
         course, lists, vars, Finished, At, AtStep, Statuses, Said
<1>32. ASSUME NEW c \in Callers, Divert(c) PROVE PlacesFit'
  BY <1>a, <1>b, <1>c, <1>d, <1>32 DEF Divert, Proceed, Answered, PlacesFit, PlaceFits, Sending,
         course, lists, vars, Finished, At, AtStep, Statuses, Said
<1> QED
  BY <1>1, <1>2, <1>3, <1>4, <1>5, <1>6, <1>7, <1>8, <1>9, <1>10, <1>11, <1>12, <1>13,
     <1>14, <1>15, <1>16, <1>17, <1>18, <1>19, <1>20, <1>21, <1>22, <1>23, <1>24, <1>25,
     <1>26, <1>27, <1>28, <1>29, <1>30, <1>31, <1>32 DEF ClientNext, Client, Over

(* The types of what a call changes when a step of it is done or raises.   *)
CourseTypes ==
  /\ call \in Scenarios
  /\ next \in [Callers -> Nat \ {0}]
  /\ \A c \in Callers : next[c] <= Len(call[c].steps) + 1
  /\ place \in [Callers -> Places]
  /\ ended \in [Callers -> Errors \cup {None, "returned"}]
  /\ ordered \subseteq Callers
  /\ status \in {"new", "verified", "minted"}

LEMMA DoneTypes ==
  ASSUME ClientTypeOK, NEW c \in Callers, ~Finished(c), StepDone(c), UNCHANGED <<call, ended, status>>,
         ordered' \subseteq Callers
  PROVE  CourseTypes'
<1>1. next[c] \in Nat /\ next[c] <= Len(call[c].steps) /\ Len(call[c].steps) \in Nat
  BY CallFacts DEF Finished
<1>2. next \in [Callers -> Nat \ {0}] /\ \A d \in Callers : next[d] <= Len(call[d].steps) + 1
  BY DEF ClientTypeOK
<1>3. next' = [next EXCEPT ![c] = next[c] + 1]
  BY DEF StepDone
<1>4. next' \in [Callers -> Nat \ {0}]
  BY <1>1, <1>2, <1>3
<1>5. \A d \in Callers : next'[d] <= Len(call[d].steps) + 1
  BY <1>1, <1>2, <1>3
<1>6. place' \in [Callers -> Places]
  BY DEF ClientTypeOK, StepDone, Proceed, Places
<1> QED
  BY <1>4, <1>5, <1>6 DEF ClientTypeOK, CourseTypes

LEMMA RaiseTypes ==
  ASSUME ClientTypeOK, NEW c \in Callers, NEW why \in Errors, Raise(c, why)
  PROVE  CourseTypes'
<1>1. place' \in [Callers -> Places]
  BY DEF ClientTypeOK, Raise, Proceed, Places
<1>2. ended' \in [Callers -> Errors \cup {None, "returned"}]
  BY DEF ClientTypeOK, Raise
<1> QED
  BY <1>1, <1>2 DEF ClientTypeOK, CourseTypes, Raise

LEMMA TypesJoin ==
  ASSUME CourseTypes', ClientTypeOK,
         captured' \in [Callers -> Seq(Callers \X Nat)],
         heard' \in [Callers -> SUBSET (Nat \X {"sentinel", "hash"})],
         crafting' \in Callers \cup {None}, txLock' \in Callers \cup {None},
         excused' \cup unchecked' \subseteq Callers,
         {halted', chainRead', verified', clashed'} \subseteq BOOLEAN, chain' \in Chains
  PROVE  ClientTypeOK'
BY DEF CourseTypes, ClientTypeOK

(* Every step keeps the client's types. *)
LEMMA ClientTypePreserved == ClientIInv /\ [ClientNext]_everything => ClientTypeOK'
<1> SUFFICES ASSUME ClientIInv, [ClientNext]_everything PROVE ClientTypeOK'
  OBVIOUS
<1>a. ClientTypeOK
  BY DEF ClientIInv
<1>b. \A c \in Callers : Len(call[c].steps) \in Nat /\ call[c].craft \in BOOLEAN
  BY CallFacts DEF ClientIInv
<1>f. \A c \in Callers : place[c] \in Sending \cup {"account", "signing", "lookup"} => ~Finished(c)
  BY DEF ClientIInv, PlacesFit, PlaceFits
<1>g. {"capture", "sent"} \subseteq Sending
  BY DEF Sending
<1>1. ASSUME NEW c \in Callers, Begin(c) PROVE ClientTypeOK'
  BY <1>a, <1>b, <1>1 DEF Begin, Proceed, ClientTypeOK, Places, Sending, Errors, course,
         lists, switch, guard, AtStep, Finished, Proceed
<1>2. ASSUME NEW c \in Callers, EnterCraft(c) PROVE ClientTypeOK'
  BY <1>a, <1>b, <1>2 DEF EnterCraft, Proceed, ClientTypeOK, Places, Sending, Errors,
         course, lists, switch, guard, AtStep, Finished, Proceed
<1>3. ASSUME NEW c \in Callers, ExitCraft(c) PROVE ClientTypeOK'
  BY <1>a, <1>b, <1>3 DEF ExitCraft, Proceed, ClientTypeOK, Places, Sending, Errors,
         course, lists, switch, guard, AtStep, Finished, Proceed
<1>4. ASSUME NEW c \in Callers, Return(c) PROVE ClientTypeOK'
  BY <1>a, <1>b, <1>4 DEF Return, Proceed, ClientTypeOK, Places, Sending, Errors, course,
         lists, switch, guard, AtStep, Finished, Proceed
<1>5. ASSUME NEW c \in Callers, Gate(c) PROVE ClientTypeOK'
  BY <1>a, <1>b, <1>5 DEF Gate, Proceed, Raise, ClientTypeOK, Places, Sending, Errors,
         course, lists, switch, guard, AtStep, Finished, Proceed
<1>6. ASSUME NEW c \in Callers, VerifyChain(c) PROVE ClientTypeOK'
  BY <1>a, <1>b, <1>6 DEF VerifyChain, Proceed, Raise, Checked, ChecksChain, ClientTypeOK,
         Places, Sending, Errors, course, lists, switch, guard, AtStep, Finished, Proceed
<1>7. ASSUME NEW c \in Callers, ChainUnknown(c) PROVE ClientTypeOK'
  BY <1>a, <1>b, <1>7 DEF ChainUnknown, Proceed, Checked, ChecksChain, ClientTypeOK,
         Places, Sending, Errors, course, lists, switch, guard, AtStep, Finished, Proceed
<1>8. ASSUME NEW c \in Callers, TakeLock(c) PROVE ClientTypeOK'
  BY <1>a, <1>b, <1>8 DEF TakeLock, Proceed, ClientTypeOK, Places, Sending, Errors, course,
         lists, switch, guard, AtStep, Finished, Proceed
<1>9. ASSUME NEW c \in Callers, ReadAddress(c) PROVE ClientTypeOK'
  BY <1>a, <1>b, <1>9 DEF ReadAddress, Proceed, ClientTypeOK, Places, Sending, Errors,
         course, lists, switch, guard, AtStep, Finished, Proceed
<1>10. ASSUME NEW c \in Callers, Capture(c) PROVE ClientTypeOK'
  <2>1. ~Finished(c) /\ UNCHANGED course /\ StepDone(c)
    BY <1>f, <1>g, <1>10 DEF Capture, SendReturns
  <2>2. CourseTypes'
    BY <1>a, <2>1, DoneTypes DEF course, ClientTypeOK
  <2>3. next[c] \in Nat
    BY <1>a DEF ClientTypeOK
  <2>4. heard' \in [Callers -> SUBSET (Nat \X {"sentinel", "hash"})]
    BY <1>a, <2>3, <1>10 DEF Capture, SendReturns, ClientTypeOK
  <2>5. captured' \in [Callers -> Seq(Callers \X Nat)]
    <3>1. crafting \in Callers /\ captured[crafting] \in Seq(Callers \X Nat)
      BY <1>a, <1>10 DEF Capture, ClientTypeOK
    <3>2. <<c, next[c]>> \in Callers \X Nat
      BY <2>3
    <3>3. Append(captured[crafting], <<c, next[c]>>) \in Seq(Callers \X Nat)
      BY <3>1, <3>2
    <3> QED
      BY <1>a, <3>1, <3>3, <1>10 DEF Capture, ClientTypeOK
  <2>6. /\ crafting' \in Callers \cup {None} /\ txLock' \in Callers \cup {None}
        /\ excused' \cup unchecked' \subseteq Callers
        /\ {halted', chainRead', verified', clashed'} \subseteq BOOLEAN /\ chain' \in Chains
    BY <1>a, <1>10 DEF Capture, SendReturns, ClientTypeOK, guard
  <2> QED
    BY <1>a, <2>2, <2>4, <2>5, <2>6, TypesJoin
<1>11. ASSUME NEW c \in Callers, Build(c) PROVE ClientTypeOK'
  BY <1>a, <1>b, <1>11 DEF Build, Proceed, Answered, ClientTypeOK, Places, Sending, Errors,
         course, lists, switch, guard, AtStep, Finished, Proceed
<1>12. ASSUME NEW c \in Callers, AskWallet(c) PROVE ClientTypeOK'
  BY <1>a, <1>b, <1>12 DEF AskWallet, Proceed, ClientTypeOK, Places, Sending, Errors,
         course, lists, switch, guard, AtStep, Finished, Proceed
<1>13. ASSUME NEW c \in Callers, Mined(c) PROVE ClientTypeOK'
  <2>1. ~Finished(c) /\ UNCHANGED course /\ StepDone(c)
    BY <1>f, <1>g, <1>13 DEF Mined, SendReturns, Answered
  <2>2. CourseTypes'
    BY <1>a, <2>1, DoneTypes DEF course, ClientTypeOK
  <2>3. next[c] \in Nat
    BY <1>a DEF ClientTypeOK
  <2>4. heard' \in [Callers -> SUBSET (Nat \X {"sentinel", "hash"})]
    BY <1>a, <2>3, <1>13 DEF Mined, SendReturns, ClientTypeOK
  <2>5. captured' \in [Callers -> Seq(Callers \X Nat)]
    BY <1>a, <1>13 DEF Mined, ClientTypeOK
  <2>6. /\ crafting' \in Callers \cup {None} /\ txLock' \in Callers \cup {None}
        /\ excused' \cup unchecked' \subseteq Callers
        /\ {halted', chainRead', verified', clashed'} \subseteq BOOLEAN /\ chain' \in Chains
    BY <1>a, <1>13 DEF Mined, SendReturns, ClientTypeOK, guard
  <2> QED
    BY <1>a, <2>2, <2>4, <2>5, <2>6, TypesJoin
<1>14. ASSUME NEW c \in Callers, SendFails(c) PROVE ClientTypeOK'
  BY <1>a, <1>b, <1>14 DEF SendFails, Proceed, SendRaises, Raise, Answered, ClientTypeOK,
         Places, Sending, Errors, course, lists, switch, guard, AtStep, Finished, Proceed
<1>15. ASSUME NEW c \in Callers, CheckStatus(c) PROVE ClientTypeOK'
  <2>1. CourseTypes'
    <3>1. ASSUME StepDone(c), UNCHANGED course PROVE CourseTypes'
      BY <1>a, <1>15, <3>1, DoneTypes DEF CheckStatus, course, ClientTypeOK, AtStep
    <3>2. ASSUME NEW why \in Errors, Raise(c, why) PROVE CourseTypes'
      BY <1>a, <3>2, RaiseTypes
    <3> QED
      BY <3>1, <3>2, <1>15 DEF CheckStatus, Errors
  <2>2. /\ captured' \in [Callers -> Seq(Callers \X Nat)]
        /\ heard' \in [Callers -> SUBSET (Nat \X {"sentinel", "hash"})]
        /\ crafting' \in Callers \cup {None} /\ txLock' \in Callers \cup {None}
        /\ excused' \cup unchecked' \subseteq Callers
        /\ {halted', chainRead', verified', clashed'} \subseteq BOOLEAN /\ chain' \in Chains
    BY <1>a, <1>15 DEF CheckStatus, ClientTypeOK, course, lists, switch, guard
  <2> QED
    BY <1>a, <2>1, <2>2, TypesJoin
<1>16. ASSUME NEW c \in Callers, FindWithdrawal(c) PROVE ClientTypeOK'
  <2>1. CourseTypes'
    <3>1. ASSUME StepDone(c), UNCHANGED course PROVE CourseTypes'
      BY <1>a, <1>16, <3>1, DoneTypes DEF FindWithdrawal, course, ClientTypeOK, AtStep
    <3>2. ASSUME NEW why \in Errors, Raise(c, why) PROVE CourseTypes'
      BY <1>a, <3>2, RaiseTypes
    <3> QED
      BY <3>1, <3>2, <1>16 DEF FindWithdrawal, Errors
  <2>2. /\ captured' \in [Callers -> Seq(Callers \X Nat)]
        /\ heard' \in [Callers -> SUBSET (Nat \X {"sentinel", "hash"})]
        /\ crafting' \in Callers \cup {None} /\ txLock' \in Callers \cup {None}
        /\ excused' \cup unchecked' \subseteq Callers
        /\ {halted', chainRead', verified', clashed'} \subseteq BOOLEAN /\ chain' \in Chains
    BY <1>a, <1>16 DEF FindWithdrawal, ClientTypeOK, course, lists, switch, guard
  <2> QED
    BY <1>a, <2>1, <2>2, TypesJoin
<1>17. ASSUME NEW c \in Callers, Ask(c) PROVE ClientTypeOK'
  <2>1. CourseTypes'
    <3>1. ASSUME StepDone(c), UNCHANGED course PROVE CourseTypes'
      BY <1>a, <1>17, <3>1, DoneTypes DEF Ask, course, ClientTypeOK, AtStep
    <3>2. ASSUME NEW why \in Errors, Raise(c, why) PROVE CourseTypes'
      BY <1>a, <3>2, RaiseTypes
    <3> QED
      BY <3>1, <3>2, <1>17 DEF Ask, Errors
  <2>2. /\ captured' \in [Callers -> Seq(Callers \X Nat)]
        /\ heard' \in [Callers -> SUBSET (Nat \X {"sentinel", "hash"})]
        /\ crafting' \in Callers \cup {None} /\ txLock' \in Callers \cup {None}
        /\ excused' \cup unchecked' \subseteq Callers
        /\ {halted', chainRead', verified', clashed'} \subseteq BOOLEAN /\ chain' \in Chains
    BY <1>a, <1>17 DEF Ask, ClientTypeOK, course, lists, switch, guard
  <2> QED
    BY <1>a, <2>1, <2>2, TypesJoin
<1>18. ASSUME NEW c \in Callers, Refuse(c) PROVE ClientTypeOK'
  <2>1. CourseTypes'
    <3>1. ASSUME StepDone(c), UNCHANGED course PROVE CourseTypes'
      BY <1>a, <1>18, <3>1, DoneTypes DEF Refuse, course, ClientTypeOK, AtStep
    <3>2. ASSUME NEW why \in Errors, Raise(c, why) PROVE CourseTypes'
      BY <1>a, <3>2, RaiseTypes
    <3> QED
      BY <3>1, <3>2, <1>18 DEF Refuse, Errors
  <2>2. /\ captured' \in [Callers -> Seq(Callers \X Nat)]
        /\ heard' \in [Callers -> SUBSET (Nat \X {"sentinel", "hash"})]
        /\ crafting' \in Callers \cup {None} /\ txLock' \in Callers \cup {None}
        /\ excused' \cup unchecked' \subseteq Callers
        /\ {halted', chainRead', verified', clashed'} \subseteq BOOLEAN /\ chain' \in Chains
    BY <1>a, <1>18 DEF Refuse, ClientTypeOK, course, lists, switch, guard
  <2> QED
    BY <1>a, <2>1, <2>2, TypesJoin
<1>19. ASSUME NEW c \in Callers, Post(c) PROVE ClientTypeOK'
  <2>1. CourseTypes'
    <3>1. ASSUME StepDone(c), ordered' = ordered \cup {c}, UNCHANGED <<call, ended, status>> PROVE CourseTypes'
      BY <1>a, <1>19, <3>1, DoneTypes DEF Post, ClientTypeOK, AtStep
    <3>2. ASSUME NEW why \in Errors, Raise(c, why) PROVE CourseTypes'
      BY <1>a, <3>2, RaiseTypes
    <3> QED
      BY <3>1, <3>2, <1>19 DEF Post, Errors
  <2>2. /\ captured' \in [Callers -> Seq(Callers \X Nat)]
        /\ heard' \in [Callers -> SUBSET (Nat \X {"sentinel", "hash"})]
        /\ crafting' \in Callers \cup {None} /\ txLock' \in Callers \cup {None}
        /\ excused' \cup unchecked' \subseteq Callers
        /\ {halted', chainRead', verified', clashed'} \subseteq BOOLEAN /\ chain' \in Chains
    BY <1>a, <1>19 DEF Post, ClientTypeOK, course, lists, switch, guard
  <2> QED
    BY <1>a, <2>1, <2>2, TypesJoin
<1>20. ASSUME NEW c \in Callers, NameAccount(c) PROVE ClientTypeOK'
  BY <1>a, <1>b, <1>20 DEF NameAccount, Proceed, ClientTypeOK, Places, Sending, Errors,
         course, lists, switch, guard, AtStep, Finished, Proceed
<1>21. ASSUME NEW c \in Callers, AskToSign(c) PROVE ClientTypeOK'
  BY <1>a, <1>b, <1>21 DEF AskToSign, Proceed, ClientTypeOK, Places, Sending, Errors,
         course, lists, switch, guard, AtStep, Finished, Proceed
<1>22. ASSUME NEW c \in Callers, WalletAnswers(c) PROVE ClientTypeOK'
  <2>1. CourseTypes'
    <3>1. ASSUME StepDone(c), UNCHANGED course PROVE CourseTypes'
      BY <1>a, <1>f, <1>g, <1>22, <3>1, DoneTypes
         DEF WalletAnswers, course, ClientTypeOK, Answered
    <3>2. ASSUME NEW why \in Errors, Raise(c, why) PROVE CourseTypes'
      BY <1>a, <3>2, RaiseTypes
    <3> QED
      BY <3>1, <3>2, <1>22 DEF WalletAnswers, Errors
  <2>2. /\ captured' \in [Callers -> Seq(Callers \X Nat)]
        /\ heard' \in [Callers -> SUBSET (Nat \X {"sentinel", "hash"})]
        /\ crafting' \in Callers \cup {None} /\ txLock' \in Callers \cup {None}
        /\ excused' \cup unchecked' \subseteq Callers
        /\ {halted', chainRead', verified', clashed'} \subseteq BOOLEAN /\ chain' \in Chains
    BY <1>a, <1>22 DEF WalletAnswers, ClientTypeOK, course, lists, switch, guard
  <2> QED
    BY <1>a, <2>1, <2>2, TypesJoin
<1>23. ASSUME NEW c \in Callers, BeginLookUp(c) PROVE ClientTypeOK'
  BY <1>a, <1>23 DEF BeginLookUp, ClientTypeOK, Places, Proceed, course, lists, switch, guard
<1>24. ASSUME NEW c \in Callers, EndLookUp(c) PROVE ClientTypeOK'
  <2>1. CourseTypes'
    <3>1. ASSUME StepDone(c), UNCHANGED course PROVE CourseTypes'
      BY <1>a, <1>f, <1>g, <1>24, <3>1, DoneTypes DEF EndLookUp, course, ClientTypeOK, Answered
    <3>2. ASSUME NEW why \in Errors, Raise(c, why) PROVE CourseTypes'
      BY <1>a, <3>2, RaiseTypes
    <3> QED
      BY <3>1, <3>2, <1>24 DEF EndLookUp, Errors
  <2>2. /\ captured' \in [Callers -> Seq(Callers \X Nat)]
        /\ heard' \in [Callers -> SUBSET (Nat \X {"sentinel", "hash"})]
        /\ crafting' \in Callers \cup {None} /\ txLock' \in Callers \cup {None}
        /\ excused' \cup unchecked' \subseteq Callers
        /\ {halted', chainRead', verified', clashed'} \subseteq BOOLEAN /\ chain' \in Chains
    BY <1>a, <1>24 DEF EndLookUp, ClientTypeOK, course, lists, switch, guard
  <2> QED
    BY <1>a, <2>1, <2>2, TypesJoin
<1>25. ASSUME NEW c \in Callers, PoolStep(c) PROVE ClientTypeOK'
  <2>1. CourseTypes'
    <3>1. ASSUME StepDone(c), UNCHANGED course PROVE CourseTypes'
      BY <1>a, <1>25, <3>1, DoneTypes DEF PoolStep, course, ClientTypeOK, AtStep
    <3>2. ASSUME NEW why \in Errors, Raise(c, why) PROVE CourseTypes'
      BY <1>a, <3>2, RaiseTypes
    <3> QED
      BY <3>1, <3>2, <1>25 DEF PoolStep, Errors
  <2>2. /\ captured' \in [Callers -> Seq(Callers \X Nat)]
        /\ heard' \in [Callers -> SUBSET (Nat \X {"sentinel", "hash"})]
        /\ crafting' \in Callers \cup {None} /\ txLock' \in Callers \cup {None}
        /\ excused' \cup unchecked' \subseteq Callers
        /\ {halted', chainRead', verified', clashed'} \subseteq BOOLEAN /\ chain' \in Chains
    BY <1>a, <1>25 DEF PoolStep, ClientTypeOK, course, lists, switch, guard
  <2> QED
    BY <1>a, <2>1, <2>2, TypesJoin
<1>26. ASSUME Wallet, UNCHANGED <<client, resolution>> PROVE ClientTypeOK'
  BY <1>a, <1>b, <1>26 DEF client, ClientTypeOK, Places, Sending, Errors, course, lists,
         switch, guard, AtStep, Finished, Proceed
<1>27. ASSUME LookUps, UNCHANGED <<client, vars>> PROVE ClientTypeOK'
  BY <1>a, <1>b, <1>27 DEF client, ClientTypeOK, Places, Sending, Errors, course, lists,
         switch, guard, AtStep, Finished, Proceed
<1>28. ASSUME Halt PROVE ClientTypeOK'
  BY <1>a, <1>b, <1>28 DEF Halt, ClientTypeOK, Places, Sending, Errors, course, lists,
         switch, guard, AtStep, Finished, Proceed
<1>29. ASSUME Resume PROVE ClientTypeOK'
  BY <1>a, <1>b, <1>29 DEF Resume, ClientTypeOK, Places, Sending, Errors, course, lists,
         switch, guard, AtStep, Finished, Proceed
<1>30. ASSUME UNCHANGED everything PROVE ClientTypeOK'
  BY <1>a, <1>b, <1>30 DEF everything, client, ClientTypeOK, Places, Sending, Errors,
         course, lists, switch, guard, AtStep, Finished, Proceed
<1>31. ASSUME NEW c \in Callers, TestCraft(c) PROVE ClientTypeOK'
  BY <1>a, <1>b, <1>31 DEF TestCraft, Proceed, ClientTypeOK, Places, Sending, Errors, course,
         lists, switch, guard, AtStep, Finished, Proceed
<1>32. ASSUME NEW c \in Callers, Divert(c) PROVE ClientTypeOK'
  BY <1>a, <1>b, <1>32 DEF Divert, Proceed, Answered, ClientTypeOK, Places, Sending, Errors, course,
         lists, switch, guard, AtStep, Finished, Proceed
<1> QED
  BY <1>1, <1>2, <1>3, <1>4, <1>5, <1>6, <1>7, <1>8, <1>9, <1>10, <1>11, <1>12, <1>13,
     <1>14, <1>15, <1>16, <1>17, <1>18, <1>19, <1>20, <1>21, <1>22, <1>23, <1>24, <1>25,
     <1>26, <1>27, <1>28, <1>29, <1>30, <1>31, <1>32 DEF ClientNext, Client, Over

(* The entries of the lists are sends of calls.                            *)
LEMMA EntryFacts ==
  ASSUME ClientTypeOK, NEW d \in Callers
  PROVE  /\ captured[d] \in Seq(Callers \X Nat) /\ Len(captured[d]) \in Nat
         /\ DOMAIN captured[d] = 1 .. Len(captured[d])
         /\ \A k \in DOMAIN captured[d] :
              /\ captured[d][k][1] \in Callers /\ captured[d][k][2] \in Nat
              /\ captured[d][k] = <<captured[d][k][1], captured[d][k][2]>>
<1>1. captured[d] \in Seq(Callers \X Nat)
  BY DEF ClientTypeOK
<1>2. ASSUME NEW k \in DOMAIN captured[d] PROVE captured[d][k] \in Callers \X Nat
  BY <1>1
<1> QED
  BY <1>1, <1>2

(* A step that puts nothing on a list, and makes no send of a crafted call, *)
(* leaves them exact.                                                       *)
LEMMA ListsStill ==
  ASSUME ClientTypeOK, ListsFit, UNCHANGED <<call, captured, heard>>, clashed => clashed',
         \A d \in Callers : next'[d] \in Nat /\ next'[d] >= next[d],
         \A d \in Callers : \A i \in 1 .. next'[d] - 1 :
           i \in 1 .. next[d] - 1 \/ call[d].steps[i] # "send"
  PROVE  ListsFit'
<1>1. \A d \in Callers : next[d] \in Nat
  BY CallFacts
<1>2. ASSUME NEW d \in Callers PROVE ListFits(d)'
  <2>1. ListFits(d)
    BY DEF ListsFit
  <2>2. ASSUME NEW k \in DOMAIN captured[d]
        PROVE  captured[d][k][2] \in 1 .. next'[captured[d][k][1]] - 1
    <3>1. captured[d][k][1] \in Callers /\ captured[d][k][2] \in Nat
      BY EntryFacts
    <3>2. captured[d][k][2] \in 1 .. next[captured[d][k][1]] - 1
      BY <2>1 DEF ListFits
    <3> QED
      BY <1>1, <3>1, <3>2
  <2> QED
    BY <2>1, <2>2 DEF ListFits
<1>3. ASSUME NEW d \in Callers PROVE HeardFits(d)'
  <2>1. HeardFits(d)
    BY DEF ListsFit
  <2>2. \A answer \in heard[d] : answer[1] \in Nat
    BY DEF ClientTypeOK
  <2> QED
    BY <1>1, <2>1, <2>2 DEF HeardFits, Spots
<1>4. ASSUME NEW d \in Callers, NEW k \in DOMAIN captured[d]
      PROVE  OnlyOn(captured[d][k], d)'
  BY DEF ListsFit, OnlyOn, Spots
<1> QED
  BY <1>2, <1>3, <1>4 DEF ListsFit

(* What a captured send adds to the lists.                                 *)
LEMMA CaptureLists ==
  ASSUME ClientIInv, NEW c \in Callers, Capture(c)
  PROVE  ListsFit'
<1>1. ClientTypeOK /\ ListsFit /\ PlaceFits(c)
  BY DEF ClientIInv, PlacesFit
<1>p. PICK l \in Callers, index \in Nat : l = crafting /\ index = next[c]
  BY <1>1, CallFacts DEF Capture, ClientTypeOK
<1> DEFINE tx == <<c, index>>
<1>q. PICK n \in Nat : n = Len(captured[l])
  BY <1>1, EntryFacts
<1>2. /\ l \in Callers /\ place[c] = "capture" /\ clashed' = clashed /\ tx = <<c, next[c]>>
      /\ captured' = [captured EXCEPT ![l] = Append(captured[l], tx)]
      /\ heard' = [heard EXCEPT ![c] = @ \cup {<<next[c], "sentinel">>}]
      /\ next' = [next EXCEPT ![c] = next[c] + 1] /\ call' = call
  BY <1>p DEF Capture, SendReturns, StepDone, course
<1>3. \A d \in Callers : next[d] \in Nat /\ next[d] >= 1
  BY <1>1, CallFacts
<1>4. ~clashed /\ call[c].craft => c = l
  BY <1>2, <1>p DEF ClientIInv, CraftIsOwn, InCraft
<1>5. call[c].steps[next[c]] = "send"
  BY <1>1, <1>2 DEF PlaceFits, Sending
<1>6. n \in Nat /\ DOMAIN captured[l] = 1 .. n
  BY <1>1, <1>q, EntryFacts
<1>7. /\ DOMAIN captured'[l] = 1 .. n + 1 /\ captured'[l][n + 1] = tx
      /\ \A k \in 1 .. n : captured'[l][k] = captured[l][k]
      /\ \A d \in Callers : d # l => captured'[d] = captured[d]
  <2>1. captured'[l] = Append(captured[l], tx) /\ \A d \in Callers : d # l => captured'[d] = captured[d]
    BY <1>1, <1>2 DEF ClientTypeOK
  <2>2. captured[l] \in Seq(Callers \X Nat) /\ tx \in Callers \X Nat
    BY <1>1, <1>2, <1>3, EntryFacts
  <2> QED
    BY <1>q, <1>6, <2>1, <2>2
<1>8. /\ next'[c] = next[c] + 1
      /\ \A d \in Callers : d # c => next'[d] = next[d]
  BY <1>1, <1>2 DEF ClientTypeOK
<1>9. \A k \in 1 .. n + 1 : k \in 1 .. n \/ k = n + 1
  BY <1>6
\* The send was on no list before.
<1>10. ASSUME NEW d \in Callers, NEW k \in DOMAIN captured[d]
       PROVE  /\ captured[d][k] # tx
              /\ captured[d][k][1] \in Callers /\ captured[d][k][2] \in 1 .. next[captured[d][k][1]] - 1
              /\ captured[d][k][2] \in 1 .. next'[captured[d][k][1]] - 1
              /\ captured[d][k][1] = c => captured[d][k][2] < next[c]
  <2>1. captured[d][k][1] \in Callers /\ captured[d][k][2] \in 1 .. next[captured[d][k][1]] - 1
    BY <1>1, EntryFacts DEF ListsFit, ListFits
  <2>2. captured[d][k][1] = c => captured[d][k][2] < next[c]
    BY <1>3, <2>1
  <2>3. captured[d][k][2] \in 1 .. next'[captured[d][k][1]] - 1
    BY <1>3, <1>8, <2>1
  <2>4. captured[d][k] # tx
    <3> SUFFICES ASSUME captured[d][k] = tx PROVE FALSE
      OBVIOUS
    <3>1. captured[d][k][1] = c /\ captured[d][k][2] = next[c]
      BY <1>2
    <3> QED
      BY <1>3, <2>2, <3>1
  <2> QED
    BY <2>1, <2>2, <2>3, <2>4
<1>11. ASSUME NEW d \in Callers, d # l PROVE ListFits(d)'
  <2>1. ListFits(d) /\ captured'[d] = captured[d]
    BY <1>1, <1>7, <1>11 DEF ListsFit
  <2>2. ~clashed /\ call[d].craft => d # c /\ next'[d] = next[d]
    BY <1>4, <1>8, <1>11
  <2>3. \A k \in DOMAIN captured[d] :
          /\ captured[d][k][2] \in 1 .. next'[captured[d][k][1]] - 1
          /\ call[captured[d][k][1]].steps[captured[d][k][2]] = "send"
          /\ ~clashed /\ call[captured[d][k][1]].craft => captured[d][k][1] = d
    BY <1>10, <2>1 DEF ListFits
  <2>4. ~clashed /\ call[d].craft => \A i \in 1 .. next'[d] - 1 :
          call[d].steps[i] = "send" => \E k \in DOMAIN captured[d] : captured[d][k] = <<d, i>>
    BY <2>1, <2>2 DEF ListFits
  <2>5. \A k, m \in DOMAIN captured[d] :
          k < m /\ captured[d][k][1] = captured[d][m][1] => captured[d][k][2] < captured[d][m][2]
    BY <2>1 DEF ListFits
  <2>6. call' = call /\ captured'[d] = captured[d] /\ clashed' = clashed
    BY <1>2, <2>1
  <2> QED
    BY <2>3, <2>4, <2>5, <2>6 DEF ListFits
<1>12. ListFits(l)'
  <2>1. ListFits(l)
    BY <1>1, <1>2 DEF ListsFit
  <2>2. ASSUME NEW k \in 1 .. n + 1
        PROVE  /\ captured'[l][k][2] \in 1 .. next'[captured'[l][k][1]] - 1
               /\ call[captured'[l][k][1]].steps[captured'[l][k][2]] = "send"
               /\ ~clashed /\ call[captured'[l][k][1]].craft => captured'[l][k][1] = l
    <3>1. CASE k = n + 1
      <4>1. captured'[l][k][1] = c /\ captured'[l][k][2] = next[c]
        BY <1>2, <1>7, <3>1
      <4>2. next[c] \in 1 .. next'[c] - 1
        BY <1>3, <1>8
      <4> QED
        BY <1>4, <1>5, <4>1, <4>2
    <3>2. CASE k \in 1 .. n
      <4>1. k \in DOMAIN captured[l] /\ captured'[l][k] = captured[l][k]
        BY <1>6, <1>7, <3>2
      <4>2. /\ call[captured[l][k][1]].steps[captured[l][k][2]] = "send"
            /\ ~clashed /\ call[captured[l][k][1]].craft => captured[l][k][1] = l
        BY <2>1, <4>1 DEF ListFits
      <4> QED
        BY <1>2, <1>10, <4>1, <4>2
    <3> QED
      BY <1>9, <3>1, <3>2
  <2>3. ASSUME NEW k \in 1 .. n + 1, NEW m \in 1 .. n + 1, k < m,
               captured'[l][k][1] = captured'[l][m][1]
        PROVE  captured'[l][k][2] < captured'[l][m][2]
    <3>1. k \in 1 .. n
      BY <1>6, <2>3
    <3>2. CASE m = n + 1
      <4>1. captured'[l][m][1] = c /\ captured'[l][m][2] = next[c]
        BY <1>2, <1>7, <3>2
      <4>2. captured[l][k][1] = c /\ captured'[l][k][2] = captured[l][k][2]
        BY <1>7, <2>3, <3>1, <4>1
      <4> QED
        BY <1>2, <1>6, <1>10, <3>1, <4>1, <4>2
    <3>3. CASE m \in 1 .. n
      BY <1>6, <1>7, <2>1, <2>3, <3>1, <3>3 DEF ListFits
    <3> QED
      BY <1>9, <3>2, <3>3
  <2>4. ASSUME ~clashed, call[l].craft, NEW i \in 1 .. next'[l] - 1, call[l].steps[i] = "send"
        PROVE  \E k \in 1 .. n + 1 : captured'[l][k] = <<l, i>>
    <3>1. (i = next[l] /\ l = c) \/ i \in 1 .. next[l] - 1
      BY <1>2, <1>3, <1>8, <2>4
    <3>2. CASE i = next[l] /\ l = c
      <4>1. n + 1 \in 1 .. n + 1
        BY <1>6
      <4> QED
        BY <1>2, <1>7, <3>2, <4>1
    <3>3. CASE i \in 1 .. next[l] - 1
      <4>1. PICK k \in 1 .. n : captured[l][k] = <<l, i>>
        BY <1>6, <2>1, <2>4, <3>3 DEF ListFits
      <4>2. k \in 1 .. n + 1
        BY <1>6
      <4> QED
        BY <1>7, <4>1, <4>2
    <3> QED
      BY <3>1, <3>2, <3>3
  <2> QED
    BY <1>2, <1>7, <2>2, <2>3, <2>4 DEF ListFits
\* What was on a list still is, and only the one send is new there.
<1>13. ASSUME NEW d \in Callers, NEW x
       PROVE  /\ Spots(x, d) # {} => Spots(x, d)' # {}
              /\ x # tx \/ d # l => Spots(x, d)' = Spots(x, d)
  <2>1. CASE d # l
    BY <1>7, <2>1 DEF Spots
  <2>2. CASE d = l
    <3>1. \A k \in 1 .. n : k \in 1 .. n + 1
      BY <1>6
    <3>2. Spots(x, l) \subseteq Spots(x, l)'
      BY <1>6, <1>7, <3>1 DEF Spots
    <3>3. x # tx => Spots(x, l)' \subseteq Spots(x, l)
      BY <1>6, <1>7, <1>9 DEF Spots
    <3> QED
      BY <2>2, <3>2, <3>3
  <2> QED
    BY <2>1, <2>2
<1>14. \A d \in Callers : Spots(tx, d) = {}
  BY <1>10 DEF Spots
<1>15. ASSUME NEW d \in Callers PROVE HeardFits(d)'
  <2>1. HeardFits(d)
    BY <1>1 DEF ListsFit
  <2>2. heard[d] \in SUBSET (Nat \X {"sentinel", "hash"})
    BY <1>1 DEF ClientTypeOK
  <2>3. ASSUME NEW answer \in heard[d]
        PROVE  /\ answer[1] < next'[d]
               /\ answer[2] = "sentinel" => \E e \in Callers : Spots(<<d, answer[1]>>, e)' # {}
               /\ answer[2] = "hash" => \A e \in Callers : Spots(<<d, answer[1]>>, e)' = {}
    <3>1. answer[1] \in Nat /\ answer[1] < next[d]
      BY <2>1, <2>2 DEF HeardFits
    <3>2. answer[1] < next'[d]
      BY <1>3, <1>8, <3>1
    <3>3. <<d, answer[1]>> # tx
      BY <1>2, <1>3, <3>1
    <3>4. answer[2] = "sentinel" => \E e \in Callers : Spots(<<d, answer[1]>>, e)' # {}
      BY <1>13, <2>1 DEF HeardFits
    <3>5. answer[2] = "hash" => \A e \in Callers : Spots(<<d, answer[1]>>, e)' = {}
      BY <1>13, <2>1, <3>3 DEF HeardFits
    <3> QED
      BY <3>2, <3>4, <3>5
  <2>4. n + 1 \in Spots(tx, l)'
    BY <1>6, <1>7 DEF Spots
  <2>5. \A answer \in heard'[d] : answer \in heard[d] \/ (d = c /\ answer = <<next[c], "sentinel">>)
    BY <1>1, <1>2 DEF ClientTypeOK
  <2>6. next[c] < next'[c]
    BY <1>3, <1>8
  <2>7. ASSUME NEW answer \in heard'[d]
        PROVE  /\ answer[1] < next'[d]
               /\ answer[2] = "sentinel" => \E e \in Callers : Spots(<<d, answer[1]>>, e)' # {}
               /\ answer[2] = "hash" => \A e \in Callers : Spots(<<d, answer[1]>>, e)' = {}
    <3>1. CASE answer \in heard[d]
      BY <2>3, <3>1
    <3>2. CASE d = c /\ answer = <<next[c], "sentinel">>
      <4>1. answer[1] = next[c] /\ answer[2] = "sentinel"
        BY <3>2
      <4> QED
        BY <1>2, <2>4, <2>6, <3>2, <4>1
    <3> QED
      BY <2>5, <3>1, <3>2
  <2> QED
    BY <2>7 DEF HeardFits
<1>16. ASSUME NEW d \in Callers, NEW k \in DOMAIN captured'[d]
       PROVE  OnlyOn(captured[d][k], d)'
  <2>1. CASE d = l /\ k = n + 1
    BY <1>7, <1>13, <1>14, <2>1 DEF OnlyOn
  <2>2. CASE k \in DOMAIN captured[d]
    <3>1. captured'[d][k] = captured[d][k]
      BY <1>6, <1>7, <2>2
    <3>2. captured[d][k] # tx /\ OnlyOn(captured[d][k], d)
      BY <1>1, <1>10, <2>2 DEF ListsFit
    <3> QED
      BY <1>13, <3>1, <3>2 DEF OnlyOn
  <2> QED
    BY <1>6, <1>7, <1>9, <2>1, <2>2
<1> QED
  BY <1>11, <1>12, <1>15, <1>16 DEF ListsFit

(* A transaction that was mined is on no list, and crafted calls have none. *)
LEMMA MinedLists ==
  ASSUME ClientIInv, NEW c \in Callers, Mined(c)
  PROVE  ListsFit'
<1>1. ClientTypeOK /\ ListsFit /\ PlaceFits(c)
  BY DEF ClientIInv, PlacesFit
<1>2. /\ place[c] = "sent" /\ UNCHANGED <<call, captured, clashed>>
      /\ heard' = [heard EXCEPT ![c] = @ \cup {<<next[c], "hash">>}]
      /\ next' = [next EXCEPT ![c] = next[c] + 1]
  BY DEF Mined, SendReturns, StepDone, Answered, course
<1>3. clashed \/ ~call[c].craft
  BY <1>1, <1>2 DEF PlaceFits
<1>4. /\ next'[c] = next[c] + 1
      /\ \A d \in Callers : next[d] \in Nat /\ next'[d] \in Nat /\ next'[d] >= next[d]
      /\ \A d \in Callers : d # c => next'[d] = next[d]
  <2>1. \A d \in Callers : next[d] \in Nat
    BY <1>1, CallFacts
  <2> QED
    BY <1>1, <1>2, <2>1 DEF ClientTypeOK
<1>5. ASSUME NEW d \in Callers, NEW k \in DOMAIN captured[d]
      PROVE  /\ captured[d][k] # <<c, next[c]>>
             /\ captured[d][k][2] \in 1 .. next'[captured[d][k][1]] - 1
  <2>1. captured[d][k][1] \in Callers /\ captured[d][k][2] \in 1 .. next[captured[d][k][1]] - 1
    BY <1>1, EntryFacts DEF ListsFit, ListFits
  <2>2. captured[d][k][1] = c => captured[d][k][2] < next[c]
    BY <1>4, <2>1
  <2>3. captured[d][k][2] \in 1 .. next'[captured[d][k][1]] - 1
    BY <1>4, <2>1
  <2>4. captured[d][k] # <<c, next[c]>>
    <3> SUFFICES ASSUME captured[d][k] = <<c, next[c]>> PROVE FALSE
      OBVIOUS
    <3>1. captured[d][k][1] = c /\ captured[d][k][2] = next[c]
      OBVIOUS
    <3> QED
      BY <1>4, <2>2, <3>1
  <2> QED
    BY <2>3, <2>4
<1>6. ASSUME NEW d \in Callers PROVE ListFits(d)'
  <2>1. ListFits(d)
    BY <1>1 DEF ListsFit
  <2>2. ~clashed /\ call[d].craft => next'[d] = next[d]
    BY <1>3, <1>4
  <2> QED
    BY <1>2, <1>5, <2>1, <2>2 DEF ListFits
<1>7. ASSUME NEW d \in Callers PROVE HeardFits(d)'
  <2>1. HeardFits(d) /\ heard[d] \in SUBSET (Nat \X {"sentinel", "hash"})
    BY <1>1 DEF ListsFit, ClientTypeOK
  <2>2. \A answer \in heard'[d] : answer \in heard[d] \/ (d = c /\ answer = <<next[c], "hash">>)
    BY <1>1, <1>2 DEF ClientTypeOK
  <2>3. \A x, e : Spots(x, e)' = Spots(x, e)
    BY <1>2 DEF Spots
  <2>4. ASSUME NEW answer \in heard'[d]
        PROVE  /\ answer[1] < next'[d]
               /\ answer[2] = "sentinel" => \E e \in Callers : Spots(<<d, answer[1]>>, e)' # {}
               /\ answer[2] = "hash" => \A e \in Callers : Spots(<<d, answer[1]>>, e)' = {}
    <3>1. CASE answer \in heard[d]
      <4>1. answer[1] \in Nat /\ answer[1] < next[d]
        BY <2>1, <3>1 DEF HeardFits
      <4>2. answer[1] < next'[d]
        BY <1>4, <4>1
      <4> QED
        BY <2>1, <2>3, <3>1, <4>2 DEF HeardFits
    <3>2. CASE d = c /\ answer = <<next[c], "hash">>
      <4>1. answer[1] = next[c] /\ answer[2] = "hash"
        BY <3>2
      <4>2. next[c] < next'[c]
        BY <1>4
      <4>3. \A e \in Callers : Spots(<<c, next[c]>>, e) = {}
        BY <1>5 DEF Spots
      <4> QED
        BY <2>3, <3>2, <4>1, <4>2, <4>3
    <3> QED
      BY <2>2, <3>1, <3>2
  <2> QED
    BY <2>4 DEF HeardFits
<1>8. ASSUME NEW d \in Callers, NEW k \in DOMAIN captured[d]
      PROVE  OnlyOn(captured[d][k], d)'
  BY <1>1, <1>2 DEF ListsFit, OnlyOn, Spots
<1> QED
  BY <1>2, <1>6, <1>7, <1>8 DEF ListsFit

(* The steps of a call at which nothing is over yet, or everything is.     *)
GoesOn(c) ==
  \/ Begin(c) \/ TestCraft(c) \/ EnterCraft(c) \/ ExitCraft(c) \/ Return(c)
  \/ Gate(c) \/ VerifyChain(c) \/ ChainUnknown(c) \/ TakeLock(c)
  \/ ReadAddress(c) \/ Divert(c) \/ Build(c) \/ AskWallet(c)
  \/ NameAccount(c) \/ AskToSign(c) \/ BeginLookUp(c)

LEMMA GoesOnLists ==
  ASSUME NEW c \in Callers, GoesOn(c)
  PROVE  UNCHANGED <<call, next, captured, heard>> /\ (clashed => clashed')
<1> USE DEF course, lists
<1>1. CASE Begin(c)
  BY <1>1 DEF Begin
<1>2. CASE EnterCraft(c)
  BY <1>2 DEF EnterCraft
<1>3. CASE ExitCraft(c)
  BY <1>3 DEF ExitCraft
<1>4. CASE Return(c)
  BY <1>4 DEF Return
<1>5. CASE Gate(c)
  BY <1>5 DEF Gate, Raise
<1>6. CASE VerifyChain(c)
  BY <1>6 DEF VerifyChain, Raise
<1>7. CASE ChainUnknown(c)
  BY <1>7 DEF ChainUnknown
<1>8. CASE TakeLock(c)
  BY <1>8 DEF TakeLock
<1>9. CASE ReadAddress(c)
  BY <1>9 DEF ReadAddress
<1>10. CASE Build(c)
  BY <1>10 DEF Build
<1>11. CASE AskWallet(c)
  BY <1>11 DEF AskWallet
<1>12. CASE NameAccount(c)
  BY <1>12 DEF NameAccount
<1>13. CASE AskToSign(c)
  BY <1>13 DEF AskToSign
<1>14. CASE BeginLookUp(c)
  BY <1>14 DEF BeginLookUp
<1>15. CASE TestCraft(c)
  BY <1>15 DEF TestCraft
<1>16. CASE Divert(c)
  BY <1>16 DEF Divert
<1> QED
  BY <1>1, <1>2, <1>3, <1>4, <1>5, <1>6, <1>7, <1>8, <1>9, <1>10, <1>11, <1>12, <1>13,
     <1>14, <1>15, <1>16 DEF GoesOn

(* What happens outside the calls leaves them alone.                       *)
LEMMA OutsideLists ==
  ASSUME \/ Wallet /\ UNCHANGED <<client, resolution>>
         \/ LookUps /\ UNCHANGED <<client, vars>>
         \/ Halt \/ Resume \/ Over \/ UNCHANGED everything
  PROVE  UNCHANGED <<next, place, call, ended, captured, heard, clashed>>
BY DEF client, course, lists, everything, Halt, Resume, Over

(* The kinds of steps there are.                                           *)
LEMMA StepKindsFacts ==
  ASSUME [ClientNext]_everything
  PROVE  \/ \E c \in Callers : GoesOn(c) \/ EndsStep(c) \/ Capture(c) \/ Mined(c)
         \/ UNCHANGED <<next, place, call, ended, captured, heard, clashed>>
<1>1. ASSUME NEW c \in Callers, Client(c)
      PROVE  GoesOn(c) \/ EndsStep(c) \/ Capture(c) \/ Mined(c)
  BY <1>1 DEF Client, GoesOn, EndsStep
<1> QED
  BY <1>1, OutsideLists DEF ClientNext

(* The lists stay what their crafts and the sends of others make of them.  *)
LEMMA ListsPreserved == ClientIInv /\ [ClientNext]_everything => ListsFit'
<1> SUFFICES ASSUME ClientIInv, [ClientNext]_everything PROVE ListsFit'
  OBVIOUS
<1>1. ClientTypeOK /\ ListsFit /\ \A d \in Callers : next[d] \in Nat
  BY CallFacts DEF ClientIInv
<1>2. ASSUME UNCHANGED <<call, next, captured, heard>>, clashed => clashed' PROVE ListsFit'
  BY <1>1, <1>2, ListsStill
<1>3. ASSUME NEW c \in Callers, EndsStep(c) PROVE ListsFit'
  <2>1. UNCHANGED <<call, captured, heard, clashed>> /\ (Passes(c) \/ Raises(c))
    BY <1>3, StepEnds
  <2>2. CASE Raises(c)
    BY <1>2, <2>1, <2>2 DEF Raises, Raise
  <2>3. CASE Passes(c)
    <3>1. next'[c] = next[c] + 1 /\ \A d \in Callers : d # c => next'[d] = next[d]
      BY <1>1, <2>3 DEF Passes, StepDone, ClientTypeOK
    <3>2. \A d \in Callers : next'[d] \in Nat /\ next'[d] >= next[d]
      BY <1>1, <3>1
    <3>3. call[c].steps[next[c]] # "send"
      BY <2>3 DEF Passes
    <3>4. \A d \in Callers : \A i \in 1 .. next'[d] - 1 :
            i \in 1 .. next[d] - 1 \/ (d = c /\ i = next[c])
      BY <1>1, <3>1
    <3> QED
      BY <1>1, <2>1, <3>2, <3>3, <3>4, ListsStill
  <2> QED
    BY <2>1, <2>2, <2>3
<1>4. ASSUME NEW c \in Callers, GoesOn(c) PROVE ListsFit'
  BY <1>2, <1>4, GoesOnLists
<1> QED
  BY <1>2, <1>3, <1>4, CaptureLists, MinedLists, StepKindsFacts

(* What a call consists of stays, and two craft() that clashed have clashed. *)
LEMMA CallStays ==
  ASSUME ClientIInv, [ClientNext]_everything
  PROVE  call' = call /\ (clashed => clashed')
<1>1. ASSUME NEW c \in Callers, Capture(c) \/ Mined(c) PROVE UNCHANGED <<call, clashed>>
  BY <1>1 DEF Capture, Mined, SendReturns, course
<1>2. ASSUME NEW c \in Callers, EndsStep(c) PROVE UNCHANGED <<call, clashed>>
  BY <1>2, StepEnds
<1> QED
  BY <1>1, <1>2, GoesOnLists, StepKindsFacts

(* How the calls other than the one that steps, and it, came out.          *)
LEMMA EndsStill ==
  ASSUME EndsFit, UNCHANGED call, NEW c \in Callers,
         \A d \in Callers : d # c =>
           place'[d] = place[d] /\ next'[d] = next[d] /\ ended'[d] = ended[d],
         ended'[c] = "returned" => place'[c] = "over" /\ Finished(c)',
         place'[c] = "exit" /\ ended'[c] = None => Finished(c)'
  PROVE  EndsFit'
BY DEF EndsFit, Finished

(* A call that returns has made all its steps.                             *)
LEMMA EndsPreserved == ClientIInv /\ [ClientNext]_everything => EndsFit'
<1> SUFFICES ASSUME ClientIInv, [ClientNext]_everything PROVE EndsFit'
  OBVIOUS
<1>1. /\ EndsFit /\ place \in [Callers -> Places] /\ next \in [Callers -> Nat \ {0}]
      /\ ended \in [Callers -> Errors \cup {None, "returned"}]
      /\ \A d \in Callers : next[d] \in Nat
  BY CallFacts DEF ClientIInv, ClientTypeOK
<1>2. \A d \in Callers : ended[d] = "returned" => place[d] = "over" /\ Finished(d)
  BY <1>1 DEF EndsFit
<1>3. \A why \in Errors : why # None /\ why # "returned"
  BY NoneIsNoEnding DEF Errors
\* An error is no return.
<1>4. ASSUME NEW c \in Callers, Raises(c) PROVE EndsFit'
  <2>1. PICK why \in Errors : Raise(c, why)
    BY <1>4 DEF Raises
  <2>2. ended'[c] \in Errors
    BY <1>1, <2>1 DEF Raise
  <2>3. \A d \in Callers : d # c => place'[d] = place[d] /\ next'[d] = next[d] /\ ended'[d] = ended[d]
    BY <1>1, <2>1 DEF Raise, Proceed
  <2> QED
    BY <1>1, <1>3, <2>1, <2>2, <2>3, EndsStill DEF Raise
\* A call that is not over, and goes on to a place other than the exit.
<1>5. ASSUME NEW c \in Callers, place[c] # "over", UNCHANGED <<call, ended>>,
             NEW where, where # "exit", Proceed(c, where),
             \A d \in Callers : d # c => next'[d] = next[d]
      PROVE  EndsFit'
  <2>1. place'[c] = where /\ \A d \in Callers : d # c => place'[d] = place[d]
    BY <1>1, <1>5 DEF Proceed
  <2> QED
    BY <1>1, <1>2, <1>5, <2>1, EndsStill
<1>6. ASSUME NEW c \in Callers, GoesOn(c) PROVE EndsFit'
  <2> USE DEF course
  <2>1. UNCHANGED <<call, next>>
    BY <1>6, GoesOnLists
  <2>2. CASE Begin(c)
    BY <1>5, <2>1, <2>2 DEF Begin
  <2>3. CASE TestCraft(c)
    <3>1. CASE crafting = None
      BY <1>5, <2>1, <2>3, <3>1 DEF TestCraft
    <3>2. CASE crafting # None
      <4>1. ended'[c] = "nested" /\ place'[c] = "over" /\ \A d \in Callers : d # c =>
              place'[d] = place[d] /\ ended'[d] = ended[d]
        BY <1>1, <2>3, <3>2 DEF TestCraft, Proceed
      <4> QED
        BY <1>1, <2>1, <4>1, EndsStill
    <3> QED
      BY <3>1, <3>2
  <2>4. CASE ExitCraft(c)
    <3>1. /\ place[c] = "exit" /\ place'[c] = "over"
          /\ ended'[c] = IF ended[c] = None THEN "returned" ELSE ended[c]
          /\ \A d \in Callers : d # c => place'[d] = place[d] /\ ended'[d] = ended[d]
      BY <1>1, <2>4 DEF ExitCraft, Proceed
    <3>2. ended'[c] = "returned" => Finished(c)
      BY <1>1, <1>2, <3>1 DEF EndsFit
    <3> QED
      BY <1>1, <2>1, <3>1, <3>2, EndsStill DEF Finished
  <2>5. CASE Return(c)
    <3>1. /\ Finished(c) /\ place[c] = "step" /\ place'[c] \in {"exit", "over"}
          /\ ended'[c] = "returned" => place'[c] = "over"
          /\ \A d \in Callers : d # c => place'[d] = place[d] /\ ended'[d] = ended[d]
      BY <1>1, <1>2, <2>5 DEF Return, Proceed
    <3> QED
      BY <1>1, <2>1, <3>1, EndsStill DEF Finished
  <2>6. CASE Gate(c)
    BY <1>4, <1>5, <2>1, <2>6 DEF Gate, AtStep, Raises, Errors
  <2>7. CASE VerifyChain(c)
    <3>1. CASE verified \/ Accepted
      BY <1>5, <2>1, <2>7, <3>1 DEF VerifyChain, ChecksChain, Checked
    <3>2. CASE ~(verified \/ Accepted) /\ place[c] = "gated"
      BY <1>4, <2>7, <3>2 DEF VerifyChain, Raises, Errors
    <3>3. CASE ~(verified \/ Accepted) /\ place[c] # "gated"
      <4>1. ended'[c] = "wrong chain" /\ place'[c] = "over" /\ \A d \in Callers : d # c =>
              place'[d] = place[d] /\ ended'[d] = ended[d]
        BY <1>1, <2>7, <3>3 DEF VerifyChain, Proceed
      <4> QED
        BY <1>1, <2>1, <4>1, EndsStill
    <3> QED
      BY <3>1, <3>2, <3>3
  <2>8. CASE ChainUnknown(c)
    BY <1>5, <2>1, <2>8 DEF ChainUnknown, ChecksChain, Checked
  <2>9. CASE TakeLock(c)
    BY <1>5, <2>1, <2>9 DEF TakeLock
  <2>10. CASE ReadAddress(c)
    BY <1>5, <2>1, <2>10 DEF ReadAddress
  <2>11. CASE Build(c)
    BY <1>5, <2>1, <2>11 DEF Build, Answered
  <2>12. CASE AskWallet(c)
    BY <1>5, <2>1, <2>12 DEF AskWallet
  <2>13. CASE NameAccount(c)
    BY <1>5, <2>1, <2>13 DEF NameAccount, AtStep
  <2>14. CASE AskToSign(c)
    BY <1>5, <2>1, <2>14 DEF AskToSign, AtStep
  <2>15. CASE BeginLookUp(c)
    BY <1>5, <2>1, <2>15 DEF BeginLookUp, AtStep
  <2>16. CASE EnterCraft(c)
    BY <1>5, <2>1, <2>16 DEF EnterCraft
  <2>17. CASE Divert(c)
    BY <1>5, <2>1, <2>17 DEF Divert, Answered
  <2> QED
    BY <1>6, <2>2, <2>3, <2>4, <2>5, <2>6, <2>7, <2>8, <2>9, <2>10, <2>11, <2>12, <2>13,
       <2>14, <2>15, <2>16, <2>17 DEF GoesOn
<1>7. ASSUME NEW c \in Callers, StepDone(c), UNCHANGED <<call, ended>>, place[c] # "over"
      PROVE  EndsFit'
  <2>1. \A d \in Callers : d # c => next'[d] = next[d]
    BY <1>1, <1>7 DEF StepDone
  <2> QED
    BY <1>5, <1>7, <2>1 DEF StepDone
<1>8. ASSUME NEW c \in Callers, EndsStep(c) PROVE EndsFit'
  <2>1. place[c] # "over" /\ (Passes(c) \/ Raises(c))
    BY <1>8, StepEnds DEF Sending
  <2> QED
    BY <1>4, <1>7, <2>1 DEF Passes
<1>9. ASSUME NEW c \in Callers, Capture(c) \/ Mined(c) PROVE EndsFit'
  BY <1>7, <1>9 DEF Capture, Mined, Answered, SendReturns, course
<1>10. ASSUME UNCHANGED <<next, place, call, ended, captured, heard, clashed>> PROVE EndsFit'
  BY <1>1, <1>10 DEF EndsFit, Finished
<1> QED
  BY <1>6, <1>8, <1>9, <1>10, StepKindsFacts

-----------------------------------------------------------------------------
(* The invariant, and what it says of every client *)

LEMMA ClientInitIsGood == ClientInit => ClientIInv
<1> SUFFICES ASSUME ClientInit PROVE ClientIInv
  OBVIOUS
<1>1. IInv /\ ResolutionIInv
  BY InitIsGood, ResolutionInitIsGood DEF ClientInit
<1>2. ClientTypeOK
  <2>1. \A c \in Callers : 1 <= Len(call[c].steps) + 1
    <3>1. \A c \in Callers : call[c].steps \in Seq(StepKinds)
      BY ScenariosAssumption DEF ClientInit
    <3>2. \A c \in Callers : Len(call[c].steps) \in Nat
      BY <3>1
    <3> QED
      BY <3>2
  <2>2. captured \in [Callers -> Seq(Callers \X Nat)]
    BY DEF ClientInit
  <2>3. {halted, chainRead, verified, clashed} \subseteq BOOLEAN
    BY DEF ClientInit
  <2> QED
    BY <2>1, <2>2, <2>3 DEF ClientInit, ClientTypeOK, Places, Errors
<1>3. LockIsHeld /\ CraftIsOwn /\ VerifiedIsAccepted
  BY DEF ClientInit, LockIsHeld, CraftIsOwn, InCraft, VerifiedIsAccepted, Locked, Sending
<1>4. PlacesFit
  BY DEF ClientInit, PlacesFit, PlaceFits, Sending
<1>5. ListsFit /\ EndsFit
  BY NoneIsNoEnding
     DEF ClientInit, ListsFit, ListFits, HeardFits, EndsFit, OnlyOn, Spots
<1> QED
  BY <1>1, <1>2, <1>3, <1>4, <1>5 DEF ClientIInv

LEMMA ClientInvariantPreserved == ClientIInv /\ [ClientNext]_everything => ClientIInv'
<1> SUFFICES ASSUME ClientIInv, [ClientNext]_everything PROVE ClientIInv'
  OBVIOUS
<1>1. IInv'
  BY BridgeSteps, InvariantPreserved DEF ClientIInv
<1>2. ResolutionIInv'
  BY LookUpSteps, ResolutionPreserved DEF ClientIInv
<1>3. ClientTypeOK' /\ LockIsHeld' /\ CraftIsOwn' /\ PlacesFit' /\ VerifiedIsAccepted'
  BY ClientTypePreserved, LockPreserved, CraftPreserved, PlacesPreserved, VerifiedPreserved
<1>4. ListsFit' /\ EndsFit'
  BY ListsPreserved, EndsPreserved
<1> QED
  BY <1>1, <1>2, <1>3, <1>4 DEF ClientIInv

(* The parts of a client fit together in every state: the lock is held just *)
(* by the call that is being signed, the bridge and the look-ups are in     *)
(* states of their own invariants, and a craft() has a scope of its own     *)
(* until two of them have been entered at once, which the unlocked test and *)
(* set of _crafting_scope does not prevent.                                 *)
THEOREM ClientInvariant == ClientSpec => []ClientIInv
<1> QED
  BY ClientInitIsGood, ClientInvariantPreserved, PTL DEF ClientSpec

(* A client with threads, crafts and locks around it uses its bridge as one *)
(* that is called by threads alone.                                         *)
THEOREM ClientUsesBridge == ClientSpec => Spec
<1>1. ClientInit => Init
  BY DEF ClientInit
<1> QED
  BY <1>1, ClientInvariant, BridgeSteps, PTL DEF ClientSpec, Spec

(* And its look-ups likewise.                                               *)
THEOREM ClientUsesLookUps == ClientSpec => ResolutionSpec
<1>1. ClientInit => ResolutionInit
  BY DEF ClientInit
<1> QED
  BY <1>1, LookUpSteps, PTL DEF ClientSpec, ResolutionSpec

(* What a call of the client gets from the wallet is the answer to it.      *)
THEOREM ClientAnswersAreOwn == ClientSpec => []AnswerIsOwn
BY ClientUsesBridge, AnswersAreOwn, PTL

(* Its deadlines and the wallet's answers do not contradict each other.     *)
THEOREM ClientDeadlinesAreClean == ClientSpec => []DeadlineIsClean
BY ClientUsesBridge, DeadlinesAreClean, PTL

(* The tokens and kinds its trades start from are true.                     *)
THEOREM ClientLookUpsAreTrue == ClientSpec => []LookUpsAreTrue
BY ClientUsesLookUps, AnswersAreTrue, PTL

(* A send that came back with the placeholder hash is on one list, and once, *)
(* one that came back with a hash on none, whatever threads craft or send. *)
(* Until two craft() have been entered at once, the list one returns has   *)
(* exactly the sends of its action, in their order, and besides them only  *)
(* sends of calls that are not crafted.                                    *)
THEOREM ListsAlwaysExact == ClientSpec => []ListsAreExact
<1>1. ASSUME ClientIInv, ~clashed, NEW c \in Callers, call[c].craft, ended[c] = "returned"
      PROVE  /\ {captured[c][k][2] : k \in Own(c)} =
                  {i \in DOMAIN call[c].steps : call[c].steps[i] = "send"}
             /\ \A k, m \in Own(c) : k < m => captured[c][k][2] < captured[c][m][2]
             /\ \A k \in DOMAIN captured[c] \ Own(c) : ~call[captured[c][k][1]].craft
  <2>1. ClientTypeOK /\ ListFits(c) /\ Finished(c)
    BY <1>1 DEF ClientIInv, ListsFit, EndsFit
  <2>2. /\ next[c] \in Nat /\ Len(call[c].steps) \in Nat /\ next[c] = Len(call[c].steps) + 1
        /\ DOMAIN call[c].steps = 1 .. Len(call[c].steps)
    <3>1. /\ next[c] \in Nat /\ Len(call[c].steps) \in Nat
          /\ DOMAIN call[c].steps = 1 .. Len(call[c].steps)
      BY <2>1, CallFacts
    <3>2. next[c] <= Len(call[c].steps) + 1 /\ next[c] > Len(call[c].steps)
      BY <2>1 DEF ClientTypeOK, Finished
    <3> QED
      BY <3>1, <3>2
  <2>3. 1 .. next[c] - 1 = DOMAIN call[c].steps
    BY <2>2
  <2>4. \A k \in Own(c) :
          captured[c][k][2] \in DOMAIN call[c].steps /\ call[c].steps[captured[c][k][2]] = "send"
    BY <2>1, <2>3 DEF ListFits, Own
  <2>5. ASSUME NEW i \in DOMAIN call[c].steps, call[c].steps[i] = "send"
        PROVE  \E k \in Own(c) : captured[c][k][2] = i
    <3>1. PICK k \in DOMAIN captured[c] : captured[c][k] = <<c, i>>
      BY <1>1, <2>1, <2>3, <2>5 DEF ListFits
    <3> QED
      BY <3>1 DEF Own
  <2>6. {captured[c][k][2] : k \in Own(c)} =
          {i \in DOMAIN call[c].steps : call[c].steps[i] = "send"}
    BY <2>4, <2>5
  <2> QED
    BY <1>1, <2>1, <2>6 DEF ListFits, Own
<1>2. ASSUME ClientIInv, NEW d \in Callers, NEW tx, Spots(tx, d) # {}
      PROVE  OnlyOn(tx, d) /\ \E k \in DOMAIN captured[d] : Spots(tx, d) = {k}
  <2>1. ClientTypeOK /\ ListsFit /\ ListFits(d)
    BY <1>2 DEF ClientIInv, ListsFit
  <2>2. PICK k \in DOMAIN captured[d] : captured[d][k] = tx
    BY <1>2 DEF Spots
  <2>3. ASSUME NEW m \in DOMAIN captured[d], captured[d][m] = tx PROVE m = k
    <3>1. k \in Nat /\ m \in Nat /\ captured[d][k][2] \in Nat
      BY <2>1, EntryFacts
    <3>2. ~(k < m) /\ ~(m < k)
      BY <2>1, <2>2, <2>3, <3>1 DEF ListFits
    <3> QED
      BY <3>1, <3>2
  <2>4. Spots(tx, d) = {k}
    BY <2>2, <2>3 DEF Spots
  <2> QED
    BY <2>1, <2>2, <2>4 DEF ListsFit
<1>3. ASSUME ClientIInv, NEW c \in Callers, NEW answer \in heard[c]
      PROVE  /\ answer[2] = "sentinel" => \E d \in Callers :
                  /\ OnlyOn(<<c, answer[1]>>, d)
                  /\ \E k \in DOMAIN captured[d] : Spots(<<c, answer[1]>>, d) = {k}
             /\ answer[2] # "sentinel" => \A d \in Callers : Spots(<<c, answer[1]>>, d) = {}
  <2>1. HeardFits(c) /\ answer[2] \in {"sentinel", "hash"}
    BY <1>3 DEF ClientIInv, ListsFit, ClientTypeOK
  <2> QED
    BY <1>2, <1>3, <2>1 DEF HeardFits
<1>4. ClientIInv => ListsAreExact
  <2>1. ClientIInv => CraftIsComplete
    BY <1>1 DEF CraftIsComplete
  <2>2. ClientIInv => SentOrListed
    BY <1>3 DEF SentOrListed
  <2> QED
    BY <2>1, <2>2 DEF ListsAreExact
<1> QED
  BY <1>4, ClientInvariant, PTL

(* No step gets a call past the switch. *)
LEMMA HaltPreserved == ClientIInv /\ HaltHolds /\ [ClientNext]_everything => HaltHolds'
<1> SUFFICES ASSUME ClientIInv /\ HaltHolds, [ClientNext]_everything PROVE HaltHolds'
  OBVIOUS
<1>a. place \in [Callers -> Places]
  BY DEF ClientIInv, ClientTypeOK
<1>b. HaltHolds
  OBVIOUS
<1>1. ASSUME NEW c \in Callers, Begin(c) PROVE HaltHolds'
  BY <1>a, <1>b, <1>1 DEF Begin, Proceed, HaltHolds, Sending, switch, At, AtStep
<1>2. ASSUME NEW c \in Callers, EnterCraft(c) PROVE HaltHolds'
  BY <1>a, <1>b, <1>2 DEF EnterCraft, Proceed, HaltHolds, Sending, switch, At, AtStep
<1>3. ASSUME NEW c \in Callers, ExitCraft(c) PROVE HaltHolds'
  BY <1>a, <1>b, <1>3 DEF ExitCraft, Proceed, HaltHolds, Sending, switch, At, AtStep
<1>4. ASSUME NEW c \in Callers, Return(c) PROVE HaltHolds'
  BY <1>a, <1>b, <1>4 DEF Return, Proceed, HaltHolds, Sending, switch, At, AtStep
<1>5. ASSUME NEW c \in Callers, Gate(c) PROVE HaltHolds'
  BY <1>a, <1>b, <1>5 DEF Gate, Proceed, Raise, HaltHolds, Sending, switch, At, AtStep
<1>6. ASSUME NEW c \in Callers, VerifyChain(c) PROVE HaltHolds'
  BY <1>a, <1>b, <1>6 DEF VerifyChain, Proceed, Raise, Checked, ChecksChain, HaltHolds,
         Sending, switch, At, AtStep
<1>7. ASSUME NEW c \in Callers, ChainUnknown(c) PROVE HaltHolds'
  BY <1>a, <1>b, <1>7 DEF ChainUnknown, Proceed, Checked, ChecksChain, HaltHolds, Sending,
         switch, At, AtStep
<1>8. ASSUME NEW c \in Callers, TakeLock(c) PROVE HaltHolds'
  BY <1>a, <1>b, <1>8 DEF TakeLock, Proceed, HaltHolds, Sending, switch, At, AtStep
<1>9. ASSUME NEW c \in Callers, ReadAddress(c) PROVE HaltHolds'
  BY <1>a, <1>b, <1>9 DEF ReadAddress, Proceed, HaltHolds, Sending, switch, At, AtStep
<1>10. ASSUME NEW c \in Callers, Capture(c) PROVE HaltHolds'
  BY <1>a, <1>b, <1>10 DEF Capture, Proceed, SendReturns, StepDone, Answered, HaltHolds,
         Sending, switch, At, AtStep
<1>11. ASSUME NEW c \in Callers, Build(c) PROVE HaltHolds'
  BY <1>a, <1>b, <1>11 DEF Build, Proceed, Answered, HaltHolds, Sending, switch, At, AtStep
<1>12. ASSUME NEW c \in Callers, AskWallet(c) PROVE HaltHolds'
  BY <1>a, <1>b, <1>12 DEF AskWallet, Proceed, HaltHolds, Sending, switch, At, AtStep
<1>13. ASSUME NEW c \in Callers, Mined(c) PROVE HaltHolds'
  BY <1>a, <1>b, <1>13 DEF Mined, Proceed, SendReturns, StepDone, Answered, HaltHolds,
         Sending, switch, At, AtStep
<1>14. ASSUME NEW c \in Callers, SendFails(c) PROVE HaltHolds'
  BY <1>a, <1>b, <1>14 DEF SendFails, Proceed, SendRaises, Raise, Answered, HaltHolds,
         Sending, switch, At, AtStep
<1>15. ASSUME NEW c \in Callers, CheckStatus(c) PROVE HaltHolds'
  BY <1>a, <1>b, <1>15 DEF CheckStatus, Proceed, StepDone, Raise, HaltHolds, Sending,
         switch, At, AtStep
<1>16. ASSUME NEW c \in Callers, FindWithdrawal(c) PROVE HaltHolds'
  BY <1>a, <1>b, <1>16 DEF FindWithdrawal, Proceed, StepDone, Raise, HaltHolds, Sending,
         switch, At, AtStep
<1>17. ASSUME NEW c \in Callers, Ask(c) PROVE HaltHolds'
  BY <1>a, <1>b, <1>17 DEF Ask, Proceed, StepDone, Raise, HaltHolds, Sending, switch, At, AtStep
<1>18. ASSUME NEW c \in Callers, Refuse(c) PROVE HaltHolds'
  BY <1>a, <1>b, <1>18 DEF Refuse, Proceed, StepDone, Raise, HaltHolds, Sending, switch,
         At, AtStep
<1>19. ASSUME NEW c \in Callers, Post(c) PROVE HaltHolds'
  BY <1>a, <1>b, <1>19 DEF Post, Proceed, StepDone, Raise, HaltHolds, Sending, switch, At,
         AtStep
<1>20. ASSUME NEW c \in Callers, NameAccount(c) PROVE HaltHolds'
  BY <1>a, <1>b, <1>20 DEF NameAccount, Proceed, HaltHolds, Sending, switch, At, AtStep
<1>21. ASSUME NEW c \in Callers, AskToSign(c) PROVE HaltHolds'
  BY <1>a, <1>b, <1>21 DEF AskToSign, Proceed, HaltHolds, Sending, switch, At, AtStep
<1>22. ASSUME NEW c \in Callers, WalletAnswers(c) PROVE HaltHolds'
  BY <1>a, <1>b, <1>22 DEF WalletAnswers, Proceed, StepDone, Raise, Answered, HaltHolds,
         Sending, switch, At, AtStep
<1>23. ASSUME NEW c \in Callers, BeginLookUp(c) PROVE HaltHolds'
  BY <1>a, <1>b, <1>23 DEF BeginLookUp, Proceed, HaltHolds, Sending, switch, At, AtStep
<1>24. ASSUME NEW c \in Callers, EndLookUp(c) PROVE HaltHolds'
  BY <1>a, <1>b, <1>24 DEF EndLookUp, Proceed, StepDone, Raise, HaltHolds, Sending, switch,
         At, AtStep
<1>25. ASSUME NEW c \in Callers, PoolStep(c) PROVE HaltHolds'
  BY <1>a, <1>b, <1>25 DEF PoolStep, Proceed, StepDone, Raise, HaltHolds, Sending, switch,
         At, AtStep
<1>26. ASSUME Wallet, UNCHANGED <<client, resolution>> PROVE HaltHolds'
  BY <1>a, <1>b, <1>26 DEF client, HaltHolds, Sending, switch, At, AtStep
<1>27. ASSUME LookUps, UNCHANGED <<client, vars>> PROVE HaltHolds'
  BY <1>a, <1>b, <1>27 DEF client, HaltHolds, Sending, switch, At, AtStep
<1>28. ASSUME Halt PROVE HaltHolds'
  BY <1>a, <1>b, <1>28 DEF Halt, HaltHolds, Sending, switch, At, AtStep
<1>29. ASSUME Resume PROVE HaltHolds'
  BY <1>a, <1>b, <1>29 DEF Resume, HaltHolds, Sending, switch, At, AtStep
<1>30. ASSUME UNCHANGED everything PROVE HaltHolds'
  BY <1>a, <1>b, <1>30 DEF everything, client, HaltHolds, Sending, switch, At, AtStep
<1>31. ASSUME NEW c \in Callers, TestCraft(c) PROVE HaltHolds'
  BY <1>a, <1>b, <1>31 DEF TestCraft, Proceed, HaltHolds, Sending, switch, At, AtStep
<1>32. ASSUME NEW c \in Callers, Divert(c) PROVE HaltHolds'
  BY <1>a, <1>b, <1>32 DEF Divert, Proceed, Answered, HaltHolds, Sending, switch, At, AtStep
<1> QED
  BY <1>1, <1>2, <1>3, <1>4, <1>5, <1>6, <1>7, <1>8, <1>9, <1>10, <1>11, <1>12, <1>13,
     <1>14, <1>15, <1>16, <1>17, <1>18, <1>19, <1>20, <1>21, <1>22, <1>23, <1>24, <1>25,
     <1>26, <1>27, <1>28, <1>29, <1>30, <1>31, <1>32 DEF ClientNext, Client, Over

(* After halt(), only the calls it met in the send path are in it, whatever *)
(* the calls and however many threads there are.                            *)
THEOREM HaltIsObeyed == ClientSpec => []HaltHolds
<1>1. ClientInit => HaltHolds
  BY DEF ClientInit, HaltHolds
<1> QED
  BY <1>1, HaltPreserved, ClientInvariant, PTL DEF ClientSpec

(* No step gets a call past the check of the chain. *)
LEMMA ChainPreserved == ClientIInv /\ WrongChainIsRefused /\ [ClientNext]_everything => WrongChainIsRefused'
<1> SUFFICES ASSUME ClientIInv /\ WrongChainIsRefused, [ClientNext]_everything PROVE WrongChainIsRefused'
  OBVIOUS
<1>a. place \in [Callers -> Places]
  BY DEF ClientIInv, ClientTypeOK
<1>b. WrongChainIsRefused
  OBVIOUS
<1>c. VerifiedIsAccepted
  BY DEF ClientIInv
<1>1. ASSUME NEW c \in Callers, Begin(c) PROVE WrongChainIsRefused'
  BY <1>a, <1>b, <1>c, <1>1 DEF Begin, Proceed, WrongChainIsRefused, Accepted, Sending,
         guard, At, AtStep
<1>2. ASSUME NEW c \in Callers, EnterCraft(c) PROVE WrongChainIsRefused'
  BY <1>a, <1>b, <1>c, <1>2 DEF EnterCraft, Proceed, WrongChainIsRefused, Accepted,
         Sending, guard, At, AtStep
<1>3. ASSUME NEW c \in Callers, ExitCraft(c) PROVE WrongChainIsRefused'
  BY <1>a, <1>b, <1>c, <1>3 DEF ExitCraft, Proceed, WrongChainIsRefused, Accepted, Sending,
         guard, At, AtStep
<1>4. ASSUME NEW c \in Callers, Return(c) PROVE WrongChainIsRefused'
  BY <1>a, <1>b, <1>c, <1>4 DEF Return, Proceed, WrongChainIsRefused, Accepted, Sending,
         guard, At, AtStep
<1>5. ASSUME NEW c \in Callers, Gate(c) PROVE WrongChainIsRefused'
  BY <1>a, <1>b, <1>c, <1>5 DEF Gate, Proceed, Raise, WrongChainIsRefused, Accepted,
         Sending, guard, At, AtStep
<1>6. ASSUME NEW c \in Callers, VerifyChain(c) PROVE WrongChainIsRefused'
  <2>1. Accepted' = Accepted
    BY <1>6 DEF VerifyChain, Accepted
  <2>2. CASE Accepted
    BY <2>1, <2>2 DEF WrongChainIsRefused
  <2>3. CASE ~Accepted
    <3>1. ~verified
      BY <1>c, <2>3 DEF VerifiedIsAccepted
    <3>2. place'[c] \in {"exit", "over"}
      BY <1>a, <2>3, <3>1, <1>6 DEF VerifyChain, ChecksChain, Raise, Proceed
    <3>3. \A d \in Callers : d # c => place'[d] = place[d]
      BY <1>a, <2>3, <3>1, <1>6 DEF VerifyChain, ChecksChain, Raise, Proceed
    <3>4. \A d \in unchecked : d # c => d \in unchecked'
      BY <1>6 DEF VerifyChain
    <3> QED
      BY <1>b, <2>1, <2>3, <3>2, <3>3, <3>4 DEF WrongChainIsRefused, Sending
  <2> QED
    BY <2>2, <2>3
<1>7. ASSUME NEW c \in Callers, ChainUnknown(c) PROVE WrongChainIsRefused'
  BY <1>a, <1>b, <1>c, <1>7 DEF ChainUnknown, Proceed, Checked, ChecksChain,
         WrongChainIsRefused, Accepted, Sending, guard, At, AtStep
<1>8. ASSUME NEW c \in Callers, TakeLock(c) PROVE WrongChainIsRefused'
  BY <1>a, <1>b, <1>c, <1>8 DEF TakeLock, Proceed, WrongChainIsRefused, Accepted, Sending,
         guard, At, AtStep
<1>9. ASSUME NEW c \in Callers, ReadAddress(c) PROVE WrongChainIsRefused'
  BY <1>a, <1>b, <1>c, <1>9 DEF ReadAddress, Proceed, WrongChainIsRefused, Accepted,
         Sending, guard, At, AtStep
<1>10. ASSUME NEW c \in Callers, Capture(c) PROVE WrongChainIsRefused'
  BY <1>a, <1>b, <1>c, <1>10 DEF Capture, Proceed, SendReturns, StepDone, Answered,
         WrongChainIsRefused, Accepted, Sending, guard, At, AtStep
<1>11. ASSUME NEW c \in Callers, Build(c) PROVE WrongChainIsRefused'
  BY <1>a, <1>b, <1>c, <1>11 DEF Build, Proceed, Answered, WrongChainIsRefused, Accepted,
         Sending, guard, At, AtStep
<1>12. ASSUME NEW c \in Callers, AskWallet(c) PROVE WrongChainIsRefused'
  BY <1>a, <1>b, <1>c, <1>12 DEF AskWallet, Proceed, WrongChainIsRefused, Accepted,
         Sending, guard, At, AtStep
<1>13. ASSUME NEW c \in Callers, Mined(c) PROVE WrongChainIsRefused'
  BY <1>a, <1>b, <1>c, <1>13 DEF Mined, Proceed, SendReturns, StepDone, Answered,
         WrongChainIsRefused, Accepted, Sending, guard, At, AtStep
<1>14. ASSUME NEW c \in Callers, SendFails(c) PROVE WrongChainIsRefused'
  BY <1>a, <1>b, <1>c, <1>14 DEF SendFails, Proceed, SendRaises, Raise, Answered,
         WrongChainIsRefused, Accepted, Sending, guard, At, AtStep
<1>15. ASSUME NEW c \in Callers, CheckStatus(c) PROVE WrongChainIsRefused'
  BY <1>a, <1>b, <1>c, <1>15 DEF CheckStatus, Proceed, StepDone, Raise,
         WrongChainIsRefused, Accepted, Sending, guard, At, AtStep
<1>16. ASSUME NEW c \in Callers, FindWithdrawal(c) PROVE WrongChainIsRefused'
  BY <1>a, <1>b, <1>c, <1>16 DEF FindWithdrawal, Proceed, StepDone, Raise,
         WrongChainIsRefused, Accepted, Sending, guard, At, AtStep
<1>17. ASSUME NEW c \in Callers, Ask(c) PROVE WrongChainIsRefused'
  BY <1>a, <1>b, <1>c, <1>17 DEF Ask, Proceed, StepDone, Raise, WrongChainIsRefused,
         Accepted, Sending, guard, At, AtStep
<1>18. ASSUME NEW c \in Callers, Refuse(c) PROVE WrongChainIsRefused'
  BY <1>a, <1>b, <1>c, <1>18 DEF Refuse, Proceed, StepDone, Raise, WrongChainIsRefused,
         Accepted, Sending, guard, At, AtStep
<1>19. ASSUME NEW c \in Callers, Post(c) PROVE WrongChainIsRefused'
  BY <1>a, <1>b, <1>c, <1>19 DEF Post, Proceed, StepDone, Raise, WrongChainIsRefused,
         Accepted, Sending, guard, At, AtStep
<1>20. ASSUME NEW c \in Callers, NameAccount(c) PROVE WrongChainIsRefused'
  BY <1>a, <1>b, <1>c, <1>20 DEF NameAccount, Proceed, WrongChainIsRefused, Accepted,
         Sending, guard, At, AtStep
<1>21. ASSUME NEW c \in Callers, AskToSign(c) PROVE WrongChainIsRefused'
  BY <1>a, <1>b, <1>c, <1>21 DEF AskToSign, Proceed, WrongChainIsRefused, Accepted,
         Sending, guard, At, AtStep
<1>22. ASSUME NEW c \in Callers, WalletAnswers(c) PROVE WrongChainIsRefused'
  BY <1>a, <1>b, <1>c, <1>22 DEF WalletAnswers, Proceed, StepDone, Raise, Answered,
         WrongChainIsRefused, Accepted, Sending, guard, At, AtStep
<1>23. ASSUME NEW c \in Callers, BeginLookUp(c) PROVE WrongChainIsRefused'
  BY <1>a, <1>b, <1>c, <1>23 DEF BeginLookUp, Proceed, WrongChainIsRefused, Accepted,
         Sending, guard, At, AtStep
<1>24. ASSUME NEW c \in Callers, EndLookUp(c) PROVE WrongChainIsRefused'
  BY <1>a, <1>b, <1>c, <1>24 DEF EndLookUp, Proceed, StepDone, Raise, WrongChainIsRefused,
         Accepted, Sending, guard, At, AtStep
<1>25. ASSUME NEW c \in Callers, PoolStep(c) PROVE WrongChainIsRefused'
  BY <1>a, <1>b, <1>c, <1>25 DEF PoolStep, Proceed, StepDone, Raise, WrongChainIsRefused,
         Accepted, Sending, guard, At, AtStep
<1>26. ASSUME Wallet, UNCHANGED <<client, resolution>> PROVE WrongChainIsRefused'
  BY <1>a, <1>b, <1>c, <1>26 DEF client, WrongChainIsRefused, Accepted, Sending, guard, At,
         AtStep
<1>27. ASSUME LookUps, UNCHANGED <<client, vars>> PROVE WrongChainIsRefused'
  BY <1>a, <1>b, <1>c, <1>27 DEF client, WrongChainIsRefused, Accepted, Sending, guard, At,
         AtStep
<1>28. ASSUME Halt PROVE WrongChainIsRefused'
  BY <1>a, <1>b, <1>c, <1>28 DEF Halt, WrongChainIsRefused, Accepted, Sending, guard, At, AtStep
<1>29. ASSUME Resume PROVE WrongChainIsRefused'
  BY <1>a, <1>b, <1>c, <1>29 DEF Resume, WrongChainIsRefused, Accepted, Sending, guard, At,
         AtStep
<1>30. ASSUME UNCHANGED everything PROVE WrongChainIsRefused'
  BY <1>a, <1>b, <1>c, <1>30 DEF everything, client, WrongChainIsRefused, Accepted,
         Sending, guard, At, AtStep
<1>31. ASSUME NEW c \in Callers, TestCraft(c) PROVE WrongChainIsRefused'
  BY <1>a, <1>b, <1>c, <1>31 DEF TestCraft, Proceed, WrongChainIsRefused, Accepted, Sending,
         guard, At, AtStep
<1>32. ASSUME NEW c \in Callers, Divert(c) PROVE WrongChainIsRefused'
  BY <1>a, <1>b, <1>c, <1>32 DEF Divert, Proceed, Answered, WrongChainIsRefused, Accepted, Sending,
         guard, At, AtStep
<1> QED
  BY <1>1, <1>2, <1>3, <1>4, <1>5, <1>6, <1>7, <1>8, <1>9, <1>10, <1>11, <1>12, <1>13,
     <1>14, <1>15, <1>16, <1>17, <1>18, <1>19, <1>20, <1>21, <1>22, <1>23, <1>24, <1>25,
     <1>26, <1>27, <1>28, <1>29, <1>30, <1>31, <1>32 DEF ClientNext, Client, Over

(* On another chain only a call whose own check was blind goes on.          *)
THEOREM WrongChainsAreRefused == ClientSpec => []WrongChainIsRefused
<1>1. ClientInit => WrongChainIsRefused
  BY DEF ClientInit, WrongChainIsRefused, Sending
<1> QED
  BY <1>1, ChainPreserved, ClientInvariant, PTL DEF ClientSpec

(* A call whose action refuses to be crafted never gets to the platform's  *)
(* orders inside craft(): it refused, as long as no scopes have clashed.   *)
LEMMA CraftsDoNotPost ==
  ASSUME ClientIInv, ~clashed, NEW c \in Callers, call[c].craft, Guarded(c)
  PROVE  ~AtStep(c, "post")
<1> SUFFICES ASSUME AtStep(c, "post") PROVE FALSE
  OBVIOUS
<1>1. ClientTypeOK /\ PlaceFits(c)
  BY DEF ClientIInv, PlacesFit
<1>2. next[c] \in DOMAIN call[c].steps /\ call[c].steps[next[c]] = "post"
  BY <1>1, CallFacts DEF AtStep, Finished
<1>3. PICK j \in 1 .. next[c] - 1 : call[c].steps[j] = "refuse"
  BY <1>2 DEF Guarded
<1> QED
  BY <1>1, <1>3 DEF PlaceFits

(* No step lets a crafted call ask the wallet to send or the platform to act. *)
LEMMA CraftEffectPreserved == ClientIInv /\ CraftHasNoEffect /\ [ClientNext]_everything => CraftHasNoEffect'
<1> SUFFICES ASSUME ClientIInv /\ CraftHasNoEffect, [ClientNext]_everything PROVE CraftHasNoEffect'
  OBVIOUS
<1>b. CraftHasNoEffect
  OBVIOUS
<1>k. call' = call /\ (clashed => clashed')
  BY CallStays
<1>g. \A d \in Callers : Guarded(d)' = Guarded(d)
  BY <1>k DEF Guarded
<1>c. PlacesFit
  BY DEF ClientIInv
<1>t. ask \in [Callers -> Request]
  BY DEF ClientIInv, IInv, TypeOK
<1>z. ClientIInv
  OBVIOUS
\* Nothing new is asked of the wallet or of the platform.
<1>s. ASSUME UNCHANGED <<ask, ordered>> PROVE CraftHasNoEffect'
  BY <1>b, <1>k, <1>g, <1>s DEF CraftHasNoEffect
<1>1. ASSUME NEW c \in Callers, Begin(c) PROVE CraftHasNoEffect'
  BY <1>s, <1>1 DEF Begin, course, vars
<1>2. ASSUME NEW c \in Callers, EnterCraft(c) PROVE CraftHasNoEffect'
  BY <1>s, <1>2 DEF EnterCraft, course, vars
<1>3. ASSUME NEW c \in Callers, ExitCraft(c) PROVE CraftHasNoEffect'
  BY <1>s, <1>3 DEF ExitCraft, course, vars
<1>4. ASSUME NEW c \in Callers, Return(c) PROVE CraftHasNoEffect'
  BY <1>s, <1>4 DEF Return, course, vars
<1>5. ASSUME NEW c \in Callers, Gate(c) PROVE CraftHasNoEffect'
  BY <1>s, <1>5 DEF Gate, Raise, course, vars
<1>6. ASSUME NEW c \in Callers, VerifyChain(c) PROVE CraftHasNoEffect'
  BY <1>s, <1>6 DEF VerifyChain, Raise, course, vars
<1>7. ASSUME NEW c \in Callers, ChainUnknown(c) PROVE CraftHasNoEffect'
  BY <1>s, <1>7 DEF ChainUnknown, course, vars
<1>8. ASSUME NEW c \in Callers, TakeLock(c) PROVE CraftHasNoEffect'
  BY <1>s, <1>8 DEF TakeLock, course, vars
<1>9. ASSUME NEW c \in Callers, ReadAddress(c) PROVE CraftHasNoEffect'
  BY <1>s, <1>9 DEF ReadAddress, Call, course
<1>10. ASSUME NEW c \in Callers, Capture(c) PROVE CraftHasNoEffect'
  BY <1>s, <1>10 DEF Capture, SendReturns, course, vars
<1>11. ASSUME NEW c \in Callers, Build(c) PROVE CraftHasNoEffect'
  BY <1>s, <1>11 DEF Build, course, vars
<1>12. ASSUME NEW c \in Callers, AskWallet(c) PROVE CraftHasNoEffect'
  <2>1. clashed \/ ~call[c].craft
    BY <1>c, <1>12 DEF AskWallet, PlacesFit, PlaceFits
  <2>2. \A d \in Callers : d # c => ask'[d] = ask[d]
    BY <1>t, <1>12 DEF AskWallet, Submit, Park
  <2> QED
    BY <1>b, <1>k, <1>g, <2>1, <2>2, <1>12 DEF AskWallet, CraftHasNoEffect, course
<1>13. ASSUME NEW c \in Callers, Mined(c) PROVE CraftHasNoEffect'
  BY <1>s, <1>13 DEF Mined, SendReturns, course, vars
<1>14. ASSUME NEW c \in Callers, SendFails(c) PROVE CraftHasNoEffect'
  BY <1>s, <1>14 DEF SendFails, SendRaises, Raise, course, vars
<1>15. ASSUME NEW c \in Callers, CheckStatus(c) PROVE CraftHasNoEffect'
  BY <1>s, <1>15 DEF CheckStatus, Raise, course, vars
<1>16. ASSUME NEW c \in Callers, FindWithdrawal(c) PROVE CraftHasNoEffect'
  BY <1>s, <1>16 DEF FindWithdrawal, Raise, course, vars
<1>17. ASSUME NEW c \in Callers, Ask(c) PROVE CraftHasNoEffect'
  BY <1>s, <1>17 DEF Ask, Raise, course, vars
<1>18. ASSUME NEW c \in Callers, Refuse(c) PROVE CraftHasNoEffect'
  BY <1>s, <1>18 DEF Refuse, Raise, course, vars
<1>19. ASSUME NEW c \in Callers, Post(c) PROVE CraftHasNoEffect'
  <2>1. clashed \/ ~call[c].craft \/ ~Guarded(c)
    BY <1>z, <1>19, CraftsDoNotPost DEF Post
  <2>2. ordered' \subseteq ordered \cup {c} /\ UNCHANGED <<call, ask>>
    BY <1>19 DEF Post, Raise, vars
  <2> QED
    BY <1>b, <1>k, <1>g, <2>1, <2>2 DEF CraftHasNoEffect
<1>20. ASSUME NEW c \in Callers, NameAccount(c) PROVE CraftHasNoEffect'
  BY <1>s, <1>20 DEF NameAccount, Call, course
<1>21. ASSUME NEW c \in Callers, AskToSign(c) PROVE CraftHasNoEffect'
  BY <1>s, <1>21 DEF AskToSign, Call, course
<1>22. ASSUME NEW c \in Callers, WalletAnswers(c) PROVE CraftHasNoEffect'
  BY <1>s, <1>22 DEF WalletAnswers, Raise, course, vars
<1>23. ASSUME NEW c \in Callers, BeginLookUp(c) PROVE CraftHasNoEffect'
  BY <1>s, <1>23 DEF BeginLookUp, course, vars
<1>24. ASSUME NEW c \in Callers, EndLookUp(c) PROVE CraftHasNoEffect'
  BY <1>s, <1>24 DEF EndLookUp, Raise, course, vars
<1>25. ASSUME NEW c \in Callers, PoolStep(c) PROVE CraftHasNoEffect'
  BY <1>s, <1>25 DEF PoolStep, Raise, course, vars
<1>26. ASSUME Wallet, UNCHANGED <<client, resolution>> PROVE CraftHasNoEffect'
  <2>1. UNCHANGED <<call, ordered>>
    BY <1>26 DEF client, course
  <2>2. ASSUME NEW d \in Callers PROVE ask'[d].op = "send" => ask[d].op = "send"
    <3>1. ASSUME NEW e \in Callers, Connect(e) PROVE ask'[d].op = "send" => ask[d].op = "send"
      BY <1>t, <3>1 DEF Connect, Park
    <3>2. ASSUME NEW e \in Callers, UseAddress(e) PROVE ask'[d].op = "send" => ask[d].op = "send"
      BY <1>t, <3>2 DEF UseAddress, Park
    <3>3. CASE UNCHANGED ask
      BY <3>3
    <3> QED
      BY <1>26, <3>1, <3>2, <3>3 DEF Wallet, Signer, Tab, HandOver, DeliverReturns,
             DeliverRaises, Wake, TimeOut,
           ReadResult, Leave, StoreAddress, OpenUrl, WalletSays, Resolve
  <2> QED
    BY <1>b, <1>k, <1>g, <2>1, <2>2 DEF CraftHasNoEffect
<1>27. ASSUME LookUps, UNCHANGED <<client, vars>> PROVE CraftHasNoEffect'
  BY <1>s, <1>27 DEF client, course, vars
<1>28. ASSUME Halt PROVE CraftHasNoEffect'
  BY <1>s, <1>28 DEF Halt, course, vars
<1>29. ASSUME Resume PROVE CraftHasNoEffect'
  BY <1>s, <1>29 DEF Resume, course, vars
<1>30. ASSUME UNCHANGED everything PROVE CraftHasNoEffect'
  BY <1>s, <1>30 DEF everything, client, course, vars
<1>31. ASSUME NEW c \in Callers, TestCraft(c) PROVE CraftHasNoEffect'
  BY <1>s, <1>31 DEF TestCraft, course, vars
<1>32. ASSUME NEW c \in Callers, Divert(c) PROVE CraftHasNoEffect'
  BY <1>s, <1>32 DEF Divert, course, vars
<1> QED
  BY <1>1, <1>2, <1>3, <1>4, <1>5, <1>6, <1>7, <1>8, <1>9, <1>10, <1>11, <1>12, <1>13,
     <1>14, <1>15, <1>16, <1>17, <1>18, <1>19, <1>20, <1>21, <1>22, <1>23, <1>24, <1>25,
     <1>26, <1>27, <1>28, <1>29, <1>30, <1>31, <1>32 DEF ClientNext, Client, Over

(* Until two craft() have been entered at once, no call inside craft() asks *)
(* the wallet to send, and none whose action refuses to be crafted before it *)
(* acts has an order placed, whatever threads that do not craft do.        *)
THEOREM CraftsHaveNoEffect == ClientSpec => []CraftHasNoEffect
<1>1. ClientInit => CraftHasNoEffect
  BY DEF ClientInit, Init, CraftHasNoEffect
<1> QED
  BY <1>1, CraftEffectPreserved, ClientInvariant, PTL DEF ClientSpec
=============================================================================
