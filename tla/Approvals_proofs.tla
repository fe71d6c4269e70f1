--------------------------- MODULE Approvals_proofs ---------------------------
(***************************************************************************)
(* Proofs about Approvals: for any number of requests, sessions and ids,   *)
(* shared ids included, an answer travels over exactly one channel and is  *)
(* not lost, and the inbox implements ApprovalAnswer.                      *)
(***************************************************************************)
EXTENDS Approvals, TLAPS

(***************************************************************************)
(* The inductive invariant, in named parts.                                *)
(***************************************************************************)

\* A request in the inbox has been raised, and nobody has taken it out.
InboxInv ==
    \A i \in Ids : \A r \in Requests :
        pending[i] = r => /\ IdOf[r] = i
                          /\ remover[r] = "none"
                          /\ asker[r] \notin {"idle", "raised", "armed"}

\* The remover's counter says what it has done so far.
RemoverInv ==
    \A r \in Requests :
        /\ asker[r] \in {"idle", "raised", "armed"} => remover[r] = "none"
        /\ (decision[r] # None) <=>
             (remover[r] \in {"d.notify", "d.hook", "d.keys", "d.state", "d.done"})
        /\ withdrawn[r] => remover[r] \in {"w.notify", "w.record", "w.done"}
        /\ "resolved by inbox" \in log[r] => remover[r] \in {"d.keys", "d.state", "d.done"}
        /\ "resolved by agent" \in log[r] => remover[r] = "w.done"

\* The blocked thread closes the hook while the decision is still open, and
\* replies exactly when it is done.
AskerInv ==
    \A r \in Requests :
        /\ asker[r] \in {"closing", "closed"} => decision[r] = None
        /\ ~hookOpen[r] => asker[r] \in {"closed", "done"}
        /\ asker[r] = "closed" => ~hookOpen[r]
        /\ asker[r] = "done" <=> reply[r] # None
        /\ reply[r] \in Decisions => reply[r] = decision[r]
        /\ reply[r] = "pass" <=> asker[r] = "done" /\ ~hookOpen[r]
        /\ reply[r] = "nothing" => withdrawn[r]

\* Keystrokes go to a session whose agent shows its prompt.
KeysInv ==
    \A r \in Requests :
        /\ remover[r] = "d.keys" => ~hookOpen[r]
        /\ keys[r] # None => /\ keys[r] = decision[r]
                             /\ remover[r] \in {"d.state", "d.done"}
                             /\ ~hookOpen[r]
        /\ (remover[r] \in {"d.state", "d.done"} /\ ~hookOpen[r] /\ Found(SessionOf[r]))
             => keys[r] # None

ApprovalsInv == TypeOK /\ InboxInv /\ RemoverInv /\ AskerInv /\ KeysInv

\* The invariant holds before the first request.
LEMMA ApprovalsInvInit == Init => ApprovalsInv
BY RequestAssumption, NoneAssumption
   DEF Init, ApprovalsInv, TypeOK, InboxInv, RemoverInv, AskerInv, KeysInv, AskerAt,
       RemoverAt, Decisions

\* Every step keeps the types (all the actions of agents.rs in turn).
LEMMA TypeOKNext == ASSUME ApprovalsInv, [Next]_vars PROVE TypeOK'
<1>1. TypeOK /\ RemoverInv
    BY DEF ApprovalsInv
<1> USE RequestAssumption, NoneAssumption DEF TypeOK, Decisions, AskerAt, RemoverAt
<1>2. ASSUME NEW r \in Requests, Raise(r) PROVE TypeOK'
    BY <1>1, <1>2 DEF Raise, reqVars, sesVars, Asking
<1>3. ASSUME NEW r \in Requests, Arm(r) PROVE TypeOK'
  <2>1. armed' \subseteq Ids
    <3>1. armed \subseteq Ids /\ armed' = armed \cup {IdOf[r]}
      BY <1>1, <1>3 DEF Arm
    <3>2. IdOf[r] \in Ids
      BY RequestAssumption
    <3> QED
      BY <3>1, <3>2, Zenon
  <2>2. asker' \in [Requests -> AskerAt]
    BY <1>1, <1>3 DEF Arm, Asking
  <2> QED
    BY <1>1, <1>3, <2>1, <2>2 DEF Arm, reqVars, sesVars
<1>4. ASSUME NEW r \in Requests, Insert(r) PROVE TypeOK'
    BY <1>1, <1>4 DEF Insert, reqVars, sesVars, Asking
<1>5. ASSUME NEW r \in Requests, ShowAwaiting(r) PROVE TypeOK'
    BY <1>1, <1>5 DEF ShowAwaiting, reqVars, sesVars, Asking
<1>6. ASSUME NEW r \in Requests, RecordNeeded(r) PROVE TypeOK'
    BY <1>1, <1>6 DEF RecordNeeded, reqVars, sesVars, Asking
<1>7. ASSUME NEW r \in Requests, TakeDecision(r) PROVE TypeOK'
    BY <1>1, <1>7 DEF TakeDecision, reqVars, sesVars, Asking
<1>8. ASSUME NEW r \in Requests, TakeWithdrawal(r) PROVE TypeOK'
    BY <1>1, <1>8 DEF TakeWithdrawal, reqVars, sesVars, Asking
<1>9. ASSUME NEW r \in Requests, KeepWaiting(r) PROVE TypeOK'
    BY <1>1, <1>9 DEF KeepWaiting, reqVars, sesVars, Asking
<1>10. ASSUME NEW r \in Requests, Sleep(r) PROVE TypeOK'
    BY <1>1, <1>10 DEF Sleep, reqVars, sesVars, Asking
<1>11. ASSUME NEW r \in Requests, GiveUp(r) PROVE TypeOK'
    BY <1>1, <1>11 DEF GiveUp, reqVars, sesVars, Asking
<1>12. ASSUME NEW r \in Requests, CloseHook(r) PROVE TypeOK'
    BY <1>1, <1>12 DEF CloseHook, reqVars, sesVars, Asking
<1>13. ASSUME NEW r \in Requests, Pass(r) PROVE TypeOK'
    BY <1>1, <1>13 DEF Pass, reqVars, sesVars, Asking
<1>14. ASSUME NEW r \in Requests, SpuriousWake(r) PROVE TypeOK'
    BY <1>1, <1>14 DEF SpuriousWake, reqVars, sesVars, Asking
<1>15. ASSUME NEW r \in Requests, Expire(r) PROVE TypeOK'
    BY <1>1, <1>15 DEF Expire, reqVars, sesVars, Asking, NotifyAll
<1>16. ASSUME NEW r \in Requests, Decide(r) PROVE TypeOK'
    BY <1>1, <1>16 DEF Decide, reqVars, sesVars
<1>17. ASSUME NEW r \in Requests, DecideDisarm(r) PROVE TypeOK'
    BY <1>1, <1>17 DEF DecideDisarm, reqVars, sesVars, Removing
<1>18. ASSUME NEW r \in Requests, DecideNotify(r) PROVE TypeOK'
    BY <1>1, <1>18 DEF DecideNotify, reqVars, sesVars, Asking, Removing, NotifyAll
<1>19. ASSUME NEW r \in Requests, DecideHook(r) PROVE TypeOK'
    BY <1>1, <1>19 DEF DecideHook, reqVars, sesVars, Removing
<1>20. ASSUME NEW r \in Requests, DecideKeys(r) PROVE TypeOK'
    BY <1>1, <1>20 DEF DecideKeys, reqVars, sesVars, Removing
<1>21. ASSUME NEW r \in Requests, DecideState(r) PROVE TypeOK'
    BY <1>1, <1>21 DEF DecideState, reqVars, sesVars, Removing
<1>22. ASSUME NEW r \in Requests, Withdraw(r) PROVE TypeOK'
    BY <1>1, <1>22 DEF Withdraw, reqVars, sesVars
<1>23. ASSUME NEW r \in Requests, WithdrawDisarm(r) PROVE TypeOK'
    BY <1>1, <1>23 DEF WithdrawDisarm, reqVars, sesVars, Removing
<1>24. ASSUME NEW r \in Requests, WithdrawFlag(r) PROVE TypeOK'
    BY <1>1, <1>24 DEF WithdrawFlag, reqVars, sesVars, Removing
<1>25. ASSUME NEW r \in Requests, WithdrawNotify(r) PROVE TypeOK'
    BY <1>1, <1>25 DEF WithdrawNotify, reqVars, sesVars, Asking, Removing, NotifyAll
<1>26. ASSUME NEW r \in Requests, WithdrawRecord(r) PROVE TypeOK'
    BY <1>1, <1>26 DEF WithdrawRecord, reqVars, sesVars, Removing
<1>27. ASSUME NEW r \in Requests, NEW d \in Decisions, DecideSet(r, d) PROVE TypeOK'
    BY <1>1, <1>27 DEF DecideSet, Removing, sesVars
<1>28. ASSUME NEW s \in Sessions, DropToken(s) PROVE TypeOK'
    BY <1>1, <1>28 DEF DropToken, reqVars, sesVars
<1>29. ASSUME NEW s \in Sessions, DropPending(s) PROVE TypeOK'
    BY <1>1, <1>29 DEF DropPending, reqVars, sesVars
<1>30. ASSUME NEW s \in Sessions, DropHandle(s) PROVE TypeOK'
    BY <1>1, <1>30 DEF DropHandle, reqVars, sesVars
<1>31. CASE UNCHANGED vars
    BY <1>1, <1>31 DEF vars, reqVars, sesVars
<1> QED
    BY <1>2, <1>3, <1>4, <1>5, <1>6, <1>7, <1>8, <1>9, <1>10, <1>11, <1>12,
        <1>13, <1>14, <1>15, <1>16, <1>17, <1>18, <1>19, <1>20, <1>21, <1>22,
        <1>23, <1>24, <1>25, <1>26, <1>27, <1>28, <1>29, <1>30, <1>31
    DEF Next, Asks, Blocks, SetsDecision, Decides, Withdraws, Ends

\* What is listed is untaken: Decide, Withdraw, DropPending and Insert are the
\* steps that touch the map, and each clears or overwrites the entry it takes.
LEMMA InboxInvNext == ASSUME ApprovalsInv, [Next]_vars PROVE InboxInv'
<1>1. pending \in [Ids -> Requests \cup {None}]
    BY DEF ApprovalsInv, TypeOK
<1>2. asker \in [Requests -> AskerAt]
    BY DEF ApprovalsInv, TypeOK
<1>3. remover \in [Requests -> RemoverAt]
    BY DEF ApprovalsInv, TypeOK
<1>4. InboxInv
    BY DEF ApprovalsInv
<1>5. RemoverInv
    BY DEF ApprovalsInv
<1>6. AskerInv
    BY DEF ApprovalsInv
<1>7. KeysInv
    BY DEF ApprovalsInv
<1>8. ASSUME NEW r \in Requests, Raise(r) PROVE InboxInv'
    BY <1>8, <1>4, <1>1, <1>2, <1>3
    DEF InboxInv, Raise, Asking, reqVars, sesVars
<1>9. ASSUME NEW r \in Requests, Arm(r) PROVE InboxInv'
    BY <1>9, <1>4, <1>1, <1>2, <1>3
    DEF InboxInv, Arm, Asking, reqVars, sesVars
<1>10. ASSUME NEW r \in Requests, Insert(r) PROVE InboxInv'
  <2>1. asker[r] = "armed" /\ remover[r] = "none"
    BY <1>10, <1>5 DEF Insert, Asking, RemoverInv
  <2>2. pending[IdOf[r]] # r
    BY <2>1, <1>4, RequestAssumption DEF InboxInv
  <2> QED
    BY <1>10, <2>1, <2>2, <1>4, NoneAssumption, RequestAssumption, <1>1, <1>2, <1>3
    DEF InboxInv, Insert, Asking
<1>11. ASSUME NEW r \in Requests, ShowAwaiting(r) PROVE InboxInv'
    BY <1>11, <1>4, <1>1, <1>2, <1>3
    DEF InboxInv, ShowAwaiting, Asking, reqVars
<1>12. ASSUME NEW r \in Requests, RecordNeeded(r) PROVE InboxInv'
    BY <1>12, <1>4, <1>1, <1>2, <1>3
    DEF InboxInv, RecordNeeded, Asking, sesVars
<1>13. ASSUME NEW r \in Requests, TakeDecision(r) PROVE InboxInv'
    BY <1>13, <1>4, <1>1, <1>2, <1>3
    DEF InboxInv, TakeDecision, Asking, Testing, Decisions, sesVars
<1>14. ASSUME NEW r \in Requests, TakeWithdrawal(r) PROVE InboxInv'
    BY <1>14, <1>4, <1>1, <1>2, <1>3
    DEF InboxInv, TakeWithdrawal, Asking, Testing, Decisions, sesVars
<1>15. ASSUME NEW r \in Requests, KeepWaiting(r) PROVE InboxInv'
    BY <1>15, <1>4, <1>1, <1>2, <1>3
    DEF InboxInv, KeepWaiting, Asking, Testing, reqVars, sesVars
<1>16. ASSUME NEW r \in Requests, Sleep(r) PROVE InboxInv'
    BY <1>16, <1>4, <1>1, <1>2, <1>3
    DEF InboxInv, Sleep, Asking, reqVars, sesVars
<1>17. ASSUME NEW r \in Requests, GiveUp(r) PROVE InboxInv'
    BY <1>17, <1>4, <1>1, <1>2, <1>3
    DEF InboxInv, GiveUp, Asking, Testing, reqVars, sesVars
<1>18. ASSUME NEW r \in Requests, CloseHook(r) PROVE InboxInv'
    BY <1>18, <1>4, <1>1, <1>2, <1>3
    DEF InboxInv, CloseHook, Asking, sesVars
<1>19. ASSUME NEW r \in Requests, Pass(r) PROVE InboxInv'
    BY <1>19, <1>4, <1>1, <1>2, <1>3
    DEF InboxInv, Pass, Asking, sesVars
<1>20. ASSUME NEW r \in Requests, SpuriousWake(r) PROVE InboxInv'
    BY <1>20, <1>4, <1>1, <1>2, <1>3
    DEF InboxInv, SpuriousWake, Asking, reqVars, sesVars
<1>21. ASSUME NEW r \in Requests, Expire(r) PROVE InboxInv'
    BY <1>21, <1>4, <1>1, <1>2, <1>3
    DEF InboxInv, Expire, Asking, NotifyAll, sesVars
<1>22. ASSUME NEW r \in Requests, Decide(r) PROVE InboxInv'
    BY <1>22, <1>4, NoneAssumption, RequestAssumption, <1>1, <1>2, <1>3
    DEF InboxInv, Decide, InInbox, Decisions, reqVars, sesVars
<1>23. ASSUME NEW r \in Requests, DecideDisarm(r) PROVE InboxInv'
    BY <1>23, <1>4, <1>1, <1>2, <1>3
    DEF InboxInv, DecideDisarm, Removing, reqVars, sesVars
<1>24. ASSUME NEW r \in Requests, DecideNotify(r) PROVE InboxInv'
    BY <1>24, <1>4, <1>1, <1>2, <1>3
    DEF InboxInv, DecideNotify, Asking, Removing, NotifyAll, reqVars, sesVars
<1>25. ASSUME NEW r \in Requests, DecideHook(r) PROVE InboxInv'
    BY <1>25, <1>4, <1>1, <1>2, <1>3
    DEF InboxInv, DecideHook, Removing, sesVars
<1>26. ASSUME NEW r \in Requests, DecideKeys(r) PROVE InboxInv'
    BY <1>26, <1>4, <1>1, <1>2, <1>3
    DEF InboxInv, DecideKeys, Removing, sesVars
<1>27. ASSUME NEW r \in Requests, DecideState(r) PROVE InboxInv'
    BY <1>27, <1>4, <1>1, <1>2, <1>3
    DEF InboxInv, DecideState, Removing, reqVars
<1>28. ASSUME NEW r \in Requests, Withdraw(r) PROVE InboxInv'
    BY <1>28, <1>4, NoneAssumption, RequestAssumption, <1>1, <1>2, <1>3
    DEF InboxInv, Withdraw, InInbox, Decisions, reqVars, sesVars
<1>29. ASSUME NEW r \in Requests, WithdrawDisarm(r) PROVE InboxInv'
    BY <1>29, <1>4, <1>1, <1>2, <1>3
    DEF InboxInv, WithdrawDisarm, Removing, reqVars, sesVars
<1>30. ASSUME NEW r \in Requests, WithdrawFlag(r) PROVE InboxInv'
    BY <1>30, <1>4, <1>1, <1>2, <1>3
    DEF InboxInv, WithdrawFlag, Removing, sesVars
<1>31. ASSUME NEW r \in Requests, WithdrawNotify(r) PROVE InboxInv'
    BY <1>31, <1>4, <1>1, <1>2, <1>3
    DEF InboxInv, WithdrawNotify, Asking, Removing, NotifyAll, reqVars, sesVars
<1>32. ASSUME NEW r \in Requests, WithdrawRecord(r) PROVE InboxInv'
    BY <1>32, <1>4, <1>1, <1>2, <1>3
    DEF InboxInv, WithdrawRecord, Removing, sesVars
<1>33. ASSUME NEW r \in Requests, NEW d \in Decisions, DecideSet(r, d) PROVE InboxInv'
    BY <1>33, <1>4, <1>1, <1>2, <1>3
    DEF InboxInv, DecideSet, Removing, HoldsDecision, Decisions, sesVars, Found
<1>34. ASSUME NEW s \in Sessions, DropToken(s) PROVE InboxInv'
    BY <1>34, <1>4, <1>1, <1>2, <1>3
    DEF InboxInv, DropToken, reqVars, InInbox, Found
<1>35. ASSUME NEW s \in Sessions, DropPending(s) PROVE InboxInv'
    BY <1>35, <1>4, NoneAssumption, RequestAssumption, <1>1, <1>2, <1>3
    DEF InboxInv, DropPending, reqVars, InInbox, Found
<1>36. ASSUME NEW s \in Sessions, DropHandle(s) PROVE InboxInv'
    BY <1>36, <1>4, <1>1, <1>2, <1>3
    DEF InboxInv, DropHandle, reqVars, InInbox, Found
<1>37. CASE UNCHANGED vars
    BY <1>37, <1>4 DEF vars, reqVars, sesVars, InboxInv, Found
<1> QED
    BY <1>8, <1>9, <1>10, <1>11, <1>12, <1>13, <1>14, <1>15, <1>16, <1>17,
        <1>18, <1>19, <1>20, <1>21, <1>22, <1>23, <1>24, <1>25, <1>26, <1>27,
        <1>28, <1>29, <1>30, <1>31, <1>32, <1>33, <1>34, <1>35, <1>36, <1>37
    DEF Next, Asks, Blocks, SetsDecision, Decides, Withdraws, Ends

\* A request is taken out of the map by one thread, so decision, withdrawn
\* and log follow the counter of that one thread.
LEMMA RemoverInvNext == ASSUME ApprovalsInv, [Next]_vars PROVE RemoverInv'
<1>1. pending \in [Ids -> Requests \cup {None}]
    BY DEF ApprovalsInv, TypeOK
<1>2. asker \in [Requests -> AskerAt]
    BY DEF ApprovalsInv, TypeOK
<1>3. remover \in [Requests -> RemoverAt]
    BY DEF ApprovalsInv, TypeOK
<1>4. decision \in [Requests -> Decisions \cup {None}]
    BY DEF ApprovalsInv, TypeOK
<1>5. withdrawn \in [Requests -> BOOLEAN]
    BY DEF ApprovalsInv, TypeOK
<1>6. log \in [Requests -> SUBSET {"needed", "resolved by inbox", "resolved by agent"}]
    BY DEF ApprovalsInv, TypeOK
<1>7. InboxInv
    BY DEF ApprovalsInv
<1>8. RemoverInv
    BY DEF ApprovalsInv
<1>9. AskerInv
    BY DEF ApprovalsInv
<1>10. KeysInv
    BY DEF ApprovalsInv
<1>11. ASSUME NEW r \in Requests, Raise(r) PROVE RemoverInv'
    BY <1>11, <1>8, <1>2, <1>3, <1>4, <1>5, <1>6
    DEF RemoverInv, Raise, Asking, reqVars, sesVars
<1>12. ASSUME NEW r \in Requests, Arm(r) PROVE RemoverInv'
    BY <1>12, <1>8, <1>2, <1>3, <1>4, <1>5, <1>6
    DEF RemoverInv, Arm, Asking, reqVars, sesVars
<1>13. ASSUME NEW r \in Requests, Insert(r) PROVE RemoverInv'
  <2>1. \A x \in Requests : \/ remover'[x] = remover[x]
                           \/ /\ remover[x] = "none"
                              /\ asker[x] \notin {"idle", "raised", "armed"}
                              /\ remover'[x] = "replaced"
    BY <1>13, <1>7, NoneAssumption, RequestAssumption, <1>1, <1>2, <1>3
    DEF InboxInv, Insert, InInbox, Asking
  <2>2. UNCHANGED <<decision, withdrawn, log>>
    BY <1>13 DEF Insert, reqVars
  <2>3. \A x \in Requests : asker'[x] \in {"idle", "raised", "armed"} => asker[x] \in {"idle", "raised", "armed"}
    BY <1>13, <1>2 DEF Insert, Asking
  <2> QED
    BY <2>1, <2>2, <2>3, <1>8, <1>2, <1>3, <1>4, <1>5, <1>6 DEF RemoverInv
<1>14. ASSUME NEW r \in Requests, ShowAwaiting(r) PROVE RemoverInv'
    BY <1>14, <1>8, <1>2, <1>3, <1>4, <1>5, <1>6
    DEF RemoverInv, ShowAwaiting, Asking, reqVars
<1>15. ASSUME NEW r \in Requests, RecordNeeded(r) PROVE RemoverInv'
    BY <1>15, <1>8, <1>2, <1>3, <1>4, <1>5, <1>6
    DEF RemoverInv, RecordNeeded, Asking, sesVars
<1>16. ASSUME NEW r \in Requests, TakeDecision(r) PROVE RemoverInv'
    BY <1>16, <1>8, <1>2, <1>3, <1>4, <1>5, <1>6
    DEF RemoverInv, TakeDecision, Asking, Testing, Decisions, sesVars
<1>17. ASSUME NEW r \in Requests, TakeWithdrawal(r) PROVE RemoverInv'
    BY <1>17, <1>8, <1>2, <1>3, <1>4, <1>5, <1>6
    DEF RemoverInv, TakeWithdrawal, Asking, Testing, Decisions, sesVars
<1>18. ASSUME NEW r \in Requests, KeepWaiting(r) PROVE RemoverInv'
    BY <1>18, <1>8, <1>2, <1>3, <1>4, <1>5, <1>6
    DEF RemoverInv, KeepWaiting, Asking, Testing, reqVars, sesVars
<1>19. ASSUME NEW r \in Requests, Sleep(r) PROVE RemoverInv'
    BY <1>19, <1>8, <1>2, <1>3, <1>4, <1>5, <1>6
    DEF RemoverInv, Sleep, Asking, reqVars, sesVars
<1>20. ASSUME NEW r \in Requests, GiveUp(r) PROVE RemoverInv'
    BY <1>20, <1>8, <1>2, <1>3, <1>4, <1>5, <1>6
    DEF RemoverInv, GiveUp, Asking, Testing, reqVars, sesVars
<1>21. ASSUME NEW r \in Requests, CloseHook(r) PROVE RemoverInv'
    BY <1>21, <1>8, <1>2, <1>3, <1>4, <1>5, <1>6
    DEF RemoverInv, CloseHook, Asking, sesVars
<1>22. ASSUME NEW r \in Requests, Pass(r) PROVE RemoverInv'
    BY <1>22, <1>8, <1>2, <1>3, <1>4, <1>5, <1>6
    DEF RemoverInv, Pass, Asking, sesVars
<1>23. ASSUME NEW r \in Requests, SpuriousWake(r) PROVE RemoverInv'
    BY <1>23, <1>8, <1>2, <1>3, <1>4, <1>5, <1>6
    DEF RemoverInv, SpuriousWake, Asking, reqVars, sesVars
<1>24. ASSUME NEW r \in Requests, Expire(r) PROVE RemoverInv'
    BY <1>24, <1>8, <1>2, <1>3, <1>4, <1>5, <1>6
    DEF RemoverInv, Expire, Asking, NotifyAll, sesVars
<1>25. ASSUME NEW r \in Requests, Decide(r) PROVE RemoverInv'
  <2>1. \A x \in Requests : \/ remover'[x] = remover[x]
                           \/ /\ remover[x] = "none"
                              /\ asker[x] \notin {"idle", "raised", "armed"}
                              /\ remover'[x] = "d.disarm"
    BY <1>25, <1>7, NoneAssumption, RequestAssumption, <1>1, <1>2, <1>3
    DEF InboxInv, Decide, InInbox
  <2>2. UNCHANGED <<decision, withdrawn, log>>
    BY <1>25 DEF Decide, reqVars
  <2>3. \A x \in Requests : asker'[x] \in {"idle", "raised", "armed"} => asker[x] \in {"idle", "raised", "armed"}
    BY <1>25, <1>2 DEF Decide, Asking
  <2> QED
    BY <2>1, <2>2, <2>3, <1>8, <1>2, <1>3, <1>4, <1>5, <1>6 DEF RemoverInv
<1>26. ASSUME NEW r \in Requests, DecideDisarm(r) PROVE RemoverInv'
    BY <1>26, <1>8, <1>2, <1>3, <1>4, <1>5, <1>6
    DEF RemoverInv, DecideDisarm, Removing, reqVars, sesVars
<1>27. ASSUME NEW r \in Requests, DecideNotify(r) PROVE RemoverInv'
    BY <1>27, <1>8, <1>2, <1>3, <1>4, <1>5, <1>6
    DEF RemoverInv, DecideNotify, Asking, Removing, NotifyAll, reqVars, sesVars
<1>28. ASSUME NEW r \in Requests, DecideHook(r) PROVE RemoverInv'
    BY <1>28, <1>8, <1>2, <1>3, <1>4, <1>5, <1>6
    DEF RemoverInv, DecideHook, Removing, sesVars
<1>29. ASSUME NEW r \in Requests, DecideKeys(r) PROVE RemoverInv'
    BY <1>29, <1>8, <1>2, <1>3, <1>4, <1>5, <1>6
    DEF RemoverInv, DecideKeys, Removing, sesVars
<1>30. ASSUME NEW r \in Requests, DecideState(r) PROVE RemoverInv'
    BY <1>30, <1>8, <1>2, <1>3, <1>4, <1>5, <1>6
    DEF RemoverInv, DecideState, Removing, reqVars
<1>31. ASSUME NEW r \in Requests, Withdraw(r) PROVE RemoverInv'
  <2>1. \A x \in Requests : \/ remover'[x] = remover[x]
                           \/ /\ remover[x] = "none"
                              /\ asker[x] \notin {"idle", "raised", "armed"}
                              /\ remover'[x] = "w.disarm"
    BY <1>31, <1>7, NoneAssumption, RequestAssumption, <1>1, <1>2, <1>3
    DEF InboxInv, Withdraw, InInbox
  <2>2. UNCHANGED <<decision, withdrawn, log>>
    BY <1>31 DEF Withdraw, reqVars
  <2>3. \A x \in Requests : asker'[x] \in {"idle", "raised", "armed"} => asker[x] \in {"idle", "raised", "armed"}
    BY <1>31, <1>2 DEF Withdraw, Asking
  <2> QED
    BY <2>1, <2>2, <2>3, <1>8, <1>2, <1>3, <1>4, <1>5, <1>6 DEF RemoverInv
<1>32. ASSUME NEW r \in Requests, WithdrawDisarm(r) PROVE RemoverInv'
    BY <1>32, <1>8, <1>2, <1>3, <1>4, <1>5, <1>6
    DEF RemoverInv, WithdrawDisarm, Removing, reqVars, sesVars
<1>33. ASSUME NEW r \in Requests, WithdrawFlag(r) PROVE RemoverInv'
    BY <1>33, <1>8, <1>2, <1>3, <1>4, <1>5, <1>6
    DEF RemoverInv, WithdrawFlag, Removing, sesVars
<1>34. ASSUME NEW r \in Requests, WithdrawNotify(r) PROVE RemoverInv'
    BY <1>34, <1>8, <1>2, <1>3, <1>4, <1>5, <1>6
    DEF RemoverInv, WithdrawNotify, Asking, Removing, NotifyAll, reqVars, sesVars
<1>35. ASSUME NEW r \in Requests, WithdrawRecord(r) PROVE RemoverInv'
    BY <1>35, <1>8, <1>2, <1>3, <1>4, <1>5, <1>6
    DEF RemoverInv, WithdrawRecord, Removing, sesVars
<1>36. ASSUME NEW r \in Requests, NEW d \in Decisions, DecideSet(r, d) PROVE RemoverInv'
    BY <1>36, <1>8, NoneAssumption, <1>2, <1>3, <1>4, <1>5, <1>6
    DEF RemoverInv, DecideSet, Removing, HoldsDecision, Decisions, sesVars, Found
<1>37. ASSUME NEW s \in Sessions, DropToken(s) PROVE RemoverInv'
    BY <1>37, <1>8, <1>2, <1>3, <1>4, <1>5, <1>6
    DEF RemoverInv, DropToken, reqVars, InInbox, Found
<1>38. ASSUME NEW s \in Sessions, DropPending(s) PROVE RemoverInv'
  <2>1. \A x \in Requests : \/ remover'[x] = remover[x]
                           \/ /\ remover[x] = "none"
                              /\ asker[x] \notin {"idle", "raised", "armed"}
                              /\ remover'[x] = "dropped"
    BY <1>38, <1>7, NoneAssumption, RequestAssumption, <1>1, <1>2, <1>3
    DEF InboxInv, DropPending, InInbox
  <2>2. UNCHANGED <<decision, withdrawn, log>>
    BY <1>38 DEF DropPending, reqVars
  <2>3. \A x \in Requests : asker'[x] \in {"idle", "raised", "armed"} => asker[x] \in {"idle", "raised", "armed"}
    BY <1>38, <1>2 DEF DropPending, Asking
  <2> QED
    BY <2>1, <2>2, <2>3, <1>8, <1>2, <1>3, <1>4, <1>5, <1>6 DEF RemoverInv
<1>39. ASSUME NEW s \in Sessions, DropHandle(s) PROVE RemoverInv'
    BY <1>39, <1>8, <1>2, <1>3, <1>4, <1>5, <1>6
    DEF RemoverInv, DropHandle, reqVars, InInbox, Found
<1>40. CASE UNCHANGED vars
    BY <1>40, <1>8 DEF vars, reqVars, sesVars, RemoverInv, Found
<1> QED
    BY <1>11, <1>12, <1>13, <1>14, <1>15, <1>16, <1>17, <1>18, <1>19, <1>20,
        <1>21, <1>22, <1>23, <1>24, <1>25, <1>26, <1>27, <1>28, <1>29, <1>30,
        <1>31, <1>32, <1>33, <1>34, <1>35, <1>36, <1>37, <1>38, <1>39, <1>40
    DEF Next, Asks, Blocks, SetsDecision, Decides, Withdraws, Ends

\* The decision mutex orders the hook closing against the decision being set.
LEMMA AskerInvNext == ASSUME ApprovalsInv, [Next]_vars PROVE AskerInv'
<1>1. asker \in [Requests -> AskerAt]
    BY DEF ApprovalsInv, TypeOK
<1>2. remover \in [Requests -> RemoverAt]
    BY DEF ApprovalsInv, TypeOK
<1>3. decision \in [Requests -> Decisions \cup {None}]
    BY DEF ApprovalsInv, TypeOK
<1>4. hookOpen \in [Requests -> BOOLEAN]
    BY DEF ApprovalsInv, TypeOK
<1>5. withdrawn \in [Requests -> BOOLEAN]
    BY DEF ApprovalsInv, TypeOK
<1>6. reply \in [Requests -> Decisions \cup {"pass", "nothing", None}]
    BY DEF ApprovalsInv, TypeOK
<1>7. log \in [Requests -> SUBSET {"needed", "resolved by inbox", "resolved by agent"}]
    BY DEF ApprovalsInv, TypeOK
<1>8. InboxInv
    BY DEF ApprovalsInv
<1>9. RemoverInv
    BY DEF ApprovalsInv
<1>10. AskerInv
    BY DEF ApprovalsInv
<1>11. KeysInv
    BY DEF ApprovalsInv
<1>12. ASSUME NEW r \in Requests, Raise(r) PROVE AskerInv'
    BY <1>12, <1>10, <1>1, <1>3, <1>4, <1>5, <1>6
    DEF AskerInv, Raise, Asking, reqVars, sesVars
<1>13. ASSUME NEW r \in Requests, Arm(r) PROVE AskerInv'
    BY <1>13, <1>10, <1>1, <1>3, <1>4, <1>5, <1>6
    DEF AskerInv, Arm, Asking, reqVars, sesVars
<1>14. ASSUME NEW r \in Requests, Insert(r) PROVE AskerInv'
    BY <1>14, <1>10, <1>1, <1>3, <1>4, <1>5, <1>6
    DEF AskerInv, Insert, Asking, reqVars, sesVars
<1>15. ASSUME NEW r \in Requests, ShowAwaiting(r) PROVE AskerInv'
    BY <1>15, <1>10, <1>1, <1>3, <1>4, <1>5, <1>6
    DEF AskerInv, ShowAwaiting, Asking, reqVars
<1>16. ASSUME NEW r \in Requests, RecordNeeded(r) PROVE AskerInv'
    BY <1>16, <1>10, <1>1, <1>3, <1>4, <1>5, <1>6
    DEF AskerInv, RecordNeeded, Asking, sesVars
<1>17. ASSUME NEW r \in Requests, TakeDecision(r) PROVE AskerInv'
    BY <1>17, <1>10, NoneAssumption, <1>1, <1>3, <1>4, <1>5, <1>6
    DEF AskerInv, TakeDecision, Asking, Testing, Decisions, sesVars
<1>18. ASSUME NEW r \in Requests, TakeWithdrawal(r) PROVE AskerInv'
    BY <1>18, <1>10, NoneAssumption, <1>1, <1>3, <1>4, <1>5, <1>6
    DEF AskerInv, TakeWithdrawal, Asking, Testing, Decisions, sesVars
<1>19. ASSUME NEW r \in Requests, KeepWaiting(r) PROVE AskerInv'
    BY <1>19, <1>10, <1>1, <1>3, <1>4, <1>5, <1>6
    DEF AskerInv, KeepWaiting, Asking, Testing, reqVars, sesVars
<1>20. ASSUME NEW r \in Requests, Sleep(r) PROVE AskerInv'
    BY <1>20, <1>10, <1>1, <1>3, <1>4, <1>5, <1>6
    DEF AskerInv, Sleep, Asking, reqVars, sesVars
<1>21. ASSUME NEW r \in Requests, GiveUp(r) PROVE AskerInv'
    BY <1>21, <1>10, NoneAssumption, <1>1, <1>3, <1>4, <1>5, <1>6
    DEF AskerInv, GiveUp, Asking, Testing, Decisions, reqVars, sesVars
<1>22. ASSUME NEW r \in Requests, CloseHook(r) PROVE AskerInv'
    BY <1>22, <1>10, NoneAssumption, <1>1, <1>3, <1>4, <1>5, <1>6
    DEF AskerInv, CloseHook, Asking, Decisions, sesVars
<1>23. ASSUME NEW r \in Requests, Pass(r) PROVE AskerInv'
    BY <1>23, <1>10, NoneAssumption, <1>1, <1>3, <1>4, <1>5, <1>6
    DEF AskerInv, Pass, Asking, Decisions, sesVars
<1>24. ASSUME NEW r \in Requests, SpuriousWake(r) PROVE AskerInv'
    BY <1>24, <1>10, <1>1, <1>3, <1>4, <1>5, <1>6
    DEF AskerInv, SpuriousWake, Asking, reqVars, sesVars
<1>25. ASSUME NEW r \in Requests, Expire(r) PROVE AskerInv'
    BY <1>25, <1>10, <1>1, <1>3, <1>4, <1>5, <1>6
    DEF AskerInv, Expire, Asking, NotifyAll, sesVars
<1>26. ASSUME NEW r \in Requests, DecideNotify(r) PROVE AskerInv'
    BY <1>26, <1>10, <1>1, <1>3, <1>4, <1>5, <1>6
    DEF AskerInv, DecideNotify, Asking, Removing, NotifyAll, reqVars, sesVars
<1>27. ASSUME NEW r \in Requests, WithdrawFlag(r) PROVE AskerInv'
    BY <1>27, <1>10, <1>1, <1>3, <1>4, <1>5, <1>6
    DEF AskerInv, WithdrawFlag, Removing, sesVars
<1>28. ASSUME NEW r \in Requests, WithdrawNotify(r) PROVE AskerInv'
    BY <1>28, <1>10, <1>1, <1>3, <1>4, <1>5, <1>6
    DEF AskerInv, WithdrawNotify, Asking, Removing, NotifyAll, reqVars, sesVars
<1>29. ASSUME NEW r \in Requests, NEW d \in Decisions, DecideSet(r, d) PROVE AskerInv'
    BY <1>29, <1>10, <1>9, NoneAssumption, <1>1, <1>2, <1>3, <1>4, <1>5, <1>6, <1>7
    DEF AskerInv, RemoverInv, DecideSet, Removing, HoldsDecision, Decisions,
        sesVars, Found
<1>30. ASSUME NEW s \in Sessions, DropToken(s) PROVE AskerInv'
    BY <1>30, <1>10, <1>1, <1>3, <1>4, <1>5, <1>6
    DEF AskerInv, DropToken, reqVars, InInbox, Found
<1>31. ASSUME NEW s \in Sessions, DropPending(s) PROVE AskerInv'
    BY <1>31, <1>10, <1>1, <1>3, <1>4, <1>5, <1>6
    DEF AskerInv, DropPending, reqVars, InInbox, Found
<1>32. ASSUME NEW s \in Sessions, DropHandle(s) PROVE AskerInv'
    BY <1>32, <1>10, <1>1, <1>3, <1>4, <1>5, <1>6
    DEF AskerInv, DropHandle, reqVars, InInbox, Found
<1>33. ASSUME NEW r \in Requests,
              Decide(r) \/ DecideDisarm(r) \/ DecideHook(r) \/
              DecideKeys(r) \/ DecideState(r) \/ Withdraw(r) \/
              WithdrawDisarm(r) \/ WithdrawRecord(r)
     PROVE AskerInv'
  <2>1. UNCHANGED <<asker, decision, hookOpen, withdrawn, reply>>
    BY <1>33
    DEF Decide, DecideDisarm, DecideHook, DecideKeys, DecideState,
        Withdraw, WithdrawDisarm, WithdrawRecord, reqVars, sesVars
  <2> QED
    BY <2>1, <1>10 DEF AskerInv
<1>34. CASE UNCHANGED vars
    BY <1>34, <1>10 DEF vars, reqVars, sesVars, AskerInv, Found
<1> QED
    BY <1>12, <1>13, <1>14, <1>15, <1>16, <1>17, <1>18, <1>19, <1>20, <1>21,
        <1>22, <1>23, <1>24, <1>25, <1>26, <1>27, <1>28, <1>29, <1>30, <1>31,
        <1>32, <1>33, <1>34
    DEF Next, Asks, Blocks, SetsDecision, Decides, Withdraws, Ends

\* hook_open is read after the decision was set, so it cannot change between
\* the read and the keystroke.
LEMMA KeysInvNext == ASSUME ApprovalsInv, [Next]_vars PROVE KeysInv'
<1>1. pending \in [Ids -> Requests \cup {None}]
    BY DEF ApprovalsInv, TypeOK
<1>2. asker \in [Requests -> AskerAt]
    BY DEF ApprovalsInv, TypeOK
<1>3. remover \in [Requests -> RemoverAt]
    BY DEF ApprovalsInv, TypeOK
<1>4. decision \in [Requests -> Decisions \cup {None}]
    BY DEF ApprovalsInv, TypeOK
<1>5. hookOpen \in [Requests -> BOOLEAN]
    BY DEF ApprovalsInv, TypeOK
<1>6. withdrawn \in [Requests -> BOOLEAN]
    BY DEF ApprovalsInv, TypeOK
<1>7. reply \in [Requests -> Decisions \cup {"pass", "nothing", None}]
    BY DEF ApprovalsInv, TypeOK
<1>8. keys \in [Requests -> Decisions \cup {None}]
    BY DEF ApprovalsInv, TypeOK
<1>9. log \in [Requests -> SUBSET {"needed", "resolved by inbox", "resolved by agent"}]
    BY DEF ApprovalsInv, TypeOK
<1>10. phase \in [Sessions -> {"live", "untokened", "forgotten", "gone"}]
    BY DEF ApprovalsInv, TypeOK
<1>11. InboxInv
    BY DEF ApprovalsInv
<1>12. RemoverInv
    BY DEF ApprovalsInv
<1>13. AskerInv
    BY DEF ApprovalsInv
<1>14. KeysInv
    BY DEF ApprovalsInv
<1>15. ASSUME NEW r \in Requests, Insert(r) PROVE KeysInv'
  <2>1. \A x \in Requests : \/ remover'[x] = remover[x]
                           \/ /\ remover[x] = "none"
                              /\ asker[x] \notin {"idle", "raised", "armed"}
                              /\ remover'[x] = "replaced"
    BY <1>15, <1>11, NoneAssumption, RequestAssumption, <1>1, <1>2, <1>3
    DEF InboxInv, Insert, InInbox, Asking
  <2>2. UNCHANGED <<decision, hookOpen, keys>>
    BY <1>15 DEF Insert, reqVars
  <2>3. \A t \in Sessions : Found(t)' => Found(t)
    BY <1>15, <1>10 DEF Insert, Found, sesVars
  <2> QED
    BY <2>1, <2>2, <2>3, <1>14, <1>3, <1>4, <1>5, <1>8, <1>10, RequestAssumption
    DEF KeysInv
<1>16. ASSUME NEW r \in Requests, CloseHook(r) PROVE KeysInv'
    BY <1>16, <1>14, <1>12, <1>13, <1>2, <1>3, <1>4, <1>5, <1>6, <1>7, <1>8, <1>9, <1>10
    DEF KeysInv, RemoverInv, AskerInv, CloseHook, Asking, Found, sesVars
<1>17. ASSUME NEW r \in Requests, Decide(r) PROVE KeysInv'
  <2>1. \A x \in Requests : \/ remover'[x] = remover[x]
                           \/ /\ remover[x] = "none"
                              /\ asker[x] \notin {"idle", "raised", "armed"}
                              /\ remover'[x] = "d.disarm"
    BY <1>17, <1>11, NoneAssumption, RequestAssumption, <1>1, <1>2, <1>3
    DEF InboxInv, Decide, InInbox
  <2>2. UNCHANGED <<decision, hookOpen, keys>>
    BY <1>17 DEF Decide, reqVars
  <2>3. \A t \in Sessions : Found(t)' => Found(t)
    BY <1>17, <1>10 DEF Decide, Found, sesVars
  <2> QED
    BY <2>1, <2>2, <2>3, <1>14, <1>3, <1>4, <1>5, <1>8, <1>10, RequestAssumption
    DEF KeysInv
<1>18. ASSUME NEW r \in Requests, DecideDisarm(r) PROVE KeysInv'
    BY <1>18, <1>14, <1>3, <1>4, <1>5, <1>8, <1>10
    DEF KeysInv, DecideDisarm, Removing, Found, reqVars, sesVars
<1>19. ASSUME NEW r \in Requests, DecideNotify(r) PROVE KeysInv'
    BY <1>19, <1>14, <1>3, <1>4, <1>5, <1>8, <1>10
    DEF KeysInv, DecideNotify, Asking, Removing, NotifyAll, Found, reqVars, sesVars
<1>20. ASSUME NEW r \in Requests, DecideHook(r) PROVE KeysInv'
    BY <1>20, <1>14, <1>3, <1>4, <1>5, <1>8, <1>10
    DEF KeysInv, DecideHook, Removing, Found, sesVars
<1>21. ASSUME NEW r \in Requests, DecideKeys(r) PROVE KeysInv'
    BY <1>21, <1>14, <1>12, NoneAssumption, <1>2, <1>3, <1>4, <1>5, <1>6, <1>8,
        <1>9, <1>10
    DEF KeysInv, RemoverInv, DecideKeys, Removing, Found, Decisions, sesVars
<1>22. ASSUME NEW r \in Requests, DecideState(r) PROVE KeysInv'
    BY <1>22, <1>14, <1>3, <1>4, <1>5, <1>8, <1>10
    DEF KeysInv, DecideState, Removing, Found, reqVars
<1>23. ASSUME NEW r \in Requests, Withdraw(r) PROVE KeysInv'
  <2>1. \A x \in Requests : \/ remover'[x] = remover[x]
                           \/ /\ remover[x] = "none"
                              /\ asker[x] \notin {"idle", "raised", "armed"}
                              /\ remover'[x] = "w.disarm"
    BY <1>23, <1>11, NoneAssumption, RequestAssumption, <1>1, <1>2, <1>3
    DEF InboxInv, Withdraw, InInbox
  <2>2. UNCHANGED <<decision, hookOpen, keys>>
    BY <1>23 DEF Withdraw, reqVars
  <2>3. \A t \in Sessions : Found(t)' => Found(t)
    BY <1>23, <1>10 DEF Withdraw, Found, sesVars
  <2> QED
    BY <2>1, <2>2, <2>3, <1>14, <1>3, <1>4, <1>5, <1>8, <1>10, RequestAssumption
    DEF KeysInv
<1>24. ASSUME NEW r \in Requests, WithdrawDisarm(r) PROVE KeysInv'
    BY <1>24, <1>14, <1>3, <1>4, <1>5, <1>8, <1>10
    DEF KeysInv, WithdrawDisarm, Removing, Found, reqVars, sesVars
<1>25. ASSUME NEW r \in Requests, WithdrawFlag(r) PROVE KeysInv'
    BY <1>25, <1>14, <1>3, <1>4, <1>5, <1>8, <1>10
    DEF KeysInv, WithdrawFlag, Removing, Found, sesVars
<1>26. ASSUME NEW r \in Requests, WithdrawNotify(r) PROVE KeysInv'
    BY <1>26, <1>14, <1>3, <1>4, <1>5, <1>8, <1>10
    DEF KeysInv, WithdrawNotify, Asking, Removing, NotifyAll, Found, reqVars, sesVars
<1>27. ASSUME NEW r \in Requests, WithdrawRecord(r) PROVE KeysInv'
    BY <1>27, <1>14, <1>3, <1>4, <1>5, <1>8, <1>10
    DEF KeysInv, WithdrawRecord, Removing, Found, sesVars
<1>28. ASSUME NEW r \in Requests, NEW d \in Decisions, DecideSet(r, d) PROVE KeysInv'
    BY <1>28, <1>14, <1>12, NoneAssumption, <1>2, <1>3, <1>4, <1>5, <1>6, <1>8,
        <1>9, <1>10
    DEF KeysInv, RemoverInv, DecideSet, Removing, HoldsDecision, Decisions, sesVars, Found
<1>29. ASSUME NEW s \in Sessions, DropToken(s) PROVE KeysInv'
    BY <1>29, <1>14, <1>3, <1>4, <1>5, <1>8, <1>10
    DEF KeysInv, DropToken, reqVars, InInbox, Found
<1>30. ASSUME NEW s \in Sessions, DropPending(s) PROVE KeysInv'
  <2>1. \A x \in Requests : \/ remover'[x] = remover[x]
                           \/ /\ remover[x] = "none"
                              /\ asker[x] \notin {"idle", "raised", "armed"}
                              /\ remover'[x] = "dropped"
    BY <1>30, <1>11, NoneAssumption, RequestAssumption, <1>1, <1>2, <1>3
    DEF InboxInv, DropPending, InInbox
  <2>2. UNCHANGED <<decision, hookOpen, keys>>
    BY <1>30 DEF DropPending, reqVars
  <2>3. \A t \in Sessions : Found(t)' => Found(t)
    BY <1>30, <1>10 DEF DropPending, Found, sesVars
  <2> QED
    BY <2>1, <2>2, <2>3, <1>14, <1>3, <1>4, <1>5, <1>8, <1>10, RequestAssumption
    DEF KeysInv
<1>31. ASSUME NEW s \in Sessions, DropHandle(s) PROVE KeysInv'
    BY <1>31, <1>14, <1>3, <1>4, <1>5, <1>8, <1>10
    DEF KeysInv, DropHandle, reqVars, InInbox, Found
<1>32. ASSUME NEW r \in Requests,
              Raise(r) \/ Arm(r) \/ ShowAwaiting(r) \/ RecordNeeded(r) \/
              TakeDecision(r) \/ TakeWithdrawal(r) \/ KeepWaiting(r) \/
              Sleep(r) \/ GiveUp(r) \/ Pass(r) \/ SpuriousWake(r) \/
              Expire(r)
     PROVE KeysInv'
  <2>1. UNCHANGED <<remover, decision, hookOpen, keys, phase>>
    BY <1>32
    DEF Raise, Arm, ShowAwaiting, RecordNeeded, TakeDecision,
        TakeWithdrawal, KeepWaiting, Sleep, GiveUp, Pass, SpuriousWake,
        Expire, reqVars, sesVars
  <2> QED
    BY <2>1, <1>14 DEF KeysInv, Found
<1>33. CASE UNCHANGED vars
    BY <1>33, <1>14 DEF vars, reqVars, sesVars, KeysInv, Found
<1> QED
    BY <1>15, <1>16, <1>17, <1>18, <1>19, <1>20, <1>21, <1>22, <1>23, <1>24,
        <1>25, <1>26, <1>27, <1>28, <1>29, <1>30, <1>31, <1>32, <1>33
    DEF Next, Asks, Blocks, SetsDecision, Decides, Withdraws, Ends

\* Every step keeps the invariant.
LEMMA ApprovalsInvNext == ApprovalsInv /\ [Next]_vars => ApprovalsInv'
BY TypeOKNext, InboxInvNext, RemoverInvNext, AskerInvNext, KeysInvNext DEF ApprovalsInv

\* The invariant holds in every state of every behaviour.
THEOREM ApprovalsInvHolds == Spec => []ApprovalsInv
<1>1. Init => ApprovalsInv
  BY ApprovalsInvInit
<1>2. ApprovalsInv /\ [Next]_vars => ApprovalsInv'
  BY ApprovalsInvNext
<1> QED
  BY <1>1, <1>2, PTL DEF Spec

\* Every variable of the inbox keeps its type.
THEOREM TypeCorrect == Spec => []TypeOK
<1>1. ApprovalsInv => TypeOK
  BY DEF ApprovalsInv
<1> QED
  BY <1>1, ApprovalsInvHolds, PTL

\* The hook's reply and the keystrokes exclude each other: keystrokes need
\* the hook closed, and a hook that closed replied {} and nothing else.
THEOREM OneChannelHolds == Spec => []OneChannel
<1>1. ApprovalsInv => OneChannel
  BY NoneAssumption DEF ApprovalsInv, AskerInv, KeysInv, OneChannel, Decisions
<1> QED
  BY <1>1, ApprovalsInvHolds, PTL

\* Keystrokes are typed only after the agent has been told to ask itself.
THEOREM KeysOnlyAtPromptHolds == Spec => []KeysOnlyAtPrompt
<1>1. ApprovalsInv => KeysOnlyAtPrompt
  BY DEF ApprovalsInv, KeysInv, KeysOnlyAtPrompt
<1> QED
  BY <1>1, ApprovalsInvHolds, PTL

\* What the agent receives is the human's decision.
THEOREM AnswerUnalteredHolds == Spec => []AnswerUnaltered
<1>1. ApprovalsInv => AnswerUnaltered
  BY DEF ApprovalsInv, AskerInv, KeysInv, AnswerUnaltered
<1> QED
  BY <1>1, ApprovalsInvHolds, PTL

\* A decision cannot fall between the hook that gives up and the prompt.
THEOREM DecisionNotLostHolds == Spec => []DecisionNotLost
<1>1. ApprovalsInv => DecisionNotLost
  <2> SUFFICES ASSUME ApprovalsInv,
                      NEW r \in Requests, remover[r] = "d.done", asker[r] = "done",
                      Found(SessionOf[r])
               PROVE  reply[r] \in Decisions \/ keys[r] \in Decisions
    BY DEF DecisionNotLost
  <2>1. CASE hookOpen[r]
    <3>1. ~withdrawn[r]
      BY DEF ApprovalsInv, RemoverInv
    <3>2. reply[r] \notin {None, "pass", "nothing"}
      BY <2>1, <3>1 DEF ApprovalsInv, AskerInv
    <3> QED
      BY <3>2 DEF ApprovalsInv, TypeOK
  <2>2. CASE ~hookOpen[r]
    <3>1. keys[r] # None
      BY <2>2 DEF ApprovalsInv, KeysInv
    <3> QED
      BY <3>1 DEF ApprovalsInv, TypeOK
  <2> QED
    BY <2>1, <2>2
<1> QED
  BY <1>1, ApprovalsInvHolds, PTL

\* A listed request is undecided, and nobody came back with an answer to it.
THEOREM InboxIsOpenHolds == Spec => []InboxIsOpen
<1>1. ApprovalsInv => InboxIsOpen
  <2> SUFFICES ASSUME ApprovalsInv, NEW r \in Requests, InInbox(r)
               PROVE  /\ decision[r] = None
                      /\ ~withdrawn[r]
                      /\ reply[r] \in {None, "pass"}
    BY DEF InboxIsOpen
  <2>1. remover[r] = "none"
    BY RequestAssumption DEF ApprovalsInv, InboxInv, InInbox
  <2>2. decision[r] = None /\ ~withdrawn[r]
    BY <2>1 DEF ApprovalsInv, RemoverInv
  <2>3. reply[r] \notin Decisions
    BY <2>2, NoneAssumption DEF ApprovalsInv, AskerInv
  <2>4. reply[r] # "nothing"
    BY <2>2 DEF ApprovalsInv, AskerInv
  <2> QED
    BY <2>2, <2>3, <2>4 DEF ApprovalsInv, TypeOK
<1> QED
  BY <1>1, ApprovalsInvHolds, PTL

\* A request is resolved by the inbox or by the agent, never by both.
THEOREM ResolvedOnceHolds == Spec => []ResolvedOnce
<1>1. ApprovalsInv => ResolvedOnce
  BY DEF ApprovalsInv, RemoverInv, ResolvedOnce
<1> QED
  BY <1>1, ApprovalsInvHolds, PTL

\* Whatever the threads that hold, wait, decide and withdraw do in between,
\* what a human decided reaches the agent once, over one channel, and the
\* record of who resolved it says so.
THEOREM DeliveredOnceHolds == Spec => []DeliveredOnce
<1>1. OneChannel /\ DecisionNotLost /\ ResolvedOnce => DeliveredOnce
  BY DEF DeliveredOnce
<1> QED
  BY <1>1, OneChannelHolds, DecisionNotLostHolds, ResolvedOnceHolds, PTL

-----------------------------------------------------------------------------
(***************************************************************************)
(* The refinement.                                                         *)
(***************************************************************************)
\* Initially nothing is asked, answered or delivered.
LEMMA AnswerInit == Init => Answer!Init
BY NoneAssumption DEF Init, Answer!Init, statusMap, verdictMap, deliveredMap,
    StatusOf, VerdictOf, DeliveredOf, Deciding, Withdrawing, Decisions

\* Every step of the threads is a step of the promise, or changes nothing it
\* speaks of.
LEMMA AnswerStep == ASSUME ApprovalsInv, [Next]_vars
                    PROVE  [Answer!Next]_(Answer!answerVars)
<1>1. /\ asker \in [Requests -> AskerAt]
      /\ remover \in [Requests -> RemoverAt]
      /\ decision \in [Requests -> Decisions \cup {None}]
      /\ reply \in [Requests -> Decisions \cup {"pass", "nothing", None}]
      /\ keys \in [Requests -> Decisions \cup {None}]
    BY DEF ApprovalsInv, TypeOK
<1>2. RemoverInv
    BY DEF ApprovalsInv
<1>3. AskerInv
    BY DEF ApprovalsInv
<1>4. KeysInv
    BY DEF ApprovalsInv
<1>5. InboxInv
    BY DEF ApprovalsInv
<1> DEFINE Stutter == UNCHANGED <<statusMap, verdictMap, deliveredMap>>
<1>6. ASSUME \A x \in Requests : StatusOf(x)' = StatusOf(x) PROVE UNCHANGED statusMap
    BY <1>6 DEF statusMap
<1>7. ASSUME UNCHANGED decision PROVE UNCHANGED verdictMap
    BY <1>7 DEF verdictMap, VerdictOf
<1>8. ASSUME UNCHANGED <<reply, keys>> PROVE UNCHANGED deliveredMap
    BY <1>8 DEF deliveredMap, DeliveredOf
<1>9. ASSUME NEW r \in Requests, Raise(r) PROVE Stutter
  <2>1. \A x \in Requests : StatusOf(x)' = StatusOf(x)
    BY <1>9, <1>1, <1>2 DEF Raise, Asking, RemoverInv, StatusOf, Deciding, Withdrawing
  <2>2. UNCHANGED <<decision, reply, keys>>
    BY <1>9 DEF Raise, reqVars
  <2> QED
    BY <2>1, <2>2, <1>6, <1>7, <1>8
<1>10. ASSUME NEW r \in Requests, Arm(r) PROVE Stutter
  <2>1. \A x \in Requests : StatusOf(x)' = StatusOf(x)
    BY <1>10, <1>1, <1>2 DEF Arm, Asking, RemoverInv, StatusOf, Deciding, Withdrawing
  <2>2. UNCHANGED <<decision, reply, keys>>
    BY <1>10 DEF Arm, reqVars
  <2> QED
    BY <2>1, <2>2, <1>6, <1>7, <1>8
<1>11. ASSUME NEW r \in Requests, ShowAwaiting(r) PROVE Stutter
  <2>1. \A x \in Requests : StatusOf(x)' = StatusOf(x)
    BY <1>11, <1>1, <1>2
    DEF ShowAwaiting, Asking, RemoverInv, StatusOf, Deciding, Withdrawing
  <2>2. UNCHANGED <<decision, reply, keys>>
    BY <1>11 DEF ShowAwaiting, reqVars
  <2> QED
    BY <2>1, <2>2, <1>6, <1>7, <1>8
<1>12. ASSUME NEW r \in Requests, RecordNeeded(r) PROVE Stutter
  <2>1. \A x \in Requests : StatusOf(x)' = StatusOf(x)
    BY <1>12, <1>1, <1>2
    DEF RecordNeeded, Asking, RemoverInv, StatusOf, Deciding, Withdrawing
  <2>2. UNCHANGED <<decision, reply, keys>>
    BY <1>12 DEF RecordNeeded
  <2> QED
    BY <2>1, <2>2, <1>6, <1>7, <1>8
<1>13. ASSUME NEW r \in Requests, TakeWithdrawal(r) PROVE Stutter
  <2>1. \A x \in Requests : StatusOf(x)' = StatusOf(x)
    BY <1>13, <1>1, <1>2
    DEF TakeWithdrawal, Asking, Testing, RemoverInv, StatusOf, Deciding,
        Withdrawing
  <2>2. UNCHANGED decision
    BY <1>13 DEF TakeWithdrawal
  <2>3. UNCHANGED deliveredMap
    BY <1>13, <1>1, <1>3, NoneAssumption
    DEF TakeWithdrawal, Asking, Testing, AskerInv, deliveredMap, DeliveredOf,
        Decisions
  <2> QED
    BY <2>1, <2>2, <2>3, <1>6, <1>7
<1>14. ASSUME NEW r \in Requests, KeepWaiting(r) PROVE Stutter
  <2>1. \A x \in Requests : StatusOf(x)' = StatusOf(x)
    BY <1>14, <1>1, <1>2
    DEF KeepWaiting, Asking, Testing, RemoverInv, StatusOf, Deciding,
        Withdrawing
  <2>2. UNCHANGED <<decision, reply, keys>>
    BY <1>14 DEF KeepWaiting, reqVars
  <2> QED
    BY <2>1, <2>2, <1>6, <1>7, <1>8
<1>15. ASSUME NEW r \in Requests, Sleep(r) PROVE Stutter
  <2>1. \A x \in Requests : StatusOf(x)' = StatusOf(x)
    BY <1>15, <1>1, <1>2 DEF Sleep, Asking, RemoverInv, StatusOf, Deciding, Withdrawing
  <2>2. UNCHANGED <<decision, reply, keys>>
    BY <1>15 DEF Sleep, reqVars
  <2> QED
    BY <2>1, <2>2, <1>6, <1>7, <1>8
<1>16. ASSUME NEW r \in Requests, GiveUp(r) PROVE Stutter
  <2>1. \A x \in Requests : StatusOf(x)' = StatusOf(x)
    BY <1>16, <1>1, <1>2
    DEF GiveUp, Asking, Testing, RemoverInv, StatusOf, Deciding, Withdrawing
  <2>2. UNCHANGED <<decision, reply, keys>>
    BY <1>16 DEF GiveUp, reqVars
  <2> QED
    BY <2>1, <2>2, <1>6, <1>7, <1>8
<1>17. ASSUME NEW r \in Requests, CloseHook(r) PROVE Stutter
  <2>1. \A x \in Requests : StatusOf(x)' = StatusOf(x)
    BY <1>17, <1>1, <1>2
    DEF CloseHook, Asking, RemoverInv, StatusOf, Deciding, Withdrawing
  <2>2. UNCHANGED <<decision, reply, keys>>
    BY <1>17 DEF CloseHook
  <2> QED
    BY <2>1, <2>2, <1>6, <1>7, <1>8
<1>18. ASSUME NEW r \in Requests, Pass(r) PROVE Stutter
  <2>1. \A x \in Requests : StatusOf(x)' = StatusOf(x)
    BY <1>18, <1>1, <1>2 DEF Pass, Asking, RemoverInv, StatusOf, Deciding, Withdrawing
  <2>2. UNCHANGED decision
    BY <1>18 DEF Pass
  <2>3. UNCHANGED deliveredMap
    BY <1>18, <1>1, <1>3, NoneAssumption
    DEF Pass, Asking, Testing, AskerInv, deliveredMap, DeliveredOf, Decisions
  <2> QED
    BY <2>1, <2>2, <2>3, <1>6, <1>7
<1>19. ASSUME NEW r \in Requests, SpuriousWake(r) PROVE Stutter
  <2>1. \A x \in Requests : StatusOf(x)' = StatusOf(x)
    BY <1>19, <1>1, <1>2
    DEF SpuriousWake, Asking, RemoverInv, StatusOf, Deciding, Withdrawing
  <2>2. UNCHANGED <<decision, reply, keys>>
    BY <1>19 DEF SpuriousWake, reqVars
  <2> QED
    BY <2>1, <2>2, <1>6, <1>7, <1>8
<1>20. ASSUME NEW r \in Requests, Expire(r) PROVE Stutter
  <2>1. \A x \in Requests : StatusOf(x)' = StatusOf(x)
    BY <1>20, <1>1, <1>2
    DEF Expire, Asking, NotifyAll, RemoverInv, StatusOf, Deciding, Withdrawing
  <2>2. UNCHANGED <<decision, reply, keys>>
    BY <1>20 DEF Expire
  <2> QED
    BY <2>1, <2>2, <1>6, <1>7, <1>8
<1>21. ASSUME NEW r \in Requests, DecideDisarm(r) PROVE Stutter
  <2>1. \A x \in Requests : StatusOf(x)' = StatusOf(x)
    BY <1>21, <1>1, <1>2
    DEF DecideDisarm, Removing, RemoverInv, StatusOf, Deciding, Withdrawing
  <2>2. UNCHANGED <<decision, reply, keys>>
    BY <1>21 DEF DecideDisarm, reqVars
  <2> QED
    BY <2>1, <2>2, <1>6, <1>7, <1>8
<1>22. ASSUME NEW r \in Requests, DecideNotify(r) PROVE Stutter
  <2>1. \A x \in Requests : StatusOf(x)' = StatusOf(x)
    BY <1>22, <1>1, <1>2
    DEF DecideNotify, Asking, Removing, NotifyAll, RemoverInv, StatusOf,
        Deciding, Withdrawing
  <2>2. UNCHANGED <<decision, reply, keys>>
    BY <1>22 DEF DecideNotify, reqVars
  <2> QED
    BY <2>1, <2>2, <1>6, <1>7, <1>8
<1>23. ASSUME NEW r \in Requests, DecideHook(r) PROVE Stutter
  <2>1. \A x \in Requests : StatusOf(x)' = StatusOf(x)
    BY <1>23, <1>1, <1>2
    DEF DecideHook, Removing, RemoverInv, StatusOf, Deciding, Withdrawing
  <2>2. UNCHANGED <<decision, reply, keys>>
    BY <1>23 DEF DecideHook
  <2> QED
    BY <2>1, <2>2, <1>6, <1>7, <1>8
<1>24. ASSUME NEW r \in Requests, DecideState(r) PROVE Stutter
  <2>1. \A x \in Requests : StatusOf(x)' = StatusOf(x)
    BY <1>24, <1>1, <1>2
    DEF DecideState, Removing, RemoverInv, StatusOf, Deciding, Withdrawing
  <2>2. UNCHANGED <<decision, reply, keys>>
    BY <1>24 DEF DecideState, reqVars
  <2> QED
    BY <2>1, <2>2, <1>6, <1>7, <1>8
<1>25. ASSUME NEW r \in Requests, WithdrawDisarm(r) PROVE Stutter
  <2>1. \A x \in Requests : StatusOf(x)' = StatusOf(x)
    BY <1>25, <1>1, <1>2
    DEF WithdrawDisarm, Removing, RemoverInv, StatusOf, Deciding, Withdrawing
  <2>2. UNCHANGED <<decision, reply, keys>>
    BY <1>25 DEF WithdrawDisarm, reqVars
  <2> QED
    BY <2>1, <2>2, <1>6, <1>7, <1>8
<1>26. ASSUME NEW r \in Requests, WithdrawFlag(r) PROVE Stutter
  <2>1. \A x \in Requests : StatusOf(x)' = StatusOf(x)
    BY <1>26, <1>1, <1>2
    DEF WithdrawFlag, Removing, RemoverInv, StatusOf, Deciding, Withdrawing
  <2>2. UNCHANGED <<decision, reply, keys>>
    BY <1>26 DEF WithdrawFlag
  <2> QED
    BY <2>1, <2>2, <1>6, <1>7, <1>8
<1>27. ASSUME NEW r \in Requests, WithdrawNotify(r) PROVE Stutter
  <2>1. \A x \in Requests : StatusOf(x)' = StatusOf(x)
    BY <1>27, <1>1, <1>2
    DEF WithdrawNotify, Asking, Removing, NotifyAll, RemoverInv, StatusOf,
        Deciding, Withdrawing
  <2>2. UNCHANGED <<decision, reply, keys>>
    BY <1>27 DEF WithdrawNotify, reqVars
  <2> QED
    BY <2>1, <2>2, <1>6, <1>7, <1>8
<1>28. ASSUME NEW r \in Requests, WithdrawRecord(r) PROVE Stutter
  <2>1. \A x \in Requests : StatusOf(x)' = StatusOf(x)
    BY <1>28, <1>1, <1>2
    DEF WithdrawRecord, Removing, RemoverInv, StatusOf, Deciding, Withdrawing
  <2>2. UNCHANGED <<decision, reply, keys>>
    BY <1>28 DEF WithdrawRecord
  <2> QED
    BY <2>1, <2>2, <1>6, <1>7, <1>8
<1>29. ASSUME NEW s \in Sessions, DropToken(s) \/ DropHandle(s) PROVE Stutter
  <2>1. UNCHANGED <<asker, remover, decision, reply, keys>>
    BY <1>29 DEF DropToken, DropHandle, reqVars
  <2>2. \A x \in Requests : StatusOf(x)' = StatusOf(x)
    BY <2>1 DEF StatusOf
  <2> QED
    BY <2>1, <2>2, <1>6, <1>7, <1>8
<1>30. ASSUME UNCHANGED vars PROVE Stutter
  <2>1. UNCHANGED <<asker, remover, decision, reply, keys>>
    BY <1>30 DEF vars, reqVars
  <2>2. \A x \in Requests : StatusOf(x)' = StatusOf(x)
    BY <2>1 DEF StatusOf
  <2> QED
    BY <2>1, <2>2, <1>6, <1>7, <1>8
<1>31. ASSUME NEW r \in Requests, Insert(r) PROVE Answer!Next
  <2>1. /\ StatusOf(r) = "unasked"
        /\ StatusOf(r)' = "open"
    <3>1. asker[r] = "armed" /\ remover[r] = "none" /\ asker'[r] = "listed"
      BY <1>31, <1>1, <1>2 DEF Insert, Asking, RemoverInv
    <3>2. remover'[r] = "none"
      BY <1>31, <3>1, <1>5, RequestAssumption DEF Insert, InboxInv
    <3> QED
      BY <3>1, <3>2 DEF StatusOf, Deciding, Withdrawing
  <2>2. UNCHANGED <<verdictMap, deliveredMap>>
    <3>1. UNCHANGED <<decision, reply, keys>>
      BY <1>31 DEF Insert, reqVars
    <3> QED
      BY <3>1, <1>7, <1>8
  <2>3. CASE pending[IdOf[r]] \notin Requests
    <3>1. \A x \in Requests : x # r => StatusOf(x)' = StatusOf(x)
      BY <1>31, <2>3, <1>1 DEF Insert, Asking, StatusOf
    <3>2. statusMap' = [statusMap EXCEPT ![r] = "open"]
      BY <2>1, <3>1 DEF statusMap
    <3>3. Answer!Raise(r)
      BY <2>1, <2>2, <3>2 DEF Answer!Raise, statusMap
    <3> QED
      BY <3>3 DEF Answer!Next
  <2>4. CASE pending[IdOf[r]] \in Requests
    <3> PICK old \in Requests : pending[IdOf[r]] = old
      BY <2>4
    <3>1. remover[old] = "none" /\ asker[old] \notin {"idle", "raised", "armed"}
      BY <1>5, RequestAssumption DEF InboxInv
    <3>2. old # r
      BY <1>31, <3>1 DEF Insert, Asking
    <3>3. StatusOf(old) = "open" /\ StatusOf(old)' = "dropped"
      <4>1. remover'[old] = "replaced"
        BY <1>31 DEF Insert
      <4> QED
        BY <3>1, <4>1 DEF StatusOf, Deciding, Withdrawing
    <3>4. \A x \in Requests : x # r /\ x # old => StatusOf(x)' = StatusOf(x)
      BY <1>31, <1>1 DEF Insert, Asking, StatusOf
    <3>5. statusMap' = [statusMap EXCEPT ![r] = "open", ![old] = "dropped"]
      BY <2>1, <3>2, <3>3, <3>4 DEF statusMap
    <3>6. Answer!Supersede(r, old)
      BY <2>1, <2>2, <3>3, <3>5 DEF Answer!Supersede, statusMap
    <3> QED
      BY <3>6 DEF Answer!Next
  <2> QED
    BY <2>3, <2>4
<1>32. ASSUME NEW r \in Requests, Decide(r) PROVE Answer!Next
  <2>1. remover[r] = "none" /\ asker[r] \notin {"idle", "raised", "armed"}
    BY <1>32, <1>5, RequestAssumption DEF Decide, InInbox, InboxInv
  <2>2. StatusOf(r) = "open" /\ StatusOf(r)' = "decided"
    BY <1>32, <2>1, <1>1 DEF Decide, StatusOf, Deciding, Withdrawing
  <2>3. \A x \in Requests : x # r => StatusOf(x)' = StatusOf(x)
    BY <1>32, <1>1 DEF Decide, StatusOf
  <2>4. statusMap' = [statusMap EXCEPT ![r] = "decided"]
    BY <2>2, <2>3 DEF statusMap
  <2>5. UNCHANGED <<verdictMap, deliveredMap>>
    <3>1. UNCHANGED <<decision, reply, keys>>
      BY <1>32 DEF Decide, reqVars
    <3> QED
      BY <3>1, <1>7, <1>8
  <2>6. Answer!Close(r)
    BY <2>2, <2>4, <2>5 DEF Answer!Close, statusMap
  <2> QED
    BY <2>6 DEF Answer!Next
<1>33. ASSUME NEW r \in Requests, Withdraw(r) PROVE Answer!Next
  <2>1. remover[r] = "none" /\ asker[r] \notin {"idle", "raised", "armed"}
    BY <1>33, <1>5, RequestAssumption DEF Withdraw, InInbox, InboxInv
  <2>2. StatusOf(r) = "open" /\ StatusOf(r)' = "withdrawn"
    BY <1>33, <2>1, <1>1 DEF Withdraw, StatusOf, Deciding, Withdrawing
  <2>3. \A x \in Requests : x # r => StatusOf(x)' = StatusOf(x)
    BY <1>33, <1>1 DEF Withdraw, StatusOf
  <2>4. statusMap' = [statusMap EXCEPT ![r] = "withdrawn"]
    BY <2>2, <2>3 DEF statusMap
  <2>5. UNCHANGED <<verdictMap, deliveredMap>>
    <3>1. UNCHANGED <<decision, reply, keys>>
      BY <1>33 DEF Withdraw, reqVars
    <3> QED
      BY <3>1, <1>7, <1>8
  <2>6. Answer!Close(r)
    BY <2>2, <2>4, <2>5 DEF Answer!Close, statusMap
  <2> QED
    BY <2>6 DEF Answer!Next
<1>34. ASSUME NEW s \in Sessions, DropPending(s) PROVE Answer!Next
  <2> DEFINE R == {r \in Requests : SessionOf[r] = s /\ InInbox(r)}
  <2>1. \A r \in R : remover[r] = "none" /\ asker[r] \notin {"idle", "raised", "armed"}
    BY <1>5, RequestAssumption DEF InInbox, InboxInv
  <2>2. \A r \in R : StatusOf(r) = "open"
    BY <2>1 DEF StatusOf, Deciding, Withdrawing
  <2>3. /\ remover' = [r \in Requests |-> IF r \in R THEN "dropped" ELSE remover[r]]
        /\ UNCHANGED <<asker, decision, reply, keys>>
    BY <1>34 DEF DropPending, reqVars
  <2>4. \A r \in Requests : StatusOf(r)' = IF r \in R THEN "dropped" ELSE StatusOf(r)
    <3> HIDE DEF R
    <3> QED
      BY <2>3 DEF StatusOf, Deciding, Withdrawing
  <2>5. statusMap' = [r \in Requests |-> IF r \in R THEN "dropped" ELSE statusMap[r]]
    <3> HIDE DEF R
    <3> QED
      BY <2>4 DEF statusMap
  <2>6. \A r \in R : statusMap[r] = "open"
    BY <2>2 DEF statusMap
  <2>7. Answer!DropAll(R)
    <3> HIDE DEF R
    <3> QED
      BY <2>3, <2>5, <2>6, <1>7, <1>8 DEF Answer!DropAll
  <2>8. R \in SUBSET Requests
    OBVIOUS
  <2> QED
    BY <2>7, <2>8 DEF Answer!Next
<1>35. ASSUME NEW r \in Requests, NEW d \in Decisions, DecideSet(r, d) PROVE Answer!Next
  <2>1. /\ remover[r] = "d.set" /\ remover' = [remover EXCEPT ![r] = "d.notify"]
        /\ decision' = [decision EXCEPT ![r] = d]
        /\ UNCHANGED <<asker, reply, keys>>
    BY <1>35 DEF DecideSet, Removing
  <2>2. \A x \in Requests : StatusOf(x)' = StatusOf(x)
    BY <2>1, <1>1 DEF StatusOf, Deciding, Withdrawing
  <2>3. StatusOf(r) = "decided"
    BY <2>1 DEF StatusOf, Deciding, Withdrawing
  <2>4. decision[r] = None
    BY <2>1, <1>2 DEF RemoverInv
  <2>5. VerdictOf(r) = {} /\ VerdictOf(r)' = {d}
    BY <2>1, <2>4, <1>1, NoneAssumption DEF VerdictOf
  <2>6. \A x \in Requests : x # r => VerdictOf(x)' = VerdictOf(x)
    BY <2>1, <1>1 DEF VerdictOf
  <2>7. verdictMap' = [verdictMap EXCEPT ![r] = {d}]
    BY <2>5, <2>6 DEF verdictMap
  <2>8. UNCHANGED <<statusMap, deliveredMap>>
    BY <2>1, <2>2, <1>6, <1>8
  <2>9. Answer!Answer(r, d)
    BY <2>3, <2>5, <2>7, <2>8 DEF Answer!Answer, statusMap, verdictMap
  <2> QED
    BY <2>9 DEF Answer!Next
<1>36. ASSUME NEW r \in Requests, TakeDecision(r) PROVE Answer!Next
  <2>1. /\ asker[r] \in {"asked", "awake"} /\ asker' = [asker EXCEPT ![r] = "done"]
        /\ decision[r] \in Decisions
        /\ reply' = [reply EXCEPT ![r] = decision[r]]
        /\ UNCHANGED <<remover, decision, keys>>
    BY <1>36, <1>1 DEF TakeDecision, Testing
  <2>2. \A x \in Requests : StatusOf(x)' = StatusOf(x)
    BY <2>1, <1>1 DEF StatusOf
  <2>3. reply[r] = None /\ keys[r] = None
    BY <2>1, <1>3, <1>4 DEF AskerInv, KeysInv
  <2>4. DeliveredOf(r) = {} /\ DeliveredOf(r)' = {<<"waiter", decision[r]>>}
    BY <2>1, <2>3, <1>1, NoneAssumption DEF DeliveredOf
  <2>5. \A x \in Requests : x # r => DeliveredOf(x)' = DeliveredOf(x)
    BY <2>1, <1>1 DEF DeliveredOf
  <2>6. deliveredMap' = [deliveredMap EXCEPT ![r] = {<<"waiter", decision[r]>>}]
    BY <2>4, <2>5 DEF deliveredMap
  <2>7. decision[r] \in verdictMap[r]
    BY <2>1, NoneAssumption DEF verdictMap, VerdictOf
  <2>8. Answer!Deliver(r, "waiter", decision[r])
    BY <2>1, <2>2, <2>4, <2>6, <2>7, <1>6, <1>7 DEF Answer!Deliver, deliveredMap
  <2> QED
    BY <2>1, <2>8 DEF Answer!Next
<1>37. ASSUME NEW r \in Requests, DecideKeys(r) PROVE Answer!Next \/ Stutter
  <2>1. /\ remover[r] = "d.keys" /\ remover' = [remover EXCEPT ![r] = "d.state"]
        /\ keys' = [keys EXCEPT ![r] = IF Found(SessionOf[r]) THEN decision[r] ELSE @]
        /\ UNCHANGED <<asker, decision, reply>>
    BY <1>37 DEF DecideKeys, Removing
  <2>2. \A x \in Requests : StatusOf(x)' = StatusOf(x)
    BY <2>1, <1>1 DEF StatusOf, Deciding, Withdrawing
  <2>3. CASE ~Found(SessionOf[r])
    <3>1. keys' = keys
      BY <2>1, <2>3, <1>1
    <3> QED
      BY <2>1, <2>2, <3>1, <1>6, <1>7, <1>8
  <2>4. CASE Found(SessionOf[r])
    <3>1. decision[r] \in Decisions
      BY <2>1, <1>1, <1>2 DEF RemoverInv
    <3>2. reply[r] \notin Decisions /\ keys[r] = None
      <4>1. ~hookOpen[r] /\ keys[r] = None
        BY <2>1, <1>4 DEF KeysInv
      <4>2. reply[r] = "pass" \/ reply[r] = None
        BY <4>1, <1>3 DEF AskerInv
      <4> QED
        BY <4>1, <4>2, NoneAssumption DEF Decisions
    <3>3. DeliveredOf(r) = {} /\ DeliveredOf(r)' = {<<"keys", decision[r]>>}
      BY <2>1, <2>4, <3>1, <3>2, <1>1, NoneAssumption DEF DeliveredOf
    <3>4. \A x \in Requests : x # r => DeliveredOf(x)' = DeliveredOf(x)
      BY <2>1, <1>1 DEF DeliveredOf
    <3>5. deliveredMap' = [deliveredMap EXCEPT ![r] = {<<"keys", decision[r]>>}]
      BY <3>3, <3>4 DEF deliveredMap
    <3>6. decision[r] \in verdictMap[r]
      BY <3>1, NoneAssumption DEF verdictMap, VerdictOf
    <3>7. Answer!Deliver(r, "keys", decision[r])
      BY <2>1, <2>2, <3>3, <3>5, <3>6, <1>6, <1>7 DEF Answer!Deliver, deliveredMap
    <3> QED
      BY <3>1, <3>7 DEF Answer!Next
  <2> QED
    BY <2>3, <2>4
<1> HIDE DEF Stutter
<1>38. CASE Next
  <2>1. Answer!Next \/ Stutter
    BY <1>38, <1>9, <1>10, <1>11, <1>12, <1>13, <1>14, <1>15, <1>16, <1>17,
        <1>18, <1>19, <1>20, <1>21, <1>22, <1>23, <1>24, <1>25, <1>26, <1>27,
        <1>28, <1>29, <1>31, <1>32, <1>33, <1>34, <1>35, <1>36, <1>37
    DEF Next, Asks, Blocks, SetsDecision, Decides, Withdraws, Ends
  <2> QED
    BY <2>1 DEF Stutter, Answer!answerVars
<1> QED
  BY <1>30, <1>38 DEF Stutter, Answer!answerVars

\* What the thread network does to a request is a behaviour of the promise:
\* raised once, closed once, answered once, delivered at most once over one
\* channel, unaltered.
THEOREM Refinement == Spec => AnswerSpec
<1>1. Init => Answer!Init
  BY AnswerInit
<1>2. ApprovalsInv /\ [Next]_vars => [Answer!Next]_(Answer!answerVars)
  BY AnswerStep
<1> QED
  BY <1>1, <1>2, ApprovalsInvHolds, PTL DEF Spec, AnswerSpec, Answer!Spec

=============================================================================
