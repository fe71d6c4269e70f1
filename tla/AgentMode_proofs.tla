-------------------------- MODULE AgentMode_proofs --------------------------
(***************************************************************************)
(* Proofs about Agent Mode, part by part: the requests of AiRequests, for  *)
(* any number of requests and of profiles, whatever their fallbacks, and   *)
(* for every limit on attempts, turns and calls; the panel of AgentPanel,  *)
(* for any number of questions, words and commands; and the way of marks   *)
(* in ShellBlocks, for any number of lines, redrawn prompts and restarts   *)
(* and for every limit of disorder.                                        *)
(***************************************************************************)
EXTENDS AiRequests, AgentPanel, ShellBlocks, FiniteSetTheorems, WellFoundedInduction, TLAPS

(***************************************************************************)
(* AiRequests.                                                             *)
(***************************************************************************)
Verdicts == {"fallback", "give_up"}

(* Where a request has a profile that it has found not to cool off.        *)
Chosen == PC \ {"idle", "picking", "done", "error"}

(* Where a request has shown nothing of its answer yet.                    *)
Silent == {"idle", "picking", "picked", "ready", "backoff"}

(* Types of what TypeOK leaves out.                                        *)
HistoryOK ==
    /\ failure \in [Requests -> {None} \cup (Errors \X Verdicts)]
    /\ passes \in [Requests -> [Profiles -> 0..2]] /\ shown \in [Requests -> 0..2]
    /\ limited \in [Requests -> SUBSET Profiles] /\ limits \subseteq Profiles
    /\ late \subseteq Requests

(* An answer joins the messages once in a turn, and an ask has no tools.   *)
TurnInv ==
    \A r \in Requests :
        /\ appended[r] <= turn[r]
        /\ Kind[r] = "agent" /\ pc[r] \in {"streaming", "backoff", "answered"}
             => appended[r] < turn[r]
        /\ Kind[r] = "ask" => calls[r] = 0 /\ pc[r] \notin {"dispatch", "inbox", "executing"}

TypeInv == TypeOK /\ HistoryOK /\ TurnInv

(* A request that may send again has shown nothing.                        *)
ShownInv ==
    \A r \in Requests :
        /\ shown[r] <= 1
        /\ pc[r] \in Silent => shown[r] = 0
        /\ pc[r] = "streaming" /\ ~emitted[r] => shown[r] = 0
        /\ pc[r] = "failed" /\ failure[r][2] = "fallback" => shown[r] = 0

(* The profiles that limited a request still cool off, and the one it has  *)
(* chosen is none of them.                                                 *)
CoolInv ==
    \A r \in Requests :
        /\ limited[r] \subseteq cooling
        /\ pc[r] \in Chosen => at[r] \notin limited[r]

(* A late request has not left, and the log keeps it from leaving.         *)
LateInv ==
    /\ \A r \in late : HardStop /\ recorded >= Budget /\ pc[r] \in {"picking", "picked", "error"}
    /\ \A r \in Requests, p \in Profiles : pc[r] = "idle" \/ r \in late => passes[r][p] = 0

(* An ask has tried the profiles it went to, and while nobody is limited   *)
(* it looks at one that it has not tried.                                  *)
ChainOf(r) ==
    /\ pc[r] = "idle" => tried[r] = {}
    /\ \A p \in Profiles : passes[r][p] > 0 => p \in tried[r]
    /\ pc[r] = "ready" => at[r] \in tried[r]
    /\ limits = {} =>
         /\ \A p \in Profiles : passes[r][p] <= 1
         /\ pc[r] \in {"picking", "picked"} => at[r] \notin tried[r]
         /\ pc[r] = "ready" => passes[r][at[r]] = 0

ChainInv == cooling \subseteq limits /\ \A r \in Requests : Kind[r] = "ask" => ChainOf(r)

RequestsInv == TypeInv /\ ShownInv /\ CoolInv /\ LateInv /\ ChainInv

-----------------------------------------------------------------------------
(* What the steps with several outcomes come to: the profile looked at is  *)
(* a profile of the file, and each outcome has its condition.              *)
Prepares(r, from, name) ==
    /\ pc[r] = from
    /\ at' \in [Requests -> Profiles] /\ seen' \in [Requests -> SUBSET Profiles]
    /\ \A q \in Requests \ {r} : at'[q] = at[q]
    /\ \/ name \in Profiles /\ pc' = [pc EXCEPT ![r] = "picking"] /\ at'[r] = name
       \/ pc' = [pc EXCEPT ![r] = "error"] /\ at'[r] = at[r]

Picks(r) ==
    /\ pc[r] = "picking"
    /\ at' \in [Requests -> Profiles] /\ seen' \in [Requests -> SUBSET Profiles]
    /\ \A q \in Requests \ {r} : at'[q] = at[q]
    /\ \/ pc' = [pc EXCEPT ![r] = "picked"] /\ at[r] \notin cooling /\ at' = at
       \/ pc' = pc /\ cooling # {}
       \/ pc' = [pc EXCEPT ![r] = "error"] /\ at' = at
    /\ UNCHANGED <<tried, streamVars, driveVars, sharedVars, historyVars>>

BreaksOff(r, error) ==
    /\ pc[r] = "streaming"
    /\ \/ /\ pc' = [pc EXCEPT ![r] = "backoff"] /\ ~emitted[r] /\ UNCHANGED failure
          /\ attempt' = [attempt EXCEPT ![r] = attempt[r] + 1]
          /\ attempt[r] + 1 < MaxAttempts
       \/ /\ pc' = [pc EXCEPT ![r] = "failed"] /\ UNCHANGED attempt
          /\ \E verdict \in Verdicts :
               /\ failure' = [failure EXCEPT ![r] = <<error, verdict>>]
               /\ emitted[r] => verdict = "give_up"
    /\ UNCHANGED <<chainVars, emitted, driveVars, sharedVars, historyVars>>

Fails(r) ==
    /\ pc[r] = "failed"
    /\ at' \in [Requests -> Profiles] /\ seen' \in [Requests -> SUBSET Profiles]
    /\ \A q \in Requests \ {r} : at'[q] = at[q]
    /\ \/ /\ pc' = [pc EXCEPT ![r] = "picking"] /\ failure[r][2] = "fallback"
          /\ Kind[r] = "ask" => at'[r] \notin tried[r]
       \/ pc' = [pc EXCEPT ![r] = "error"]
    /\ \/ /\ cooling' = cooling \cup {at[r]} /\ limits' = limits \cup {at[r]}
          /\ limited' = [limited EXCEPT ![r] = limited[r] \cup {at[r]}]
       \/ UNCHANGED <<cooling, limits, limited>>
    /\ UNCHANGED <<tried, streamVars, driveVars, recorded, payload, spent, passes, shown, late,
                   unlogged, toolCalls>>


(* prepare_from goes on with a profile of the file, or ends the request.   *)
LEMMA PrepareOutcome ==
    ASSUME TypeInv, NEW r \in Requests, NEW from, NEW name, PrepareFrom(r, from, name)
    PROVE  Prepares(r, from, name)
<1>1. CASE name \in Profiles
  <2>1. {name} \in SUBSET Profiles
    BY <1>1
  <2> QED
    BY <1>1, <2>1 DEF Prepares, PrepareFrom, Go, TypeInv, TypeOK
<1>2. CASE name \notin Profiles
    BY <1>2 DEF Prepares, PrepareFrom, Go, TypeInv, TypeOK
<1> QED
    BY <1>1, <1>2

(* pick takes the profile it looks at, if it does not cool off; goes on to *)
(* the next; or ends the request.                                          *)
LEMMA PickOutcome ==
    ASSUME TypeInv, NEW r \in Requests, Pick(r)
    PROVE  Picks(r)
<1>1. CASE at[r] \notin cooling /\ Go(r, "picking", "picked") /\ UNCHANGED <<at, seen>>
    BY <1>1 DEF Pick, Picks, Go, TypeInv, TypeOK
<1>2. CASE /\ at[r] \in cooling /\ Fallback[at[r]] \in Profiles \ seen[r]
           /\ Go(r, "picking", "picking") /\ at' = [at EXCEPT ![r] = Fallback[at[r]]]
           /\ seen' = [seen EXCEPT ![r] = @ \cup {Fallback[at[r]]}]
  <2>1. seen[r] \cup {Fallback[at[r]]} \in SUBSET Profiles
    BY <1>2 DEF TypeInv, TypeOK
  <2>2. pc' = pc
    BY <1>2 DEF Go, TypeInv, TypeOK
  <2> QED
    BY <1>2, <2>1, <2>2 DEF Pick, Picks, Go, TypeInv, TypeOK
<1>3. CASE Go(r, "picking", "error") /\ UNCHANGED <<at, seen>>
    BY <1>3 DEF Pick, Picks, Go, TypeInv, TypeOK
<1> QED
    BY <1>1, <1>2, <1>3 DEF Pick

(* A failed attempt is repeated, if nothing was shown and one is left, or  *)
(* is the request's failure; shown, it leads nowhere.                      *)
LEMMA StreamFailsOutcome ==
    ASSUME TypeInv, NEW r \in Requests, NEW error \in Errors, StreamFails(r, error)
    PROVE  BreaksOff(r, error)
<1>1. PICK verdict : /\ Failing(r, error, verdict)
                     /\ verdict = IF emitted[r] THEN "give_up" ELSE Classify(error, attempt[r])
    BY DEF StreamFails
<1>2. /\ verdict \in Verdicts \cup {"retry"}
      /\ verdict = "retry" => ~emitted[r] /\ attempt[r] + 1 < MaxAttempts
      /\ emitted[r] => verdict = "give_up"
    BY <1>1 DEF Classify, Errors, Verdicts
<1>3. CASE verdict = "retry"
    BY <1>1, <1>2, <1>3 DEF BreaksOff, Failing, Go
<1>4. CASE verdict \in Verdicts
    BY <1>1, <1>2, <1>4 DEF BreaksOff, Failing, Go, Verdicts
<1> QED
    BY <1>2, <1>3, <1>4

(* After a failure the breaker of a profile that answered 429 is open, and *)
(* the request goes on with a profile it may go on with, or ends.          *)
LEMMA FailOutcome ==
    ASSUME TypeInv, NEW r \in Requests, Fail(r)
    PROVE  Fails(r)
<1>1. /\ pc[r] = "failed"
      /\ \/ /\ cooling' = cooling \cup {at[r]} /\ limits' = limits \cup {at[r]}
            /\ limited' = [limited EXCEPT ![r] = limited[r] \cup {at[r]}]
         \/ UNCHANGED <<cooling, limits, limited>>
    BY DEF Fail, OpenBreaker
<1>2. CASE ~((Kind[r] = "ask" /\ AskGoesOn(r)) \/ (Kind[r] = "agent" /\ AgentGoesOn(r)))
  <2>1. Go(r, "failed", "error") /\ UNCHANGED <<at, seen>>
    BY <1>2 DEF Fail
  <2> QED
    BY <1>1, <2>1 DEF Fail, Fails, Go, TypeInv, TypeOK
<1>3. CASE (Kind[r] = "ask" /\ AskGoesOn(r)) \/ (Kind[r] = "agent" /\ AgentGoesOn(r))
  <2>1. PrepareFrom(r, "failed", NextProfile(r))
    BY <1>3 DEF Fail
  <2>2. failure[r][2] = "fallback"
    BY <1>3 DEF AskGoesOn, AgentGoesOn, NextProfile
  <2>3. Kind[r] = "ask" => NextProfile(r) \notin tried[r]
    BY <1>3 DEF AskGoesOn
  <2>4. Prepares(r, "failed", NextProfile(r))
    BY <2>1, PrepareOutcome
  <2> QED
    BY <1>1, <2>2, <2>3, <2>4 DEF Fail, Fails, Prepares
<1> QED
    BY <1>2, <1>3

(* Every step keeps the types; a turn takes no more than one answer.       *)
LEMMA TypeNext == ASSUME TypeInv, [Next]_vars PROVE TypeInv'
<1> USE RequestAssumption DEF chainVars, streamVars, driveVars, sharedVars, historyVars, Go
<1>1. ASSUME NEW r \in Requests, Start(r) PROVE TypeInv'
  <2>1. Prepares(r, "idle", Route[r])
    BY <1>1, PrepareOutcome DEF Start
  <2> QED
    <3>1. pc' \in [Requests -> PC]
      BY <2>1 DEF Prepares, TypeInv, TypeOK, PC
    <3>2. TypeOK'
      BY <1>1, <2>1, <3>1 DEF Start, Prepares, TypeInv, TypeOK
    <3>3. HistoryOK'
      BY <1>1 DEF Start, TypeInv, HistoryOK
    <3>4. \A q \in Requests : pc'[q] = pc[q] \/ pc'[q] \in {"picking", "error"}
      BY <2>1 DEF Prepares, TypeInv, TypeOK
    <3>5. TurnInv'
      BY <1>1, <3>4 DEF Start, TypeInv, TurnInv
    <3> QED
      BY <3>2, <3>3, <3>5 DEF TypeInv
<1>2. ASSUME NEW r \in Requests, Pick(r) PROVE TypeInv'
  <2>1. Picks(r)
    BY <1>2, PickOutcome
  <2>2. pc' \in [Requests -> PC]
    BY <2>1 DEF Picks, TypeInv, TypeOK, PC
  <2>3. TypeOK' /\ HistoryOK'
    BY <2>1, <2>2 DEF Picks, TypeInv, TypeOK, HistoryOK
  <2>4. TurnInv'
    BY <2>1 DEF Picks, TypeInv, TypeOK, TurnInv, PC
  <2> QED
    BY <2>3, <2>4 DEF TypeInv
<1>3. ASSUME NEW r \in Requests, Prepare(r) PROVE TypeInv'
  <2>1. tried[r] \cup {at[r]} \in SUBSET Profiles
    BY DEF TypeInv, TypeOK
  <2>2. pc' \in [Requests -> PC] /\ tried' \in [Requests -> SUBSET Profiles]
    <3>1. CASE tried' = [tried EXCEPT ![r] = @ \cup {at[r]}] /\ pc' = [pc EXCEPT ![r] = "ready"]
      BY <2>1, <3>1 DEF TypeInv, TypeOK, PC
    <3>2. CASE UNCHANGED tried /\ pc' = [pc EXCEPT ![r] = "error"]
      BY <3>2 DEF TypeInv, TypeOK, PC
    <3>3. CASE UNCHANGED tried /\ pc' = [pc EXCEPT ![r] = "panicked"]
      BY <3>3 DEF TypeInv, TypeOK, PC
    <3> QED
      BY <1>3, <3>1, <3>2, <3>3 DEF Prepare
  <2>3. TypeOK' /\ HistoryOK'
    BY <1>3, <2>2 DEF Prepare, TypeInv, TypeOK, HistoryOK
  <2>4. TurnInv'
    BY <1>3 DEF Prepare, TypeInv, TypeOK, TurnInv, PC
  <2> QED
    BY <2>3, <2>4 DEF TypeInv
<1>4. ASSUME NEW r \in Requests, Send(r) PROVE TypeInv'
    BY <1>4 DEF Send, Sending, TurnsLeft, UpToTwo, TypeInv, TypeOK, HistoryOK, TurnInv, PC,
       Errors, Verdicts
<1>5. ASSUME NEW r \in Requests, Resend(r) PROVE TypeInv'
    BY <1>5 DEF Resend, Sending, UpToTwo, TypeInv, TypeOK, HistoryOK, TurnInv, PC, Errors,
       Verdicts
<1>6. ASSUME NEW r \in Requests, Refuse(r) PROVE TypeInv'
    BY <1>6 DEF Refuse, TurnsLeft, TypeInv, TypeOK, HistoryOK, TurnInv, PC, Errors, Verdicts
<1>7. ASSUME NEW r \in Requests, StopAtCap(r) PROVE TypeInv'
    BY <1>7 DEF StopAtCap, TypeInv, TypeOK, HistoryOK, TurnInv, PC, Errors, Verdicts
<1>8. ASSUME NEW r \in Requests, Chunk(r) PROVE TypeInv'
    BY <1>8 DEF Chunk, UpToTwo, TypeInv, TypeOK, HistoryOK, TurnInv, PC, Errors, Verdicts
<1>9. ASSUME NEW r \in Requests, NEW n \in 0..MaxCalls, StreamEnds(r, n) PROVE TypeInv'
    BY <1>9 DEF StreamEnds, TypeInv, TypeOK, HistoryOK, TurnInv, PC, Errors, Verdicts
<1>10. ASSUME NEW r \in Requests, NEW error \in Errors, StreamFails(r, error) PROVE TypeInv'
  <2>1. BreaksOff(r, error)
    BY <1>10, StreamFailsOutcome
  <2>2. pc' \in [Requests -> PC]
    BY <2>1 DEF BreaksOff, TypeInv, TypeOK, PC
  <2>3. attempt' \in [Requests -> 0..MaxAttempts - 1]
    BY <2>1 DEF BreaksOff, TypeInv, TypeOK
  <2>4. /\ failure' \in [Requests -> {None} \cup (Errors \X Verdicts)]
        /\ \A q \in Requests : pc'[q] = "failed" => failure'[q] \in Errors \X Verdicts
    <3>1. ASSUME UNCHANGED failure, pc' = [pc EXCEPT ![r] = "backoff"] PROVE <2>4!1 /\ <2>4!2
      BY <3>1 DEF TypeInv, TypeOK, HistoryOK, Verdicts
    <3>2. ASSUME NEW verdict \in Verdicts, failure' = [failure EXCEPT ![r] = <<error, verdict>>],
                 pc' = [pc EXCEPT ![r] = "failed"]
          PROVE  <2>4!1 /\ <2>4!2
      <4>1. <<error, verdict>> \in Errors \X Verdicts
        OBVIOUS
      <4> QED
        BY <3>2, <4>1 DEF TypeInv, TypeOK, HistoryOK, Verdicts
    <3> QED
      BY <2>1, <3>1, <3>2 DEF BreaksOff
  <2>5. TypeOK' /\ HistoryOK'
    BY <2>1, <2>2, <2>3, <2>4 DEF BreaksOff, TypeInv, TypeOK, HistoryOK, Verdicts
  <2>6. TurnInv'
    BY <2>1 DEF BreaksOff, TypeInv, TypeOK, TurnInv, PC
  <2> QED
    BY <2>5, <2>6 DEF TypeInv
<1>11. ASSUME NEW r \in Requests, Fail(r) PROVE TypeInv'
  <2>1. Fails(r)
    BY <1>11, FailOutcome
  <2>2. pc' \in [Requests -> PC] /\ \A q \in Requests : pc'[q] = "failed" => pc[q] = "failed"
    BY <2>1 DEF Fails, TypeInv, TypeOK, PC
  <2>3. /\ cooling' \subseteq Profiles /\ limits' \subseteq Profiles
        /\ limited' \in [Requests -> SUBSET Profiles]
    <3>1. at[r] \in Profiles /\ limited[r] \cup {at[r]} \in SUBSET Profiles
      BY DEF TypeInv, TypeOK, HistoryOK
    <3>2. CASE UNCHANGED <<cooling, limits, limited>>
      BY <3>2 DEF TypeInv, TypeOK, HistoryOK
    <3>3. CASE /\ cooling' = cooling \cup {at[r]} /\ limits' = limits \cup {at[r]}
               /\ limited' = [limited EXCEPT ![r] = limited[r] \cup {at[r]}]
      BY <3>1, <3>3 DEF TypeInv, TypeOK, HistoryOK
    <3> QED
      BY <2>1, <3>2, <3>3 DEF Fails
  <2>4. TypeOK' /\ HistoryOK'
    BY <2>1, <2>2, <2>3 DEF Fails, TypeInv, TypeOK, HistoryOK
  <2>5. TurnInv'
    BY <2>1 DEF Fails, TypeInv, TypeOK, TurnInv, PC
  <2> QED
    BY <2>4, <2>5 DEF TypeInv
<1>12. ASSUME NEW r \in Requests, Finish(r) PROVE TypeInv'
    BY <1>12 DEF Finish, TypeInv, TypeOK, HistoryOK, TurnInv, PC, Errors, Verdicts
<1>13. ASSUME NEW r \in Requests, TakeCalls(r) PROVE TypeInv'
    BY <1>13 DEF TakeCalls, TypeInv, TypeOK, HistoryOK, TurnInv, PC, Errors, Verdicts
<1>14. ASSUME NEW r \in Requests, TurnDown(r) PROVE TypeInv'
    BY <1>14 DEF TurnDown, CallOver, TypeInv, TypeOK, HistoryOK, TurnInv, PC, Errors, Verdicts
<1>15. ASSUME NEW r \in Requests, RuleAllows(r) PROVE TypeInv'
    BY <1>15 DEF RuleAllows, CallTo, TypeInv, TypeOK, HistoryOK, TurnInv, PC, Errors, Verdicts
<1>16. ASSUME NEW r \in Requests, AskInbox(r) PROVE TypeInv'
    BY <1>16 DEF AskInbox, CallTo, TypeInv, TypeOK, HistoryOK, TurnInv, PC, Errors, Verdicts
<1>17. ASSUME NEW r \in Requests, NextTurn(r) PROVE TypeInv'
    BY <1>17 DEF NextTurn, TypeInv, TypeOK, HistoryOK, TurnInv, PC, Errors, Verdicts
<1>18. ASSUME NEW r \in Requests, HumanAllows(r) PROVE TypeInv'
    BY <1>18 DEF HumanAllows, CallTo, TypeInv, TypeOK, HistoryOK, TurnInv, PC, Errors, Verdicts
<1>19. ASSUME NEW r \in Requests, HumanDenies(r) PROVE TypeInv'
    BY <1>19 DEF HumanDenies, CallOver, TypeInv, TypeOK, HistoryOK, TurnInv, PC, Errors,
       Verdicts
<1>20. ASSUME NEW r \in Requests, Executed(r) PROVE TypeInv'
    BY <1>20 DEF Executed, CallOver, TypeInv, TypeOK, HistoryOK, TurnInv, PC, Errors, Verdicts
<1>21. ASSUME NEW p \in Profiles, Expire(p) PROVE TypeInv'
    BY <1>21 DEF Expire, TypeInv, TypeOK, HistoryOK, TurnInv, PC, Errors, Verdicts
<1>22. CASE UNCHANGED vars
    BY <1>22 DEF vars, TypeInv, TypeOK, HistoryOK, TurnInv, PC, Errors, Verdicts
<1> QED
    BY <1>1, <1>2, <1>3, <1>4, <1>5, <1>6, <1>7, <1>8, <1>9, <1>10, <1>11, <1>12, <1>13, <1>14,
       <1>15, <1>16, <1>17, <1>18, <1>19, <1>20, <1>21, <1>22 DEF Next, Own, Provider

(* Nothing is shown before the attempt that is shown, nor after it.        *)
LEMMA ShownNext == ASSUME TypeInv, ShownInv, [Next]_vars PROVE ShownInv'
<1> USE RequestAssumption DEF chainVars, streamVars, driveVars, sharedVars, historyVars, Go
<1>1. ASSUME NEW r \in Requests, Start(r) PROVE ShownInv'
  <2>1. Prepares(r, "idle", Route[r])
    BY <1>1, PrepareOutcome DEF Start
  <2> QED
    BY <1>1, <2>1 DEF Start, Prepares, TypeInv, TypeOK, HistoryOK, TurnInv, ShownInv, Silent,
       PC, Errors, Verdicts
<1>2. ASSUME NEW r \in Requests, Pick(r) PROVE ShownInv'
  <2>1. Picks(r)
    BY <1>2, PickOutcome
  <2> QED
    BY <2>1 DEF Picks, TypeInv, TypeOK, HistoryOK, TurnInv, ShownInv, Silent, PC, Errors,
       Verdicts
<1>3. ASSUME NEW r \in Requests, Prepare(r) PROVE ShownInv'
    BY <1>3 DEF Prepare, Body, TypeInv, TypeOK, HistoryOK, TurnInv, ShownInv, Silent, PC,
       Errors, Verdicts
<1>4. ASSUME NEW r \in Requests, Send(r) PROVE ShownInv'
    BY <1>4 DEF Send, Sending, TurnsLeft, UpToTwo, TypeInv, TypeOK, HistoryOK, TurnInv,
       ShownInv, Silent, PC, Errors, Verdicts
<1>5. ASSUME NEW r \in Requests, Resend(r) PROVE ShownInv'
    BY <1>5 DEF Resend, Sending, UpToTwo, TypeInv, TypeOK, HistoryOK, TurnInv, ShownInv, Silent,
       PC, Errors, Verdicts
<1>6. ASSUME NEW r \in Requests, Refuse(r) PROVE ShownInv'
    BY <1>6 DEF Refuse, TurnsLeft, TypeInv, TypeOK, HistoryOK, TurnInv, ShownInv, Silent, PC,
       Errors, Verdicts
<1>7. ASSUME NEW r \in Requests, StopAtCap(r) PROVE ShownInv'
    BY <1>7 DEF StopAtCap, TypeInv, TypeOK, HistoryOK, TurnInv, ShownInv, Silent, PC, Errors,
       Verdicts
<1>8. ASSUME NEW r \in Requests, Chunk(r) PROVE ShownInv'
    BY <1>8 DEF Chunk, UpToTwo, TypeInv, TypeOK, HistoryOK, TurnInv, ShownInv, Silent, PC,
       Errors, Verdicts
<1>9. ASSUME NEW r \in Requests, NEW n \in 0..MaxCalls, StreamEnds(r, n) PROVE ShownInv'
    BY <1>9 DEF StreamEnds, TypeInv, TypeOK, HistoryOK, TurnInv, ShownInv, Silent, PC, Errors,
       Verdicts
<1>10. ASSUME NEW r \in Requests, NEW error \in Errors, StreamFails(r, error) PROVE ShownInv'
  <2>1. BreaksOff(r, error)
    BY <1>10, StreamFailsOutcome
  <2> QED
    BY <2>1 DEF BreaksOff, TypeInv, TypeOK, HistoryOK, TurnInv, ShownInv, Silent, PC, Errors,
       Verdicts
<1>11. ASSUME NEW r \in Requests, Fail(r) PROVE ShownInv'
  <2>1. Fails(r)
    BY <1>11, FailOutcome
  <2> QED
    BY <2>1 DEF Fails, TypeInv, TypeOK, HistoryOK, TurnInv, ShownInv, Silent, PC, Errors,
       Verdicts
<1>12. ASSUME NEW r \in Requests, Finish(r) PROVE ShownInv'
    BY <1>12 DEF Finish, TypeInv, TypeOK, HistoryOK, TurnInv, ShownInv, Silent, PC, Errors,
       Verdicts
<1>13. ASSUME NEW r \in Requests, TakeCalls(r) PROVE ShownInv'
    BY <1>13 DEF TakeCalls, TypeInv, TypeOK, HistoryOK, TurnInv, ShownInv, Silent, PC, Errors,
       Verdicts
<1>14. ASSUME NEW r \in Requests, TurnDown(r) PROVE ShownInv'
    BY <1>14 DEF TurnDown, CallOver, TypeInv, TypeOK, HistoryOK, TurnInv, ShownInv, Silent, PC,
       Errors, Verdicts
<1>15. ASSUME NEW r \in Requests, RuleAllows(r) PROVE ShownInv'
    BY <1>15 DEF RuleAllows, CallTo, TypeInv, TypeOK, HistoryOK, TurnInv, ShownInv, Silent, PC,
       Errors, Verdicts
<1>16. ASSUME NEW r \in Requests, AskInbox(r) PROVE ShownInv'
    BY <1>16 DEF AskInbox, CallTo, TypeInv, TypeOK, HistoryOK, TurnInv, ShownInv, Silent, PC,
       Errors, Verdicts
<1>17. ASSUME NEW r \in Requests, NextTurn(r) PROVE ShownInv'
    BY <1>17 DEF NextTurn, TypeInv, TypeOK, HistoryOK, TurnInv, ShownInv, Silent, PC, Errors,
       Verdicts
<1>18. ASSUME NEW r \in Requests, HumanAllows(r) PROVE ShownInv'
    BY <1>18 DEF HumanAllows, CallTo, TypeInv, TypeOK, HistoryOK, TurnInv, ShownInv, Silent, PC,
       Errors, Verdicts
<1>19. ASSUME NEW r \in Requests, HumanDenies(r) PROVE ShownInv'
    BY <1>19 DEF HumanDenies, CallOver, TypeInv, TypeOK, HistoryOK, TurnInv, ShownInv, Silent,
       PC, Errors, Verdicts
<1>20. ASSUME NEW r \in Requests, Executed(r) PROVE ShownInv'
    BY <1>20 DEF Executed, CallOver, TypeInv, TypeOK, HistoryOK, TurnInv, ShownInv, Silent, PC,
       Errors, Verdicts
<1>21. ASSUME NEW p \in Profiles, Expire(p) PROVE ShownInv'
    BY <1>21 DEF Expire, TypeInv, TypeOK, HistoryOK, TurnInv, ShownInv, Silent, PC, Errors,
       Verdicts
<1>22. CASE UNCHANGED vars
    BY <1>22 DEF vars, TypeInv, TypeOK, HistoryOK, TurnInv, ShownInv, Silent, PC, Errors, Verdicts
<1> QED
    BY <1>1, <1>2, <1>3, <1>4, <1>5, <1>6, <1>7, <1>8, <1>9, <1>10, <1>11, <1>12, <1>13, <1>14,
       <1>15, <1>16, <1>17, <1>18, <1>19, <1>20, <1>21, <1>22 DEF Next, Own, Provider

(* A profile that limits the request has been left when the breaker opens. *)
LEMMA CoolNext == ASSUME TypeInv, CoolInv, [Next]_vars PROVE CoolInv'
<1> USE RequestAssumption DEF chainVars, streamVars, driveVars, sharedVars, historyVars, Go
<1>1. ASSUME NEW r \in Requests, Start(r) PROVE CoolInv'
  <2>1. Prepares(r, "idle", Route[r])
    BY <1>1, PrepareOutcome DEF Start
  <2> QED
    BY <1>1, <2>1 DEF Start, Prepares, TypeInv, TypeOK, HistoryOK, CoolInv, Chosen, PC
<1>2. ASSUME NEW r \in Requests, Pick(r) PROVE CoolInv'
  <2>1. Picks(r)
    BY <1>2, PickOutcome
  <2> QED
    BY <2>1 DEF Picks, TypeInv, TypeOK, HistoryOK, CoolInv, Chosen, PC
<1>3. ASSUME NEW r \in Requests, Prepare(r) PROVE CoolInv'
    BY <1>3 DEF Prepare, Body, TypeInv, TypeOK, HistoryOK, CoolInv, Chosen, PC
<1>4. ASSUME NEW r \in Requests, Send(r) PROVE CoolInv'
    BY <1>4 DEF Send, Sending, TurnsLeft, UpToTwo, TypeInv, TypeOK, HistoryOK, CoolInv, Chosen,
       PC
<1>5. ASSUME NEW r \in Requests, Resend(r) PROVE CoolInv'
    BY <1>5 DEF Resend, Sending, UpToTwo, TypeInv, TypeOK, HistoryOK, CoolInv, Chosen, PC
<1>6. ASSUME NEW r \in Requests, Refuse(r) PROVE CoolInv'
    BY <1>6 DEF Refuse, TurnsLeft, TypeInv, TypeOK, HistoryOK, CoolInv, Chosen, PC
<1>7. ASSUME NEW r \in Requests, StopAtCap(r) PROVE CoolInv'
    BY <1>7 DEF StopAtCap, TypeInv, TypeOK, HistoryOK, CoolInv, Chosen, PC
<1>8. ASSUME NEW r \in Requests, Chunk(r) PROVE CoolInv'
    BY <1>8 DEF Chunk, UpToTwo, TypeInv, TypeOK, HistoryOK, CoolInv, Chosen, PC
<1>9. ASSUME NEW r \in Requests, NEW n \in 0..MaxCalls, StreamEnds(r, n) PROVE CoolInv'
    BY <1>9 DEF StreamEnds, TypeInv, TypeOK, HistoryOK, CoolInv, Chosen, PC
<1>10. ASSUME NEW r \in Requests, NEW error \in Errors, StreamFails(r, error) PROVE CoolInv'
  <2>1. BreaksOff(r, error)
    BY <1>10, StreamFailsOutcome
  <2> QED
    BY <2>1 DEF BreaksOff, TypeInv, TypeOK, HistoryOK, CoolInv, Chosen, PC
<1>11. ASSUME NEW r \in Requests, Fail(r) PROVE CoolInv'
  <2>1. Fails(r)
    BY <1>11, FailOutcome
  <2>2. ASSUME NEW q \in Requests PROVE limited'[q] \subseteq cooling'
    BY <2>1 DEF Fails, TypeInv, HistoryOK, CoolInv
  <2>3. ASSUME NEW q \in Requests, pc'[q] \in Chosen PROVE at'[q] \notin limited'[q]
    <3>1. q # r /\ pc'[q] = pc[q]
      BY <2>1, <2>3 DEF Fails, Chosen, TypeInv, TypeOK
    <3> QED
      BY <2>1, <2>3, <3>1 DEF Fails, TypeInv, HistoryOK, CoolInv
  <2> QED
    BY <2>2, <2>3 DEF CoolInv
<1>12. ASSUME NEW r \in Requests, Finish(r) PROVE CoolInv'
    BY <1>12 DEF Finish, TypeInv, TypeOK, HistoryOK, CoolInv, Chosen, PC
<1>13. ASSUME NEW r \in Requests, TakeCalls(r) PROVE CoolInv'
    BY <1>13 DEF TakeCalls, TypeInv, TypeOK, HistoryOK, CoolInv, Chosen, PC
<1>14. ASSUME NEW r \in Requests, TurnDown(r) PROVE CoolInv'
    BY <1>14 DEF TurnDown, CallOver, TypeInv, TypeOK, HistoryOK, CoolInv, Chosen, PC
<1>15. ASSUME NEW r \in Requests, RuleAllows(r) PROVE CoolInv'
    BY <1>15 DEF RuleAllows, CallTo, TypeInv, TypeOK, HistoryOK, CoolInv, Chosen, PC
<1>16. ASSUME NEW r \in Requests, AskInbox(r) PROVE CoolInv'
    BY <1>16 DEF AskInbox, CallTo, TypeInv, TypeOK, HistoryOK, CoolInv, Chosen, PC
<1>17. ASSUME NEW r \in Requests, NextTurn(r) PROVE CoolInv'
    BY <1>17 DEF NextTurn, TypeInv, TypeOK, HistoryOK, CoolInv, Chosen, PC
<1>18. ASSUME NEW r \in Requests, HumanAllows(r) PROVE CoolInv'
    BY <1>18 DEF HumanAllows, CallTo, TypeInv, TypeOK, HistoryOK, CoolInv, Chosen, PC
<1>19. ASSUME NEW r \in Requests, HumanDenies(r) PROVE CoolInv'
    BY <1>19 DEF HumanDenies, CallOver, TypeInv, TypeOK, HistoryOK, CoolInv, Chosen, PC
<1>20. ASSUME NEW r \in Requests, Executed(r) PROVE CoolInv'
    BY <1>20 DEF Executed, CallOver, TypeInv, TypeOK, HistoryOK, CoolInv, Chosen, PC
<1>21. ASSUME NEW p \in Profiles, Expire(p) PROVE CoolInv'
    BY <1>21 DEF Expire, TypeInv, TypeOK, HistoryOK, CoolInv, Chosen, PC
<1>22. CASE UNCHANGED vars
    BY <1>22 DEF vars, TypeInv, TypeOK, HistoryOK, CoolInv, Chosen, PC
<1> QED
    BY <1>1, <1>2, <1>3, <1>4, <1>5, <1>6, <1>7, <1>8, <1>9, <1>10, <1>11, <1>12, <1>13, <1>14,
       <1>15, <1>16, <1>17, <1>18, <1>19, <1>20, <1>21, <1>22 DEF Next, Own, Provider

(* What is recorded only grows, so a late request stays late.              *)
LEMMA LateNext == ASSUME TypeInv, LateInv, [Next]_vars PROVE LateInv'
<1> USE RequestAssumption DEF chainVars, streamVars, driveVars, sharedVars, historyVars, Go
<1>1. ASSUME NEW r \in Requests, Start(r) PROVE LateInv'
  <2>1. Prepares(r, "idle", Route[r])
    BY <1>1, PrepareOutcome DEF Start
  <2> QED
    BY <1>1, <2>1 DEF Start, Prepares, TypeInv, TypeOK, HistoryOK, LateInv, PC
<1>2. ASSUME NEW r \in Requests, Pick(r) PROVE LateInv'
  <2>1. Picks(r)
    BY <1>2, PickOutcome
  <2>2. ASSUME NEW q \in Requests
        PROVE  /\ pc'[q] = "idle" => pc[q] = "idle"
               /\ pc[q] \in {"picking", "picked", "error"} => pc'[q] \in {"picking", "picked", "error"}
    BY <2>1 DEF Picks, TypeInv, TypeOK
  <2>3. UNCHANGED <<passes, late, recorded>>
    BY <2>1 DEF Picks
  <2> QED
    BY <2>2, <2>3 DEF TypeInv, HistoryOK, LateInv
<1>3. ASSUME NEW r \in Requests, Prepare(r) PROVE LateInv'
  <2>1. /\ pc[r] = "picked" /\ UNCHANGED <<passes, late, recorded>>
        /\ \E to \in {"ready", "error", "panicked"} : pc' = [pc EXCEPT ![r] = to]
        /\ HardStop /\ recorded >= Budget => pc' = [pc EXCEPT ![r] = "error"]
    BY <1>3 DEF Prepare
  <2>2. \A q \in Requests : q # r => pc'[q] = pc[q]
    BY <2>1 DEF TypeInv, TypeOK
  <2>3. pc'[r] # "idle" /\ (HardStop /\ recorded >= Budget => pc'[r] = "error")
    BY <2>1 DEF TypeInv, TypeOK
  <2>4. \A q \in late : HardStop /\ recorded >= Budget /\ pc'[q] \in {"picking", "picked", "error"}
    BY <2>2, <2>3 DEF LateInv, TypeInv, HistoryOK
  <2>5. \A q \in Requests : pc'[q] = "idle" => pc[q] = "idle"
    BY <2>2, <2>3
  <2> QED
    BY <2>1, <2>4, <2>5 DEF LateInv
<1>4. ASSUME NEW r \in Requests, Send(r) PROVE LateInv'
    BY <1>4 DEF Send, Sending, TurnsLeft, UpToTwo, TypeInv, TypeOK, HistoryOK, LateInv, PC
<1>5. ASSUME NEW r \in Requests, Resend(r) PROVE LateInv'
    BY <1>5 DEF Resend, Sending, UpToTwo, TypeInv, TypeOK, HistoryOK, LateInv, PC
<1>6. ASSUME NEW r \in Requests, Refuse(r) PROVE LateInv'
    BY <1>6 DEF Refuse, TurnsLeft, TypeInv, TypeOK, HistoryOK, LateInv, PC
<1>7. ASSUME NEW r \in Requests, StopAtCap(r) PROVE LateInv'
    BY <1>7 DEF StopAtCap, TypeInv, TypeOK, HistoryOK, LateInv, PC
<1>8. ASSUME NEW r \in Requests, Chunk(r) PROVE LateInv'
    BY <1>8 DEF Chunk, UpToTwo, TypeInv, TypeOK, HistoryOK, LateInv, PC
<1>9. ASSUME NEW r \in Requests, NEW n \in 0..MaxCalls, StreamEnds(r, n) PROVE LateInv'
    BY <1>9 DEF StreamEnds, TypeInv, TypeOK, HistoryOK, LateInv, PC
<1>10. ASSUME NEW r \in Requests, NEW error \in Errors, StreamFails(r, error) PROVE LateInv'
  <2>1. BreaksOff(r, error)
    BY <1>10, StreamFailsOutcome
  <2>2. ASSUME NEW q \in Requests
        PROVE  /\ pc'[q] = "idle" => pc[q] = "idle"
               /\ pc[q] \in {"picking", "picked", "error"} => pc'[q] \in {"picking", "picked", "error"}
    BY <2>1 DEF BreaksOff, TypeInv, TypeOK
  <2>3. UNCHANGED <<passes, late, recorded>>
    BY <2>1 DEF BreaksOff
  <2> QED
    BY <2>2, <2>3 DEF TypeInv, HistoryOK, LateInv
<1>11. ASSUME NEW r \in Requests, Fail(r) PROVE LateInv'
  <2>1. Fails(r)
    BY <1>11, FailOutcome
  <2>2. ASSUME NEW q \in Requests
        PROVE  /\ pc'[q] = "idle" => pc[q] = "idle"
               /\ pc[q] \in {"picking", "picked", "error"} => pc'[q] \in {"picking", "picked", "error"}
    BY <2>1 DEF Fails, TypeInv, TypeOK
  <2>3. UNCHANGED <<passes, late, recorded>>
    BY <2>1 DEF Fails
  <2> QED
    BY <2>2, <2>3 DEF TypeInv, HistoryOK, LateInv
<1>12. ASSUME NEW r \in Requests, Finish(r) PROVE LateInv'
    BY <1>12 DEF Finish, TypeInv, TypeOK, HistoryOK, LateInv, PC
<1>13. ASSUME NEW r \in Requests, TakeCalls(r) PROVE LateInv'
    BY <1>13 DEF TakeCalls, TypeInv, TypeOK, HistoryOK, LateInv, PC
<1>14. ASSUME NEW r \in Requests, TurnDown(r) PROVE LateInv'
    BY <1>14 DEF TurnDown, CallOver, TypeInv, TypeOK, HistoryOK, LateInv, PC
<1>15. ASSUME NEW r \in Requests, RuleAllows(r) PROVE LateInv'
    BY <1>15 DEF RuleAllows, CallTo, TypeInv, TypeOK, HistoryOK, LateInv, PC
<1>16. ASSUME NEW r \in Requests, AskInbox(r) PROVE LateInv'
    BY <1>16 DEF AskInbox, CallTo, TypeInv, TypeOK, HistoryOK, LateInv, PC
<1>17. ASSUME NEW r \in Requests, NextTurn(r) PROVE LateInv'
    BY <1>17 DEF NextTurn, TypeInv, TypeOK, HistoryOK, LateInv, PC
<1>18. ASSUME NEW r \in Requests, HumanAllows(r) PROVE LateInv'
    BY <1>18 DEF HumanAllows, CallTo, TypeInv, TypeOK, HistoryOK, LateInv, PC
<1>19. ASSUME NEW r \in Requests, HumanDenies(r) PROVE LateInv'
    BY <1>19 DEF HumanDenies, CallOver, TypeInv, TypeOK, HistoryOK, LateInv, PC
<1>20. ASSUME NEW r \in Requests, Executed(r) PROVE LateInv'
    BY <1>20 DEF Executed, CallOver, TypeInv, TypeOK, HistoryOK, LateInv, PC
<1>21. ASSUME NEW p \in Profiles, Expire(p) PROVE LateInv'
    BY <1>21 DEF Expire, TypeInv, TypeOK, HistoryOK, LateInv, PC
<1>22. CASE UNCHANGED vars
    BY <1>22 DEF vars, TypeInv, TypeOK, HistoryOK, LateInv, PC
<1> QED
    BY <1>1, <1>2, <1>3, <1>4, <1>5, <1>6, <1>7, <1>8, <1>9, <1>10, <1>11, <1>12, <1>13, <1>14,
       <1>15, <1>16, <1>17, <1>18, <1>19, <1>20, <1>21, <1>22 DEF Next, Own, Provider

(* A request that stays where it is, or goes where it chooses no profile,  *)
(* keeps its chain.                                                        *)
LEMMA ChainKept ==
    ASSUME NEW q, ChainOf(q), limits = {} \/ limits' # {},
           tried'[q] = tried[q], passes'[q] = passes[q],
           \/ pc'[q] = pc[q] /\ at'[q] = at[q]
           \/ pc'[q] \notin {"idle", "picking", "picked", "ready"}
    PROVE  ChainOf(q)'
BY DEF ChainOf

(* run_chain goes on with a profile that is not among those it prepared.   *)
LEMMA ChainNext == ASSUME TypeInv, ChainInv, [Next]_vars PROVE ChainInv'
<1> USE RequestAssumption DEF chainVars, streamVars, driveVars, sharedVars, historyVars, Go
<1>1. ASSUME NEW r \in Requests, Start(r) PROVE ChainInv'
  <2>1. Prepares(r, "idle", Route[r])
    BY <1>1, PrepareOutcome DEF Start
  <2>2. ASSUME NEW q \in Requests, Kind[q] = "ask", q # r PROVE ChainOf(q)'
    BY <1>1, <2>1, <2>2 DEF Start, Prepares, TypeInv, TypeOK, ChainInv, ChainOf
  <2>3. ASSUME Kind[r] = "ask" PROVE ChainOf(r)'
    <3>1. tried[r] = {} /\ ChainOf(r) /\ UNCHANGED <<tried, passes, limits>>
      BY <1>1, <2>1, <2>3 DEF Start, Prepares, ChainInv, ChainOf
    <3>2. pc'[r] \in {"picking", "error"}
      BY <2>1 DEF Prepares, TypeInv, TypeOK
    <3> QED
      BY <3>1, <3>2 DEF ChainOf
  <2> QED
    BY <1>1, <2>2, <2>3 DEF Start, ChainInv
<1>2. ASSUME NEW r \in Requests, Pick(r) PROVE ChainInv'
  <2>1. Picks(r)
    BY <1>2, PickOutcome
  <2>2. ASSUME NEW q \in Requests, Kind[q] = "ask", q # r PROVE ChainOf(q)'
    BY <2>1, <2>2 DEF Picks, TypeInv, TypeOK, ChainInv, ChainOf
  <2>3. ASSUME Kind[r] = "ask" PROVE ChainOf(r)'
    BY <2>1, <2>3 DEF Picks, TypeInv, TypeOK, ChainInv, ChainOf
  <2> QED
    BY <2>1, <2>2, <2>3 DEF Picks, ChainInv
<1>3. ASSUME NEW r \in Requests, Prepare(r) PROVE ChainInv'
  <2>1. ASSUME NEW q \in Requests, Kind[q] = "ask", q # r PROVE ChainOf(q)'
    <3>1. ChainOf(q) /\ tried'[q] = tried[q] /\ pc'[q] = pc[q]
      BY <1>3, <2>1 DEF Prepare, TypeInv, TypeOK, ChainInv
    <3> QED
      BY <1>3, <3>1, ChainKept DEF Prepare
  <2>2. ASSUME Kind[r] = "ask" PROVE ChainOf(r)'
    <3>1. CASE tried' = [tried EXCEPT ![r] = @ \cup {at[r]}] /\ pc' = [pc EXCEPT ![r] = "ready"]
      <4>1. ChainOf(r) /\ pc[r] = "picked" /\ UNCHANGED <<at, passes, limits>>
        BY <1>3, <2>2 DEF Prepare, ChainInv
      <4>2. pc'[r] = "ready" /\ tried'[r] = tried[r] \cup {at[r]}
        BY <3>1 DEF TypeInv, TypeOK
      <4>3. at[r] \in Profiles /\ passes[r][at[r]] \in 0..2
        BY DEF TypeInv, TypeOK, HistoryOK
      <4>4. limits = {} => passes[r][at[r]] = 0
        BY <4>1, <4>3 DEF ChainOf
      <4> QED
        BY <4>1, <4>2, <4>3, <4>4 DEF ChainOf
    <3>2. ASSUME UNCHANGED tried, NEW to \in {"error", "panicked"}, pc' = [pc EXCEPT ![r] = to]
          PROVE  ChainOf(r)'
      <4>1. ChainOf(r) /\ UNCHANGED <<at, passes, limits>>
        BY <1>3, <2>2 DEF Prepare, ChainInv
      <4>2. pc'[r] = to
        BY <3>2 DEF TypeInv, TypeOK
      <4> QED
        BY <3>2, <4>1, <4>2 DEF ChainOf
    <3> QED
      BY <1>3, <3>1, <3>2 DEF Prepare
  <2> QED
    BY <1>3, <2>1, <2>2 DEF Prepare, ChainInv
<1>4. ASSUME NEW r \in Requests, Send(r) PROVE ChainInv'
    BY <1>4 DEF Send, Sending, TurnsLeft, UpToTwo, TypeInv, TypeOK, HistoryOK, TurnInv,
       ChainInv, ChainOf, PC, Errors
<1>5. ASSUME NEW r \in Requests, Resend(r) PROVE ChainInv'
  <2>1. ASSUME NEW q \in Requests, Kind[q] = "ask" PROVE ChainOf(q)'
    <3>1. ChainOf(q) /\ (pc'[q] = pc[q] \/ pc'[q] \in {"streaming", "dispatch"})
      BY <1>5, <2>1 DEF Resend, TypeInv, TypeOK, ChainInv
    <3> QED
      BY <1>5, <3>1, ChainKept DEF Resend
  <2> QED
    BY <1>5, <2>1 DEF Resend, ChainInv
<1>6. ASSUME NEW r \in Requests, Refuse(r) PROVE ChainInv'
    BY <1>6 DEF Refuse, TurnsLeft, TypeInv, TypeOK, HistoryOK, TurnInv, ChainInv, ChainOf, PC, Errors
<1>7. ASSUME NEW r \in Requests, StopAtCap(r) PROVE ChainInv'
    BY <1>7 DEF StopAtCap, TypeInv, TypeOK, HistoryOK, TurnInv, ChainInv, ChainOf, PC, Errors
<1>8. ASSUME NEW r \in Requests, Chunk(r) PROVE ChainInv'
    BY <1>8 DEF Chunk, UpToTwo, TypeInv, TypeOK, HistoryOK, TurnInv, ChainInv, ChainOf, PC, Errors
<1>9. ASSUME NEW r \in Requests, NEW n \in 0..MaxCalls, StreamEnds(r, n) PROVE ChainInv'
    BY <1>9 DEF StreamEnds, TypeInv, TypeOK, HistoryOK, TurnInv, ChainInv, ChainOf, PC, Errors
<1>10. ASSUME NEW r \in Requests, NEW error \in Errors, StreamFails(r, error) PROVE ChainInv'
  <2>1. BreaksOff(r, error)
    BY <1>10, StreamFailsOutcome
  <2> QED
    <3>1. ASSUME NEW q \in Requests, Kind[q] = "ask" PROVE ChainOf(q)'
      <4>1. ChainOf(q) /\ (pc'[q] = pc[q] \/ pc'[q] \in {"backoff", "failed"})
        BY <2>1, <3>1 DEF BreaksOff, TypeInv, TypeOK, ChainInv
      <4>2. UNCHANGED <<at, tried, passes, limits>>
        BY <2>1 DEF BreaksOff
      <4> QED
        BY <4>1, <4>2 DEF ChainOf
    <3> QED
      BY <2>1, <3>1 DEF BreaksOff, ChainInv
<1>11. ASSUME NEW r \in Requests, Fail(r) PROVE ChainInv'
  <2>1. Fails(r)
    BY <1>11, FailOutcome
  <2>2. cooling' \subseteq limits' /\ limits \subseteq limits'
    BY <2>1 DEF Fails, ChainInv
  <2>3. ASSUME NEW q \in Requests, Kind[q] = "ask", q # r PROVE ChainOf(q)'
    BY <2>1, <2>2, <2>3 DEF Fails, TypeInv, TypeOK, ChainInv, ChainOf
  <2>4. ASSUME Kind[r] = "ask" PROVE ChainOf(r)'
    BY <2>1, <2>2, <2>4 DEF Fails, TypeInv, TypeOK, ChainInv, ChainOf
  <2> QED
    BY <2>2, <2>3, <2>4 DEF ChainInv
<1>12. ASSUME NEW r \in Requests, Finish(r) PROVE ChainInv'
    BY <1>12 DEF Finish, TypeInv, TypeOK, HistoryOK, TurnInv, ChainInv, ChainOf, PC, Errors
<1>13. ASSUME NEW r \in Requests, TakeCalls(r) PROVE ChainInv'
    BY <1>13 DEF TakeCalls, TypeInv, TypeOK, HistoryOK, TurnInv, ChainInv, ChainOf, PC, Errors
<1>14. ASSUME NEW r \in Requests, TurnDown(r) PROVE ChainInv'
    BY <1>14 DEF TurnDown, CallOver, TypeInv, TypeOK, HistoryOK, TurnInv, ChainInv, ChainOf, PC, Errors
<1>15. ASSUME NEW r \in Requests, RuleAllows(r) PROVE ChainInv'
    BY <1>15 DEF RuleAllows, CallTo, TypeInv, TypeOK, HistoryOK, TurnInv, ChainInv, ChainOf, PC, Errors
<1>16. ASSUME NEW r \in Requests, AskInbox(r) PROVE ChainInv'
    BY <1>16 DEF AskInbox, CallTo, TypeInv, TypeOK, HistoryOK, TurnInv, ChainInv, ChainOf, PC, Errors
<1>17. ASSUME NEW r \in Requests, NextTurn(r) PROVE ChainInv'
    BY <1>17 DEF NextTurn, TypeInv, TypeOK, HistoryOK, TurnInv, ChainInv, ChainOf, PC, Errors
<1>18. ASSUME NEW r \in Requests, HumanAllows(r) PROVE ChainInv'
    BY <1>18 DEF HumanAllows, CallTo, TypeInv, TypeOK, HistoryOK, TurnInv, ChainInv, ChainOf, PC, Errors
<1>19. ASSUME NEW r \in Requests, HumanDenies(r) PROVE ChainInv'
  <2>1. ASSUME NEW q \in Requests, Kind[q] = "ask" PROVE ChainOf(q)'
    <3>1. ChainOf(q) /\ (pc'[q] = pc[q] \/ pc'[q] \in {"streaming", "dispatch"})
      BY <1>19, <2>1 DEF HumanDenies, CallOver, TypeInv, TypeOK, ChainInv
    <3> QED
      BY <1>19, <3>1, ChainKept DEF HumanDenies, CallOver
  <2> QED
    BY <1>19, <2>1 DEF HumanDenies, CallOver, ChainInv
<1>20. ASSUME NEW r \in Requests, Executed(r) PROVE ChainInv'
    BY <1>20 DEF Executed, CallOver, TypeInv, TypeOK, HistoryOK, TurnInv, ChainInv, ChainOf, PC, Errors
<1>21. ASSUME NEW p \in Profiles, Expire(p) PROVE ChainInv'
    BY <1>21 DEF Expire, TypeInv, TypeOK, HistoryOK, TurnInv, ChainInv, ChainOf, PC, Errors
<1>22. CASE UNCHANGED vars
    BY <1>22 DEF vars, TypeInv, TypeOK, HistoryOK, TurnInv, ChainInv, ChainOf, PC, Errors
<1> QED
    BY <1>1, <1>2, <1>3, <1>4, <1>5, <1>6, <1>7, <1>8, <1>9, <1>10, <1>11, <1>12, <1>13, <1>14,
       <1>15, <1>16, <1>17, <1>18, <1>19, <1>20, <1>21, <1>22 DEF Next, Own, Provider

-----------------------------------------------------------------------------
LEMMA InvInit == Init => RequestsInv
BY RequestAssumption
   DEF Init, RequestsInv, TypeInv, TypeOK, HistoryOK, TurnInv, ShownInv, CoolInv, LateInv, ChainInv,
       ChainOf, PC, Chosen, Silent

LEMMA InvHolds == Spec => []RequestsInv
<1>1. RequestsInv /\ [Next]_vars => RequestsInv'
    BY TypeNext, ShownNext, CoolNext, LateNext, ChainNext DEF RequestsInv
<1> QED
    BY InvInit, <1>1, PTL DEF Spec

(* stream_with_retry and run_stream: parts of two attempts are never shown *)
(* as one answer, whatever fails and however often it is tried.            *)
THEOREM ShownOnceHolds == Spec => []ShownOnce
<1>1. RequestsInv => ShownOnce
    BY DEF RequestsInv, ShownInv, ShownOnce
<1> QED
    BY InvHolds, <1>1, PTL

(* pick and the breakers: a profile that answered 429 to a request gets    *)
(* nothing more from it while it cools off, for any shape of the chain.    *)
THEOREM CoolingLeftAloneHolds == Spec => []CoolingLeftAlone
<1>1. RequestsInv => CoolingLeftAlone
    BY DEF RequestsInv, CoolInv, CoolingLeftAlone, Chosen, PC
<1> QED
    BY InvHolds, <1>1, PTL

(* prepare_from: a request made when the log says that the budget is used  *)
(* up never leaves, for any budget and any number of requests beside it.   *)
THEOREM BudgetStopsHolds == Spec => []BudgetStops
<1>1. RequestsInv => BudgetStops
    BY DEF RequestsInv, TypeInv, HistoryOK, LateInv, BudgetStops
<1> QED
    BY InvHolds, <1>1, PTL

(* run_chain: while nobody is limited, an ask is sent to each profile      *)
(* once, whatever circles the fallbacks make.                              *)
THEOREM OncePerProfileHolds == Spec => []OncePerProfile
<1>1. RequestsInv => OncePerProfile
    BY DEF RequestsInv, ChainInv, ChainOf, OncePerProfile
<1> QED
    BY InvHolds, <1>1, PTL

(* All of these and the types: what the run checks, for any number of      *)
(* requests and profiles.                                                  *)
THEOREM WithinBoundsHolds == Spec => []WithinBounds
<1>1. RequestsInv => TypeOK
    BY DEF RequestsInv, TypeInv
<1> QED
    BY InvHolds, <1>1, ShownOnceHolds, CoolingLeftAloneHolds, BudgetStopsHolds,
       OncePerProfileHolds, PTL DEF WithinBounds

-----------------------------------------------------------------------------
(***************************************************************************)
(* AgentPanel: the turns of the panel and what is on its way to them.      *)
(***************************************************************************)
ToolCalls == Questions \X Nat
Turn == [is : {"user"}, of : Questions]
        \cup [is : {"text", "streaming"}, words : Seq(Words)]
        \cup [is : {"tool"}, call : ToolCalls, status : Statuses]
        \cup [is : {"thought", "thinking", "failure"}]
        \cup [is : {"answer"}, words : Seq(Words), transcript : Seq(Words), split : BOOLEAN]
PanelEvent == [is : {"chunk"}, of : Questions, word : Words]
              \cup [is : {"tool_request"}, of : Questions, call : ToolCalls]
              \cup [is : {"tool_result"}, of : Questions, call : ToolCalls, status : Statuses \ {"waiting"}]
              \cup [is : {"done"}, of : Questions, words : Seq(Words)]
              \cup [is : {"error"}, of : Questions]

Asked == {q \in Questions : reply[q] # "unasked"}
Whole == {said[q] : q \in {p \in Questions : run[p] = "ended"}}

(* Of turns: only the last is in flight, a question of those asked stands  *)
(* there once, and the transcript of an answer is a whole one.             *)
TurnsOK(ts, asked, whole) ==
    /\ ts \in Seq(Turn)
    /\ \A i \in DOMAIN ts : ts[i].is \in {"thinking", "streaming"} => i = Len(ts)
    /\ \A i \in DOMAIN ts : ts[i].is = "user" => ts[i].of \in asked
    /\ \A i, j \in DOMAIN ts : ts[i].is = "user" /\ ts[i] = ts[j] => i = j
    /\ \A i \in DOMAIN ts : ts[i].is = "answer" => ts[i].transcript \in whole

PanelTypes ==
    /\ request \in Questions \cup {NoQuestion}
    /\ reply \in [Questions -> {"unasked", "asked", "named", "refused", "in"}]
    /\ run \in [Questions -> {"none", "running", "calling", "ended"}]
    /\ said \in [Questions -> Seq(Words)] /\ \A q \in Questions : Len(said[q]) <= MaxWords[q]
    /\ uses \in [Questions -> Nat] /\ \A q \in Questions : uses[q] <= MaxToolUse[q]
    /\ explains \in 0..MaxExplains

(* What ai.done carries is all that its request said, and nobody works on  *)
(* a question that was not accepted.                                       *)
WholeInv ==
    /\ wire \in Seq(PanelEvent)
    /\ \A i \in DOMAIN wire : wire[i].is = "done" => wire[i].words \in Whole
    /\ \A q \in Questions : reply[q] \in {"unasked", "asked"} => run[q] = "none"

PanelInv == PanelTypes /\ TurnsOK(turns, Asked, Whole) /\ WholeInv

-----------------------------------------------------------------------------
(* Turns: the last is taken away, one is added, one is replaced.           *)
LEMMA TurnMade ==
    /\ \A q \in Questions : User(q) \in Turn /\ User(q).is = "user" /\ User(q).of = q
    /\ \A ws \in Seq(Words) : Spoken(ws) \in Turn /\ Streaming(ws) \in Turn
    /\ \A ws : Spoken(ws).is = "text" /\ Streaming(ws).is = "streaming"
    /\ \A c \in ToolCalls : Tool(c) \in Turn
    /\ \A c : Tool(c).is = "tool"
    /\ Thought \in Turn /\ Thinking \in Turn /\ Failure \in Turn
    /\ Thought.is = "thought" /\ Thinking.is = "thinking" /\ Failure.is = "failure"
    /\ \A ws, whole \in Seq(Words), split \in BOOLEAN : Answer(ws, whole, split) \in Turn
    /\ \A ws, whole, split : Answer(ws, whole, split).is = "answer" /\ Answer(ws, whole, split).transcript = whole
BY DEF User, Spoken, Streaming, Tool, Thought, Thinking, Failure, Answer, Turn, Statuses

LEMMA TurnParts ==
    \A t \in Turn : /\ t.is \in {"user", "text", "tool", "thought", "thinking", "streaming", "answer", "failure"}
                    /\ t.is = "user" => t.of \in Questions
                    /\ t.is = "streaming" => t.words \in Seq(Words)
BY DEF Turn

LEMMA LastTaken ==
    ASSUME NEW asked, NEW whole, NEW ts, TurnsOK(ts, asked, whole), ts # <<>>
    PROVE  TurnsOK(Before(ts), asked, whole) /\ ~InFlight(Before(ts))
<1>1. /\ ts \in Seq(Turn) /\ Len(ts) \in Nat /\ Len(ts) > 0 /\ DOMAIN ts = 1..Len(ts)
  BY DEF TurnsOK
<1>2. /\ Before(ts) \in Seq(Turn) /\ Len(Before(ts)) = Len(ts) - 1
      /\ \A i \in 1..(Len(ts) - 1) : Before(ts)[i] = ts[i]
  BY <1>1 DEF Before
<1>3. DOMAIN Before(ts) = 1..(Len(ts) - 1)
  BY <1>2
<1>4. \A i \in 1..(Len(ts) - 1) : i # Len(ts) /\ i \in DOMAIN ts
  <2>1. \A n \in Nat : \A i \in 1..(n - 1) : i # n /\ i \in 1..n
    OBVIOUS
  <2> QED
    BY <1>1, <2>1
<1>5. TurnsOK(Before(ts), asked, whole)
  BY <1>1, <1>2, <1>3, <1>4 DEF TurnsOK
<1>6. ~InFlight(Before(ts))
  <2>1. SUFFICES ASSUME Before(ts) # <<>> PROVE LastTurn(Before(ts)).is \notin {"thinking", "streaming"}
    BY DEF InFlight
  <2>2. Len(ts) - 1 \in 1..(Len(ts) - 1)
    BY <1>1, <1>2, <2>1
  <2>3. LastTurn(Before(ts)) = ts[Len(ts) - 1]
    BY <2>2, <1>2 DEF LastTurn
  <2> QED
    BY <2>2, <2>3, <1>4 DEF TurnsOK
<1> QED
  BY <1>5, <1>6

LEMMA OneAdded ==
    ASSUME NEW asked, NEW whole, NEW ts, TurnsOK(ts, asked, whole), ~InFlight(ts), NEW t \in Turn,
           t.is = "user" => t.of \in asked /\ \A i \in DOMAIN ts : ts[i] # t,
           t.is = "answer" => t.transcript \in whole
    PROVE  /\ TurnsOK(Append(ts, t), asked, whole)
           /\ InFlight(Append(ts, t)) <=> t.is \in {"thinking", "streaming"}
           /\ Append(ts, t) # <<>> /\ LastTurn(Append(ts, t)) = t
<1>1. /\ ts \in Seq(Turn) /\ Len(ts) \in Nat /\ DOMAIN ts = 1..Len(ts)
  BY DEF TurnsOK
<1> DEFINE us == Append(ts, t)
<1>2. /\ us \in Seq(Turn) /\ Len(us) = Len(ts) + 1 /\ DOMAIN us = 1..(Len(ts) + 1)
      /\ us[Len(ts) + 1] = t /\ \A i \in 1..Len(ts) : us[i] = ts[i]
  BY <1>1
<1>3. \A i \in 1..Len(ts) : ts[i].is \notin {"thinking", "streaming"}
  <2>1. SUFFICES ASSUME NEW i \in 1..Len(ts), ts[i].is \in {"thinking", "streaming"} PROVE FALSE
    OBVIOUS
  <2>2. i = Len(ts)
    BY <2>1, <1>1 DEF TurnsOK
  <2> QED
    BY <2>1, <2>2, <1>1 DEF InFlight, LastTurn
<1>4. \A i \in DOMAIN us : i = Len(ts) + 1 \/ i \in 1..Len(ts)
  BY <1>1, <1>2
<1>5. \A i \in DOMAIN us : us[i].is \in {"thinking", "streaming"} => i = Len(us)
  BY <1>2, <1>3, <1>4
<1>6. \A i \in DOMAIN us : /\ us[i].is = "user" => us[i].of \in asked
                          /\ us[i].is = "answer" => us[i].transcript \in whole
  BY <1>1, <1>2, <1>4 DEF TurnsOK
<1>7. \A i, j \in DOMAIN us : us[i].is = "user" /\ us[i] = us[j] => i = j
  BY <1>1, <1>2, <1>4 DEF TurnsOK
<1>8. LastTurn(us) = t /\ us # <<>>
  BY <1>1, <1>2 DEF LastTurn
<1> QED
  BY <1>2, <1>5, <1>6, <1>7, <1>8 DEF TurnsOK, InFlight

(* What asks and answers there are only grows.                             *)
LEMMA TurnsStay ==
    ASSUME NEW asked, NEW whole, NEW more, NEW all, NEW ts, TurnsOK(ts, asked, whole),
           asked \subseteq more, whole \subseteq all
    PROVE  TurnsOK(ts, more, all)
BY DEF TurnsOK

LEMMA ThinkingReplaced ==
    ASSUME NEW asked, NEW whole, NEW ts, TurnsOK(ts, asked, whole), NEW t \in Turn, t.is # "user",
           t.is = "answer" => t.transcript \in whole
    PROVE  TurnsOK(ReplaceThinking(ts, t), asked, whole)
<1>1. CASE InFlight(ts)
  BY <1>1, LastTaken, OneAdded DEF ReplaceThinking, InFlight
<1>2. CASE ~InFlight(ts)
  BY <1>2, OneAdded DEF ReplaceThinking
<1> QED
  BY <1>1, <1>2

LEMMA TwoAdded == ASSUME NEW ts \in Seq(Turn), NEW s \in Turn, NEW t \in Turn
                  PROVE  ts \o <<s, t>> = Append(Append(ts, s), t)
OBVIOUS

LEMMA ThreeAdded == ASSUME NEW ts \in Seq(Turn), NEW r \in Turn, NEW s \in Turn, NEW t \in Turn
                    PROVE  ts \o (<<r>> \o <<s, t>>) = Append(Append(Append(ts, r), s), t)
OBVIOUS

(* The words of a row that streams.                                        *)
LEMMA PartialWords ==
    ASSUME NEW asked, NEW whole, NEW ts, TurnsOK(ts, asked, whole), ts # <<>>
    PROVE  Partial(ts) \in Seq(Words) /\ LastTurn(ts) \in Turn
<1>1. LastTurn(ts) \in Turn
  BY DEF TurnsOK, LastTurn
<1> QED
  BY <1>1, TurnParts DEF Partial

(* Each method of AgentConversation keeps the turns in order.              *)
LEMMA DeltaTurns ==
    ASSUME NEW asked, NEW whole, NEW ts, TurnsOK(ts, asked, whole), NEW w \in Words
    PROVE  TurnsOK(AppendDelta(ts, w), asked, whole)
<1>1. CASE InFlight(ts)
  <2>1. ts # <<>> /\ TurnsOK(Before(ts), asked, whole) /\ ~InFlight(Before(ts))
    BY <1>1, LastTaken DEF InFlight
  <2>2. Append(Partial(ts), w) \in Seq(Words)
    BY <2>1, PartialWords
  <2>3. Streaming(Append(Partial(ts), w)) \in Turn /\ Streaming(Append(Partial(ts), w)).is = "streaming"
    BY <2>2, TurnMade
  <2> HIDE DEF AppendDelta
  <2>4. TurnsOK(Append(Before(ts), Streaming(Append(Partial(ts), w))), asked, whole)
    BY <2>1, <2>3, OneAdded
  <2> QED
    BY <1>1, <2>4 DEF AppendDelta
<1>2. CASE ~InFlight(ts)
  BY <1>2 DEF AppendDelta
<1> QED
  BY <1>1, <1>2

LEMMA RequestTurns ==
    ASSUME NEW asked, NEW whole, NEW ts, TurnsOK(ts, asked, whole), NEW c \in ToolCalls
    PROVE  TurnsOK(ToolRequest(ts, c), asked, whole)
<1>1. CASE ~InFlight(ts)
  BY <1>1 DEF ToolRequest
<1>2. CASE InFlight(ts)
  <2> DEFINE bs == Before(ts)
             sp == Spoken(Partial(ts))
  <2>1. ts # <<>> /\ TurnsOK(bs, asked, whole) /\ ~InFlight(bs) /\ bs \in Seq(Turn)
    BY <1>2, LastTaken DEF InFlight, TurnsOK
  <2>2. /\ sp \in Turn /\ sp.is = "text" /\ Tool(c) \in Turn /\ Tool(c).is = "tool"
        /\ Thinking \in Turn /\ Thinking.is = "thinking"
    BY <2>1, PartialWords, TurnMade
  <2> HIDE DEF bs, sp
  <2>3. TurnsOK(Append(bs, sp), asked, whole) /\ ~InFlight(Append(bs, sp))
    BY <2>1, <2>2, OneAdded
  <2>4. \A us : TurnsOK(us, asked, whole) /\ ~InFlight(us) => TurnsOK(Append(Append(us, Tool(c)), Thinking), asked, whole)
    <3> TAKE us
    <3>1. SUFFICES ASSUME TurnsOK(us, asked, whole), ~InFlight(us)
                   PROVE  TurnsOK(Append(Append(us, Tool(c)), Thinking), asked, whole)
      OBVIOUS
    <3>2. TurnsOK(Append(us, Tool(c)), asked, whole) /\ ~InFlight(Append(us, Tool(c)))
      BY <3>1, <2>2, OneAdded
    <3> QED
      BY <3>2, <2>2, OneAdded
  <2>5. CASE Worded(Partial(ts)) = <<>>
    <3>1. ToolRequest(ts, c) = bs \o (<<>> \o <<Tool(c), Thinking>>)
      BY <1>2, <2>5 DEF ToolRequest, bs
    <3>2. ToolRequest(ts, c) = Append(Append(bs, Tool(c)), Thinking)
      BY <3>1, <2>1, <2>2, TwoAdded
    <3> QED
      BY <3>2, <2>1, <2>4
  <2>6. CASE Worded(Partial(ts)) # <<>>
    <3>1. ToolRequest(ts, c) = bs \o (<<sp>> \o <<Tool(c), Thinking>>)
      BY <1>2, <2>6 DEF ToolRequest, bs, sp
    <3>2. ToolRequest(ts, c) = Append(Append(Append(bs, sp), Tool(c)), Thinking)
      BY <3>1, <2>1, <2>2, ThreeAdded
    <3> QED
      BY <3>2, <2>3, <2>4
  <2> QED
    BY <2>5, <2>6
<1> QED
  BY <1>1, <1>2

LEMMA LastOf ==
    ASSUME NEW n \in Nat, NEW S \in SUBSET (1..n), S # {}
    PROVE  \E i \in S : \A j \in S : j <= i
<1> DEFINE Gaps == {n - i : i \in S}
<1>1. \A i \in S : n - i \in Nat /\ i \in Nat
  OBVIOUS
<1>2. Gaps \in SUBSET Nat /\ Gaps # {}
  BY <1>1
<1>3. PICK m \in Gaps : \A k \in Gaps : ~(<<k, m>> \in OpToRel(<, Nat))
  BY <1>2, NatLessThanWellFounded, WFMin
<1>4. \A k \in Gaps : ~(k < m)
  BY <1>2, <1>3 DEF OpToRel
<1>5. PICK i \in S : m = n - i
  OBVIOUS
<1>6. \A j \in S : ~(n - j < n - i)
  BY <1>4, <1>5
<1> QED
  BY <1>1, <1>6

LEMMA ResultTurns ==
    ASSUME NEW asked, NEW whole, NEW ts, TurnsOK(ts, asked, whole), NEW c, NEW outcome \in Statuses
    PROVE  TurnsOK(ToolResult(ts, c, outcome), asked, whole)
<1>1. CASE ToolTurns(ts, c) = {}
  BY <1>1 DEF ToolResult
<1>2. CASE ToolTurns(ts, c) # {}
  <2> DEFINE last == CHOOSE i \in ToolTurns(ts, c) : \A j \in ToolTurns(ts, c) : j <= i
             us == [ts EXCEPT ![last].status = outcome]
  <2>1. ToolResult(ts, c, outcome) = us
    BY <1>2 DEF ToolResult
  <2>2. ts \in Seq(Turn) /\ DOMAIN us = DOMAIN ts /\ DOMAIN ts = 1..Len(ts) /\ Len(ts) \in Nat
    BY DEF TurnsOK
  <2>3. CASE last \in ToolTurns(ts, c)
    <3>1. last \in DOMAIN ts /\ ts[last].is = "tool" /\ ts[last] \in Turn
      BY <2>2, <2>3 DEF ToolTurns
    <3>2. [ts[last] EXCEPT !.status = outcome] \in Turn /\ [ts[last] EXCEPT !.status = outcome].is = "tool"
      BY <3>1 DEF Turn
    <3>3. us[last] = [ts[last] EXCEPT !.status = outcome] /\ \A i \in DOMAIN ts : i # last => us[i] = ts[i]
      BY <3>1
    <3> HIDE DEF us, last
    <3>4. us \in Seq(Turn) /\ Len(us) = Len(ts)
      <4>1. us = [i \in 1..Len(ts) |-> us[i]]
        BY <2>2 DEF us
      <4>2. \A i \in 1..Len(ts) : us[i] \in Turn
        BY <3>2, <3>3, <2>2
      <4> QED
        BY <4>1, <4>2, <2>2
    <3>5. \A i, j \in DOMAIN us : us[i].is = "user" /\ us[i] = us[j] => i = j
      BY <2>2, <3>2, <3>3 DEF TurnsOK
    <3>6. \A i \in DOMAIN us : us[i].is = "user" => us[i].of \in asked
      BY <2>2, <3>2, <3>3 DEF TurnsOK
    <3>7. \A i \in DOMAIN us : us[i].is = "answer" => us[i].transcript \in whole
      BY <2>2, <3>2, <3>3 DEF TurnsOK
    <3>8. \A i \in DOMAIN us : us[i].is \in {"thinking", "streaming"} => i = Len(us)
      BY <2>2, <3>2, <3>3, <3>4 DEF TurnsOK
    <3>9. TurnsOK(us, asked, whole)
      BY <3>4, <3>5, <3>6, <3>7, <3>8 DEF TurnsOK
    <3> QED
      BY <2>1, <3>9
  <2>4. last \in ToolTurns(ts, c)
    <3>1. ToolTurns(ts, c) \subseteq 1..Len(ts)
      BY <2>2 DEF ToolTurns
    <3> QED
      BY <1>2, <2>2, <3>1, LastOf
  <2> QED
    BY <2>3, <2>4
<1> QED
  BY <1>1, <1>2

LEMMA AnsweredTurns ==
    ASSUME NEW asked, NEW whole, NEW ts, TurnsOK(ts, asked, whole),
           NEW ws \in Seq(Words), ws \in whole, NEW slow \in BOOLEAN
    PROVE  TurnsOK(AnswerTurns(ts, ws, slow), asked, whole)
<1> DEFINE thought == IF slow /\ LastTurn(ts).is = "thinking" THEN Append(Before(ts), Thought) \o <<Thinking>> ELSE ts
           split == HasToolTurnsInFlight(ts)
           answer == IF split THEN Partial(ts) ELSE ws
<1>1. ts \in Seq(Turn) /\ Thought \in Turn /\ Thinking \in Turn
  BY TurnMade DEF TurnsOK
<1>2. TurnsOK(Before(ts), asked, whole) /\ ~InFlight(Before(ts)) /\ Before(ts) \in Seq(Turn)
  <2>1. CASE ts = <<>>
    <3>1. Before(ts) = ts
      BY <2>1 DEF Before
    <3> QED
      BY <2>1, <3>1, <1>1 DEF InFlight
  <2>2. CASE ts # <<>>
    BY <2>2, LastTaken DEF TurnsOK
  <2> QED
    BY <2>1, <2>2
<1>3. TurnsOK(Append(Append(Before(ts), Thought), Thinking), asked, whole)
  <2>1. TurnsOK(Append(Before(ts), Thought), asked, whole) /\ ~InFlight(Append(Before(ts), Thought))
    BY <1>1, <1>2, TurnMade, OneAdded
  <2> QED
    BY <2>1, TurnMade, OneAdded
<1>4. Append(Before(ts), Thought) \o <<Thinking>> = Append(Append(Before(ts), Thought), Thinking)
  BY <1>1, <1>2
<1>5. TurnsOK(thought, asked, whole)
  BY <1>3, <1>4
<1>6. split \in BOOLEAN /\ answer \in Seq(Words)
  <2>1. CASE ts = <<>>
    BY <2>1 DEF HasToolTurnsInFlight, Since, Questioned
  <2>2. CASE ts # <<>>
    BY <2>2, PartialWords DEF HasToolTurnsInFlight
  <2> QED
    BY <2>1, <2>2
<1>7. Answer(answer, ws, split) \in Turn /\ Answer(answer, ws, split).is = "answer"
      /\ Answer(answer, ws, split).transcript = ws
  BY <1>6, TurnMade
<1>8. AnswerTurns(ts, ws, slow) = ReplaceThinking(thought, Answer(answer, ws, split))
  BY DEF AnswerTurns
<1> HIDE DEF thought, split, answer
<1>9. Answer(answer, ws, split).is # "user"
  BY <1>7
<1> QED
  BY <1>5, <1>7, <1>8, <1>9, ThinkingReplaced

LEMMA AskingTurns ==
    ASSUME NEW asked, NEW whole, NEW ts, TurnsOK(ts, asked, whole), ~InFlight(ts),
           NEW q \in Questions, q \notin asked
    PROVE  TurnsOK(Asking(ts, q), asked \cup {q}, whole)
<1>1. TurnsOK(ts, asked \cup {q}, whole)
  BY TurnsStay
<1>2. \A i \in DOMAIN ts : ts[i] # User(q)
  BY TurnMade DEF TurnsOK
<1>3. TurnsOK(Append(ts, User(q)), asked \cup {q}, whole) /\ ~InFlight(Append(ts, User(q)))
  BY <1>1, <1>2, TurnMade, OneAdded
<1>4. TurnsOK(Append(Append(ts, User(q)), Thinking), asked \cup {q}, whole)
  BY <1>3, TurnMade, OneAdded
<1>5. Asking(ts, q) = Append(Append(ts, User(q)), Thinking)
  BY TurnMade, TwoAdded DEF Asking, TurnsOK
<1> QED
  BY <1>4, <1>5

-----------------------------------------------------------------------------
(* The steps.                                                              *)
LEMMA PanelLimits ==
    /\ MaxWords \in [Questions -> Nat] /\ MaxToolUse \in [Questions -> Nat]
    /\ NoQuestion \notin Questions /\ MaxExplains \in Nat
BY AgentPanelAssumption

LEMMA PanelStarts == PanelInit => PanelInv
<1> SUFFICES ASSUME PanelInit PROVE PanelInv
  OBVIOUS
<1>1. PanelTypes
  BY PanelLimits DEF PanelInit, PanelTypes
<1>2. TurnsOK(turns, Asked, Whole) /\ WholeInv
  BY DEF PanelInit, TurnsOK, WholeInv
<1> QED
  BY <1>1, <1>2 DEF PanelInv

(* Sets of asked and ended only grow while no thread that ended speaks.    *)
LEMMA AskStep == ASSUME PanelInv, NEW q \in Questions, Ask(q) PROVE PanelInv'
<1>1. q \notin Asked /\ Asked' = Asked \cup {q} /\ Whole' = Whole
  BY DEF Ask, Asked, Whole, daemonVars, PanelInv, PanelTypes
<1>2. TurnsOK(turns', Asked', Whole')
  BY <1>1, AskingTurns DEF Ask, PanelInv
<1>3. PanelTypes'
  BY DEF Ask, daemonVars, PanelInv, PanelTypes
<1>4. WholeInv'
  BY <1>1 DEF Ask, daemonVars, PanelInv, PanelTypes, WholeInv
<1> QED
  BY <1>2, <1>3, <1>4 DEF PanelInv, TurnsOK

LEMMA ExplainStep == ASSUME PanelInv, ExplainNothing PROVE PanelInv'
<1>1. Asked' = Asked /\ Whole' = Whole
  BY DEF ExplainNothing, Asked, Whole, daemonVars
<1>2. TurnsOK(turns', Asked', Whole')
  BY <1>1, TurnMade, ThinkingReplaced DEF ExplainNothing, PanelInv
<1>3. PanelTypes'
  BY PanelLimits DEF ExplainNothing, daemonVars, PanelInv, PanelTypes
<1>4. WholeInv'
  BY <1>1 DEF ExplainNothing, daemonVars, PanelInv, WholeInv
<1> QED
  BY <1>2, <1>3, <1>4 DEF PanelInv, TurnsOK

LEMMA ReplyStep == ASSUME PanelInv, NEW q \in Questions, Named(q) \/ Refused(q) PROVE PanelInv'
<1>1. Asked' = Asked /\ Whole' = Whole
  BY DEF Named, Refused, Asked, Whole, daemonVars, PanelInv, PanelTypes
<1>2. TurnsOK(turns', Asked', Whole')
  <2>1. CASE Named(q)
    BY <2>1, <1>1 DEF Named, PanelInv
  <2>2. CASE Refused(q)
    BY <2>2, <1>1, TurnMade, ThinkingReplaced DEF Refused, PanelInv
  <2> QED
    BY <2>1, <2>2
<1>3. PanelTypes'
  BY DEF Named, Refused, daemonVars, PanelInv, PanelTypes
<1>4. WholeInv'
  BY <1>1 DEF Named, Refused, daemonVars, PanelInv, PanelTypes, WholeInv
<1> QED
  BY <1>2, <1>3, <1>4 DEF PanelInv, TurnsOK

LEMMA EventParts ==
    \A e \in PanelEvent : /\ e.of \in Questions
                          /\ e.is = "chunk" => e.word \in Words
                          /\ e.is = "tool_request" => e.call \in ToolCalls
                          /\ e.is = "tool_result" => e.status \in Statuses
                          /\ e.is = "done" => e.words \in Seq(Words)
BY DEF PanelEvent

LEMMA HearStep == ASSUME PanelInv, HearEvent PROVE PanelInv'
<1>1. Asked' = Asked /\ Whole' = Whole
  BY DEF HearEvent, Asked, Whole, daemonVars
<1>2. /\ wire \in Seq(PanelEvent) /\ wire # <<>> /\ wire' = Tail(wire)
      /\ 1 \in DOMAIN wire /\ Head(wire) = wire[1] /\ Head(wire) \in PanelEvent
  BY DEF HearEvent, PanelInv, WholeInv
<1>3. Tail(wire) \in Seq(PanelEvent) /\ \A i \in DOMAIN Tail(wire) : i + 1 \in DOMAIN wire /\ Tail(wire)[i] = wire[i + 1]
  BY <1>2
<1>4. TurnsOK(turns', Asked', Whole') /\ request' \in Questions \cup {NoQuestion}
  <2> DEFINE e == Head(wire)
  <2>1. e \in PanelEvent /\ (e.is = "done" => e.words \in Whole)
    BY <1>2 DEF PanelInv, WholeInv
  <2>2. CASE ~(e.of = request)
    BY <2>2, <1>1 DEF HearEvent, PanelInv, PanelTypes
  <2>3. CASE Apply(e)
    <3> HIDE DEF e
    <3>1. request' \in Questions \cup {NoQuestion}
      BY <2>3 DEF Apply, EndsRequest, PanelInv, PanelTypes
    <3>2. TurnsOK(turns, Asked, Whole)
      BY DEF PanelInv
    <3>3. TurnsOK(turns', Asked, Whole)
      <4>1. CASE e.is = "chunk" /\ turns' = AppendDelta(turns, e.word)
        BY <4>1, <3>2, <2>1, EventParts, DeltaTurns
      <4>2. CASE e.is = "tool_request" /\ turns' = ToolRequest(turns, e.call)
        BY <4>2, <3>2, <2>1, EventParts, RequestTurns
      <4>3. CASE e.is = "tool_result" /\ turns' = ToolResult(turns, e.call, e.status)
        BY <4>3, <3>2, <2>1, EventParts, ResultTurns
      <4>4. CASE e.is = "done" /\ \E slow \in BOOLEAN : turns' = AnswerTurns(turns, e.words, slow)
        BY <4>4, <3>2, <2>1, EventParts, AnsweredTurns
      <4>5. CASE e.is = "error" /\ turns' = ReplaceThinking(turns, Failure)
        BY <4>5, <3>2, TurnMade, ThinkingReplaced
      <4> QED
        BY <2>3, <4>1, <4>2, <4>3, <4>4, <4>5 DEF Apply
    <3> QED
      BY <1>1, <3>1, <3>3
  <2> QED
    BY <2>2, <2>3 DEF HearEvent
<1>5. PanelTypes'
  BY <1>4 DEF HearEvent, daemonVars, PanelInv, PanelTypes
<1>6. WholeInv'
  BY <1>1, <1>2, <1>3 DEF HearEvent, daemonVars, PanelInv, WholeInv
<1> QED
  BY <1>4, <1>5, <1>6 DEF PanelInv, TurnsOK

LEMMA AcceptStep == ASSUME PanelInv, NEW q \in Questions, Accept(q) PROVE PanelInv'
<1>1. Asked' = Asked /\ run[q] = "none"
  BY DEF Accept, Asked, PanelInv, PanelTypes, WholeInv
<1>2. Whole' = Whole
  <2>1. {p \in Questions : run'[p] = "ended"} = {p \in Questions : run[p] = "ended"} /\ said' = said
    BY <1>1 DEF Accept, PanelInv, PanelTypes
  <2> QED
    BY <2>1 DEF Whole
<1>3. TurnsOK(turns', Asked', Whole')
  BY <1>1, <1>2 DEF Accept, PanelInv
<1>4. PanelTypes'
  BY DEF Accept, PanelInv, PanelTypes
<1>5. WholeInv'
  BY <1>1, <1>2 DEF Accept, PanelInv, PanelTypes, WholeInv
<1> QED
  BY <1>3, <1>4, <1>5 DEF PanelInv, TurnsOK

(* A broadcast that is no end, or an end with the words of its request.    *)
LEMMA Broadcasts ==
    ASSUME WholeInv, NEW e \in PanelEvent, NEW whole, Whole \subseteq whole,
           e.is = "done" => e.words \in whole, Broadcast(e)
    PROVE  wire' \in Seq(PanelEvent) /\ \A i \in DOMAIN wire' : wire'[i].is = "done" => wire'[i].words \in whole
<1>1. wire \in Seq(PanelEvent) /\ wire' = Append(wire, e) /\ Len(wire) \in Nat
  BY DEF WholeInv, Broadcast
<1>2. /\ wire' \in Seq(PanelEvent) /\ DOMAIN wire' = 1..(Len(wire) + 1) /\ wire'[Len(wire) + 1] = e
      /\ \A i \in 1..Len(wire) : wire'[i] = wire[i] /\ i \in DOMAIN wire
  BY <1>1
<1>3. \A i \in DOMAIN wire' : i \in 1..Len(wire) \/ i = Len(wire) + 1
  BY <1>1, <1>2
<1> QED
  BY <1>2, <1>3 DEF WholeInv

LEMMA SayStep == ASSUME PanelInv, NEW q \in Questions, Say(q) PROVE PanelInv'
<1>1. PICK b \in BOOLEAN : LET w == [of |-> q, n |-> Len(said[q]) + 1, blank |-> b]
                           IN /\ said' = [said EXCEPT ![q] = Append(@, w)]
                              /\ Broadcast([is |-> "chunk", of |-> q, word |-> w])
  BY DEF Say
<1> DEFINE w == [of |-> q, n |-> Len(said[q]) + 1, blank |-> b]
           e == [is |-> "chunk", of |-> q, word |-> w]
<1>2. said[q] \in Seq(Words) /\ Len(said[q]) \in Nat /\ MaxWords[q] \in Nat
  BY PanelLimits DEF PanelInv, PanelTypes
<1>3. w \in Words /\ e \in PanelEvent /\ e.is = "chunk"
  BY <1>2 DEF Words, PanelEvent
<1>4. Asked' = Asked
  BY DEF Say, Asked
<1>5. Whole' = Whole
  <2>1. \A p \in Questions : run[p] = "ended" => said'[p] = said[p]
    BY <1>1 DEF Say, PanelInv, PanelTypes
  <2>2. Whole' = {said'[p] : p \in {p \in Questions : run[p] = "ended"}}
    BY DEF Say, Whole
  <2> QED
    BY <2>1, <2>2 DEF Whole
<1>6. said' \in [Questions -> Seq(Words)] /\ \A p \in Questions : Len(said'[p]) <= MaxWords[p]
  <2>1. Append(said[q], w) \in Seq(Words) /\ Len(Append(said[q], w)) = Len(said[q]) + 1 /\ Len(said[q]) < MaxWords[q]
    BY <1>2, <1>3 DEF Say
  <2>2. said' = [said EXCEPT ![q] = Append(said[q], w)]
    BY <1>1
  <2> HIDE DEF w
  <2>3. said' \in [Questions -> Seq(Words)] /\ said'[q] = Append(said[q], w) /\ \A p \in Questions \ {q} : said'[p] = said[p]
    BY <2>1, <2>2 DEF PanelInv, PanelTypes
  <2>4. Len(said'[q]) <= MaxWords[q]
    BY <2>1, <2>3, <1>2
  <2> QED
    BY <2>3, <2>4 DEF PanelInv, PanelTypes
<1>7. PanelTypes'
  BY <1>6 DEF Say, PanelInv, PanelTypes
<1>8. WholeInv'
  <2>1. Broadcast(e)
    BY <1>1
  <2> HIDE DEF e
  <2>2. wire' \in Seq(PanelEvent) /\ \A i \in DOMAIN wire' : wire'[i].is = "done" => wire'[i].words \in Whole
    BY <1>3, <2>1, Broadcasts DEF PanelInv
  <2> QED
    BY <2>2, <1>5 DEF Say, PanelInv, WholeInv
<1>9. TurnsOK(turns', Asked', Whole')
  BY <1>4, <1>5 DEF Say, PanelInv
<1> QED
  BY <1>7, <1>8, <1>9 DEF PanelInv, TurnsOK

LEMMA CallStep == ASSUME PanelInv, NEW q \in Questions, CallTool(q) \/ ToolEnds(q) PROVE PanelInv'
<1>1. Asked' = Asked
  BY DEF CallTool, ToolEnds, Asked
<1>2. Whole' = Whole
  <2>1. {p \in Questions : run'[p] = "ended"} = {p \in Questions : run[p] = "ended"} /\ said' = said
    BY DEF CallTool, ToolEnds, PanelInv, PanelTypes
  <2> QED
    BY <2>1 DEF Whole
<1>3. uses[q] \in Nat /\ MaxToolUse[q] \in Nat
  BY PanelLimits DEF PanelInv, PanelTypes
<1>4. \E e \in PanelEvent : e.is # "done" /\ Broadcast(e)
  <2>1. CASE CallTool(q)
    <3>1. [is |-> "tool_request", of |-> q, call |-> <<q, uses[q] + 1>>] \in PanelEvent
      BY <1>3 DEF PanelEvent, ToolCalls
    <3> QED
      BY <2>1, <3>1 DEF CallTool
  <2>2. CASE ToolEnds(q)
    <3>1. \A s \in Statuses \ {"waiting"} :
              [is |-> "tool_result", of |-> q, call |-> <<q, uses[q]>>, status |-> s] \in PanelEvent
      BY <1>3 DEF PanelEvent, ToolCalls
    <3> QED
      BY <2>2, <3>1 DEF ToolEnds
  <2> QED
    BY <2>1, <2>2
<1>5. wire' \in Seq(PanelEvent) /\ \A i \in DOMAIN wire' : wire'[i].is = "done" => wire'[i].words \in Whole
  BY <1>4, Broadcasts DEF PanelInv
<1>6. uses' \in [Questions -> Nat] /\ \A p \in Questions : uses'[p] <= MaxToolUse[p]
  <2>1. CASE ToolEnds(q)
    BY <2>1 DEF ToolEnds, PanelInv, PanelTypes
  <2>2. CASE CallTool(q)
    <3>1. uses' = [uses EXCEPT ![q] = uses[q] + 1] /\ uses[q] < MaxToolUse[q]
      BY <2>2 DEF CallTool
    <3>2. uses[q] + 1 \in Nat /\ uses[q] + 1 <= MaxToolUse[q] /\ uses \in [Questions -> Nat]
      BY <1>3, <3>1 DEF PanelInv, PanelTypes
    <3> QED
      BY <3>1, <3>2 DEF PanelInv, PanelTypes
  <2> QED
    BY <2>1, <2>2
<1>7. PanelTypes'
  BY <1>6 DEF CallTool, ToolEnds, PanelInv, PanelTypes
<1>8. WholeInv'
  BY <1>2, <1>5 DEF CallTool, ToolEnds, PanelInv, PanelTypes, WholeInv
<1>9. TurnsOK(turns', Asked', Whole')
  BY <1>1, <1>2 DEF CallTool, ToolEnds, PanelInv
<1> QED
  BY <1>7, <1>8, <1>9 DEF PanelInv, TurnsOK

LEMMA EndStep == ASSUME PanelInv, NEW q \in Questions, EndRequest(q) PROVE PanelInv'
<1>1. Asked' = Asked
  BY DEF EndRequest, Asked
<1>2. Whole \subseteq Whole' /\ said[q] \in Whole'
  <2>1. {p \in Questions : run'[p] = "ended"} = {p \in Questions : run[p] = "ended"} \cup {q} /\ said' = said
    BY DEF EndRequest, PanelInv, PanelTypes
  <2> QED
    BY <2>1 DEF Whole
<1>3. \E e \in PanelEvent : (e.is = "done" => e.words \in Whole') /\ Broadcast(e)
  <2>1. [is |-> "done", of |-> q, words |-> said[q]] \in PanelEvent /\ [is |-> "error", of |-> q] \in PanelEvent
    BY DEF PanelEvent, PanelInv, PanelTypes
  <2> QED
    BY <1>2, <2>1 DEF EndRequest
<1>4. wire' \in Seq(PanelEvent) /\ \A i \in DOMAIN wire' : wire'[i].is = "done" => wire'[i].words \in Whole'
  BY <1>2, <1>3, Broadcasts DEF PanelInv
<1>5. PanelTypes'
  BY DEF EndRequest, PanelInv, PanelTypes
<1>6. WholeInv'
  BY <1>4 DEF EndRequest, PanelInv, PanelTypes, WholeInv
<1>7. TurnsOK(turns', Asked', Whole')
  BY <1>1, <1>2, TurnsStay DEF EndRequest, PanelInv
<1> QED
  BY <1>5, <1>6, <1>7 DEF PanelInv, TurnsOK

LEMMA PanelGoes == PanelInv /\ [PanelNext]_panelVars => PanelInv'
<1> SUFFICES ASSUME PanelInv, [PanelNext]_panelVars PROVE PanelInv'
  OBVIOUS
<1>1. CASE UNCHANGED panelVars
  BY <1>1 DEF panelVars, daemonVars, PanelInv, PanelTypes, TurnsOK, WholeInv, Asked, Whole
<1>2. CASE PanelNext
  BY <1>2, AskStep, ExplainStep, ReplyStep, HearStep, AcceptStep, SayStep, CallStep, EndStep DEF PanelNext, Works
<1> QED
  BY <1>1, <1>2

-----------------------------------------------------------------------------
(* What the history is made of.                                            *)
LEMMA Resent ==
    ASSUME PanelInv, NEW n \in Counted
    PROVE  \E j \in DOMAIN turns : /\ j < n /\ turns[j].is = "user" /\ QuestionOf(n) = turns[j].of
                                   /\ \A k \in DOMAIN turns : j < k /\ k < n => turns[k].is \notin Settles
<1>1. n \in DOMAIN turns /\ DOMAIN turns = 1..Len(turns) /\ Len(turns) \in Nat
  BY DEF Counted, PanelInv, TurnsOK
<1>2. PICK j \in 1..(n - 1) : turns[j].is = "user" /\ \A k \in (j + 1)..(n - 1) : turns[k].is \notin Settles
  BY DEF Counted, Pending
<1> DEFINE Asks(i) == turns[i].is = "user" /\ \A k \in (i + 1)..(n - 1) : turns[k].is # "user"
<1>3. Asks(j)
  BY <1>2 DEF Settles
<1>4. \A i \in 1..(n - 1) : Asks(i) => i = j
  <2>1. SUFFICES ASSUME NEW i \in 1..(n - 1), Asks(i), i # j PROVE FALSE
    OBVIOUS
  <2>2. i < j => j \in (i + 1)..(n - 1)
    BY <1>1
  <2>3. j < i => i \in (j + 1)..(n - 1)
    BY <1>1
  <2>4. i < j \/ j < i
    BY <2>1, <1>1
  <2> QED
    BY <2>1, <2>2, <2>3, <2>4, <1>2, <1>3
<1>5. (CHOOSE i \in 1..(n - 1) : Asks(i)) = j
  BY <1>3, <1>4
<1>6. QuestionOf(n) = turns[j].of
  BY <1>5 DEF QuestionOf
<1>7. j \in DOMAIN turns /\ j < n
  BY <1>1
<1>8. \A k \in DOMAIN turns : j < k /\ k < n => k \in (j + 1)..(n - 1)
  BY <1>1
<1> QED
  BY <1>2, <1>6, <1>7, <1>8

LEMMA PanelResends == PanelInv => HistoryIsWhole
<1> SUFFICES ASSUME PanelInv PROVE HistoryIsWhole
  OBVIOUS
<1>1. /\ DOMAIN History = Counted /\ Counted \subseteq DOMAIN turns /\ DOMAIN turns = 1..Len(turns) /\ Len(turns) \in Nat
      /\ turns \in Seq(Turn)
      /\ \A n \in Counted : /\ History[n].question = QuestionOf(n) /\ History[n].answer = turns[n].transcript
                            /\ turns[n].is = "answer"
  BY DEF History, Counted, PanelInv, TurnsOK
<1>2. \A i, j \in DOMAIN turns : turns[i].is = "user" /\ turns[j].is = "user" /\ turns[i].of = turns[j].of => i = j
  <2>1. SUFFICES ASSUME NEW i \in DOMAIN turns, NEW j \in DOMAIN turns, turns[i].is = "user", turns[j].is = "user",
                        turns[i].of = turns[j].of
                 PROVE  i = j
    OBVIOUS
  <2>2. \A t \in Turn : t.is = "user" => t = [is |-> "user", of |-> t.of]
    BY DEF Turn
  <2>3. turns[i] \in Turn /\ turns[j] \in Turn
    BY <1>1
  <2>4. turns[i] = turns[j]
    BY <2>1, <2>2, <2>3
  <2> QED
    BY <2>1, <2>4 DEF PanelInv, TurnsOK
<1>3. \A n \in DOMAIN History : \E q \in Questions : run[q] = "ended" /\ History[n].answer = said[q]
  <2>1. \A n \in Counted : turns[n].transcript \in Whole
    BY <1>1 DEF PanelInv, TurnsOK
  <2> QED
    BY <1>1, <2>1 DEF Whole
<1>4. \A m, n \in DOMAIN History : m < n => History[m].question # History[n].question
  <2>1. SUFFICES ASSUME NEW m \in Counted, NEW n \in Counted, m < n, QuestionOf(m) = QuestionOf(n) PROVE FALSE
    BY <1>1
  <2>2. PICK i \in DOMAIN turns : i < m /\ turns[i].is = "user" /\ QuestionOf(m) = turns[i].of
    BY Resent
  <2>3. PICK j \in DOMAIN turns : /\ j < n /\ turns[j].is = "user" /\ QuestionOf(n) = turns[j].of
                                  /\ \A k \in DOMAIN turns : j < k /\ k < n => turns[k].is \notin Settles
    BY Resent
  <2>4. i = j
    BY <1>2, <2>1, <2>2, <2>3
  <2> QED
    BY <1>1, <2>1, <2>2, <2>3, <2>4 DEF Settles
<1>5. \A m, n \in DOMAIN History : m # n => History[m].question # History[n].question
  <2>1. \A m, n \in Counted : m # n => m < n \/ n < m
    BY <1>1
  <2> QED
    BY <1>1, <1>4, <2>1
<1>6. \A n \in DOMAIN History : \A i \in DOMAIN turns :
          turns[i] = User(History[n].question) => \E j \in (i + 1)..Len(turns) : turns[j].is = "answer"
  <2>1. SUFFICES ASSUME NEW n \in Counted, NEW i \in DOMAIN turns, turns[i] = User(QuestionOf(n))
                 PROVE  \E j \in (i + 1)..Len(turns) : turns[j].is = "answer"
    BY <1>1
  <2>2. PICK j \in DOMAIN turns : j < n /\ turns[j].is = "user" /\ QuestionOf(n) = turns[j].of
    BY Resent
  <2>3. turns[i].is = "user" /\ turns[i].of = QuestionOf(n)
    BY <2>1 DEF User
  <2>4. i = j
    BY <1>2, <2>2, <2>3
  <2>5. n \in (i + 1)..Len(turns)
    BY <1>1, <2>2, <2>4
  <2> QED
    BY <1>1, <2>5
<1> QED
  BY <1>3, <1>5, <1>6 DEF HistoryIsWhole

LEMMA PanelTyped == PanelInv => PanelTypeOK
<1> SUFFICES ASSUME PanelInv PROVE PanelTypeOK
  OBVIOUS
<1>1. \A i \in DOMAIN turns : turns[i] \in Turn
  BY DEF PanelInv, TurnsOK
<1>2. \A i \in DOMAIN turns :
          /\ turns[i].is \in {"user", "text", "tool", "thought", "thinking", "streaming", "answer", "failure"}
          /\ turns[i].is \in {"thinking", "streaming"} => i = Len(turns)
  BY <1>1, TurnParts DEF PanelInv, TurnsOK
<1>3. \A q \in Questions : uses[q] \in 0..MaxToolUse[q]
  BY PanelLimits DEF PanelInv, PanelTypes
<1> QED
  BY <1>2, <1>3 DEF PanelTypeOK, PanelInv, PanelTypes

(* What is in flight, what was asked and what was answered stay as they    *)
(* are on every way through the panel: the inductive invariant.            *)
THEOREM PanelInvariant == PanelSpec => []PanelInv
<1> QED
  BY PanelStarts, PanelGoes, PTL DEF PanelSpec

(* Types of the panel; only the last turn is in flight.                    *)
THEOREM PanelTypeCorrect == PanelSpec => []PanelTypeOK
<1> QED
  BY PanelInvariant, PanelTyped, PTL

(* AgentConversation.history: whatever order replies and events come in,   *)
(* what the next question is sent with are whole answers, each once.       *)
THEOREM HistoryIsWholeHolds == PanelSpec => []HistoryIsWhole
<1> QED
  BY PanelInvariant, PanelResends, PTL

-----------------------------------------------------------------------------
(***************************************************************************)
(* FlattenSeq, one sequence of sequences after another.                    *)
(***************************************************************************)
Flattens(f, ss) == f = [i \in 1..Len(ss) |-> IF i = 1 THEN ss[i] ELSE f[i - 1] \o ss[i]]

(* Of a subset of numbers, the least.                                      *)
LEMMA FirstOf == ASSUME NEW S \in SUBSET Nat, S # {} PROVE \E i \in S : \A j \in S : ~(j < i)
<1>1. PICK i \in S : \A j \in S : ~(<<j, i>> \in OpToRel(<, Nat))
  BY NatLessThanWellFounded, WFMin
<1> QED
  BY <1>1 DEF OpToRel

LEMMA FlattenAlike ==
    ASSUME NEW V, NEW ss \in Seq(Seq(V)), NEW t \in Seq(V), NEW f, NEW g,
           Flattens(f, ss), Flattens(g, Append(ss, t))
    PROVE  \A i \in 1..Len(ss) : g[i] = f[i]
<1> DEFINE us == Append(ss, t)
           Apart == {i \in 1..Len(ss) : g[i] # f[i]}
<1>1. Len(ss) \in Nat /\ Len(us) = Len(ss) + 1 /\ \A i \in 1..Len(ss) : us[i] = ss[i] /\ i \in 1..Len(us)
  OBVIOUS
<1>2. SUFFICES ASSUME Apart # {} PROVE FALSE
  OBVIOUS
<1>3. PICK i \in Apart : \A j \in Apart : ~(j < i)
  <2>1. Apart \in SUBSET Nat
    BY <1>1
  <2> HIDE DEF Apart
  <2> QED
    BY <1>2, <2>1, FirstOf
<1>4. f[i] = (IF i = 1 THEN ss[i] ELSE f[i - 1] \o ss[i]) /\ g[i] = (IF i = 1 THEN us[i] ELSE g[i - 1] \o us[i])
  BY <1>1 DEF Flattens
<1>5. CASE i = 1
  BY <1>1, <1>4, <1>5
<1>6. CASE i # 1
  <2>1. i - 1 \in 1..Len(ss) /\ i - 1 < i
    BY <1>1, <1>6
  <2>2. g[i - 1] = f[i - 1]
    BY <1>3, <2>1
  <2> QED
    BY <1>1, <1>4, <1>6, <2>2
<1> QED
  BY <1>5, <1>6

LEMMA FlattenExtends ==
    ASSUME NEW V, NEW ss \in Seq(Seq(V)), NEW t \in Seq(V), NEW f, ss # <<>>, Flattens(f, ss)
    PROVE  Flattens([i \in 1..(Len(ss) + 1) |-> IF i = Len(ss) + 1 THEN f[Len(ss)] \o t ELSE f[i]], Append(ss, t))
<1> DEFINE us == Append(ss, t)
           g == [i \in 1..(Len(ss) + 1) |-> IF i = Len(ss) + 1 THEN f[Len(ss)] \o t ELSE f[i]]
<1>1. /\ Len(ss) \in Nat /\ Len(ss) > 0 /\ Len(us) = Len(ss) + 1 /\ us[Len(ss) + 1] = t
      /\ \A i \in 1..Len(ss) : us[i] = ss[i]
  OBVIOUS
<1>2. \A i \in 1..Len(us) : g[i] = (IF i = 1 THEN us[i] ELSE g[i - 1] \o us[i])
  <2> SUFFICES ASSUME NEW i \in 1..Len(us) PROVE g[i] = (IF i = 1 THEN us[i] ELSE g[i - 1] \o us[i])
    OBVIOUS
  <2>1. CASE i = Len(ss) + 1
    <3>1. i # 1 /\ i - 1 = Len(ss) /\ i - 1 \in 1..(Len(ss) + 1) /\ Len(ss) # Len(ss) + 1
      BY <1>1, <2>1
    <3>2. g[i] = f[Len(ss)] \o t /\ g[i - 1] = f[Len(ss)]
      BY <1>1, <2>1, <3>1
    <3> QED
      BY <1>1, <2>1, <3>1, <3>2
  <2>2. CASE i # Len(ss) + 1
    <3>0. i \in 1..Len(ss)
      BY <1>1, <2>2
    <3>4. g[i] = f[i]
      BY <1>1, <2>2
    <3>5. f[i] = (IF i = 1 THEN ss[i] ELSE f[i - 1] \o ss[i])
      <4>1. f = [k \in 1..Len(ss) |-> IF k = 1 THEN ss[k] ELSE f[k - 1] \o ss[k]]
        BY DEF Flattens
      <4> HIDE DEF g
      <4> QED
        BY <4>1, <3>0
    <3>1. i \in 1..Len(ss) /\ g[i] = f[i] /\ f[i] = (IF i = 1 THEN ss[i] ELSE f[i - 1] \o ss[i])
      BY <3>0, <3>4, <3>5
    <3>2. i # 1 => i - 1 \in 1..(Len(ss) + 1) /\ i - 1 # Len(ss) + 1
      BY <1>1, <3>1
    <3>3. i # 1 => g[i - 1] = f[i - 1]
      BY <3>2
    <3> QED
      BY <1>1, <3>1, <3>3
  <2> QED
    BY <2>1, <2>2
<1> QED
  BY <1>1, <1>2 DEF Flattens

(* Some function is the one that FlattenSeq chooses.                       *)
LEMMA FlattenBegins == \A V : \A ss \in Seq(Seq(V)) : Len(ss) = 1 => Flattens([i \in 1..1 |-> ss[1]], ss)
<1> SUFFICES ASSUME NEW V, NEW ss \in Seq(Seq(V)), Len(ss) = 1 PROVE Flattens([i \in 1..1 |-> ss[1]], ss)
  OBVIOUS
<1>1. \A i \in 1..1 : i = 1
  OBVIOUS
<1> QED
  BY <1>1 DEF Flattens

LEMMA FlattenExists == ASSUME NEW V, NEW ss \in Seq(Seq(V)), ss # <<>> PROVE \E f : Flattens(f, ss)
<1> DEFINE Bad == {n \in Nat : n > 0 /\ \E us \in Seq(Seq(V)) : Len(us) = n /\ ~(\E f : Flattens(f, us))}
<1>1. SUFFICES ASSUME Bad # {} PROVE FALSE
  <2>1. Len(ss) \in Nat /\ Len(ss) > 0
    OBVIOUS
  <2> QED
    BY <2>1
<1>2. PICK n \in Bad : \A m \in Bad : ~(m < n)
  <2>1. Bad \in SUBSET Nat
    OBVIOUS
  <2> HIDE DEF Bad
  <2> QED
    BY <1>1, <2>1, FirstOf
<1>3. PICK us \in Seq(Seq(V)) : Len(us) = n /\ ~(\E f : Flattens(f, us))
  OBVIOUS
<1>4. n \in Nat /\ n > 0
  OBVIOUS
<1>5. n # 1
  BY <1>3, FlattenBegins
<1> DEFINE bs == SubSeq(us, 1, n - 1)
<1>6. bs \in Seq(Seq(V)) /\ Len(bs) = n - 1 /\ us = Append(bs, us[n]) /\ us[n] \in Seq(V) /\ bs # <<>>
  <2>1. bs \in Seq(Seq(V)) /\ Len(bs) = n - 1 /\ us[n] \in Seq(V) /\ \A i \in 1..(n - 1) : bs[i] = us[i]
    BY <1>3, <1>4
  <2> HIDE DEF bs
  <2>2. bs # <<>>
    BY <2>1, <1>4, <1>5
  <2>3. us = Append(bs, us[n])
    BY <2>1, <1>3, <1>4
  <2> QED
    BY <2>1, <2>2, <2>3
<1>7. \E f : Flattens(f, bs)
  <2>1. n - 1 \in Nat /\ n - 1 > 0 /\ n - 1 < n
    BY <1>4, <1>5
  <2>2. n - 1 \notin Bad
    BY <1>2, <2>1
  <2> HIDE DEF bs
  <2> QED
    BY <1>6, <2>1, <2>2
<1> HIDE DEF bs, Bad
<1> QED
  BY <1>3, <1>6, <1>7, FlattenExtends

LEMMA FlattenedBy ==
    ASSUME NEW V, NEW ss \in Seq(Seq(V)), ss # <<>>
    PROVE  \E f : Flattens(f, ss) /\ FlattenSeq(ss) = f[Len(ss)]
<1> DEFINE flatten == CHOOSE f : f = [i \in 1..Len(ss) |-> IF i = 1 THEN ss[i] ELSE f[i - 1] \o ss[i]]
<1>1. FlattenSeq(ss) = flatten[Len(ss)]
  BY DEF FlattenSeq
<1>2. Flattens(flatten, ss)
  BY FlattenExists DEF Flattens
<1> QED
  BY <1>1, <1>2

(* What is flattened one by one.                                           *)
LEMMA FlattenNone == FlattenSeq(<<>>) = <<>>
BY DEF FlattenSeq

LEMMA FlattenMore ==
    ASSUME NEW V, NEW ss \in Seq(Seq(V)), NEW t \in Seq(V)
    PROVE  FlattenSeq(Append(ss, t)) = FlattenSeq(ss) \o t
<1> DEFINE us == Append(ss, t)
<1>1. /\ us \in Seq(Seq(V)) /\ us # <<>> /\ Len(us) = Len(ss) + 1 /\ us[Len(us)] = t /\ Len(ss) \in Nat
  <2>1. us \in Seq(Seq(V)) /\ Len(us) = Len(ss) + 1 /\ Len(ss) \in Nat
    OBVIOUS
  <2>2. us[Len(ss) + 1] = t
    OBVIOUS
  <2> HIDE DEF us
  <2>3. us # <<>>
    BY <2>1
  <2> QED
    BY <2>1, <2>2, <2>3
<1> HIDE DEF us
<1>2. PICK g : Flattens(g, us) /\ FlattenSeq(us) = g[Len(us)]
  BY <1>1, FlattenedBy
<1>3. g[Len(us)] = (IF Len(us) = 1 THEN us[Len(us)] ELSE g[Len(us) - 1] \o us[Len(us)])
  <2>1. g = [k \in 1..Len(us) |-> IF k = 1 THEN us[k] ELSE g[k - 1] \o us[k]]
    BY <1>2 DEF Flattens
  <2>2. Len(us) \in 1..Len(us)
    BY <1>1
  <2> QED
    BY <2>1, <2>2
<1>4. CASE ss = <<>>
  <2>1. FlattenSeq(ss) = <<>> /\ Len(us) = 1
    BY <1>1, <1>4, FlattenNone
  <2>2. <<>> \o t = t
    OBVIOUS
  <2> QED
    BY <1>1, <1>2, <1>3, <1>4, <2>1, <2>2 DEF us
<1>5. CASE ss # <<>>
  <2>1. PICK f : Flattens(f, ss) /\ FlattenSeq(ss) = f[Len(ss)]
    BY <1>5, FlattenedBy
  <2>2. g[Len(ss)] = f[Len(ss)]
    <3>1. \A i \in 1..Len(ss) : g[i] = f[i]
      BY <1>2, <2>1, FlattenAlike DEF us
    <3>2. Len(ss) \in 1..Len(ss)
      BY <1>1, <1>5
    <3> QED
      BY <3>1, <3>2
  <2>3. Len(us) # 1 /\ Len(us) - 1 = Len(ss)
    BY <1>1, <1>5
  <2> QED
    BY <1>1, <1>2, <1>3, <2>1, <2>2, <2>3 DEF us
<1> QED
  BY <1>4, <1>5

LEMMA FlattenType ==
    ASSUME NEW V, NEW ss \in Seq(Seq(V))
    PROVE  FlattenSeq(ss) \in Seq(V)
<1> DEFINE Bad == {n \in Nat : \E us \in Seq(Seq(V)) : Len(us) = n /\ FlattenSeq(us) \notin Seq(V)}
<1>1. SUFFICES ASSUME Bad # {} PROVE FALSE
  <2>1. Len(ss) \in Nat
    OBVIOUS
  <2> QED
    BY <2>1
<1>2. PICK n \in Bad : \A m \in Bad : ~(m < n)
  <2>1. Bad \in SUBSET Nat
    OBVIOUS
  <2> HIDE DEF Bad
  <2> QED
    BY <1>1, <2>1, FirstOf
<1>3. PICK us \in Seq(Seq(V)) : Len(us) = n /\ FlattenSeq(us) \notin Seq(V)
  OBVIOUS
<1>4. n \in Nat /\ n # 0
  <2>1. n = 0 => us = <<>>
    BY <1>3
  <2>2. <<>> \in Seq(V)
    OBVIOUS
  <2> QED
    BY <1>3, <2>1, <2>2, FlattenNone
<1> DEFINE bs == SubSeq(us, 1, n - 1)
<1>5. bs \in Seq(Seq(V)) /\ Len(bs) = n - 1 /\ us = Append(bs, us[n]) /\ us[n] \in Seq(V)
  <2>1. bs \in Seq(Seq(V)) /\ Len(bs) = n - 1 /\ us[n] \in Seq(V) /\ \A i \in 1..(n - 1) : bs[i] = us[i]
    BY <1>3, <1>4
  <2> HIDE DEF bs
  <2>2. us = Append(bs, us[n])
    BY <2>1, <1>3, <1>4
  <2> QED
    BY <2>1, <2>2
<1>6. FlattenSeq(bs) \in Seq(V)
  <2>1. n - 1 \in Nat /\ n - 1 < n
    BY <1>4
  <2>2. n - 1 \notin Bad
    BY <1>2, <2>1
  <2> HIDE DEF bs
  <2> QED
    BY <1>5, <2>1, <2>2
<1> HIDE DEF bs, Bad
<1>7. FlattenSeq(us) = FlattenSeq(bs) \o us[n]
  BY <1>5, FlattenMore
<1> QED
  BY <1>3, <1>5, <1>6, <1>7

(***************************************************************************)
(* What turns and events come to, word by word and command by command.     *)
(***************************************************************************)
(* A sequence, or one with one more, by what is at each place.             *)
LEMMA BySeat ==
    ASSUME NEW V, NEW n \in Nat, NEW f, f = [i \in 1..n |-> f[i]], \A i \in 1..n : f[i] \in V
    PROVE  f \in Seq(V) /\ Len(f) = n
<1>1. f \in [1..n -> V]
  OBVIOUS
<1> QED
  BY <1>1

LEMMA OneLonger ==
    ASSUME NEW V, NEW ss \in Seq(V), NEW t \in V, NEW us \in Seq(V), Len(us) = Len(ss) + 1,
           us[Len(ss) + 1] = t, \A i \in 1..Len(ss) : us[i] = ss[i]
    PROVE  us = Append(ss, t)
<1>1. /\ Len(ss) \in Nat /\ Append(ss, t) \in Seq(V) /\ Len(Append(ss, t)) = Len(ss) + 1
      /\ Append(ss, t)[Len(ss) + 1] = t /\ \A i \in 1..Len(ss) : Append(ss, t)[i] = ss[i]
  OBVIOUS
<1>2. \A f \in Seq(V) : f = [i \in 1..Len(f) |-> f[i]]
  OBVIOUS
<1>3. /\ Append(ss, t) = [i \in 1..(Len(ss) + 1) |-> Append(ss, t)[i]]
      /\ us = [i \in 1..(Len(ss) + 1) |-> us[i]]
  BY <1>1, <1>2
<1>4. \A i \in 1..(Len(ss) + 1) : i \in 1..Len(ss) \/ i = Len(ss) + 1
  BY <1>1
<1>5. \A i \in 1..(Len(ss) + 1) : us[i] = Append(ss, t)[i]
  BY <1>1, <1>4
<1> QED
  BY <1>3, <1>5

Bits == Words \cup ToolCalls

LEMMA WordedMore ==
    ASSUME NEW ws \in Seq(Words), NEW w \in Words
    PROVE  Worded(Append(ws, w)) = Worded(ws) \o Worded(<<w>>)
<1> DEFINE one(x) == IF x.blank THEN <<>> ELSE <<x>>
           ss == [i \in DOMAIN ws |-> one(ws[i])]
           us == [i \in DOMAIN Append(ws, w) |-> one(Append(ws, w)[i])]
           vs == [i \in DOMAIN <<w>> |-> one(<<w>>[i])]
<1>1. \A x \in Words : one(x) \in Seq(Words)
  OBVIOUS
<1>5. Worded(ws) = FlattenSeq(ss) /\ Worded(Append(ws, w)) = FlattenSeq(us) /\ Worded(<<w>>) = FlattenSeq(vs)
  BY DEF Worded
<1> HIDE DEF one
<1>9. /\ Len(ws) \in Nat /\ DOMAIN ws = 1..Len(ws) /\ DOMAIN Append(ws, w) = 1..(Len(ws) + 1)
      /\ Append(ws, w)[Len(ws) + 1] = w /\ \A i \in 1..Len(ws) : Append(ws, w)[i] = ws[i] /\ ws[i] \in Words
  OBVIOUS
<1>2. ss \in Seq(Seq(Words)) /\ Len(ss) = Len(ws) /\ \A i \in 1..Len(ws) : ss[i] = one(ws[i])
  <2>1. ss = [i \in 1..Len(ws) |-> ss[i]] /\ \A i \in 1..Len(ws) : ss[i] = one(ws[i])
    BY <1>9
  <2>2. \A i \in 1..Len(ws) : ss[i] \in Seq(Words)
    BY <1>1, <1>9, <2>1
  <2> HIDE DEF ss
  <2> QED
    BY <1>9, <2>1, <2>2, BySeat
<1>3. us = Append(ss, one(w))
  <2>1. us = [i \in 1..(Len(ws) + 1) |-> us[i]] /\ us[Len(ws) + 1] = one(w)
    BY <1>9
  <2>2. \A i \in 1..Len(ws) : us[i] = ss[i]
    BY <1>2, <1>9
  <2>3. \A i \in 1..(Len(ws) + 1) : us[i] \in Seq(Words)
    <3>1. \A i \in 1..(Len(ws) + 1) : i \in 1..Len(ws) \/ i = Len(ws) + 1
      BY <1>9
    <3>2. \A i \in 1..Len(ws) : ss[i] \in Seq(Words)
      BY <1>1, <1>2, <1>9
    <3> HIDE DEF us, ss
    <3> QED
      BY <1>1, <2>1, <2>2, <3>1, <3>2
  <2> HIDE DEF us, ss
  <2>4. us \in Seq(Seq(Words)) /\ Len(us) = Len(ws) + 1
    BY <1>9, <2>1, <2>3, BySeat
  <2> QED
    BY <1>1, <1>2, <2>1, <2>2, <2>4, OneLonger
<1>4. vs = Append(<<>>, one(w))
  <2>1. DOMAIN <<w>> = 1..1 /\ \A i \in 1..1 : i = 1 /\ <<w>>[i] = w
    OBVIOUS
  <2>2. vs = [i \in 1..1 |-> one(w)]
    BY <2>1
  <2>3. Append(<<>>, one(w)) = [i \in 1..1 |-> one(w)]
    OBVIOUS
  <2> QED
    BY <2>2, <2>3
<1>6. one(w) \in Seq(Words) /\ <<>> \in Seq(Seq(Words)) /\ <<>> \o one(w) = one(w)
  BY <1>1
<1> HIDE DEF ss, us, vs
<1>7. FlattenSeq(us) = FlattenSeq(ss) \o one(w)
  BY <1>2, <1>3, <1>6, FlattenMore
<1>8. FlattenSeq(vs) = <<>> \o one(w)
  BY <1>4, <1>6, FlattenMore, FlattenNone
<1> QED
  BY <1>5, <1>6, <1>7, <1>8

LEMMA WordedType == ASSUME NEW ws \in Seq(Words) PROVE Worded(ws) \in Seq(Words)
<1> DEFINE ss == [i \in DOMAIN ws |-> IF ws[i].blank THEN <<>> ELSE <<ws[i]>>]
<1>1. Len(ws) \in Nat /\ DOMAIN ws = 1..Len(ws) /\ \A i \in 1..Len(ws) : ws[i] \in Words
  OBVIOUS
<1>2. ss = [i \in 1..Len(ws) |-> ss[i]]
  BY <1>1
<1>3. \A i \in 1..Len(ws) : ss[i] \in Seq(Words)
  BY <1>1
<1>4. Worded(ws) = FlattenSeq(ss)
  BY DEF Worded
<1> HIDE DEF ss
<1>5. ss \in Seq(Seq(Words))
  BY <1>1, <1>2, <1>3, BySeat
<1> QED
  BY <1>4, <1>5, FlattenType

LEMMA WordedNone == Worded(<<>>) = <<>>
<1>1. [i \in DOMAIN <<>> |-> IF <<>>[i].blank THEN <<>> ELSE <<<<>>[i]>>] = <<>>
  <2>1. DOMAIN <<>> = {}
    OBVIOUS
  <2>2. DOMAIN <<>> = 1..0
    OBVIOUS
  <2>3. \A f : f = [i \in 1..0 |-> f[i]] => f = <<>>
    OBVIOUS
  <2> QED
    BY <2>2, <2>3
<1> QED
  BY <1>1, FlattenNone DEF Worded

(* What one of them comes to.                                              *)
LEMMA ItemType == ASSUME NEW x \in Turn \cup PanelEvent PROVE Item(x) \in Seq(Bits)
<1>1. \A ws \in Seq(Words) : Worded(ws) \in Seq(Bits)
  BY WordedType DEF Bits
<1>2. CASE x \in Turn
  <2>1. x.is \in {"text", "streaming", "answer"} => x.words \in Seq(Words)
    BY <1>2 DEF Turn
  <2>2. x.is = "tool" => x.call \in ToolCalls
    BY <1>2 DEF Turn
  <2>3. x.is # "chunk" /\ x.is # "tool_request"
    BY <1>2 DEF Turn
  <2>4. Item(x) = (IF x.is \in {"text", "streaming", "answer"} THEN Worded(x.words)
                   ELSE IF x.is = "tool" THEN <<x.call>> ELSE <<>>)
    BY <2>3 DEF Item
  <2>5. x.is = "tool" => <<x.call>> \in Seq(Bits)
    BY <2>2 DEF Bits
  <2>6. <<>> \in Seq(Bits)
    OBVIOUS
  <2>7. x.is \in {"text", "streaming", "answer"} => Worded(x.words) \in Seq(Bits)
    BY <1>1, <2>1
  <2> QED
    BY <2>4, <2>5, <2>6, <2>7
<1>3. CASE x \in PanelEvent
  <2>1. x.is \notin {"text", "streaming", "answer", "tool"}
    BY <1>3 DEF PanelEvent
  <2>2. x.is = "chunk" => x.word \in Words
    BY <1>3 DEF PanelEvent
  <2>3. x.is = "tool_request" => x.call \in ToolCalls
    BY <1>3 DEF PanelEvent
  <2>4. Item(x) = (IF x.is = "chunk" THEN Worded(<<x.word>>) ELSE IF x.is = "tool_request" THEN <<x.call>> ELSE <<>>)
    BY <2>1 DEF Item
  <2>5. x.is = "chunk" => <<x.word>> \in Seq(Words)
    BY <2>2
  <2>6. x.is = "chunk" => Worded(<<x.word>>) \in Seq(Bits)
    BY <1>1, <2>5
  <2>7. x.is = "tool_request" => <<x.call>> \in Seq(Bits)
    BY <2>3 DEF Bits
  <2>8. <<>> \in Seq(Bits)
    OBVIOUS
  <2> QED
    BY <2>4, <2>6, <2>7, <2>8
<1> QED
  BY <1>2, <1>3

LEMMA ItemsMore ==
    ASSUME NEW xs \in Seq(Turn \cup PanelEvent), NEW x \in Turn \cup PanelEvent
    PROVE  Items(Append(xs, x)) = Items(xs) \o Item(x)
<1> DEFINE X == Turn \cup PanelEvent
           ss == [i \in DOMAIN xs |-> Item(xs[i])]
           us == [i \in DOMAIN Append(xs, x) |-> Item(Append(xs, x)[i])]
<1>1. \A y \in X : Item(y) \in Seq(Bits)
  BY ItemType
<1>0. xs \in Seq(X) /\ x \in X
  OBVIOUS
<1> HIDE DEF X
<1>9. /\ Len(xs) \in Nat /\ DOMAIN xs = 1..Len(xs) /\ DOMAIN Append(xs, x) = 1..(Len(xs) + 1)
      /\ Append(xs, x)[Len(xs) + 1] = x /\ \A i \in 1..Len(xs) : Append(xs, x)[i] = xs[i] /\ xs[i] \in X
  BY <1>0
<1>2. ss \in Seq(Seq(Bits)) /\ Len(ss) = Len(xs) /\ \A i \in 1..Len(xs) : ss[i] = Item(xs[i])
  <2>1. ss = [i \in 1..Len(xs) |-> ss[i]] /\ \A i \in 1..Len(xs) : ss[i] = Item(xs[i])
    BY <1>9
  <2>2. \A i \in 1..Len(xs) : ss[i] \in Seq(Bits)
    BY <1>1, <1>9, <2>1
  <2> HIDE DEF ss
  <2> QED
    BY <1>9, <2>1, <2>2, BySeat
<1>3. us = Append(ss, Item(x))
  <2>1. us = [i \in 1..(Len(xs) + 1) |-> us[i]] /\ us[Len(xs) + 1] = Item(x)
    BY <1>9
  <2>2. \A i \in 1..Len(xs) : us[i] = ss[i]
    BY <1>2, <1>9
  <2>3. \A i \in 1..(Len(xs) + 1) : us[i] \in Seq(Bits)
    <3>1. \A i \in 1..(Len(xs) + 1) : i \in 1..Len(xs) \/ i = Len(xs) + 1
      BY <1>9
    <3>2. \A i \in 1..Len(xs) : ss[i] \in Seq(Bits)
      BY <1>1, <1>2, <1>9
    <3> HIDE DEF us, ss
    <3> QED
      BY <1>0, <1>1, <2>1, <2>2, <3>1, <3>2
  <2> HIDE DEF us, ss
  <2>4. us \in Seq(Seq(Bits)) /\ Len(us) = Len(xs) + 1
    BY <1>9, <2>1, <2>3, BySeat
  <2> QED
    BY <1>0, <1>1, <1>2, <2>1, <2>2, <2>4, OneLonger
<1>4. Items(xs) = FlattenSeq(ss) /\ Items(Append(xs, x)) = FlattenSeq(us)
  BY DEF Items
<1>5. Item(x) \in Seq(Bits)
  BY <1>0, <1>1
<1> HIDE DEF ss, us
<1> QED
  BY <1>2, <1>3, <1>4, <1>5, FlattenMore

LEMMA ItemsNone == Items(<<>>) = <<>>
<1>1. [i \in DOMAIN <<>> |-> Item(<<>>[i])] = <<>>
  <2>2. DOMAIN <<>> = 1..0
    OBVIOUS
  <2>3. \A f : f = [i \in 1..0 |-> f[i]] => f = <<>>
    OBVIOUS
  <2> QED
    BY <2>2, <2>3
<1> QED
  BY <1>1, FlattenNone DEF Items

LEMMA ItemsType == ASSUME NEW xs \in Seq(Turn \cup PanelEvent) PROVE Items(xs) \in Seq(Bits)
<1> DEFINE ss == [i \in DOMAIN xs |-> Item(xs[i])]
<1>1. ss \in Seq(Seq(Bits))
  <2>1. \A i \in 1..Len(xs) : xs[i] \in Turn \cup PanelEvent
    OBVIOUS
  <2>2. \A i \in 1..Len(xs) : Item(xs[i]) \in Seq(Bits)
    BY <2>1, ItemType
  <2> QED
    BY <2>2
<1>2. Items(xs) = FlattenSeq(ss)
  BY DEF Items
<1> QED
  BY <1>1, <1>2, FlattenType

-----------------------------------------------------------------------------
(* The turns since the last question.                                      *)
Other(ts, b) == b \in 0..Len(ts) /\ (b # 0 => ts[b].is = "user") /\ \A i \in (b + 1)..Len(ts) : ts[i].is # "user"

LEMMA SinceLast ==
    ASSUME NEW ts \in Seq(Turn), NEW b, Other(ts, b)
    PROVE  Since(ts) = SubSeq(ts, b + 1, Len(ts))
<1>1. Len(ts) \in Nat /\ DOMAIN ts = 1..Len(ts) /\ b \in 0..Len(ts) /\ ts = SubSeq(ts, 1, Len(ts))
  BY DEF Other
<1>2. CASE b = 0
  <2>1. Questioned(ts) = {}
    BY <1>1, <1>2 DEF Questioned, Other
  <2> QED
    BY <1>1, <1>2, <2>1 DEF Since
<1>3. CASE b # 0
  <2>1. b \in Questioned(ts) /\ Questioned(ts) \in SUBSET (1..Len(ts))
    BY <1>1, <1>3 DEF Questioned, Other
  <2>2. \A j \in Questioned(ts) : j <= b
    <3>1. SUFFICES ASSUME NEW j \in Questioned(ts), j > b PROVE FALSE
      BY <1>1, <2>1
    <3>2. j \in (b + 1)..Len(ts) /\ ts[j].is = "user"
      BY <1>1, <2>1, <3>1 DEF Questioned
    <3> QED
      BY <3>2 DEF Other
  <2>3. \A i \in Questioned(ts) : (\A j \in Questioned(ts) : j <= i) => i = b
    BY <1>1, <2>1, <2>2
  <2>4. (CHOOSE i \in Questioned(ts) : \A j \in Questioned(ts) : j <= i) = b
    BY <2>1, <2>2, <2>3
  <2>5. Since(ts) = SubSeq(ts, 1 + b, Len(ts))
    BY <2>1, <2>4 DEF Since
  <2>6. 1 + b = b + 1
    BY <1>1
  <2> QED
    BY <2>5, <2>6
<1> QED
  BY <1>2, <1>3

LEMMA SinceSome == ASSUME NEW ts \in Seq(Turn) PROVE \E b : Other(ts, b)
<1>1. Len(ts) \in Nat /\ DOMAIN ts = 1..Len(ts)
  OBVIOUS
<1>2. CASE Questioned(ts) = {}
  <2>1. Other(ts, 0)
    BY <1>1, <1>2 DEF Other, Questioned
  <2> QED
    BY <2>1
<1>3. CASE Questioned(ts) # {}
  <2>1. Questioned(ts) \in SUBSET (1..Len(ts))
    BY <1>1 DEF Questioned
  <2>2. PICK b \in Questioned(ts) : \A j \in Questioned(ts) : j <= b
    BY <1>1, <1>3, <2>1, LastOf
  <2>3. \A i \in (b + 1)..Len(ts) : ts[i].is # "user"
    BY <1>1, <2>1, <2>2 DEF Questioned
  <2>4. Other(ts, b)
    BY <1>1, <2>1, <2>2, <2>3 DEF Other, Questioned
  <2> QED
    BY <2>4
<1> QED
  BY <1>2, <1>3

LEMMA SinceType == ASSUME NEW ts \in Seq(Turn) PROVE Since(ts) \in Seq(Turn)
<1>1. PICK b : Other(ts, b)
  BY SinceSome
<1>3. b \in 0..Len(ts) /\ Len(ts) \in Nat
  BY <1>1 DEF Other
<1>2. Since(ts) = SubSeq(ts, b + 1, Len(ts)) /\ b \in 0..Len(ts) /\ Len(ts) \in Nat
  BY <1>1, <1>3, SinceLast
<1> QED
  BY <1>2

LEMMA SinceMore ==
    ASSUME NEW ts \in Seq(Turn), NEW t \in Turn
    PROVE  /\ t.is = "user" => Since(Append(ts, t)) = <<>>
           /\ t.is # "user" => Since(Append(ts, t)) = Append(Since(ts), t)
<1> DEFINE us == Append(ts, t)
<1>1. us \in Seq(Turn) /\ Len(us) = Len(ts) + 1 /\ Len(ts) \in Nat
  OBVIOUS
<1>2. us[Len(ts) + 1] = t /\ \A i \in 1..Len(ts) : us[i] = ts[i]
  OBVIOUS
<1>3. ASSUME t.is = "user" PROVE Since(us) = <<>>
  <2> HIDE DEF us
  <2>1. Other(us, Len(ts) + 1)
    BY <1>1, <1>2, <1>3 DEF Other
  <2>2. Since(us) = SubSeq(us, Len(ts) + 1 + 1, Len(us))
    BY <1>1, <2>1, SinceLast
  <2> QED
    BY <1>1, <2>2
<1>4. ASSUME t.is # "user" PROVE Since(us) = Append(Since(ts), t)
  <2>1. PICK b : Other(ts, b)
    BY SinceSome
  <2>2. b \in 0..Len(ts) /\ Since(ts) = SubSeq(ts, b + 1, Len(ts))
    BY <2>1, SinceLast DEF Other
  <2> HIDE DEF us
  <2>3. Other(us, b)
    <3>1. \A i \in (b + 1)..Len(us) : us[i].is # "user"
      <4>1. \A i \in (b + 1)..Len(us) : i = Len(ts) + 1 \/ (i \in (b + 1)..Len(ts) /\ i \in 1..Len(ts))
        BY <1>1, <2>2
      <4> QED
        BY <1>2, <1>4, <2>1, <4>1 DEF Other
    <3>2. b # 0 => us[b].is = "user"
      BY <1>1, <1>2, <2>1, <2>2 DEF Other
    <3> QED
      BY <1>1, <2>2, <3>1, <3>2 DEF Other
  <2>4. Since(us) = SubSeq(us, b + 1, Len(us))
    BY <1>1, <2>3, SinceLast
  <2>5. SubSeq(us, b + 1, Len(us)) = Append(SubSeq(ts, b + 1, Len(ts)), t)
    <3> DEFINE n == Len(ts) - b
               f == SubSeq(ts, b + 1, Len(ts))
               g == SubSeq(us, b + 1, Len(us))
    <3>1. n \in Nat /\ Len(us) - b = n + 1
      BY <1>1, <2>2
    <3>2. f \in Seq(Turn) /\ Len(f) = n /\ \A i \in 1..n : f[i] = ts[b + i]
      BY <1>1, <2>2
    <3>3. g \in Seq(Turn) /\ Len(g) = n + 1 /\ \A i \in 1..(n + 1) : g[i] = us[b + i]
      BY <1>1, <2>2, <3>1
    <3>5. n + 1 \in 1..(n + 1) /\ b + (n + 1) = Len(ts) + 1
      BY <1>1, <2>2, <3>1
    <3>6. \A i \in 1..n : i \in 1..(n + 1) /\ b + i \in 1..Len(ts)
      BY <1>1, <2>2, <3>1
    <3> HIDE DEF f, g, n
    <3>7. g[n + 1] = t /\ \A i \in 1..n : g[i] = f[i]
      BY <1>2, <3>2, <3>3, <3>5, <3>6
    <3>8. g = Append(f, t)
      BY <3>2, <3>3, <3>7, OneLonger
    <3> QED
      BY <3>8 DEF f, g
  <2> QED
    BY <2>2, <2>4, <2>5
<1> QED
  BY <1>3, <1>4

(***************************************************************************)
(* A command is told of with its result, and words and commands stand in   *)
(* their order: while an answer comes in, and later if it had commands.    *)
(***************************************************************************)
OneTold(t, es) == \/ t.status = "waiting" /\ ResultsIn(es, t.call) = {}
                  \/ \E j \in ResultsIn(es, t.call) : es[j].status = t.status
Told(ts, es) == \A i \in DOMAIN ts : ts[i].is = "tool" => OneTold(ts[i], es)
Tools(ts) == \E i \in DOMAIN ts : ts[i].is = "tool"
Placed(ts, es) ==
    (InFlight(ts) \/ Tools(Since(ts))) /\ ~Failed(Since(ts)) => Items(Since(ts)) = Items(es) /\ Told(Since(ts), es)
Splits(ts) == ts # <<>> /\ LastTurn(ts).is = "answer" /\ LastTurn(ts).split => Tools(Since(ts))

Calls(ts) == {ts[i].call : i \in {k \in DOMAIN ts : ts[k].is = "tool"}}
Met(es)   == {es[j].call : j \in {k \in DOMAIN es : es[k].is = "tool_result"}}
Once(ts) == \A i, j \in DOMAIN ts : ts[i].is = "tool" /\ ts[j].is = "tool" /\ ts[i].call = ts[j].call => i = j

(* A turn more.                                                            *)
LEMMA TurnMore ==
    ASSUME NEW xs \in Seq(Turn), NEW t \in Turn
    PROVE  /\ Tools(Append(xs, t)) <=> Tools(xs) \/ t.is = "tool"
           /\ Failed(Append(xs, t)) <=> Failed(xs) \/ t.is = "failure"
           /\ Items(Append(xs, t)) = Items(xs) \o Item(t)
           /\ \A es : Told(Append(xs, t), es) <=> Told(xs, es) /\ (t.is = "tool" => OneTold(t, es))
           /\ Calls(Append(xs, t)) = Calls(xs) \cup (IF t.is = "tool" THEN {t.call} ELSE {})
           /\ Once(xs) /\ (t.is = "tool" => t.call \notin Calls(xs)) => Once(Append(xs, t))
<1> DEFINE us == Append(xs, t)
<1>1. /\ Len(xs) \in Nat /\ DOMAIN xs = 1..Len(xs) /\ DOMAIN us = 1..(Len(xs) + 1)
      /\ us[Len(xs) + 1] = t /\ \A i \in 1..Len(xs) : us[i] = xs[i]
  OBVIOUS
<1>2. /\ \A i \in 1..(Len(xs) + 1) : i \in 1..Len(xs) \/ i = Len(xs) + 1
      /\ \A i \in 1..Len(xs) : i \in 1..(Len(xs) + 1)
      /\ Len(xs) + 1 \in 1..(Len(xs) + 1)
  BY <1>1
<1> HIDE DEF us
<1>3. Tools(us) <=> Tools(xs) \/ t.is = "tool"
  BY <1>1, <1>2, Zenon DEF Tools
<1>4. Failed(us) <=> Failed(xs) \/ t.is = "failure"
  BY <1>1, <1>2, Zenon DEF Failed
<1>5. Items(us) = Items(xs) \o Item(t)
  <2>1. xs \in Seq(Turn \cup PanelEvent) /\ t \in Turn \cup PanelEvent
    OBVIOUS
  <2> QED
    BY <2>1, ItemsMore DEF us
<1>6. \A es : Told(us, es) <=> Told(xs, es) /\ (t.is = "tool" => OneTold(t, es))
  BY <1>1, <1>2 DEF Told
<1>7. Calls(us) = Calls(xs) \cup (IF t.is = "tool" THEN {t.call} ELSE {})
  BY <1>1, <1>2 DEF Calls
<1>8. Once(xs) /\ (t.is = "tool" => t.call \notin Calls(xs)) => Once(us)
  BY <1>1, <1>2 DEF Once, Calls
<1> QED
  BY <1>3, <1>4, <1>5, <1>6, <1>7, <1>8 DEF us

LEMMA PlainMore ==
    ASSUME NEW xs \in Seq(Turn), NEW t \in Turn, t.is # "tool", t.is # "failure"
    PROVE  /\ Tools(Append(xs, t)) <=> Tools(xs)
           /\ Failed(Append(xs, t)) <=> Failed(xs)
           /\ Items(Append(xs, t)) = Items(xs) \o Item(t)
           /\ \A es : Told(Append(xs, t), es) <=> Told(xs, es)
           /\ Calls(Append(xs, t)) = Calls(xs)
           /\ Once(xs) => Once(Append(xs, t))
<1> DEFINE us == Append(xs, t)
<1>1. /\ Tools(us) <=> Tools(xs) \/ t.is = "tool"
      /\ Failed(us) <=> Failed(xs) \/ t.is = "failure"
      /\ Items(us) = Items(xs) \o Item(t)
      /\ \A es : Told(us, es) <=> Told(xs, es) /\ (t.is = "tool" => OneTold(t, es))
      /\ Calls(us) = Calls(xs) \cup (IF t.is = "tool" THEN {t.call} ELSE {})
      /\ Once(xs) /\ (t.is = "tool" => t.call \notin Calls(xs)) => Once(us)
  BY TurnMore
<1> HIDE DEF us
<1>2. Tools(us) <=> Tools(xs)
  BY <1>1
<1>3. Failed(us) <=> Failed(xs)
  BY <1>1
<1>4. \A es : Told(us, es) <=> Told(xs, es)
  BY <1>1
<1>5. Calls(us) = Calls(xs)
  BY <1>1
<1>6. Once(xs) => Once(us)
  BY <1>1
<1> QED
  BY <1>1, <1>2, <1>3, <1>4, <1>5, <1>6 DEF us

LEMMA TurnLess ==
    ASSUME NEW ts \in Seq(Turn), ts # <<>>
    PROVE  /\ Before(ts) \in Seq(Turn) /\ LastTurn(ts) \in Turn /\ ts = Append(Before(ts), LastTurn(ts))
<1>1. ts \in Seq(Turn) /\ Len(ts) \in Nat /\ Len(ts) > 0 /\ LastTurn(ts) \in Turn /\ DOMAIN ts = 1..Len(ts)
  BY DEF LastTurn
<1>2. Before(ts) \in Seq(Turn) /\ Len(Before(ts)) = Len(ts) - 1 /\ \A i \in 1..(Len(ts) - 1) : Before(ts)[i] = ts[i]
  BY <1>1 DEF Before
<1>3. Len(ts) = Len(Before(ts)) + 1 /\ ts[Len(Before(ts)) + 1] = LastTurn(ts)
  BY <1>1, <1>2 DEF LastTurn
<1>4. \A i \in 1..Len(Before(ts)) : ts[i] = Before(ts)[i]
  BY <1>2
<1> QED
  BY <1>1, <1>2, <1>3, <1>4, OneLonger

(* What comes in is the last turn.                                         *)
LEMMA FlightLast ==
    ASSUME NEW ts \in Seq(Turn), InFlight(ts)
    PROVE  /\ ts # <<>> /\ Before(ts) \in Seq(Turn) /\ LastTurn(ts) \in Turn /\ ts = Append(Before(ts), LastTurn(ts))
           /\ Since(Before(ts)) \in Seq(Turn) /\ Since(ts) = Append(Since(Before(ts)), LastTurn(ts))
           /\ LastTurn(ts).is \in {"thinking", "streaming"}
           /\ Partial(ts) \in Seq(Words) /\ Item(LastTurn(ts)) = Worded(Partial(ts))
<1>1. ts # <<>> /\ LastTurn(ts).is \in {"thinking", "streaming"}
  BY DEF InFlight
<1>2. Before(ts) \in Seq(Turn) /\ LastTurn(ts) \in Turn /\ ts = Append(Before(ts), LastTurn(ts))
  BY <1>1, TurnLess
<1>3. Since(Before(ts)) \in Seq(Turn)
  BY <1>2, SinceType
<1>4. Since(ts) = Append(Since(Before(ts)), LastTurn(ts))
  <2>1. LastTurn(ts).is # "user"
    BY <1>1
  <2>2. Since(Append(Before(ts), LastTurn(ts))) = Append(Since(Before(ts)), LastTurn(ts))
    BY <1>2, <2>1, SinceMore
  <2> QED
    BY <1>2, <2>2
<1>5. Partial(ts) \in Seq(Words)
  BY <1>2, TurnParts DEF Partial
<1>6. Item(LastTurn(ts)) = Worded(Partial(ts))
  BY <1>1, WordedNone DEF Item, Partial
<1> QED
  BY <1>1, <1>2, <1>3, <1>4, <1>5, <1>6

LEMMA OnceLess == ASSUME NEW bs \in Seq(Turn), NEW t \in Turn, Once(Append(bs, t)) PROVE Once(bs)
<1>1. /\ Len(bs) \in Nat /\ DOMAIN bs = 1..Len(bs) /\ DOMAIN Append(bs, t) = 1..(Len(bs) + 1)
      /\ \A i \in 1..Len(bs) : Append(bs, t)[i] = bs[i]
  OBVIOUS
<1>2. \A i \in 1..Len(bs) : i \in 1..(Len(bs) + 1)
  BY <1>1
<1> QED
  BY <1>1, <1>2 DEF Once

(* An event more.                                                          *)
LEMMA EventMore ==
    ASSUME NEW es \in Seq(PanelEvent), NEW e \in PanelEvent
    PROVE  /\ Append(es, e) \in Seq(PanelEvent) /\ Items(Append(es, e)) = Items(es) \o Item(e)
           /\ Items(es) \in Seq(Bits)
           /\ Met(Append(es, e)) = Met(es) \cup (IF e.is = "tool_result" THEN {e.call} ELSE {})
           /\ \A t : (e.is # "tool_result" \/ e.call # t.call) => (OneTold(t, es) => OneTold(t, Append(es, e)))
           /\ \A t : e.is = "tool_result" /\ e.call = t.call /\ e.status = t.status => OneTold(t, Append(es, e))
<1> DEFINE us == Append(es, e)
<1>1. /\ Len(es) \in Nat /\ DOMAIN es = 1..Len(es) /\ DOMAIN us = 1..(Len(es) + 1) /\ us \in Seq(PanelEvent)
      /\ us[Len(es) + 1] = e /\ \A i \in 1..Len(es) : us[i] = es[i]
  OBVIOUS
<1>2. /\ \A i \in 1..(Len(es) + 1) : i \in 1..Len(es) \/ i = Len(es) + 1
      /\ \A i \in 1..Len(es) : i \in 1..(Len(es) + 1)
      /\ Len(es) + 1 \in 1..(Len(es) + 1)
  BY <1>1
<1>3. Items(us) = Items(es) \o Item(e) /\ Items(es) \in Seq(Bits)
  <2>1. es \in Seq(Turn \cup PanelEvent) /\ e \in Turn \cup PanelEvent
    OBVIOUS
  <2> QED
    BY <2>1, ItemsMore, ItemsType DEF us
<1> HIDE DEF us
<1>4. Met(us) = Met(es) \cup (IF e.is = "tool_result" THEN {e.call} ELSE {})
  BY <1>1, <1>2 DEF Met
<1>5. ASSUME NEW t, e.is # "tool_result" \/ e.call # t.call, OneTold(t, es) PROVE OneTold(t, us)
  <2>1. ResultsIn(us, t.call) = ResultsIn(es, t.call)
    BY <1>1, <1>2, <1>5 DEF ResultsIn
  <2>2. \A j \in ResultsIn(es, t.call) : us[j] = es[j]
    BY <1>1 DEF ResultsIn
  <2> QED
    BY <1>5, <2>1, <2>2 DEF OneTold
<1>6. ASSUME NEW t, e.is = "tool_result", e.call = t.call, e.status = t.status PROVE OneTold(t, us)
  <2>1. Len(es) + 1 \in ResultsIn(us, t.call)
    BY <1>1, <1>2, <1>6 DEF ResultsIn
  <2> QED
    BY <1>1, <1>6, <2>1 DEF OneTold
<1> QED
  BY <1>1, <1>3, <1>4, <1>5, <1>6 DEF us

LEMMA ToldMore ==
    ASSUME NEW es \in Seq(PanelEvent), NEW e \in PanelEvent, e.is # "tool_result", NEW xs, Told(xs, es)
    PROVE  Told(xs, Append(es, e))
BY EventMore DEF Told

LEMMA Joined == \A a, b, c \in Seq(Bits) : (a \o b) \o c = a \o (b \o c)
OBVIOUS

LEMMA JoinedType == \A a, b \in Seq(Bits) : a \o b \in Seq(Bits) /\ a \o <<>> = a
OBVIOUS

(* appendDelta.                                                            *)
LEMMA DeltaPlaced ==
    ASSUME NEW ts \in Seq(Turn), NEW es \in Seq(PanelEvent), Placed(ts, es), InFlight(ts),
           NEW e \in PanelEvent, e.is = "chunk"
    PROVE  /\ Placed(AppendDelta(ts, e.word), Append(es, e)) /\ Splits(AppendDelta(ts, e.word))
           /\ Calls(AppendDelta(ts, e.word)) \subseteq Calls(ts) /\ (Once(ts) => Once(AppendDelta(ts, e.word)))
<1> DEFINE bs == Before(ts)
           s == Streaming(Append(Partial(ts), e.word))
           us == Append(bs, s)
<1>1. /\ bs \in Seq(Turn) /\ LastTurn(ts) \in Turn /\ ts = Append(bs, LastTurn(ts))
      /\ Since(bs) \in Seq(Turn) /\ Since(ts) = Append(Since(bs), LastTurn(ts))
      /\ LastTurn(ts).is \in {"thinking", "streaming"}
      /\ Partial(ts) \in Seq(Words) /\ Item(LastTurn(ts)) = Worded(Partial(ts))
  BY FlightLast
<1>2. e.word \in Words /\ Append(Partial(ts), e.word) \in Seq(Words)
  BY <1>1, EventParts
<1>3. s \in Turn /\ s.is = "streaming" /\ s.words = Append(Partial(ts), e.word)
  BY <1>2, TurnMade DEF Streaming
<1>4. AppendDelta(ts, e.word) = us
  BY DEF AppendDelta
<1>5. Item(s) = Worded(Partial(ts)) \o Worded(<<e.word>>) /\ Item(e) = Worded(<<e.word>>)
  BY <1>1, <1>2, <1>3, WordedMore DEF Item
<1> HIDE DEF s, us, bs
<1>6. us \in Seq(Turn) /\ Since(us) = Append(Since(bs), s) /\ us # <<>> /\ LastTurn(us) = s
  <2>1. Since(us) = Append(Since(bs), s)
    BY <1>1, <1>3, SinceMore DEF us
  <2>2. us \in Seq(Turn) /\ Len(us) = Len(bs) + 1 /\ Len(bs) \in Nat /\ us[Len(bs) + 1] = s
    BY <1>1, <1>3 DEF us
  <2> QED
    BY <2>1, <2>2 DEF LastTurn
<1>10. /\ Failed(Since(us)) <=> Failed(Since(bs))
       /\ Items(Since(us)) = Items(Since(bs)) \o Item(s)
       /\ Told(Since(us), Append(es, e)) <=> Told(Since(bs), Append(es, e))
  <2>1. s.is # "tool" /\ s.is # "failure"
    BY <1>3
  <2>2. /\ Failed(Append(Since(bs), s)) <=> Failed(Since(bs))
        /\ Items(Append(Since(bs), s)) = Items(Since(bs)) \o Item(s)
        /\ \A fs : Told(Append(Since(bs), s), fs) <=> Told(Since(bs), fs)
    BY <2>1, <1>1, <1>3, PlainMore
  <2>3. Told(Append(Since(bs), s), Append(es, e)) <=> Told(Since(bs), Append(es, e))
    BY <2>2
  <2> QED
    BY <2>2, <2>3, <1>6
<1>11. /\ Failed(Since(ts)) <=> Failed(Since(bs))
       /\ Items(Since(ts)) = Items(Since(bs)) \o Worded(Partial(ts))
       /\ Told(Since(ts), es) <=> Told(Since(bs), es)
  <2>1. LastTurn(ts).is # "tool" /\ LastTurn(ts).is # "failure"
    BY <1>1
  <2> QED
    BY <2>1, <1>1, PlainMore
<1>7. Placed(us, Append(es, e))
  <2>1. SUFFICES ASSUME ~Failed(Since(us)) PROVE Items(Since(us)) = Items(Append(es, e)) /\ Told(Since(us), Append(es, e))
    BY DEF Placed
  <2>2. ~Failed(Since(ts))
    BY <2>1, <1>10, <1>11
  <2>3. Items(Since(ts)) = Items(es) /\ Told(Since(ts), es)
    BY <2>2 DEF Placed
  <2>4. Told(Since(bs), es)
    BY <2>3, <1>11
  <2>5. Told(Since(us), Append(es, e))
    BY <2>4, <1>10, ToldMore
  <2>6. Items(Since(us)) = Items(Append(es, e))
    <3>2. Items(Append(es, e)) = Items(es) \o Worded(<<e.word>>)
      BY <1>5, EventMore
    <3>3. Items(Since(bs)) \in Seq(Bits)
      <4>1. Since(bs) \in Seq(Turn \cup PanelEvent)
        BY <1>1
      <4> QED
        BY <4>1, ItemsType
    <3>4. Worded(Partial(ts)) \in Seq(Bits) /\ Worded(<<e.word>>) \in Seq(Bits)
      <4>1. <<e.word>> \in Seq(Words)
        BY <1>2
      <4>2. Worded(Partial(ts)) \in Seq(Words) /\ Worded(<<e.word>>) \in Seq(Words)
        BY <1>1, <4>1, WordedType
      <4> QED
        BY <4>2 DEF Bits
    <3>5. (Items(Since(bs)) \o Worded(Partial(ts))) \o Worded(<<e.word>>) = Items(Since(bs)) \o (Worded(Partial(ts)) \o Worded(<<e.word>>))
      BY <3>3, <3>4, Joined
    <3> QED
      BY <2>3, <3>2, <3>5, <1>5, <1>10, <1>11
  <2> QED
    BY <2>5, <2>6
<1>8. Splits(us)
  BY <1>3, <1>6 DEF Splits
<1>9. Calls(us) \subseteq Calls(ts) /\ (Once(ts) => Once(us))
  <2>1. Calls(us) = Calls(bs) /\ (Once(bs) => Once(us)) /\ Calls(ts) = Calls(bs)
    BY <1>1, <1>3, TurnMore DEF us
  <2>2. Once(ts) => Once(bs)
    BY <1>1, OnceLess
  <2> QED
    BY <2>1, <2>2
<1> QED
  BY <1>4, <1>7, <1>8, <1>9

LEMMA ToolMore ==
    ASSUME NEW xs \in Seq(Turn), NEW t \in Turn, t.is = "tool"
    PROVE  /\ Tools(Append(xs, t))
           /\ Failed(Append(xs, t)) <=> Failed(xs)
           /\ Items(Append(xs, t)) = Items(xs) \o Item(t)
           /\ \A es : Told(Append(xs, t), es) <=> Told(xs, es) /\ OneTold(t, es)
           /\ Calls(Append(xs, t)) = Calls(xs) \cup {t.call}
           /\ Once(xs) /\ t.call \notin Calls(xs) => Once(Append(xs, t))
<1> DEFINE us == Append(xs, t)
<1>1. /\ Tools(us) <=> Tools(xs) \/ t.is = "tool"
      /\ Failed(us) <=> Failed(xs) \/ t.is = "failure"
      /\ Items(us) = Items(xs) \o Item(t)
      /\ \A es : Told(us, es) <=> Told(xs, es) /\ (t.is = "tool" => OneTold(t, es))
      /\ Calls(us) = Calls(xs) \cup (IF t.is = "tool" THEN {t.call} ELSE {})
      /\ Once(xs) /\ (t.is = "tool" => t.call \notin Calls(xs)) => Once(us)
  BY TurnMore
<1> HIDE DEF us
<1>2. Tools(us)
  BY <1>1
<1>3. Failed(us) <=> Failed(xs)
  BY <1>1
<1>4. \A es : Told(us, es) <=> Told(xs, es) /\ OneTold(t, es)
  BY <1>1
<1>5. Calls(us) = Calls(xs) \cup {t.call}
  BY <1>1
<1>6. Once(xs) /\ t.call \notin Calls(xs) => Once(us)
  BY <1>1
<1> QED
  BY <1>1, <1>2, <1>3, <1>4, <1>5, <1>6 DEF us

(* What the turns since the question are made of is what all turns are.    *)
LEMMA LastAdded ==
    ASSUME NEW xs \in Seq(Turn), NEW t \in Turn
    PROVE  /\ Append(xs, t) \in Seq(Turn) /\ Append(xs, t) # <<>> /\ LastTurn(Append(xs, t)) = t
           /\ InFlight(Append(xs, t)) <=> t.is \in {"thinking", "streaming"}
<1> DEFINE us == Append(xs, t)
<1>1. us \in Seq(Turn) /\ Len(us) = Len(xs) + 1 /\ Len(xs) \in Nat /\ us[Len(xs) + 1] = t
  OBVIOUS
<1> HIDE DEF us
<1>2. us # <<>> /\ LastTurn(us) = t
  BY <1>1 DEF LastTurn
<1> QED
  BY <1>1, <1>2 DEF us, InFlight

LEMMA SinceItems == ASSUME NEW ts \in Seq(Turn)
                    PROVE  Since(ts) \in Seq(Turn) /\ Items(Since(ts)) \in Seq(Bits)
<1>1. Since(ts) \in Seq(Turn)
  BY SinceType
<1>2. Since(ts) \in Seq(Turn \cup PanelEvent)
  BY <1>1
<1> QED
  BY <1>1, <1>2, ItemsType

(* toolRequest.                                                            *)
LEMMA RequestPlaced ==
    ASSUME NEW ts \in Seq(Turn), NEW es \in Seq(PanelEvent), Placed(ts, es), InFlight(ts),
           NEW e \in PanelEvent, e.is = "tool_request", e.call \notin Met(es), e.call \notin Calls(ts), Once(ts)
    PROVE  /\ Placed(ToolRequest(ts, e.call), Append(es, e)) /\ Splits(ToolRequest(ts, e.call))
           /\ Calls(ToolRequest(ts, e.call)) \subseteq Calls(ts) \cup {e.call} /\ Once(ToolRequest(ts, e.call))
<1> DEFINE bs == Before(ts)
           c == e.call
           k == Tool(c)
           s == Spoken(Partial(ts))
           mid == IF Worded(Partial(ts)) = <<>> THEN bs ELSE Append(bs, s)
           us == Append(Append(mid, k), Thinking)
<1>1. /\ bs \in Seq(Turn) /\ LastTurn(ts) \in Turn /\ ts = Append(bs, LastTurn(ts))
      /\ Since(bs) \in Seq(Turn) /\ Since(ts) = Append(Since(bs), LastTurn(ts))
      /\ LastTurn(ts).is \in {"thinking", "streaming"}
      /\ Partial(ts) \in Seq(Words) /\ Item(LastTurn(ts)) = Worded(Partial(ts))
  BY FlightLast
<1>2. /\ s \in Turn /\ s.is = "text" /\ s.words = Partial(ts)
      /\ c \in ToolCalls /\ k \in Turn /\ k.is = "tool" /\ k.call = c /\ k.status = "waiting"
      /\ Thinking \in Turn /\ Thinking.is = "thinking"
  <2>1. c \in ToolCalls
    BY EventParts
  <2> QED
    BY <1>1, <2>1, TurnMade DEF Spoken, Tool
<1>3. ToolRequest(ts, e.call) = us
  <2>1. CASE Worded(Partial(ts)) = <<>>
    <3>1. ToolRequest(ts, c) = bs \o (<<>> \o <<k, Thinking>>)
      BY <2>1 DEF ToolRequest
    <3> HIDE DEF bs, k, s, c
    <3>2. <<>> \o <<k, Thinking>> = <<k, Thinking>>
      OBVIOUS
    <3>3. ToolRequest(ts, c) = Append(Append(bs, k), Thinking)
      BY <3>1, <3>2, <1>1, <1>2, TwoAdded
    <3> QED
      BY <3>3, <2>1 DEF c
  <2>2. CASE Worded(Partial(ts)) # <<>>
    <3>1. ToolRequest(ts, c) = bs \o (<<s>> \o <<k, Thinking>>)
      BY <2>2 DEF ToolRequest
    <3> HIDE DEF bs, k, s, c
    <3>2. ToolRequest(ts, c) = Append(Append(Append(bs, s), k), Thinking)
      BY <3>1, <1>1, <1>2, ThreeAdded
    <3> QED
      BY <3>2, <2>2 DEF c
  <2> QED
    BY <2>1, <2>2
<1>4. Item(s) = Worded(Partial(ts)) /\ Item(k) = <<c>> /\ Item(Thinking) = <<>> /\ Item(e) = <<c>>
  BY <1>2 DEF Item
<1>0. Once(bs) /\ Calls(bs) = Calls(ts)
  <2>1. LastTurn(ts).is # "tool" /\ LastTurn(ts).is # "failure"
    BY <1>1
  <2> HIDE DEF bs
  <2> QED
    BY <2>1, <1>1, OnceLess, PlainMore
<1> HIDE DEF bs, k, s, c
<1>5. /\ mid \in Seq(Turn) /\ Calls(mid) = Calls(ts) /\ Once(mid)
      /\ Failed(Since(mid)) <=> Failed(Since(ts))
      /\ Items(Since(mid)) = Items(Since(ts))
      /\ Told(Since(mid), es) <=> Told(Since(ts), es)
  <2>0. LastTurn(ts).is # "tool" /\ LastTurn(ts).is # "failure" /\ s.is # "user" /\ s.is # "tool" /\ s.is # "failure"
    BY <1>1, <1>2
  <2>1. /\ Failed(Since(ts)) <=> Failed(Since(bs))
        /\ Items(Since(ts)) = Items(Since(bs)) \o Worded(Partial(ts))
        /\ Told(Since(ts), es) <=> Told(Since(bs), es)
    BY <2>0, <1>1, PlainMore
  <2>2. CASE Worded(Partial(ts)) = <<>>
    <3>1. mid = bs
      BY <2>2
    <3>2. Items(Since(bs)) \in Seq(Bits)
      BY <1>1, SinceItems
    <3>3. Items(Since(bs)) \o <<>> = Items(Since(bs))
      BY <3>2, JoinedType
    <3>4. Items(Since(ts)) = Items(Since(bs))
      BY <2>1, <2>2, <3>3
    <3> QED
      BY <3>1, <3>4, <2>1, <1>0, <1>1
  <2>3. CASE Worded(Partial(ts)) # <<>>
    <3>1. mid = Append(bs, s)
      BY <2>3
    <3>2. Since(mid) = Append(Since(bs), s)
      BY <3>1, <2>0, <1>1, <1>2, SinceMore
    <3>3. /\ Failed(Append(Since(bs), s)) <=> Failed(Since(bs))
          /\ Items(Append(Since(bs), s)) = Items(Since(bs)) \o Item(s)
          /\ Told(Append(Since(bs), s), es) <=> Told(Since(bs), es)
      BY <2>0, <1>1, <1>2, PlainMore
    <3>4. Calls(mid) = Calls(bs) /\ Once(mid) /\ mid \in Seq(Turn)
      BY <2>0, <3>1, <1>0, <1>1, <1>2, PlainMore, LastAdded
    <3> HIDE DEF mid
    <3> QED
      BY <3>2, <3>3, <3>4, <2>1, <1>0, <1>4
  <2> QED
    BY <2>2, <2>3
<1> HIDE DEF mid
<1>6. /\ Append(mid, k) \in Seq(Turn) /\ Since(mid) \in Seq(Turn)
      /\ Since(Append(mid, k)) = Append(Since(mid), k) /\ Append(Since(mid), k) \in Seq(Turn)
      /\ us \in Seq(Turn) /\ Since(us) = Append(Append(Since(mid), k), Thinking)
      /\ us # <<>> /\ LastTurn(us) = Thinking
  <2>0. k.is # "user" /\ Thinking.is # "user"
    BY <1>2
  <2>1. Append(mid, k) \in Seq(Turn) /\ Since(mid) \in Seq(Turn)
    BY <1>2, <1>5, LastAdded, SinceType
  <2>2. Since(Append(mid, k)) = Append(Since(mid), k) /\ Append(Since(mid), k) \in Seq(Turn)
    BY <2>0, <2>1, <1>2, <1>5, SinceMore, LastAdded
  <2>3. Since(us) = Append(Since(Append(mid, k)), Thinking)
    BY <2>0, <2>1, <1>2, SinceMore
  <2>4. us \in Seq(Turn) /\ us # <<>> /\ LastTurn(us) = Thinking
    BY <2>1, <1>2, LastAdded
  <2> QED
    BY <2>1, <2>2, <2>3, <2>4
<1>7. /\ Tools(Since(us))
      /\ Failed(Since(us)) <=> Failed(Since(ts))
      /\ Items(Since(us)) = (Items(Since(ts)) \o <<c>>) \o <<>>
      /\ \A fs : Told(Since(us), fs) <=> Told(Since(mid), fs) /\ OneTold(k, fs)
  <2>1. /\ Tools(Append(Since(mid), k))
        /\ Failed(Append(Since(mid), k)) <=> Failed(Since(mid))
        /\ Items(Append(Since(mid), k)) = Items(Since(mid)) \o Item(k)
        /\ \A fs : Told(Append(Since(mid), k), fs) <=> Told(Since(mid), fs) /\ OneTold(k, fs)
    BY <1>2, <1>6, ToolMore
  <2>0. Thinking.is # "tool" /\ Thinking.is # "failure"
    BY <1>2
  <2> DEFINE xs == Append(Since(mid), k)
  <2> HIDE DEF xs
  <2>2. /\ Tools(Append(xs, Thinking)) <=> Tools(xs)
        /\ Failed(Append(xs, Thinking)) <=> Failed(xs)
        /\ Items(Append(xs, Thinking)) = Items(xs) \o Item(Thinking)
        /\ \A fs : Told(Append(xs, Thinking), fs) <=> Told(xs, fs)
    BY <2>0, <1>2, <1>6, PlainMore DEF xs
  <2> HIDE DEF us
  <2>3. Since(us) = Append(xs, Thinking)
    BY <1>6 DEF xs
  <2>4. Tools(Since(us)) /\ (Failed(Since(us)) <=> Failed(Since(ts)))
    BY <2>1, <2>2, <2>3, <1>5 DEF xs
  <2>5. Items(Since(us)) = (Items(Since(ts)) \o <<c>>) \o <<>>
    BY <2>1, <2>2, <2>3, <1>4, <1>5 DEF xs
  <2>6. \A fs : Told(Since(us), fs) <=> Told(Since(mid), fs) /\ OneTold(k, fs)
    BY <2>1, <2>2, <2>3 DEF xs
  <2> QED
    BY <2>4, <2>5, <2>6
<1>8. Calls(us) \subseteq Calls(ts) \cup {c} /\ Once(us)
  <2>1. c \notin Calls(mid) /\ Once(mid)
    BY <1>5 DEF c
  <2>2. Once(Append(mid, k)) /\ Calls(Append(mid, k)) = Calls(ts) \cup {c}
    BY <1>2, <1>5, <2>1, ToolMore
  <2>3. Thinking.is # "tool" /\ Thinking.is # "failure"
    BY <1>2
  <2> QED
    BY <1>2, <1>6, <2>2, <2>3, PlainMore
<1> HIDE DEF us
<1>9. Placed(us, Append(es, e))
  <2>1. SUFFICES ASSUME ~Failed(Since(us)) PROVE Items(Since(us)) = Items(Append(es, e)) /\ Told(Since(us), Append(es, e))
    BY DEF Placed
  <2>2. Items(Since(ts)) = Items(es) /\ Told(Since(ts), es)
    BY <2>1, <1>7 DEF Placed
  <2>3. Items(Since(us)) = Items(Append(es, e))
    <3>0. <<c>> \in Seq(Bits)
      BY <1>2 DEF Bits
    <3>1. Items(Append(es, e)) = Items(es) \o <<c>> /\ Items(es) \in Seq(Bits) /\ <<c>> \in Seq(Bits)
      BY <3>0, <1>4, EventMore
    <3>2. Items(es) \o <<c>> \in Seq(Bits)
      BY <3>1, JoinedType
    <3>3. (Items(es) \o <<c>>) \o <<>> = Items(es) \o <<c>>
      BY <3>2, JoinedType
    <3> QED
      BY <3>1, <3>3, <2>2, <1>7
  <2>4. Told(Since(mid), Append(es, e))
    <3>1. e.is # "tool_result"
      OBVIOUS
    <3> QED
      BY <2>2, <3>1, <1>5, ToldMore
  <2>5. OneTold(k, Append(es, e))
    <3>1. OneTold(k, es)
      <4>1. ResultsIn(es, c) = {}
        BY DEF Met, ResultsIn, c
      <4> QED
        BY <4>1, <1>2 DEF OneTold
    <3>2. e.is # "tool_result"
      OBVIOUS
    <3> QED
      BY <3>1, <3>2, EventMore
  <2> QED
    BY <2>3, <2>4, <2>5, <1>7
<1>10. Splits(us)
  BY <1>7 DEF Splits
<1> QED
  BY <1>3, <1>8, <1>9, <1>10 DEF c

(* A failure, from the daemon or from here.                                *)
LEMMA FailurePlaced ==
    ASSUME NEW ts \in Seq(Turn)
    PROVE  /\ \A es : Placed(ReplaceThinking(ts, Failure), es)
           /\ Splits(ReplaceThinking(ts, Failure))
           /\ Calls(ReplaceThinking(ts, Failure)) \subseteq Calls(ts)
           /\ Once(ts) => Once(ReplaceThinking(ts, Failure))
<1>1. PICK xs \in Seq(Turn) : /\ ReplaceThinking(ts, Failure) = Append(xs, Failure)
                              /\ Calls(xs) = Calls(ts) /\ (Once(ts) => Once(xs))
  <2>1. CASE InFlight(ts)
    <3>1. Before(ts) \in Seq(Turn) /\ LastTurn(ts) \in Turn /\ ts = Append(Before(ts), LastTurn(ts))
          /\ LastTurn(ts).is \in {"thinking", "streaming"}
      BY <2>1, FlightLast
    <3>2. LastTurn(ts).is # "tool" /\ LastTurn(ts).is # "failure"
      BY <3>1
    <3>3. Calls(Append(Before(ts), LastTurn(ts))) = Calls(Before(ts))
      BY <3>1, <3>2, PlainMore
    <3>4. Once(Append(Before(ts), LastTurn(ts))) => Once(Before(ts))
      BY <3>1, OnceLess
    <3>5. ReplaceThinking(ts, Failure) = Append(Before(ts), Failure)
      BY <2>1 DEF ReplaceThinking
    <3> QED
      BY <3>1, <3>3, <3>4, <3>5
  <2>2. CASE ~InFlight(ts)
    BY <2>2 DEF ReplaceThinking
  <2> QED
    BY <2>1, <2>2
<1>2. Failure \in Turn /\ Failure.is = "failure"
  BY TurnMade
<1> DEFINE us == Append(xs, Failure)
<1>3. us \in Seq(Turn) /\ us # <<>> /\ LastTurn(us) = Failure
  BY <1>2, LastAdded
<1>4. Since(us) = Append(Since(xs), Failure) /\ Since(xs) \in Seq(Turn)
  <2>1. Failure.is # "user"
    BY <1>2
  <2> QED
    BY <2>1, <1>2, SinceMore, SinceType
<1>5. Failed(Since(us))
  BY <1>2, <1>4, TurnMore
<1>6. Calls(us) = Calls(xs) /\ (Once(xs) => Once(us))
  <2>1. Failure.is # "tool"
    BY <1>2
  <2> QED
    BY <2>1, <1>2, TurnMore
<1> HIDE DEF us
<1>7. (\A es : Placed(us, es)) /\ Splits(us)
  BY <1>2, <1>3, <1>5 DEF Placed, Splits
<1> QED
  BY <1>1, <1>6, <1>7 DEF us

(* aiDone.                                                                 *)
LEMMA AnswerShape ==
    ASSUME NEW ts \in Seq(Turn), NEW ws \in Seq(Words), NEW slow \in BOOLEAN
    PROVE  \E xs \in {ts, Before(ts), Append(Before(ts), Thought)} :
               LET split == HasToolTurnsInFlight(ts)
               IN /\ AnswerTurns(ts, ws, slow) = Append(xs, Answer(IF split THEN Partial(ts) ELSE ws, ws, split))
                  /\ InFlight(ts) => xs \in {Before(ts), Append(Before(ts), Thought)}
                  /\ ~InFlight(ts) /\ ts # <<>> => xs = ts
<1> DEFINE split == HasToolTurnsInFlight(ts)
           a == Answer(IF split THEN Partial(ts) ELSE ws, ws, split)
           more == slow /\ LastTurn(ts).is = "thinking"
           mid == Append(Before(ts), Thought)
           thought == IF more THEN mid \o <<Thinking>> ELSE ts
<1>1. AnswerTurns(ts, ws, slow) = ReplaceThinking(thought, a)
  BY DEF AnswerTurns
<1> HIDE DEF a
<1>2. Before(ts) \in Seq(Turn)
  <2>1. CASE ts = <<>>
    <3>1. Before(ts) = ts
      BY <2>1 DEF Before
    <3> QED
      BY <3>1
  <2>2. CASE ts # <<>>
    BY <2>2, TurnLess
  <2> QED
    BY <2>1, <2>2
<1>3. CASE more
  <2>1. Thought \in Turn /\ Thinking \in Turn /\ Thinking.is = "thinking"
    BY TurnMade
  <2>2. mid \in Seq(Turn)
    BY <1>2, <2>1
  <2> HIDE DEF mid
  <2>3. mid \o <<Thinking>> = Append(mid, Thinking)
    BY <2>1, <2>2
  <2>4. InFlight(Append(mid, Thinking))
    BY <2>1, <2>2, LastAdded
  <2>5. Before(Append(mid, Thinking)) = mid
    <3>1. Append(mid, Thinking) \in Seq(Turn) /\ Len(Append(mid, Thinking)) = Len(mid) + 1 /\ Len(mid) \in Nat
      BY <2>1, <2>2
    <3>2. Before(Append(mid, Thinking)) = SubSeq(Append(mid, Thinking), 1, Len(mid))
      BY <3>1 DEF Before
    <3>3. SubSeq(Append(mid, Thinking), 1, Len(mid)) = mid
      BY <2>1, <2>2
    <3> QED
      BY <3>2, <3>3
  <2>6. AnswerTurns(ts, ws, slow) = Append(mid, a)
    BY <1>1, <1>3, <2>3, <2>4, <2>5 DEF ReplaceThinking
  <2>7. ~InFlight(ts) => ts = <<>>
    BY <1>3 DEF InFlight
  <2> QED
    BY <2>6, <2>7 DEF mid, a
<1>4. CASE ~more
  <2>1. thought = ts
    BY <1>4
  <2>2. CASE InFlight(ts)
    <3>1. AnswerTurns(ts, ws, slow) = Append(Before(ts), a)
      BY <1>1, <2>1, <2>2 DEF ReplaceThinking
    <3> QED
      BY <2>2, <3>1 DEF a
  <2>3. CASE ~InFlight(ts)
    <3>1. AnswerTurns(ts, ws, slow) = Append(ts, a)
      BY <1>1, <2>1, <2>3 DEF ReplaceThinking
    <3> QED
      BY <2>3, <3>1 DEF a
  <2> QED
    BY <2>2, <2>3
<1> QED
  BY <1>3, <1>4

LEMMA SinceEmpty == Since(<<>>) = <<>> /\ Before(<<>>) = <<>> /\ ~Tools(<<>>) /\ ~InFlight(<<>>) /\ Calls(<<>>) = {} /\ Once(<<>>)
<1>1. DOMAIN <<>> = {}
  OBVIOUS
<1>2. SubSeq(<<>>, 1, 0 - 1) = <<>>
  OBVIOUS
<1> QED
  BY <1>1, <1>2 DEF Since, Questioned, Before, Tools, InFlight, Calls, Once

LEMMA AnswerPlaced ==
    ASSUME NEW ts \in Seq(Turn), NEW es \in Seq(PanelEvent), Placed(ts, es),
           NEW e \in PanelEvent, e.is = "done", NEW slow \in BOOLEAN
    PROVE  LET us == AnswerTurns(ts, e.words, slow)
               fs == IF InFlight(ts) THEN Append(es, e) ELSE es
           IN Placed(us, fs) /\ Splits(us) /\ Calls(us) \subseteq Calls(ts) /\ (Once(ts) => Once(us))
<1> DEFINE split == HasToolTurnsInFlight(ts)
           text == IF split THEN Partial(ts) ELSE e.words
           a == Answer(text, e.words, split)
           us == AnswerTurns(ts, e.words, slow)
           fs == IF InFlight(ts) THEN Append(es, e) ELSE es
<1>1. e.words \in Seq(Words) /\ split \in BOOLEAN /\ (split <=> Tools(Since(ts)))
  BY EventParts DEF HasToolTurnsInFlight, Tools
<1>2. split => ts # <<>> /\ Partial(ts) \in Seq(Words)
  <2>1. split => ts # <<>>
    BY <1>1, SinceEmpty
  <2>2. ts # <<>> => Partial(ts) \in Seq(Words)
    BY TurnLess, TurnParts DEF Partial
  <2> QED
    BY <2>1, <2>2
<1>3. a \in Turn /\ a.is = "answer" /\ a.words = text /\ a.split = split
  <2>1. text \in Seq(Words)
    BY <1>1, <1>2
  <2> HIDE DEF text, split
  <2> QED
    BY <1>1, <2>1, TurnMade DEF Answer
<1>4. PICK xs \in {ts, Before(ts), Append(Before(ts), Thought)} :
          /\ us = Append(xs, a)
          /\ InFlight(ts) => xs \in {Before(ts), Append(Before(ts), Thought)}
          /\ ~InFlight(ts) /\ ts # <<>> => xs = ts
  BY <1>1, AnswerShape
<1>5. Items(fs) = Items(es) /\ fs \in Seq(PanelEvent) /\ \A zs : Told(zs, es) => Told(zs, fs)
  <2>1. Item(e) = <<>> /\ e.is # "tool_result"
    BY DEF Item
  <2>2. Items(Append(es, e)) = Items(es) \o <<>> /\ Items(es) \in Seq(Bits) /\ Append(es, e) \in Seq(PanelEvent)
    BY <2>1, EventMore
  <2>3. Items(es) \o <<>> = Items(es)
    BY <2>2, JoinedType
  <2>4. \A zs : Told(zs, es) => Told(zs, Append(es, e))
    BY <2>1, ToldMore
  <2> QED
    BY <2>2, <2>3, <2>4
<1>6. Thought \in Turn /\ Thought.is = "thought" /\ Item(Thought) = <<>>
  BY TurnMade DEF Item
<1> HIDE DEF us, fs, a
(* Before the answer stand the turns without what came in. *)
<1>7. /\ xs \in Seq(Turn) /\ Calls(xs) \subseteq Calls(ts) /\ (Once(ts) => Once(xs))
      /\ Tools(Since(xs)) <=> Tools(Since(ts))
      /\ Failed(Since(ts)) => Failed(Since(xs))
      /\ Told(Since(ts), fs) => Told(Since(xs), fs)
      /\ split => Items(Since(ts)) = Items(Since(xs)) \o Worded(Partial(ts))
  <2>1. CASE InFlight(ts)
    <3> DEFINE bs == Before(ts)
    <3>1. /\ bs \in Seq(Turn) /\ LastTurn(ts) \in Turn /\ ts = Append(bs, LastTurn(ts))
          /\ Since(bs) \in Seq(Turn) /\ Since(ts) = Append(Since(bs), LastTurn(ts))
          /\ LastTurn(ts).is \in {"thinking", "streaming"}
          /\ Partial(ts) \in Seq(Words) /\ Item(LastTurn(ts)) = Worded(Partial(ts))
      BY <2>1, FlightLast
    <3> HIDE DEF bs
    <3>2. LastTurn(ts).is # "tool" /\ LastTurn(ts).is # "failure"
      BY <3>1
    <3>3. /\ Tools(Since(ts)) <=> Tools(Since(bs))
          /\ Failed(Since(ts)) <=> Failed(Since(bs))
          /\ Items(Since(ts)) = Items(Since(bs)) \o Worded(Partial(ts))
          /\ Told(Since(ts), fs) <=> Told(Since(bs), fs)
      BY <3>1, <3>2, PlainMore
    <3>4. Calls(bs) = Calls(ts) /\ (Once(ts) => Once(bs))
      BY <3>1, <3>2, PlainMore, OnceLess
    <3>5. CASE xs = bs
      BY <3>1, <3>3, <3>4, <3>5
    <3>6. CASE xs = Append(bs, Thought)
      <4>0. Thought.is # "user" /\ Thought.is # "tool" /\ Thought.is # "failure"
        BY <1>6
      <4>1. xs \in Seq(Turn) /\ Calls(xs) = Calls(bs) /\ (Once(bs) => Once(xs)) /\ Since(xs) = Append(Since(bs), Thought)
        <5>1. Append(bs, Thought) \in Seq(Turn) /\ Since(Append(bs, Thought)) = Append(Since(bs), Thought)
          BY <3>1, <4>0, <1>6, LastAdded, SinceMore
        <5>2. Calls(Append(bs, Thought)) = Calls(bs) /\ (Once(bs) => Once(Append(bs, Thought)))
          BY <3>1, <4>0, <1>6, PlainMore
        <5> QED
          BY <3>6, <5>1, <5>2
      <4>2. /\ Tools(Since(xs)) <=> Tools(Since(bs))
            /\ Failed(Since(xs)) <=> Failed(Since(bs))
            /\ Items(Since(xs)) = Items(Since(bs)) \o <<>>
            /\ Told(Since(xs), fs) <=> Told(Since(bs), fs)
        <5>1. /\ Tools(Append(Since(bs), Thought)) <=> Tools(Since(bs))
              /\ Failed(Append(Since(bs), Thought)) <=> Failed(Since(bs))
              /\ Items(Append(Since(bs), Thought)) = Items(Since(bs)) \o Item(Thought)
              /\ \A gs : Told(Append(Since(bs), Thought), gs) <=> Told(Since(bs), gs)
          BY <3>1, <4>0, <1>6, PlainMore
        <5>2. Told(Append(Since(bs), Thought), fs) <=> Told(Since(bs), fs)
          BY <5>1
        <5> QED
          BY <4>1, <5>1, <5>2, <1>6
      <4>3. Items(Since(bs)) \o <<>> = Items(Since(bs))
        BY <3>1, SinceItems, JoinedType
      <4> QED
        BY <3>3, <3>4, <4>1, <4>2, <4>3
    <3> QED
      BY <1>4, <2>1, <3>5, <3>6 DEF bs
  <2>2. CASE ~InFlight(ts) /\ ts # <<>>
    <3>1. xs = ts
      BY <1>4, <2>2
    <3>2. Partial(ts) = <<>>
      BY <2>2 DEF Partial, InFlight
    <3>3. Items(Since(ts)) = Items(Since(ts)) \o Worded(Partial(ts))
      BY <3>2, WordedNone, SinceItems, JoinedType
    <3> QED
      BY <3>1, <3>3
  <2>3. CASE ts = <<>>
    <3>1. ~split /\ Since(ts) = <<>> /\ ~Tools(Since(ts)) /\ Before(ts) = <<>> /\ Calls(ts) = {} /\ Once(ts) /\ ~Failed(Since(ts))
      <4>1. ~Failed(<<>>)
        BY DEF Failed
      <4> QED
        BY <4>1, <2>3, <1>1, SinceEmpty
    <3>2. CASE xs = <<>>
      BY <2>3, <3>1, <3>2
    <3>3. CASE xs = Append(<<>>, Thought)
      <4>0. Thought.is # "user" /\ Thought.is # "tool" /\ Thought.is # "failure" /\ <<>> \in Seq(Turn)
        BY <1>6
      <4>1. xs \in Seq(Turn) /\ Calls(xs) = Calls(<<>>) /\ (Once(<<>>) => Once(xs)) /\ Since(xs) = Append(Since(<<>>), Thought)
        BY <3>3, <4>0, <1>6, PlainMore, LastAdded, SinceMore
      <4>2. (Tools(Since(xs)) <=> Tools(<<>>)) /\ (Told(Since(xs), fs) <=> Told(<<>>, fs))
        <5>1. /\ Tools(Append(<<>>, Thought)) <=> Tools(<<>>)
              /\ \A gs : Told(Append(<<>>, Thought), gs) <=> Told(<<>>, gs)
          BY <4>0, <1>6, PlainMore
        <5>2. Told(Append(<<>>, Thought), fs) <=> Told(<<>>, fs)
          BY <5>1
        <5> QED
          BY <4>1, <5>1, <5>2, SinceEmpty
      <4> QED
        BY <2>3, <3>1, <4>1, <4>2
    <3> QED
      BY <1>4, <2>3, <3>1, <3>2, <3>3
  <2> QED
    BY <2>1, <2>2, <2>3
<1>8. /\ us \in Seq(Turn) /\ us # <<>> /\ LastTurn(us) = a /\ ~InFlight(us)
      /\ Since(us) = Append(Since(xs), a) /\ Since(xs) \in Seq(Turn)
      /\ Calls(us) = Calls(xs) /\ (Once(xs) => Once(us))
  <2>1. a.is # "user" /\ a.is # "tool" /\ a.is # "failure" /\ a.is \notin {"thinking", "streaming"}
    BY <1>3
  <2>2. us \in Seq(Turn) /\ us # <<>> /\ LastTurn(us) = a /\ ~InFlight(us)
    BY <2>1, <1>3, <1>4, <1>7, LastAdded
  <2>3. Since(us) = Append(Since(xs), a) /\ Since(xs) \in Seq(Turn)
    BY <2>1, <1>3, <1>4, <1>7, SinceMore, SinceType
  <2>4. Calls(us) = Calls(xs) /\ (Once(xs) => Once(us))
    BY <2>1, <1>3, <1>4, <1>7, PlainMore
  <2> QED
    BY <2>2, <2>3, <2>4
<1>9. /\ Tools(Since(us)) <=> Tools(Since(xs))
      /\ Failed(Since(us)) <=> Failed(Since(xs))
      /\ Items(Since(us)) = Items(Since(xs)) \o Worded(text)
      /\ Told(Since(us), fs) <=> Told(Since(xs), fs)
  <2>1. a.is # "tool" /\ a.is # "failure" /\ Item(a) = Worded(text)
    BY <1>3 DEF Item
  <2> HIDE DEF text
  <2>2. /\ Tools(Append(Since(xs), a)) <=> Tools(Since(xs))
        /\ Failed(Append(Since(xs), a)) <=> Failed(Since(xs))
        /\ Items(Append(Since(xs), a)) = Items(Since(xs)) \o Item(a)
        /\ \A gs : Told(Append(Since(xs), a), gs) <=> Told(Since(xs), gs)
    BY <2>1, <1>3, <1>8, PlainMore
  <2>3. Told(Append(Since(xs), a), fs) <=> Told(Since(xs), fs)
    BY <2>2
  <2> QED
    BY <2>1, <2>2, <2>3, <1>8
<1>10. Splits(us)
  BY <1>1, <1>3, <1>7, <1>8, <1>9 DEF Splits
<1>11. Placed(us, fs)
  <2>1. SUFFICES ASSUME Tools(Since(us)), ~Failed(Since(us)) PROVE Items(Since(us)) = Items(fs) /\ Told(Since(us), fs)
    BY <1>8 DEF Placed
  <2>2. split /\ ~Failed(Since(ts)) /\ Tools(Since(ts))
    BY <2>1, <1>1, <1>7, <1>9
  <2>3. Items(Since(ts)) = Items(es) /\ Told(Since(ts), es)
    BY <2>2 DEF Placed
  <2> QED
    BY <2>2, <2>3, <1>5, <1>7, <1>9
<1> QED
  BY <1>7, <1>8, <1>10, <1>11 DEF us, fs

(* toolResult.                                                             *)
LEMMA ResultPlaced ==
    ASSUME NEW ts \in Seq(Turn), NEW es \in Seq(PanelEvent), Placed(ts, es), Splits(ts), Once(ts),
           NEW e \in PanelEvent, e.is = "tool_result"
    PROVE  LET us == ToolResult(ts, e.call, e.status)
           IN Placed(us, Append(es, e)) /\ Splits(us) /\ Calls(us) = Calls(ts) /\ Once(us)
<1> DEFINE us == ToolResult(ts, e.call, e.status)
           fs == Append(es, e)
           S == Since(ts)
           R == Since(us)
<1>1. PICK b : Other(ts, b)
  BY SinceSome
<1>2. /\ S = SubSeq(ts, b + 1, Len(ts)) /\ b \in 0..Len(ts) /\ Len(ts) \in Nat /\ DOMAIN ts = 1..Len(ts)
      /\ \A i \in 1..Len(ts) : ts[i] \in Turn
  <2>1. b \in 0..Len(ts) /\ Len(ts) \in Nat /\ DOMAIN ts = 1..Len(ts)
    BY <1>1 DEF Other
  <2>2. \A i \in 1..Len(ts) : ts[i] \in Turn
    OBVIOUS
  <2> QED
    BY <1>1, <2>1, <2>2, SinceLast
(* At every place stands what stood there, or the command with its result. *)
<1>3. /\ us \in Seq(Turn) /\ Len(us) = Len(ts)
      /\ \A i \in 1..Len(ts) : \/ us[i] = ts[i] /\ (ts[i].is = "tool" => ts[i].call # e.call)
                               \/ /\ ts[i].is = "tool" /\ us[i].is = "tool" /\ ts[i].call = e.call
                                  /\ us[i].call = e.call /\ us[i].status = e.status
  <2>1. CASE ToolTurns(ts, e.call) = {}
    <3>1. us = ts
      BY <2>1 DEF ToolResult
    <3>2. \A i \in 1..Len(ts) : ts[i].is = "tool" => ts[i].call # e.call
      BY <1>2, <2>1 DEF ToolTurns
    <3> HIDE DEF us
    <3> QED
      BY <3>1, <3>2
  <2>2. CASE ToolTurns(ts, e.call) # {}
    <3> DEFINE last == CHOOSE i \in ToolTurns(ts, e.call) : \A j \in ToolTurns(ts, e.call) : j <= i
    <3>1. us = [ts EXCEPT ![last].status = e.status]
      BY <2>2 DEF ToolResult
    <3>2. last \in ToolTurns(ts, e.call)
      <4>1. ToolTurns(ts, e.call) \in SUBSET (1..Len(ts))
        BY <1>2 DEF ToolTurns
      <4> QED
        BY <1>2, <2>2, <4>1, LastOf
    <3> HIDE DEF last
    <3>3. last \in 1..Len(ts) /\ ts[last].is = "tool" /\ ts[last].call = e.call /\ ts[last] \in Turn
      BY <1>2, <3>2 DEF ToolTurns
    <3> DEFINE t == [ts[last] EXCEPT !.status = e.status]
    <3>4. t \in Turn /\ t.is = "tool" /\ t.call = e.call /\ t.status = e.status
      <4>1. e.status \in Statuses
        BY EventParts
      <4> QED
        BY <3>3, <4>1 DEF Turn
    <3> HIDE DEF t
    <3>5. us = [ts EXCEPT ![last] = t]
      BY <3>1 DEF t
    <3> HIDE DEF us
    <3>6. us \in Seq(Turn) /\ Len(us) = Len(ts) /\ us[last] = t /\ \A i \in 1..Len(ts) : i # last => us[i] = ts[i]
      BY <3>3, <3>4, <3>5
    <3>7. \A i \in 1..Len(ts) : i # last => (ts[i].is = "tool" => ts[i].call # e.call)
      BY <1>2, <3>3 DEF Once
    <3> QED
      BY <3>3, <3>4, <3>6, <3>7
  <2> QED
    BY <2>1, <2>2
<1> HIDE DEF us, fs
<1>4. \A i \in 1..Len(ts) : /\ us[i].is = ts[i].is /\ Item(us[i]) = Item(ts[i])
                            /\ us[i].is = "tool" => us[i].call = ts[i].call
                            /\ us[i].is # "tool" => us[i] = ts[i]
                            /\ ts[i].is = "tool" => (OneTold(ts[i], es) => OneTold(us[i], fs))
  <2>1. SUFFICES ASSUME NEW i \in 1..Len(ts)
                 PROVE  /\ us[i].is = ts[i].is /\ Item(us[i]) = Item(ts[i])
                        /\ us[i].is = "tool" => us[i].call = ts[i].call
                        /\ us[i].is # "tool" => us[i] = ts[i]
                        /\ ts[i].is = "tool" => (OneTold(ts[i], es) => OneTold(us[i], fs))
    OBVIOUS
  <2>2. CASE us[i] = ts[i] /\ (ts[i].is = "tool" => ts[i].call # e.call)
    BY <2>2, EventMore DEF fs
  <2>3. CASE /\ ts[i].is = "tool" /\ us[i].is = "tool" /\ ts[i].call = e.call
             /\ us[i].call = e.call /\ us[i].status = e.status
    <3>1. OneTold(us[i], fs)
      BY <2>3, EventMore DEF fs
    <3>2. Item(us[i]) = Item(ts[i])
      BY <2>3 DEF Item
    <3> QED
      BY <2>3, <3>1, <3>2
  <2> QED
    BY <1>3, <2>2, <2>3
<1>5. Other(us, b) /\ R = SubSeq(us, b + 1, Len(ts))
  <2>1. \A i \in (b + 1)..Len(ts) : i \in 1..Len(ts)
    BY <1>2
  <2>2. b # 0 => b \in 1..Len(ts)
    BY <1>2
  <2>3. Other(us, b)
    BY <1>1, <1>2, <1>3, <1>4, <2>1, <2>2 DEF Other
  <2> QED
    BY <1>3, <2>3, SinceLast
<1> DEFINE n == Len(ts) - b
<1>6. /\ n \in Nat /\ S \in Seq(Turn) /\ R \in Seq(Turn) /\ DOMAIN S = 1..n /\ DOMAIN R = 1..n
      /\ \A i \in 1..n : b + i \in 1..Len(ts) /\ S[i] = ts[b + i] /\ R[i] = us[b + i]
  <2>1. n \in Nat /\ \A i \in 1..n : b + i \in 1..Len(ts)
    BY <1>2
  <2>2. SubSeq(ts, b + 1, Len(ts)) \in Seq(Turn) /\ DOMAIN SubSeq(ts, b + 1, Len(ts)) = 1..n
        /\ \A i \in 1..n : SubSeq(ts, b + 1, Len(ts))[i] = ts[b + i]
    BY <1>2
  <2>3. SubSeq(us, b + 1, Len(ts)) \in Seq(Turn) /\ DOMAIN SubSeq(us, b + 1, Len(ts)) = 1..n
        /\ \A i \in 1..n : SubSeq(us, b + 1, Len(ts))[i] = us[b + i]
    BY <1>2, <1>3
  <2> QED
    BY <2>1, <2>2, <2>3, <1>2, <1>5
<1> HIDE DEF S, R, n
<1>7. Items(R) = Items(S)
  <2>1. \A i \in 1..n : Item(R[i]) = Item(S[i])
    BY <1>4, <1>6
  <2>2. [i \in DOMAIN R |-> Item(R[i])] = [i \in DOMAIN S |-> Item(S[i])]
    BY <1>6, <2>1
  <2> QED
    BY <2>2 DEF Items
<1>8. \A i \in 1..n : R[i].is = S[i].is
  BY <1>4, <1>6
<1>9. (Tools(R) <=> Tools(S)) /\ (Failed(R) <=> Failed(S))
  BY <1>6, <1>8 DEF Tools, Failed
<1>10. Told(S, es) => Told(R, fs)
  <2>1. \A i \in 1..n : S[i].is = "tool" => (OneTold(S[i], es) => OneTold(R[i], fs))
    BY <1>4, <1>6
  <2> QED
    BY <2>1, <1>6, <1>8 DEF Told
<1>11. Items(fs) = Items(es)
  <2>1. Item(e) = <<>>
    BY DEF Item
  <2> QED
    BY <2>1, EventMore, JoinedType DEF fs
<1>12. InFlight(us) => InFlight(ts)
  <2>1. ts # <<>> => Len(ts) \in 1..Len(ts)
    BY <1>2
  <2>2. us # <<>> => ts # <<>>
    BY <1>3
  <2> QED
    BY <1>3, <1>4, <2>1, <2>2 DEF InFlight, LastTurn
<1>13. Placed(us, fs)
  BY <1>7, <1>9, <1>10, <1>11, <1>12 DEF Placed, R, S
<1>14. Splits(us)
  <2>1. SUFFICES ASSUME us # <<>>, LastTurn(us).is = "answer", LastTurn(us).split PROVE Tools(R)
    BY DEF Splits, R
  <2>2. ts # <<>> /\ Len(ts) \in 1..Len(ts)
    BY <1>2, <1>3, <2>1
  <2>3. us[Len(ts)] = ts[Len(ts)]
    BY <1>3, <1>4, <2>1, <2>2 DEF LastTurn
  <2>4. LastTurn(ts) = LastTurn(us)
    BY <1>3, <2>3 DEF LastTurn
  <2> QED
    BY <2>1, <2>2, <2>4, <1>9 DEF Splits, S
<1>15. Calls(us) = Calls(ts) /\ Once(us)
  <2>1. DOMAIN us = DOMAIN ts
    BY <1>2, <1>3
  <2>2. Calls(us) = Calls(ts)
    BY <1>2, <1>4, <2>1 DEF Calls
  <2>3. Once(us)
    BY <1>2, <1>4, <2>1 DEF Once
  <2> QED
    BY <2>2, <2>3
<1> QED
  BY <1>13, <1>14, <1>15 DEF us, fs

(***************************************************************************)
(* A command is asked for once, and its result comes after that.           *)
(***************************************************************************)
Calling(e) == e.is \in {"tool_request", "tool_result"}
CallsOK(ts, es, ws, used) ==
    /\ Once(ts)
    /\ \A c \in Calls(ts) \cup Met(es) : c[2] <= used[c[1]]
    /\ \A i \in DOMAIN ws : Calling(ws[i]) => ws[i].call[2] <= used[ws[i].call[1]]
    /\ \A i \in DOMAIN ws : ws[i].is = "tool_request" =>
           /\ ws[i].call \notin Calls(ts) \cup Met(es)
           /\ \A j \in 1..(i - 1) : Calling(ws[j]) => ws[j].call # ws[i].call

PanelPlace == row \in Seq(PanelEvent) /\ CallsOK(turns, row, wire, uses) /\ Placed(turns, row) /\ Splits(turns)

LEMMA CallParts == /\ \A e \in PanelEvent : Calling(e) => e.call \in ToolCalls
                   /\ \A ts \in Seq(Turn) : Calls(ts) \subseteq ToolCalls
                   /\ \A es \in Seq(PanelEvent) : Met(es) \subseteq ToolCalls
<1>1. \A e \in PanelEvent : Calling(e) => e.call \in ToolCalls
  BY DEF Calling, PanelEvent
<1>2. \A t \in Turn : t.is = "tool" => t.call \in ToolCalls
  BY DEF Turn
<1>3. ASSUME NEW ts \in Seq(Turn) PROVE Calls(ts) \subseteq ToolCalls
  <2>1. \A i \in DOMAIN ts : ts[i] \in Turn
    OBVIOUS
  <2> QED
    BY <1>2, <2>1 DEF Calls
<1>4. ASSUME NEW es \in Seq(PanelEvent) PROVE Met(es) \subseteq ToolCalls
  <2>1. \A i \in DOMAIN es : es[i] \in PanelEvent
    OBVIOUS
  <2> QED
    BY <1>1, <2>1 DEF Met, Calling
<1> QED
  BY <1>1, <1>3, <1>4

(* An event is taken off the wire.                                         *)
LEMMA HeardCalls ==
    ASSUME NEW ts, NEW es, NEW ws \in Seq(PanelEvent), ws # <<>>, NEW used, CallsOK(ts, es, ws, used),
           NEW us, NEW fs, Once(us),
           \A c : c \in Calls(us) \cup Met(fs) => c \in Calls(ts) \cup Met(es) \/ (Calling(Head(ws)) /\ c = Head(ws).call)
    PROVE  CallsOK(us, fs, Tail(ws), used)
<1> DEFINE zs == Tail(ws)
<1>1. /\ Len(ws) \in Nat /\ DOMAIN ws = 1..Len(ws) /\ 1 \in DOMAIN ws /\ Head(ws) = ws[1]
      /\ DOMAIN zs = 1..(Len(ws) - 1) /\ \A i \in 1..(Len(ws) - 1) : zs[i] = ws[i + 1]
  OBVIOUS
<1>2. \A i \in 1..(Len(ws) - 1) : /\ i + 1 \in 1..Len(ws) /\ 1 \in 1..((i + 1) - 1)
                                  /\ \A j \in 1..(i - 1) : j + 1 \in 1..((i + 1) - 1) /\ j \in 1..(Len(ws) - 1)
  BY <1>1
<1> HIDE DEF zs
<1>3. \A c \in Calls(us) \cup Met(fs) : c[2] <= used[c[1]]
  BY <1>1 DEF CallsOK
<1>4. \A i \in DOMAIN zs : Calling(zs[i]) => zs[i].call[2] <= used[zs[i].call[1]]
  BY <1>1, <1>2 DEF CallsOK
<1>5. ASSUME NEW i \in DOMAIN zs, zs[i].is = "tool_request"
      PROVE  /\ zs[i].call \notin Calls(us) \cup Met(fs)
             /\ \A j \in 1..(i - 1) : Calling(zs[j]) => zs[j].call # zs[i].call
  <2>1. /\ ws[i + 1].is = "tool_request" /\ ws[i + 1] = zs[i]
        /\ ws[i + 1].call \notin Calls(ts) \cup Met(es)
        /\ \A j \in 1..((i + 1) - 1) : Calling(ws[j]) => ws[j].call # ws[i + 1].call
    BY <1>1, <1>2, <1>5 DEF CallsOK
  <2>2. Calling(Head(ws)) => Head(ws).call # zs[i].call
    BY <1>1, <1>2, <2>1
  <2>3. \A j \in 1..(i - 1) : zs[j] = ws[j + 1] /\ j + 1 \in 1..((i + 1) - 1)
    BY <1>1, <1>2
  <2> QED
    BY <2>1, <2>2, <2>3
<1> QED
  BY <1>3, <1>4, <1>5 DEF CallsOK, zs

(* An event is put on it.                                                  *)
LEMMA SentCalls ==
    ASSUME NEW ts \in Seq(Turn), NEW es \in Seq(PanelEvent), NEW ws \in Seq(PanelEvent), NEW used \in [Questions -> Nat],
           CallsOK(ts, es, ws, used), NEW then \in [Questions -> Nat], \A q \in Questions : used[q] <= then[q],
           NEW e \in PanelEvent, Calling(e) => e.call[2] <= then[e.call[1]],
           e.is = "tool_request" => e.call[2] > used[e.call[1]]
    PROVE  CallsOK(ts, es, Append(ws, e), then)
<1> DEFINE zs == Append(ws, e)
<1>1. /\ Len(ws) \in Nat /\ DOMAIN ws = 1..Len(ws) /\ DOMAIN zs = 1..(Len(ws) + 1)
      /\ zs[Len(ws) + 1] = e /\ \A i \in 1..Len(ws) : zs[i] = ws[i] /\ ws[i] \in PanelEvent
  OBVIOUS
<1>2. \A i \in 1..(Len(ws) + 1) : i \in 1..Len(ws) \/ i = Len(ws) + 1
  BY <1>1
<1> HIDE DEF zs
<1>3. \A c \in ToolCalls : c[1] \in Questions /\ c[2] \in Nat /\ (c[2] <= used[c[1]] => c[2] <= then[c[1]])
                           /\ used[c[1]] \in Nat
  <2>1. \A c \in ToolCalls : c[1] \in Questions /\ c[2] \in Nat
    BY DEF ToolCalls
  <2>2. \A q \in Questions : used[q] \in Nat /\ then[q] \in Nat /\ used[q] <= then[q]
    OBVIOUS
  <2>3. \A k, m, n \in Nat : k <= m /\ m <= n => k <= n
    OBVIOUS
  <2> QED
    BY <2>1, <2>2, <2>3
<1>4. Calls(ts) \cup Met(es) \subseteq ToolCalls
  BY CallParts
<1>5. \A c \in Calls(ts) \cup Met(es) : c[2] <= then[c[1]]
  BY <1>3, <1>4 DEF CallsOK
<1>6. \A i \in DOMAIN ws : Calling(ws[i]) => ws[i].call \in ToolCalls /\ ws[i].call[2] <= used[ws[i].call[1]]
  BY <1>1, CallParts DEF CallsOK
<1>7. \A i \in DOMAIN zs : Calling(zs[i]) => zs[i].call[2] <= then[zs[i].call[1]]
  BY <1>1, <1>2, <1>3, <1>6
<1>8. ASSUME e.is = "tool_request"
      PROVE  /\ e.call \notin Calls(ts) \cup Met(es)
             /\ \A j \in 1..Len(ws) : Calling(ws[j]) => ws[j].call # e.call
  <2>1. e.call \in ToolCalls
    BY <1>8, CallParts DEF Calling
  <2>2. ~(e.call[2] <= used[e.call[1]])
    BY <1>3, <1>8, <2>1
  <2>3. e.call \notin Calls(ts) \cup Met(es)
    BY <2>2 DEF CallsOK
  <2> QED
    BY <2>2, <2>3, <1>1, <1>6
<1>9. ASSUME NEW i \in DOMAIN zs, zs[i].is = "tool_request"
      PROVE  /\ zs[i].call \notin Calls(ts) \cup Met(es)
             /\ \A j \in 1..(i - 1) : Calling(zs[j]) => zs[j].call # zs[i].call
  <2>1. CASE i \in 1..Len(ws)
    <3>1. \A j \in 1..(i - 1) : j \in 1..Len(ws)
      BY <1>1, <2>1
    <3>2. ws[i].is = "tool_request" /\ zs[i] = ws[i] /\ \A j \in 1..(i - 1) : zs[j] = ws[j]
      BY <1>1, <1>9, <2>1, <3>1
    <3> QED
      BY <1>1, <2>1, <3>2 DEF CallsOK
  <2>2. CASE i = Len(ws) + 1
    <3>0. i - 1 = Len(ws)
      BY <1>1, <2>2
    <3>1. zs[i] = e /\ \A j \in 1..(i - 1) : j \in 1..Len(ws) /\ zs[j] = ws[j]
      BY <1>1, <2>2, <3>0
    <3> QED
      BY <1>8, <1>9, <3>1
  <2> QED
    BY <1>1, <1>2, <2>1, <2>2
<1>10. Once(ts)
  BY DEF CallsOK
<1> QED
  BY <1>5, <1>7, <1>9, <1>10 DEF CallsOK, zs

-----------------------------------------------------------------------------
LEMMA PlaceStarts == PanelInit => PanelPlace
<1> SUFFICES ASSUME PanelInit PROVE PanelPlace
  OBVIOUS
<1>1. turns = <<>> /\ row = <<>> /\ wire = <<>> /\ DOMAIN <<>> = {} /\ row \in Seq(PanelEvent)
  BY DEF PanelInit
<1>2. Met(row) = {}
  BY <1>1 DEF Met
<1>3. Placed(turns, row) /\ Splits(turns)
  BY <1>1, SinceEmpty DEF Placed, Splits
<1>4. CallsOK(turns, row, wire, uses)
  BY <1>1, <1>2, SinceEmpty DEF CallsOK
<1> QED
  BY <1>1, <1>3, <1>4 DEF PanelPlace

LEMMA AskPlace == ASSUME PanelInv, PanelPlace, NEW q \in Questions, Ask(q) PROVE PanelPlace'
<1>1. turns \in Seq(Turn)
  BY DEF PanelInv, TurnsOK
<1>2. /\ User(q) \in Turn /\ User(q).is = "user" /\ Thinking \in Turn /\ Thinking.is = "thinking"
      /\ Item(Thinking) = <<>>
  BY TurnMade DEF Item
<1> DEFINE u == User(q)
           us == Append(Append(turns, u), Thinking)
<1> HIDE DEF u
<1>3. turns' = us /\ row' = <<>> /\ wire' = wire /\ uses' = uses
  <2>1. turns' = turns \o <<u, Thinking>>
    BY DEF Ask, Asking, u
  <2> QED
    BY <2>1, <1>1, <1>2, TwoAdded DEF Ask, daemonVars, u
<1>4. Append(turns, u) \in Seq(Turn) /\ us \in Seq(Turn) /\ us # <<>> /\ LastTurn(us) = Thinking
  BY <1>1, <1>2, LastAdded DEF u
<1>5. Since(us) = Append(<<>>, Thinking)
  <2>1. Since(Append(turns, u)) = <<>>
    BY <1>1, <1>2, SinceMore DEF u
  <2>2. Thinking.is # "user"
    BY <1>2
  <2> QED
    BY <2>1, <2>2, <1>2, <1>4, SinceMore
<1>6. /\ ~Tools(Since(us)) /\ Items(Since(us)) = <<>> /\ \A fs : Told(Since(us), fs)
  <2>1. Thinking.is # "tool" /\ Thinking.is # "failure" /\ <<>> \in Seq(Turn)
    BY <1>2
  <2>2. /\ Tools(Append(<<>>, Thinking)) <=> Tools(<<>>)
        /\ Items(Append(<<>>, Thinking)) = Items(<<>>) \o Item(Thinking)
        /\ \A fs : Told(Append(<<>>, Thinking), fs) <=> Told(<<>>, fs)
    BY <2>1, <1>2, PlainMore
  <2>3. (\A fs : Told(<<>>, fs)) /\ <<>> \o <<>> = <<>>
    BY DEF Told
  <2> QED
    BY <2>2, <2>3, <1>2, <1>5, SinceEmpty, ItemsNone
<1>7. Once(us) /\ Calls(us) = Calls(turns)
  <2>0. u.is # "tool" /\ u.is # "failure" /\ Thinking.is # "tool" /\ Thinking.is # "failure" /\ u \in Turn
    BY <1>2 DEF u
  <2>1. Once(turns)
    BY DEF PanelPlace, CallsOK
  <2>2. Once(Append(turns, u)) /\ Calls(Append(turns, u)) = Calls(turns)
    BY <1>1, <2>0, <2>1, PlainMore
  <2> QED
    BY <1>2, <1>4, <2>0, <2>2, PlainMore
<1> HIDE DEF us
<1>8. Placed(us, <<>>) /\ Splits(us)
  <2>1. LastTurn(us).is # "answer"
    BY <1>2, <1>4
  <2> QED
    BY <2>1, <1>6, ItemsNone DEF Placed, Splits
<1>9. Met(<<>>) = {}
  BY DEF Met
<1>10. CallsOK(us, <<>>, wire, uses)
  BY <1>7, <1>9 DEF PanelPlace, CallsOK
<1>11. <<>> \in Seq(PanelEvent)
  OBVIOUS
<1> QED
  BY <1>3, <1>8, <1>10, <1>11 DEF PanelPlace

LEMMA FailurePlace == ASSUME PanelInv, PanelPlace, ExplainNothing \/ \E q \in Questions : Refused(q) PROVE PanelPlace'
<1>1. turns \in Seq(Turn)
  BY DEF PanelInv, TurnsOK
<1> DEFINE us == ReplaceThinking(turns, Failure)
<1>2. turns' = us /\ row' = row /\ wire' = wire /\ uses' = uses
  BY DEF ExplainNothing, Refused, daemonVars
<1>3. Placed(us, row) /\ Splits(us) /\ Calls(us) \subseteq Calls(turns) /\ (Once(turns) => Once(us))
  BY <1>1, FailurePlaced
<1> HIDE DEF us
<1>4. CallsOK(us, row, wire, uses)
  BY <1>3 DEF PanelPlace, CallsOK
<1> QED
  BY <1>2, <1>3, <1>4 DEF PanelPlace

LEMMA HearPlace == ASSUME PanelInv, PanelPlace, HearEvent PROVE PanelPlace'
<1> DEFINE e == Head(wire)
<1>1. /\ turns \in Seq(Turn) /\ row \in Seq(PanelEvent) /\ wire \in Seq(PanelEvent) /\ wire # <<>>
      /\ e \in PanelEvent /\ wire' = Tail(wire) /\ uses' = uses
  <2>1. wire \in Seq(PanelEvent) /\ wire # <<>>
    BY DEF HearEvent, PanelInv, WholeInv
  <2>2. e \in PanelEvent
    BY <2>1
  <2> QED
    BY <2>1, <2>2 DEF HearEvent, PanelInv, TurnsOK, PanelPlace, daemonVars
<1>2. Once(turns) /\ Placed(turns, row) /\ Splits(turns) /\ CallsOK(turns, row, wire, uses)
  BY DEF PanelPlace, CallsOK
<1>3. e.is = "tool_request" => e.call \notin Calls(turns) /\ e.call \notin Met(row)
  <2>1. 1 \in DOMAIN wire /\ e = wire[1]
    BY <1>1
  <2> QED
    BY <1>2, <2>1 DEF CallsOK
<1>4. SUFFICES /\ row' \in Seq(PanelEvent) /\ Placed(turns', row') /\ Splits(turns') /\ Once(turns')
               /\ \A c : c \in Calls(turns') \cup Met(row') =>
                         c \in Calls(turns) \cup Met(row) \/ (Calling(e) /\ c = e.call)
  BY <1>1, <1>2, HeardCalls DEF PanelPlace
<1>5. CASE ~(e.of = request)
  BY <1>1, <1>2, <1>5 DEF HearEvent
<1>6. CASE Apply(e)
  <2> HIDE DEF e
  <2>0. Append(row, e) \in Seq(PanelEvent)
    BY <1>1
  <2>1. row' = IF InFlight(turns) \/ e.is = "tool_result" THEN Append(row, e) ELSE row
    BY <1>6 DEF Apply
  <2>2. Met(row') = Met(row) \cup (IF e.is = "tool_result" THEN {e.call} ELSE {})
    BY <1>1, <2>1, EventMore
  <2>3. CASE e.is = "chunk" /\ turns' = AppendDelta(turns, e.word)
    <3>1. CASE InFlight(turns)
      <4>1. row' = Append(row, e)
        BY <2>1, <3>1
      <4>2. /\ Placed(turns', Append(row, e)) /\ Splits(turns')
            /\ Calls(turns') \subseteq Calls(turns) /\ Once(turns')
        BY <3>1, <2>3, <1>1, <1>2, DeltaPlaced
      <4> QED
        BY <4>1, <4>2, <2>0, <2>2, <2>3
    <3>2. CASE ~InFlight(turns)
      <4>1. row' = row /\ turns' = turns
        BY <2>1, <2>3, <3>2 DEF AppendDelta
      <4> QED
        BY <4>1, <1>1, <1>2
    <3> QED
      BY <3>1, <3>2
  <2>4. CASE e.is = "tool_request" /\ turns' = ToolRequest(turns, e.call)
    <3>1. CASE InFlight(turns)
      <4>1. row' = Append(row, e) /\ Calling(e)
        BY <2>1, <2>4, <3>1 DEF Calling
      <4>2. /\ Placed(turns', Append(row, e)) /\ Splits(turns')
            /\ Calls(turns') \subseteq Calls(turns) \cup {e.call} /\ Once(turns')
        BY <3>1, <2>4, <1>1, <1>2, <1>3, RequestPlaced
      <4> QED
        BY <4>1, <4>2, <2>0, <2>2, <2>4
    <3>2. CASE ~InFlight(turns)
      <4>1. row' = row /\ turns' = turns
        BY <2>1, <2>4, <3>2 DEF ToolRequest
      <4> QED
        BY <4>1, <1>1, <1>2
    <3> QED
      BY <3>1, <3>2
  <2>5. CASE e.is = "tool_result" /\ turns' = ToolResult(turns, e.call, e.status)
    <3>1. row' = Append(row, e) /\ Calling(e)
      BY <2>1, <2>5 DEF Calling
    <3>2. Placed(turns', Append(row, e)) /\ Splits(turns') /\ Calls(turns') = Calls(turns) /\ Once(turns')
      BY <2>5, <1>1, <1>2, ResultPlaced
    <3> QED
      BY <3>1, <3>2, <2>0, <2>2, <2>5
  <2>6. CASE e.is = "done" /\ \E slow \in BOOLEAN : turns' = AnswerTurns(turns, e.words, slow)
    <3>1. row' = IF InFlight(turns) THEN Append(row, e) ELSE row
      BY <2>1, <2>6
    <3>2. Placed(turns', row') /\ Splits(turns') /\ Calls(turns') \subseteq Calls(turns) /\ Once(turns')
      <4>1. PICK slow \in BOOLEAN : turns' = AnswerTurns(turns, e.words, slow)
        BY <2>6
      <4> QED
        BY <4>1, <3>1, <2>6, <1>1, <1>2, AnswerPlaced
    <3> QED
      BY <3>1, <3>2, <2>0, <2>2, <2>6, <1>1
  <2>7. CASE e.is = "error" /\ turns' = ReplaceThinking(turns, Failure)
    <3>1. Placed(turns', row') /\ Splits(turns') /\ Calls(turns') \subseteq Calls(turns) /\ Once(turns')
      BY <2>7, <1>1, <1>2, FailurePlaced
    <3> QED
      BY <3>1, <2>0, <2>1, <2>2, <2>7, <1>1
  <2> QED
    BY <1>6, <2>3, <2>4, <2>5, <2>6, <2>7 DEF Apply
<1> QED
  BY <1>5, <1>6 DEF HearEvent

LEMMA SentPlace ==
    ASSUME PanelInv, PanelPlace, uses' \in [Questions -> Nat], \A q \in Questions : uses[q] <= uses'[q],
           NEW e \in PanelEvent, Calling(e) => e.call[2] <= uses'[e.call[1]],
           e.is = "tool_request" => e.call[2] > uses[e.call[1]],
           Broadcast(e), turns' = turns, row' = row
    PROVE  PanelPlace'
<1>1. turns \in Seq(Turn) /\ wire \in Seq(PanelEvent) /\ uses \in [Questions -> Nat] /\ wire' = Append(wire, e)
  BY DEF PanelInv, TurnsOK, WholeInv, PanelTypes, Broadcast
<1>2. row \in Seq(PanelEvent) /\ CallsOK(turns, row, wire, uses)
  BY DEF PanelPlace
<1>3. CallsOK(turns, row, wire', uses')
  BY <1>1, <1>2, SentCalls
<1> QED
  BY <1>3 DEF PanelPlace

LEMMA DaemonPlace ==
    ASSUME PanelInv, PanelPlace, NEW q \in Questions, Say(q) \/ CallTool(q) \/ ToolEnds(q) \/ EndRequest(q)
    PROVE  PanelPlace'
<1>1. /\ uses \in [Questions -> Nat] /\ uses[q] \in Nat /\ said[q] \in Seq(Words) /\ turns' = turns /\ row' = row
      /\ \A p \in Questions : uses[p] <= uses[p]
  BY DEF PanelInv, PanelTypes, Say, CallTool, ToolEnds, EndRequest
<1>2. CASE Say(q) \/ EndRequest(q)
  <2>1. \E e \in PanelEvent : ~Calling(e) /\ e.is # "tool_request" /\ Broadcast(e)
    <3>1. CASE Say(q)
      <4>1. \A b \in BOOLEAN : [is |-> "chunk", of |-> q, word |-> [of |-> q, n |-> Len(said[q]) + 1, blank |-> b]] \in PanelEvent
        <5>1. Len(said[q]) \in Nat
          BY <1>1
        <5> QED
          BY <5>1 DEF PanelEvent, Words
      <4> QED
        BY <3>1, <4>1 DEF Say, Calling
    <3>2. CASE EndRequest(q)
      <4>1. [is |-> "done", of |-> q, words |-> said[q]] \in PanelEvent /\ [is |-> "error", of |-> q] \in PanelEvent
        BY <1>1 DEF PanelEvent
      <4> QED
        BY <3>2, <4>1 DEF EndRequest, Calling
    <3> QED
      BY <1>2, <3>1, <3>2
  <2>2. uses' = uses
    BY <1>2 DEF Say, EndRequest
  <2> QED
    BY <1>1, <2>1, <2>2, SentPlace
<1>3. CASE CallTool(q)
  <2> DEFINE e == [is |-> "tool_request", of |-> q, call |-> <<q, uses[q] + 1>>]
  <2>1. Broadcast(e) /\ uses' = [uses EXCEPT ![q] = uses[q] + 1]
    BY <1>3 DEF CallTool
  <2>2. e \in PanelEvent /\ e.is = "tool_request" /\ e.call[1] = q /\ e.call[2] = uses[q] + 1
    BY <1>1 DEF PanelEvent, ToolCalls
  <2> HIDE DEF e
  <2>3. /\ uses' \in [Questions -> Nat] /\ uses'[q] = uses[q] + 1 /\ \A p \in Questions : uses[p] <= uses'[p]
        /\ uses[q] + 1 <= uses[q] + 1 /\ uses[q] + 1 > uses[q]
    <3>1. uses[q] + 1 \in Nat /\ uses[q] + 1 <= uses[q] + 1 /\ uses[q] + 1 > uses[q] /\ uses[q] <= uses[q] + 1
      BY <1>1
    <3>2. uses' \in [Questions -> Nat] /\ uses'[q] = uses[q] + 1 /\ \A p \in Questions : p # q => uses'[p] = uses[p]
      BY <1>1, <2>1, <3>1
    <3>3. \A p \in Questions : uses[p] <= uses'[p]
      BY <1>1, <3>1, <3>2
    <3> QED
      BY <3>1, <3>2, <3>3
  <2> QED
    BY <1>1, <2>1, <2>2, <2>3, SentPlace
<1>4. CASE ToolEnds(q)
  <2>1. PICK s \in Statuses \ {"waiting"} : Broadcast([is |-> "tool_result", of |-> q, call |-> <<q, uses[q]>>, status |-> s])
    BY <1>4 DEF ToolEnds
  <2> DEFINE e == [is |-> "tool_result", of |-> q, call |-> <<q, uses[q]>>, status |-> s]
  <2>2. e \in PanelEvent /\ e.is # "tool_request" /\ e.call[1] = q /\ e.call[2] = uses[q] /\ Broadcast(e)
    BY <1>1, <2>1 DEF PanelEvent, ToolCalls
  <2> HIDE DEF e
  <2>3. uses' = uses
    BY <1>4 DEF ToolEnds
  <2>4. e.call[2] <= uses[e.call[1]]
    BY <1>1, <2>2
  <2> QED
    BY <1>1, <2>2, <2>3, <2>4, SentPlace
<1> QED
  BY <1>2, <1>3, <1>4

LEMMA PlaceStays == PanelInv /\ PanelPlace /\ [PanelNext]_panelVars => PanelPlace'
<1> SUFFICES ASSUME PanelInv, PanelPlace, [PanelNext]_panelVars PROVE PanelPlace'
  OBVIOUS
<1>1. turns' = turns /\ row' = row /\ wire' = wire /\ uses' = uses => PanelPlace'
  BY DEF PanelPlace
<1>2. CASE UNCHANGED panelVars
  BY <1>1, <1>2 DEF panelVars, daemonVars
<1>3. CASE \E q \in Questions : Named(q) \/ Accept(q)
  BY <1>1, <1>3 DEF Named, Accept, daemonVars
<1>4. CASE PanelNext
  BY <1>3, <1>4, AskPlace, FailurePlace, HearPlace, DaemonPlace DEF PanelNext, Works
<1> QED
  BY <1>2, <1>4

LEMMA PlaceShows == PanelPlace => ShownInPlace
<1> SUFFICES ASSUME PanelPlace,
                    turns # <<>>, InFlight(turns) \/ (LastTurn(turns).is = "answer" /\ LastTurn(turns).split),
                    ~Failed(Since(turns))
             PROVE  /\ Items(Since(turns)) = Items(row)
                    /\ \A i \in DOMAIN Since(turns) :
                           LET t == Since(turns)[i]
                           IN t.is = "tool" => \/ t.status = "waiting" /\ ResultsIn(row, t.call) = {}
                                               \/ \E j \in ResultsIn(row, t.call) : row[j].status = t.status
  BY DEF ShownInPlace
<1>1. Items(Since(turns)) = Items(row) /\ Told(Since(turns), row)
  BY DEF PanelPlace, Placed, Splits
<1> QED
  BY <1>1 DEF Told, OneTold

(* docs/06: whatever the order of replies and events, the panel shows the  *)
(* words and the commands it heard of in their places.                     *)
THEOREM PanelIsTrueHolds == PanelSpec => []PanelIsTrue
<1>1. PanelInv /\ PanelPlace => PanelIsTrue
  BY PanelTyped, PlaceShows DEF PanelIsTrue
<1> QED
  BY <1>1, PanelInvariant, PlaceStarts, PlaceStays, PTL DEF PanelSpec

-----------------------------------------------------------------------------
(***************************************************************************)
(* ShellBlocks.  The marks on their way are a path through the shell's     *)
(* hooks: which mark comes after which, and after which the shell is where *)
(* it is.                                                                  *)
(***************************************************************************)
Marks == {A, B, C} \cup {D(x) : x \in Exits} \cup {E(l) : l \in Lines \cup {Enter}}
Honest == shell # "hooked_bash"

Way == {<<"A", "B">>, <<"B", "A">>, <<"B", "B">>, <<"B", "E">>, <<"E", "C">>, <<"C", "D">>, <<"D", "A">>}
Chain(q, way) == \A i \in 1..(Len(q) - 1) : <<q[i].kind, q[i + 1].kind>> \in way
LastOne(q, S) == q = <<>> \/ q[Len(q)].kind \in S

(* A command's D is still to come: it runs, or precmd has not yet said     *)
(* that it ended.                                                          *)
Owed == stage = "running" \/ (stage = "precmd" /\ active /\ shell # "fish")

PlaceInv ==
    /\ stage # "hook" /\ Chain(pty, Way)
    /\ stage = "prompt" => LastOne(pty, {"A"}) /\ ~active
    /\ stage = "edit" => LastOne(pty, {"B"}) /\ ~active
    /\ stage = "precmd" /\ ~active => LastOne(pty, {"B"})
    /\ stage = "precmd" /\ active /\ shell = "fish" => LastOne(pty, {"D"})
    /\ Owed => LastOne(pty, {"C"}) /\ active
    /\ stage = "running" /\ pty = <<>> => ~Seg!AtPrompt

(* The segmenter follows: a command is open where a mark of one is next.   *)
Synced ==
    /\ pty # <<>> /\ pty[1].kind \in {"C", "D", "E"} => Seg!InCommand
    /\ pty = <<>> /\ (stage = "edit" \/ Owed) => Seg!InCommand
SyncInv ==
    /\ disorder \in {0, 1} /\ (crashes = 0 => disorder = 0 /\ ~corrupted) /\ (corrupted => disorder >= CorruptLimit)
    /\ (crashes = 0 \/ disorder = 1) /\ ~corrupted => Synced

(* What is stored and what is on its way, one after the other, are the     *)
(* commands that ran, but for the one whose D is owed.                     *)
EndsUpTo(q, i) == {j \in 1..Len(q) : q[j].kind = "D" /\ j <= i}
EndsIn(q) == Cardinality(EndsUpTo(q, Len(q)))
Title(q, i, line) == IF i >= 3 THEN q[i - 2].cmdline ELSE line
Recorded(q, n, line, log) ==
    \A i \in 1..Len(q) : q[i].kind = "D" =>
        /\ n + Cardinality(EndsUpTo(q, i)) <= Len(log)
        /\ log[n + Cardinality(EndsUpTo(q, i))] = <<Title(q, i, line), q[i].exit>>
Unsaid == IF stage = "precmd" /\ active /\ shell # "fish" THEN 1 ELSE 0
ToldInv ==
    /\ pendingCmdline = Nothing
    /\ \A i \in Finished : Nth(i) <= Len(ran) /\ ran[Nth(i)] = <<blocks[i].cmdline, blocks[i].exit>>
    /\ Recorded(pty, Cardinality(Finished), open.cmdline, ran)
    /\ Cardinality(Finished) + EndsIn(pty) + Unsaid = Len(ran)
    /\ Owed => current \in Lines /\ Title(pty, Len(pty) + 1, open.cmdline) = current
    /\ Unsaid = 1 => ran[Len(ran)] = <<current, status>>

(* Nobody but the agent has typed since the prompt was idle.               *)
Titled == IF Seg!InCommand THEN open.cmdline ELSE pendingCmdline
AloneInv ==
    /\ agent \in {"settled", "counted"} =>
           stage = "edit" /\ tty = <<>> /\ \A i \in DOMAIN pty : pty[i].kind = "B"
    /\ agent = "counted" => \A i \in Finished : i <= after
    /\ agent = "waiting" =>
           /\ tty = <<>> \/ (tty = <<AgentLine>> /\ stage = "edit")
           /\ \A i \in DOMAIN pty : pty[i].kind = "E" => pty[i].cmdline = AgentLine
           /\ ~corrupted /\ pty # <<>> /\ pty[1].kind \in {"C", "D"} => Titled = AgentLine
           /\ ~corrupted /\ pty = <<>> /\ Owed => Titled = AgentLine
           /\ \A i \in Finished : i > after => blocks[i].cmdline = AgentLine
    /\ result # Nothing => result.cmdline = AgentLine

(* A bash whose prompt commands set off the trap: every wrong block is     *)
(* paid for with disorder.                                                 *)
HookWay == {<<"A", "E">>, <<"E", "C">>, <<"C", "B">>, <<"B", "B">>, <<"B", "D">>, <<"D", "A">>}
HookInv ==
    /\ Chain(pty, HookWay)
    /\ stage = "hook" => LastOne(pty, {"A"}) /\ ~active
    /\ stage = "prompt" => LastOne(pty, {"C"}) /\ active
    /\ stage \in {"edit", "running"} => LastOne(pty, {"B"}) /\ active
    /\ stage = "precmd" => (active /\ LastOne(pty, {"B"})) \/ (~active /\ pty = <<>> /\ open = Nothing)
    /\ Cardinality(Untitled) < CorruptLimit
    /\ ~corrupted =>
           /\ disorder < CorruptLimit /\ Cardinality(Untitled) <= disorder
           /\ Seg!InCommand => Cardinality(Untitled) < disorder
           /\ pty # <<>> /\ open = Nothing => pty[1].kind = "A"
           /\ pty # <<>> /\ Seg!InPrompt => pty[1].kind \in {"E", "C"}
           /\ pty # <<>> /\ Seg!InCommand => pty[1].kind \in {"B", "D"}
           /\ pty = <<>> /\ stage = "hook" => Seg!InPrompt
           /\ pty = <<>> /\ (stage \in {"prompt", "edit", "running"} \/ (stage = "precmd" /\ active)) => Seg!InCommand

SegTypes ==
    /\ open \in Seg!Open \cup {Nothing} /\ pendingCmdline \in Nat \cup {Nothing}
    /\ disorder \in Nat /\ corrupted \in BOOLEAN /\ blocks \in Seq(Seg!Block) /\ warnings \in Nat
    /\ stage = "running" => current \in Lines
    /\ agent \in {"idle", "settled", "counted", "waiting"} => result = Nothing
    /\ agent = "idle" => ~quiet
    /\ crashes = 0 => daemon = "up"
    /\ daemon = "down" => agent \notin {"settled", "counted", "waiting"}

ShellInv ==
    /\ BlocksTypeOK /\ SegTypes
    /\ Honest => /\ PlaceInv /\ SyncInv
                 /\ crashes = 0 => ToldInv
                 /\ quiet => AloneInv
    /\ ~Honest /\ crashes = 0 => HookInv

-----------------------------------------------------------------------------
(* The constants of the way from the shell to Agent Mode.                  *)
LEMMA ShellLimits ==
    /\ Nothing \notin Nat /\ Nothing \notin Exits /\ Nothing \notin Seg!Open
    /\ CorruptLimit \in Nat /\ CorruptLimit > 1 /\ MaxLines \in Nat /\ MaxRedraws \in Nat /\ MaxCrashes \in Nat
    /\ Lines \subseteq Nat /\ Enter \in Nat /\ Enter \notin Lines /\ AgentLine \in Lines
    /\ Shells \subseteq {"zsh", "bash", "fish", "hooked_bash"}
BY ShellBlocksAssumption DEF Lines, Enter, AgentLine

LEMMA MarkParts ==
    /\ A.kind = "A" /\ B.kind = "B" /\ C.kind = "C"
    /\ \A x : D(x).kind = "D" /\ D(x).exit = x
    /\ \A l : E(l).kind = "E" /\ E(l).cmdline = l
    /\ A \in Marks /\ B \in Marks /\ C \in Marks
    /\ \A x \in Exits : D(x) \in Marks
    /\ \A l \in Lines \cup {Enter} : E(l) \in Marks
BY DEF A, B, C, D, E, Marks

LEMMA MarkKinds ==
    \A m \in Marks : /\ m.kind \in {"A", "B", "C", "D", "E"}
                     /\ m.kind = "D" => m.exit \in Exits
                     /\ m.kind = "E" => m.cmdline \in Lines \cup {Enter}
BY MarkParts DEF Marks

LEMMA EmptyQueue == Len(<<>>) = 0 /\ \A S : \A q \in Seq(S) : Len(q) = 0 => q = <<>>
OBVIOUS

(* A queue loses its first mark.                                           *)
LEMMA FirstGoes ==
    ASSUME NEW q \in Seq(Marks), q # <<>>
    PROVE  /\ Head(q) = q[1] /\ q[1] \in Marks /\ Len(q) \in Nat /\ Len(q) > 0
           /\ Tail(q) \in Seq(Marks) /\ Len(Tail(q)) = Len(q) - 1
           /\ \A i \in 1..Len(Tail(q)) : Tail(q)[i] = q[i + 1] /\ i + 1 \in 1..Len(q)
OBVIOUS

LEMMA ChainGoes ==
    ASSUME NEW q \in Seq(Marks), q # <<>>, NEW way, Chain(q, way)
    PROVE  Chain(Tail(q), way) /\ (Tail(q) # <<>> => <<q[1].kind, Tail(q)[1].kind>> \in way)
<1> DEFINE t == Tail(q)
<1>1. /\ Len(q) \in Nat /\ Len(t) = Len(q) - 1 /\ Len(q) > 0
      /\ \A i \in 1..Len(t) : t[i] = q[i + 1]
  BY FirstGoes
<1>2. \A i \in 1..(Len(t) - 1) : i + 1 \in 1..(Len(q) - 1) /\ i \in 1..Len(t) /\ i + 1 \in 1..Len(t)
  BY <1>1
<1>3. ASSUME NEW i \in 1..(Len(t) - 1) PROVE <<t[i].kind, t[i + 1].kind>> \in way
  <2>1. t[i] = q[i + 1] /\ t[i + 1] = q[(i + 1) + 1]
    BY <1>1, <1>2
  <2>2. <<q[i + 1].kind, q[(i + 1) + 1].kind>> \in way
    BY <1>2 DEF Chain
  <2> QED
    BY <2>1, <2>2
<1>4. ASSUME t # <<>> PROVE <<q[1].kind, t[1].kind>> \in way
  <2>1. 1 \in 1..Len(t) /\ 1 \in 1..(Len(q) - 1)
    BY <1>1, <1>4, FirstGoes
  <2>2. t[1] = q[1 + 1] /\ <<q[1].kind, q[1 + 1].kind>> \in way
    BY <1>1, <2>1 DEF Chain
  <2> QED
    BY <2>2
<1> QED
  BY <1>3, <1>4 DEF Chain

LEMMA LastStays ==
    ASSUME NEW q \in Seq(Marks), q # <<>>, NEW S, LastOne(q, S)
    PROVE  LastOne(Tail(q), S) /\ (Tail(q) = <<>> => q[1].kind \in S)
<1>1. /\ Len(q) \in Nat /\ Len(q) > 0 /\ Tail(q) \in Seq(Marks) /\ Len(Tail(q)) = Len(q) - 1
      /\ \A i \in 1..Len(Tail(q)) : Tail(q)[i] = q[i + 1]
  BY FirstGoes
<1>2. q[Len(q)].kind \in S
  BY DEF LastOne
<1>3. CASE Tail(q) = <<>>
  <2>1. Len(Tail(q)) = 0
    BY <1>3, EmptyQueue
  <2>2. Len(q) = 1
    <3>1. \A n \in Nat : n - 1 = 0 => n = 1
      OBVIOUS
    <3>2. Len(q) \in Nat /\ Len(q) - 1 = 0
      BY <1>1, <2>1
    <3> QED
      BY <3>1, <3>2
  <2> QED
    BY <1>2, <1>3, <2>2 DEF LastOne
<1>4. CASE Tail(q) # <<>>
  <2>1. Len(Tail(q)) \in 1..Len(Tail(q))
    BY <1>1, <1>4
  <2>2. Tail(q)[Len(Tail(q))] = q[Len(q)]
    BY <1>1, <2>1
  <2> QED
    BY <1>2, <1>4, <2>2 DEF LastOne
<1> QED
  BY <1>3, <1>4

(* It is given one more.                                                   *)
LEMMA OneMore ==
    ASSUME NEW q \in Seq(Marks), NEW m \in Marks
    PROVE  /\ Append(q, m) \in Seq(Marks) /\ Append(q, m) # <<>> /\ Len(q) \in Nat
           /\ Len(Append(q, m)) = Len(q) + 1 /\ Append(q, m)[Len(q) + 1] = m
           /\ \A i \in 1..Len(q) : Append(q, m)[i] = q[i]
           /\ q = <<>> => Append(q, m)[1] = m
           /\ q # <<>> => Append(q, m)[1] = q[1]
<1>1. /\ Append(q, m) \in Seq(Marks) /\ Len(q) \in Nat
      /\ Len(Append(q, m)) = Len(q) + 1 /\ Append(q, m)[Len(q) + 1] = m
      /\ \A i \in 1..Len(q) : Append(q, m)[i] = q[i]
  OBVIOUS
<1>2. Append(q, m) # <<>>
  <2>1. Len(Append(q, m)) # 0
    BY <1>1
  <2> QED
    BY <2>1, EmptyQueue
<1>3. q = <<>> => Len(q) = 0
  OBVIOUS
<1>4. q # <<>> => 1 \in 1..Len(q)
  BY FirstGoes
<1> QED
  BY <1>1, <1>2, <1>3, <1>4

LEMMA ChainGrows ==
    ASSUME NEW q \in Seq(Marks), NEW m \in Marks, NEW way, Chain(q, way),
           q = <<>> \/ <<q[Len(q)].kind, m.kind>> \in way
    PROVE  Chain(Append(q, m), way)
<1> DEFINE r == Append(q, m)
<1>1. /\ Len(q) \in Nat /\ Len(r) = Len(q) + 1 /\ r[Len(q) + 1] = m /\ \A i \in 1..Len(q) : r[i] = q[i]
  BY OneMore
<1> SUFFICES ASSUME NEW i \in 1..(Len(r) - 1) PROVE <<r[i].kind, r[i + 1].kind>> \in way
  BY DEF Chain
<1>2. i \in 1..Len(q) /\ q # <<>>
  BY <1>1
<1>3. CASE i = Len(q)
  BY <1>1, <1>2, <1>3
<1>4. CASE i # Len(q)
  <2>1. i \in 1..(Len(q) - 1) /\ i + 1 \in 1..Len(q)
    BY <1>1, <1>2, <1>4
  <2> QED
    BY <1>1, <1>2, <2>1 DEF Chain
<1> QED
  BY <1>3, <1>4

LEMMA LastIs ==
    ASSUME NEW q \in Seq(Marks), NEW m \in Marks, NEW S
    PROVE  LastOne(Append(q, m), S) <=> m.kind \in S
BY OneMore DEF LastOne

LEMMA TwoMore == ASSUME NEW q \in Seq(Marks), NEW m \in Marks, NEW n \in Marks
                 PROVE  q \o <<m, n>> = Append(Append(q, m), n)
OBVIOUS

LEMMA OneEmitted == ASSUME NEW q \in Seq(Marks), NEW m \in Marks PROVE q \o <<m>> = Append(q, m)
OBVIOUS

-----------------------------------------------------------------------------
(* What a mark does to the segmenter and to what is finished.              *)
SegFields ==
    /\ open \in Seg!Open \cup {Nothing} /\ pendingCmdline \in Nat \cup {Nothing}
    /\ disorder \in Nat /\ corrupted \in BOOLEAN /\ blocks \in Seq(Seg!Block) /\ warnings \in Nat

FinishedSame == Finished' = Finished /\ \A i \in Finished : blocks'[i] = blocks[i]
OneFinished(line, exit) ==
    LET n == Len(blocks) + 1 IN
    /\ Finished' = Finished \cup {n} /\ n \notin Finished /\ n \in Nat /\ \A i \in Finished : i < n /\ blocks'[i] = blocks[i]
    /\ blocks'[n].cmdline = line /\ blocks'[n].exit = exit

LEMMA FinishedAre == ASSUME SegFields PROVE Finished \subseteq 1..Len(blocks) /\ Len(blocks) \in Nat
BY DEF SegFields, Finished

LEMMA HandedOver ==
    ASSUME SegFields, NEW b \in Seg!Block, blocks' = Append(blocks, b)
    PROVE  /\ blocks' \in Seq(Seg!Block)
           /\ ~HasExit(b) => FinishedSame
           /\ HasExit(b) => OneFinished(b.cmdline, b.exit)
<1>1. blocks \in Seq(Seg!Block) /\ Len(blocks) \in Nat /\ DOMAIN blocks = 1..Len(blocks)
  BY DEF SegFields
<1>2. /\ blocks' \in Seq(Seg!Block) /\ DOMAIN blocks' = 1..(Len(blocks) + 1)
      /\ blocks'[Len(blocks) + 1] = b /\ \A i \in 1..Len(blocks) : blocks'[i] = blocks[i]
  BY <1>1
<1>3. \A i \in Finished : i \in 1..Len(blocks)
  BY <1>1 DEF Finished
<1>4. \A i \in 1..(Len(blocks) + 1) : i \in 1..Len(blocks) \/ i = Len(blocks) + 1
  BY <1>1
<1>5. \A i \in 1..Len(blocks) : i \in 1..(Len(blocks) + 1) /\ i # Len(blocks) + 1 /\ i < Len(blocks) + 1
  BY <1>1
<1>6. Len(blocks) + 1 \in 1..(Len(blocks) + 1)
  BY <1>1
<1>7. ASSUME ~HasExit(b) PROVE Finished' = Finished
  BY <1>1, <1>2, <1>4, <1>5, <1>7 DEF Finished, HasExit
<1>8. ASSUME HasExit(b) PROVE Finished' = Finished \cup {Len(blocks) + 1}
  BY <1>1, <1>2, <1>4, <1>5, <1>6, <1>8 DEF Finished, HasExit
<1> QED
  BY <1>1, <1>2, <1>3, <1>5, <1>7, <1>8 DEF FinishedSame, OneFinished

LEMMA BlocksSame == ASSUME UNCHANGED blocks PROVE FinishedSame
BY DEF FinishedSame, Finished, HasExit

LEMMA OpenedType ==
    ASSUME NEW kind \in {"prompt", "command"}, NEW l \in Nat \cup {Nothing}
    PROVE  /\ Seg!Opened(kind, 0, l) \in Seg!Open /\ Seg!Opened(kind, 0, l) # Nothing
           /\ Seg!Opened(kind, 0, l).kind = kind /\ Seg!Opened(kind, 0, l).cmdline = l
           /\ ~Seg!Opened(kind, 0, l).executed
<1>1. Seg!Opened(kind, 0, l) \in Seg!Open
  BY DEF Seg!Opened, Seg!Open, Seg!Optional
<1>2. Seg!Opened(kind, 0, l) # Nothing
  BY <1>1, ShellLimits
<1> QED
  BY <1>1, <1>2 DEF Seg!Opened

LEMMA LineType ==
    ASSUME NEW o \in Seg!Open, NEW l \in Nat
    PROVE  [o EXCEPT !.cmdline = l] \in Seg!Open /\ [o EXCEPT !.cmdline = l] # Nothing
           /\ [o EXCEPT !.cmdline = l].cmdline = l /\ [o EXCEPT !.cmdline = l].kind = o.kind
<1>1. [o EXCEPT !.cmdline = l] \in Seg!Open
  BY DEF Seg!Open, Seg!Optional
<1>2. [o EXCEPT !.cmdline = l] # Nothing
  BY <1>1, ShellLimits
<1>3. [o EXCEPT !.cmdline = l].cmdline = l /\ [o EXCEPT !.cmdline = l].kind = o.kind
  BY DEF Seg!Open
<1> QED
  BY <1>1, <1>2, <1>3

LEMMA ExecutedType ==
    ASSUME NEW o \in Seg!Open, NEW x, x = [o EXCEPT !.executed = TRUE, !.output = 0]
    PROVE  x \in Seg!Open /\ x # Nothing /\ x.cmdline = o.cmdline /\ x.kind = o.kind /\ x.executed
<1>1. x \in Seg!Open
  BY DEF Seg!Open, Seg!Optional
<1>2. x # Nothing
  BY <1>1, ShellLimits
<1>3. x.cmdline = o.cmdline /\ x.kind = o.kind /\ x.executed
  BY DEF Seg!Open
<1> QED
  BY <1>1, <1>2, <1>3

LEMMA OpenParts ==
    ASSUME NEW o \in Seg!Open
    PROVE  /\ o # Nothing /\ o.kind \in {"prompt", "command"} /\ o.cmdline \in Nat \cup {Nothing}
           /\ o.start \in Nat /\ o.output \in Nat \cup {Nothing} /\ o.executed \in BOOLEAN
<1>1. o # Nothing
  BY ShellLimits
<1> QED
  BY <1>1 DEF Seg!Open, Seg!Optional

LEMMA ClosedBlock ==
    ASSUME NEW o \in Seg!Open, NEW end \in Nat
    PROVE  Seg!BlockOf(o, end) \in Seg!Block /\ ~HasExit(Seg!BlockOf(o, end))
BY OpenParts DEF Seg!BlockOf, Seg!Block, Seg!Optional, HasExit

(* 133;A and 133;B: a block without an exit at most, and another one open. *)
LEMMA StartFed ==
    ASSUME SegFields, ~corrupted, Seg!PromptStart(0) \/ Seg!CommandStart(0)
    PROVE  /\ SegFields' /\ FinishedSame /\ disorder' = disorder /\ ~corrupted' /\ open' # Nothing
           /\ Seg!PromptStart(0) => /\ Seg!InPrompt' /\ ~Seg!InCommand' /\ pendingCmdline' = pendingCmdline
           /\ Seg!CommandStart(0) => /\ Seg!InCommand' /\ ~Seg!InPrompt' /\ open'.cmdline = pendingCmdline
                                     /\ pendingCmdline' = Nothing
<1>1. /\ Seg!Opened("prompt", 0, Nothing) \in Seg!Open /\ Seg!Opened("command", 0, pendingCmdline) \in Seg!Open
      /\ Seg!Opened("prompt", 0, Nothing) # Nothing /\ Seg!Opened("command", 0, pendingCmdline) # Nothing
      /\ Seg!Opened("prompt", 0, Nothing).kind = "prompt"
      /\ Seg!Opened("command", 0, pendingCmdline).kind = "command"
      /\ Seg!Opened("command", 0, pendingCmdline).cmdline = pendingCmdline
  BY OpenedType DEF SegFields
<1>2. blocks' \in Seq(Seg!Block) /\ FinishedSame
  <2>1. CASE UNCHANGED blocks
    BY <2>1, BlocksSame DEF SegFields
  <2>2. CASE open # Nothing /\ blocks' = Append(blocks, Seg!BlockOf(open, Seg!Above(0)))
    <3>1. Seg!Above(0) \in Nat
      BY DEF Seg!Above
    <3> QED
      BY <2>2, <3>1, ClosedBlock, HandedOver DEF SegFields
  <2> QED
    BY <2>1, <2>2 DEF Seg!PromptStart, Seg!CommandStart, Seg!HandOver, Seg!InPrompt
<1> QED
  BY <1>1, <1>2 DEF SegFields, Seg!PromptStart, Seg!CommandStart, Seg!InOrder, Seg!InPrompt, Seg!InCommand

(* 633;E: the line of the open command, or of the next.                    *)
LEMMA LineFed ==
    ASSUME SegFields, ~corrupted, NEW l \in Nat, Seg!CommandLine(l)
    PROVE  /\ SegFields' /\ FinishedSame /\ disorder' = disorder /\ ~corrupted' /\ Titled' = l
           /\ Seg!InCommand' = Seg!InCommand /\ Seg!InPrompt' = Seg!InPrompt /\ (open = Nothing => open' = Nothing)
           /\ Seg!InCommand => pendingCmdline' = pendingCmdline /\ open'.cmdline = l
<1>1. FinishedSame /\ UNCHANGED <<blocks, disorder, corrupted, warnings>>
  BY BlocksSame DEF Seg!CommandLine, Seg!InOrder
<1>2. CASE Seg!InCommand
  <2>1. open \in Seg!Open /\ open' = [open EXCEPT !.cmdline = l] /\ UNCHANGED pendingCmdline
    BY <1>2 DEF SegFields, Seg!InCommand, Seg!CommandLine
  <2>2. open' \in Seg!Open /\ open'.cmdline = l /\ open'.kind = open.kind /\ open' # Nothing
    BY <2>1, LineType
  <2> QED
    BY <1>1, <1>2, <2>1, <2>2 DEF SegFields, Seg!InCommand, Seg!InPrompt, Titled
<1>3. CASE ~Seg!InCommand
  BY <1>1, <1>3 DEF SegFields, Seg!InCommand, Seg!InPrompt, Titled, Seg!CommandLine
<1> QED
  BY <1>2, <1>3

LEMMA Disordered ==
    ASSUME SegFields, ~corrupted, Seg!NoteDisorder
    PROVE  /\ disorder' = disorder + 1 /\ disorder' \in Nat /\ corrupted' \in BOOLEAN /\ warnings' \in Nat
           /\ corrupted' <=> disorder + 1 >= CorruptLimit
<1>1. disorder \in Nat /\ CorruptLimit \in Nat /\ warnings \in Nat /\ corrupted \in BOOLEAN
  BY ShellLimits DEF SegFields
<1>2. CASE disorder + 1 >= CorruptLimit
  BY <1>1, <1>2 DEF Seg!NoteDisorder
<1>3. CASE ~(disorder + 1 >= CorruptLimit)
  BY <1>1, <1>3 DEF Seg!NoteDisorder
<1> QED
  BY <1>2, <1>3

(* 133;C: the open command runs; without one it is disorder.               *)
LEMMA ExecutedFed ==
    ASSUME SegFields, ~corrupted, Seg!CommandExecuted(0)
    PROVE  /\ SegFields' /\ FinishedSame
           /\ ~corrupted' => /\ Seg!InCommand' /\ ~Seg!InPrompt' /\ open'.executed /\ open' # Nothing
                             /\ Titled' = Titled
           /\ Seg!InCommand => /\ disorder' = disorder /\ ~corrupted' /\ open'.cmdline = open.cmdline
                               /\ pendingCmdline' = pendingCmdline
           /\ ~Seg!InCommand => /\ disorder' = disorder + 1 /\ (corrupted' <=> disorder + 1 >= CorruptLimit)
<1>1. FinishedSame /\ UNCHANGED blocks
  BY BlocksSame DEF Seg!CommandExecuted
<1>2. CASE Seg!InCommand /\ open' = [open EXCEPT !.executed = TRUE, !.output = 0] /\ UNCHANGED pendingCmdline /\ Seg!InOrder
  <2>1. open \in Seg!Open
    BY <1>2 DEF SegFields, Seg!InCommand
  <2>2. open' \in Seg!Open /\ open'.cmdline = open.cmdline /\ open'.kind = open.kind /\ open' # Nothing /\ open'.executed
    BY <1>2, <2>1, ExecutedType
  <2> QED
    BY <1>1, <1>2, <2>2 DEF SegFields, Seg!InCommand, Seg!InPrompt, Titled, Seg!InOrder
<1>3. CASE ~Seg!InCommand /\ Seg!NoteDisorder
  <2>1. /\ disorder' = disorder + 1 /\ disorder' \in Nat /\ corrupted' \in BOOLEAN /\ warnings' \in Nat
        /\ corrupted' <=> disorder + 1 >= CorruptLimit
    BY <1>3, Disordered
  <2>2. CASE corrupted'
    <3>1. UNCHANGED <<open, pendingCmdline>>
      BY <1>3, <2>2 DEF Seg!CommandExecuted
    <3> QED
      BY <1>1, <1>3, <2>1, <2>2, <3>1 DEF SegFields
  <2>3. CASE ~corrupted'
    <3> DEFINE o == Seg!Opened("command", 0, pendingCmdline)
    <3>1. /\ o \in Seg!Open /\ o.kind = "command" /\ o.cmdline = pendingCmdline
      BY OpenedType DEF SegFields
    <3>2. open' = [o EXCEPT !.executed = TRUE, !.output = 0] /\ pendingCmdline' = Nothing
      BY <1>3, <2>3 DEF Seg!CommandExecuted
    <3> HIDE DEF o
    <3>3. open' \in Seg!Open /\ open'.cmdline = pendingCmdline /\ open'.kind = "command" /\ open' # Nothing /\ open'.executed
      BY <3>1, <3>2, ExecutedType
    <3> QED
      BY <1>1, <1>3, <2>1, <2>3, <3>2, <3>3 DEF SegFields, Seg!InCommand, Seg!InPrompt, Titled
  <2> QED
    BY <2>2, <2>3
<1> QED
  BY <1>2, <1>3 DEF Seg!CommandExecuted

(* 133;D: the open command is finished; without one it is disorder.        *)
LEMMA FinishedFed ==
    ASSUME SegFields, ~corrupted, NEW exit \in Exits, Seg!CommandFinished(0, exit)
    PROVE  /\ SegFields' /\ pendingCmdline' = pendingCmdline
           /\ Seg!InCommand => /\ disorder' = disorder /\ ~corrupted' /\ open' = Nothing
                               /\ OneFinished(open.cmdline, exit)
           /\ ~Seg!InCommand => /\ FinishedSame /\ disorder' = disorder + 1 /\ open' = open
                                /\ (corrupted' <=> disorder + 1 >= CorruptLimit)
<1>1. CASE Seg!InCommand /\ open' = Nothing /\ Seg!InOrder
  <2> DEFINE b == [kind |-> "command", confidence |-> "marked", start |-> open.start, end |-> 0,
                   cmdline |-> open.cmdline, exit |-> exit, timed |-> open.executed, output |-> open.output]
  <2>1. open \in Seg!Open
    BY <1>1 DEF SegFields, Seg!InCommand
  <2>2. b \in Seg!Block
    <3>1. /\ open.cmdline \in Nat \cup {Nothing} /\ open.start \in Nat /\ open.output \in Nat \cup {Nothing}
          /\ open.executed \in BOOLEAN
      BY <2>1, OpenParts
    <3> QED
      BY <3>1 DEF Seg!Block, Seg!Optional
  <2>3. HasExit(b) /\ b.cmdline = open.cmdline /\ b.exit = exit
    BY ShellLimits DEF HasExit
  <2>4. blocks' = Append(blocks, b) /\ UNCHANGED <<pendingCmdline, disorder, corrupted, warnings>>
    BY <1>1 DEF Seg!CommandFinished, Seg!HandOver, Seg!InOrder
  <2> HIDE DEF b
  <2>5. blocks' \in Seq(Seg!Block) /\ OneFinished(open.cmdline, exit)
    BY <2>2, <2>3, <2>4, HandedOver
  <2> QED
    BY <1>1, <2>4, <2>5 DEF SegFields
<1>2. CASE ~Seg!InCommand /\ Seg!NoteDisorder /\ UNCHANGED <<open, blocks>>
  <2>1. UNCHANGED pendingCmdline
    BY DEF Seg!CommandFinished
  <2> QED
    BY <1>2, <2>1, Disordered, BlocksSame DEF SegFields
<1> QED
  BY <1>1, <1>2 DEF Seg!CommandFinished

-----------------------------------------------------------------------------
(* The D's of a queue, counted.                                            *)
LEMMA EndsAre ==
    ASSUME NEW q \in Seq(Marks), NEW i
    PROVE  IsFiniteSet(EndsUpTo(q, i)) /\ Cardinality(EndsUpTo(q, i)) \in Nat /\ EndsUpTo(q, i) \subseteq 1..Len(q)
<1>1. Len(q) \in Nat /\ EndsUpTo(q, i) \subseteq 1..Len(q)
  BY DEF EndsUpTo
<1>2. IsFiniteSet(1..Len(q))
  BY <1>1, FS_Interval
<1> QED
  BY <1>1, <1>2, FS_Subset, FS_CardinalityType

LEMMA EndsGrow ==
    ASSUME NEW q \in Seq(Marks), NEW m \in Marks
    PROVE  /\ \A i \in 1..Len(q) : EndsUpTo(Append(q, m), i) = EndsUpTo(q, i)
           /\ EndsIn(Append(q, m)) = EndsIn(q) + (IF m.kind = "D" THEN 1 ELSE 0)
           /\ EndsIn(q) \in Nat
<1> DEFINE r == Append(q, m)
           n == Len(q)
<1>1. n \in Nat /\ Len(r) = n + 1 /\ r[n + 1] = m /\ \A i \in 1..n : r[i] = q[i]
  BY OneMore
<1>2. \A i \in 1..(n + 1) : i \in 1..n \/ i = n + 1
  BY <1>1
<1>3. \A i \in 1..n : i \in 1..(n + 1) /\ i <= n /\ i <= n + 1 /\ i # n + 1 /\ ~(n + 1 <= i)
  BY <1>1
<1> HIDE DEF n, r
<1>4. ASSUME NEW i \in 1..n PROVE EndsUpTo(r, i) = EndsUpTo(q, i)
  BY <1>1, <1>2, <1>3 DEF EndsUpTo, n
<1>5. EndsUpTo(r, n + 1) = EndsUpTo(q, n) \cup (IF m.kind = "D" THEN {n + 1} ELSE {}) /\ n + 1 \notin EndsUpTo(q, n)
  <2>1. n + 1 \in 1..(n + 1) /\ n + 1 <= n + 1 /\ n + 1 \notin 1..n
    BY <1>1
  <2> QED
    BY <1>1, <1>2, <1>3, <2>1 DEF EndsUpTo, n
<1>6. IsFiniteSet(EndsUpTo(q, n)) /\ Cardinality(EndsUpTo(q, n)) \in Nat
  BY EndsAre
<1>7. EndsIn(r) = EndsIn(q) + (IF m.kind = "D" THEN 1 ELSE 0) /\ EndsIn(q) \in Nat
  <2>1. EndsIn(r) = Cardinality(EndsUpTo(r, n + 1)) /\ EndsIn(q) = Cardinality(EndsUpTo(q, n))
    BY <1>1 DEF EndsIn, n
  <2>2. CASE m.kind = "D"
    <3>1. Cardinality(EndsUpTo(q, n) \cup {n + 1}) = Cardinality(EndsUpTo(q, n)) + 1
      BY <1>5, <1>6, FS_AddElement
    <3> QED
      BY <1>5, <1>6, <2>1, <2>2, <3>1
  <2>3. CASE m.kind # "D"
    <3>1. EndsUpTo(r, n + 1) = EndsUpTo(q, n)
      BY <1>5, <2>3
    <3> QED
      BY <1>6, <2>1, <2>3, <3>1
  <2> QED
    BY <2>2, <2>3
<1> QED
  BY <1>4, <1>7 DEF n, r

(* The same places, each one lower.                                        *)
LEMMA Lowered ==
    ASSUME NEW S \in SUBSET Nat, IsFiniteSet(S)
    PROVE  Cardinality({j + 1 : j \in S}) = Cardinality(S) /\ IsFiniteSet({j + 1 : j \in S})
<1> DEFINE T == {j + 1 : j \in S}
           f == [j \in S |-> j + 1]
<1>1. f \in Bijection(S, T)
  BY DEF Bijection, Injection, Surjection, IsInjective
<1>2. ExistsBijection(S, T)
  BY <1>1 DEF ExistsBijection
<1> QED
  BY <1>2, FS_Bijection

LEMMA EndsGo ==
    ASSUME NEW q \in Seq(Marks), q # <<>>
    PROVE  /\ \A i \in 0..Len(Tail(q)) :
                  Cardinality(EndsUpTo(q, i + 1))
                      = Cardinality(EndsUpTo(Tail(q), i)) + (IF q[1].kind = "D" THEN 1 ELSE 0)
           /\ EndsIn(q) = EndsIn(Tail(q)) + (IF q[1].kind = "D" THEN 1 ELSE 0)
           /\ EndsIn(q) \in Nat /\ EndsIn(Tail(q)) \in Nat
<1> DEFINE t == Tail(q)
<1>1. /\ t \in Seq(Marks) /\ Len(t) = Len(q) - 1 /\ Len(q) \in Nat /\ Len(t) \in Nat /\ Len(q) > 0
      /\ \A j \in 1..Len(t) : t[j] = q[j + 1]
  BY FirstGoes
<1> HIDE DEF t
<1>2. ASSUME NEW i \in 0..Len(t)
      PROVE  Cardinality(EndsUpTo(q, i + 1)) = Cardinality(EndsUpTo(t, i)) + (IF q[1].kind = "D" THEN 1 ELSE 0)
  <2> DEFINE S == EndsUpTo(t, i)
             T == {j + 1 : j \in S}
  <2>1. IsFiniteSet(S) /\ S \subseteq 1..Len(t) /\ Cardinality(S) \in Nat
    BY <1>1, EndsAre
  <2>2. S \in SUBSET Nat
    BY <2>1
  <2>3. Cardinality(T) = Cardinality(S) /\ IsFiniteSet(T)
    BY <2>1, <2>2, Lowered
  <2>4. 1 \notin T
    BY <2>1
  <2>5. \A k \in 1..Len(q) : k = 1 \/ (k - 1 \in 1..Len(t) /\ k = (k - 1) + 1 /\ (k <= i + 1 <=> k - 1 <= i))
    BY <1>1
  <2>6. \A j \in 1..Len(t) : j + 1 \in 1..Len(q) /\ (j + 1 <= i + 1 <=> j <= i)
    BY <1>1
  <2>7. 1 \in 1..Len(q) /\ 1 <= i + 1
    BY <1>1
  <2>8. \A k : k \in EndsUpTo(q, i + 1) => k \in T \/ (k = 1 /\ q[1].kind = "D")
    <3> TAKE k
    <3> HAVE k \in EndsUpTo(q, i + 1)
    <3>1. k \in 1..Len(q) /\ q[k].kind = "D" /\ k <= i + 1
      BY DEF EndsUpTo
    <3>2. CASE k = 1
      BY <3>1, <3>2
    <3>3. CASE k # 1
      <4>1. k - 1 \in 1..Len(t) /\ k = (k - 1) + 1 /\ k - 1 <= i
        BY <2>5, <3>1, <3>3
      <4>2. t[k - 1].kind = "D"
        BY <1>1, <3>1, <4>1
      <4>3. k - 1 \in S
        BY <4>1, <4>2 DEF EndsUpTo
      <4> QED
        BY <4>1, <4>3
    <3> QED
      BY <3>2, <3>3
  <2>9. \A k \in T : k \in EndsUpTo(q, i + 1)
    <3> SUFFICES ASSUME NEW j \in S PROVE j + 1 \in EndsUpTo(q, i + 1)
      OBVIOUS
    <3>1. j \in 1..Len(t) /\ t[j].kind = "D" /\ j <= i
      BY DEF EndsUpTo
    <3> QED
      BY <1>1, <2>6, <3>1 DEF EndsUpTo
  <2>10. q[1].kind = "D" => 1 \in EndsUpTo(q, i + 1)
    BY <2>7 DEF EndsUpTo
  <2>11. CASE q[1].kind = "D"
    <3>1. EndsUpTo(q, i + 1) = T \cup {1}
      BY <2>8, <2>9, <2>10, <2>11
    <3>2. Cardinality(T \cup {1}) = Cardinality(T) + 1
      BY <2>3, <2>4, FS_AddElement
    <3> QED
      BY <2>1, <2>3, <2>11, <3>1, <3>2
  <2>12. CASE q[1].kind # "D"
    <3>1. EndsUpTo(q, i + 1) = T
      BY <2>8, <2>9, <2>12
    <3>2. Cardinality(EndsUpTo(q, i + 1)) = Cardinality(EndsUpTo(t, i)) /\ Cardinality(EndsUpTo(t, i)) \in Nat
      BY <2>1, <2>3, <3>1
    <3> HIDE DEF S, T
    <3> QED
      BY <2>12, <3>2
  <2> QED
    BY <2>11, <2>12
<1>3. Len(t) \in 0..Len(t) /\ Len(t) + 1 = Len(q)
  BY <1>1
<1>4. EndsIn(q) = EndsIn(t) + (IF q[1].kind = "D" THEN 1 ELSE 0)
  <2>1. Cardinality(EndsUpTo(q, Len(t) + 1)) = Cardinality(EndsUpTo(t, Len(t))) + (IF q[1].kind = "D" THEN 1 ELSE 0)
    BY <1>2, <1>3
  <2> QED
    BY <1>3, <2>1 DEF EndsIn
<1> QED
  BY <1>1, <1>2, <1>4, EndsAre DEF t, EndsIn

(* The record goes on, and loses what is stored.                           *)
LEMMA RecordGrows ==
    ASSUME NEW q \in Seq(Marks), NEW m \in Marks, NEW n \in Nat, NEW line, NEW log, Recorded(q, n, line, log),
           m.kind = "D" => /\ n + EndsIn(q) + 1 <= Len(log)
                           /\ log[n + EndsIn(q) + 1] = <<Title(q, Len(q) + 1, line), m.exit>>
    PROVE  Recorded(Append(q, m), n, line, log)
<1> DEFINE r == Append(q, m)
<1>1. Len(q) \in Nat /\ Len(r) = Len(q) + 1 /\ r[Len(q) + 1] = m /\ \A i \in 1..Len(q) : r[i] = q[i]
  BY OneMore
<1>2. /\ \A i \in 1..Len(q) : EndsUpTo(r, i) = EndsUpTo(q, i)
      /\ EndsIn(r) = EndsIn(q) + (IF m.kind = "D" THEN 1 ELSE 0) /\ EndsIn(q) \in Nat
  BY EndsGrow
<1>3. \A i \in 1..(Len(q) + 1) : Title(r, i, line) = Title(q, i, line)
  <2>1. \A i \in 1..(Len(q) + 1) : i >= 3 => i - 2 \in 1..Len(q)
    BY <1>1
  <2> QED
    BY <1>1, <2>1 DEF Title
<1> HIDE DEF r
<1> SUFFICES ASSUME NEW i \in 1..Len(r), r[i].kind = "D"
             PROVE  /\ n + Cardinality(EndsUpTo(r, i)) <= Len(log)
                    /\ log[n + Cardinality(EndsUpTo(r, i))] = <<Title(r, i, line), r[i].exit>>
  BY DEF Recorded, r
<1>4. CASE i \in 1..Len(q)
  <2>1. i \in 1..(Len(q) + 1)
    BY <1>1
  <2> QED
    BY <1>1, <1>2, <1>3, <1>4, <2>1 DEF Recorded
<1>5. CASE i = Len(q) + 1
  <2>1. Cardinality(EndsUpTo(r, i)) = EndsIn(q) + 1 /\ m.kind = "D"
    BY <1>1, <1>2, <1>5 DEF EndsIn
  <2>2. n + (EndsIn(q) + 1) = n + EndsIn(q) + 1
    BY <1>2
  <2> QED
    BY <1>1, <1>3, <1>5, <2>1, <2>2
<1> QED
  BY <1>1, <1>4, <1>5

LEMMA RecordKept ==
    ASSUME NEW q \in Seq(Marks), NEW n \in Nat, NEW line, NEW S, NEW log \in Seq(S), NEW x \in S,
           Recorded(q, n, line, log)
    PROVE  Recorded(q, n, line, Append(log, x))
<1>1. Len(Append(log, x)) = Len(log) + 1 /\ Len(log) \in Nat /\ \A k \in 1..Len(log) : Append(log, x)[k] = log[k]
  OBVIOUS
<1>2. \A i \in 1..Len(q) : Cardinality(EndsUpTo(q, i)) \in Nat /\ (q[i].kind = "D" => Cardinality(EndsUpTo(q, i)) > 0)
  <2> SUFFICES ASSUME NEW i \in 1..Len(q)
               PROVE  Cardinality(EndsUpTo(q, i)) \in Nat /\ (q[i].kind = "D" => Cardinality(EndsUpTo(q, i)) > 0)
    OBVIOUS
  <2>1. IsFiniteSet(EndsUpTo(q, i)) /\ Cardinality(EndsUpTo(q, i)) \in Nat
    BY EndsAre
  <2>2. q[i].kind = "D" => i \in EndsUpTo(q, i)
    BY DEF EndsUpTo
  <2>3. EndsUpTo(q, i) # {} => Cardinality(EndsUpTo(q, i)) # 0
    BY <2>1, FS_EmptySet
  <2> QED
    BY <2>1, <2>2, <2>3
<1> QED
  <2> SUFFICES ASSUME NEW i \in 1..Len(q), q[i].kind = "D"
               PROVE  /\ n + Cardinality(EndsUpTo(q, i)) <= Len(Append(log, x))
                      /\ Append(log, x)[n + Cardinality(EndsUpTo(q, i))] = <<Title(q, i, line), q[i].exit>>
    BY DEF Recorded
  <2>1. /\ n + Cardinality(EndsUpTo(q, i)) <= Len(log)
        /\ log[n + Cardinality(EndsUpTo(q, i))] = <<Title(q, i, line), q[i].exit>>
    BY DEF Recorded
  <2>2. n + Cardinality(EndsUpTo(q, i)) \in 1..Len(log)
    BY <1>1, <1>2, <2>1
  <2> QED
    BY <1>1, <2>1, <2>2

LEMMA RecordGoes ==
    ASSUME NEW q \in Seq(Marks), q # <<>>, Chain(q, Way), NEW n \in Nat, NEW line, NEW log, Recorded(q, n, line, log),
           NEW next, q[1].kind = "E" => next = q[1].cmdline, q[1].kind = "C" => next = line
    PROVE  /\ Recorded(Tail(q), n + (IF q[1].kind = "D" THEN 1 ELSE 0), next, log)
           /\ LastOne(q, {"C"}) => Title(Tail(q), Len(Tail(q)) + 1, next) = Title(q, Len(q) + 1, line)
<1> DEFINE t == Tail(q)
<1>1. /\ t \in Seq(Marks) /\ Len(t) = Len(q) - 1 /\ Len(q) \in Nat /\ Len(t) \in Nat /\ Len(q) > 0
      /\ \A j \in 1..Len(t) : t[j] = q[j + 1]
  BY FirstGoes
<1>2. \A i \in 0..Len(t) : Cardinality(EndsUpTo(q, i + 1))
                               = Cardinality(EndsUpTo(t, i)) + (IF q[1].kind = "D" THEN 1 ELSE 0)
  BY EndsGo
<1> HIDE DEF t
<1>3. ASSUME NEW i \in 1..Len(q), q[i].kind = "C" PROVE Title(t, i, next) = Title(q, i + 1, line)
  <2>1. CASE i = 1
    BY <1>3, <2>1 DEF Title
  <2>2. CASE i = 2
    <3>1. <<q[1].kind, q[2].kind>> \in Way
      <4>1. 1 \in 1..(Len(q) - 1)
        BY <1>1, <2>2
      <4>2. <<q[1].kind, q[1 + 1].kind>> \in Way
        BY <4>1 DEF Chain
      <4> QED
        BY <4>2
    <3>2. q[1].kind = "E"
      BY <1>3, <2>2, <3>1 DEF Way
    <3>3. Title(t, 2, next) = next /\ Title(q, 3, line) = q[1].cmdline
      BY DEF Title
    <3> QED
      BY <2>2, <3>2, <3>3
  <2>3. CASE i > 2
    <3>1. i - 2 \in 1..Len(t) /\ (i - 2) + 1 = (i + 1) - 2
      BY <1>1, <2>3
    <3> QED
      BY <1>1, <2>3, <3>1 DEF Title
  <2> QED
    BY <2>1, <2>2, <2>3
<1>4. ASSUME NEW i \in 1..Len(t), t[i].kind = "D"
      PROVE  LET k == n + (IF q[1].kind = "D" THEN 1 ELSE 0) + Cardinality(EndsUpTo(t, i))
             IN  k <= Len(log) /\ log[k] = <<Title(t, i, next), t[i].exit>>
  <2>1. i \in 1..Len(q) /\ i + 1 \in 1..Len(q) /\ i \in 1..(Len(q) - 1) /\ i \in 0..Len(t)
    BY <1>1
  <2>2. t[i] = q[i + 1] /\ <<q[i].kind, q[i + 1].kind>> \in Way
    BY <1>1, <2>1 DEF Chain
  <2>3. q[i].kind = "C"
    BY <1>4, <2>2 DEF Way
  <2>4. Title(t, i, next) = Title(q, i + 1, line)
    BY <1>3, <2>1, <2>3
  <2>5. /\ n + Cardinality(EndsUpTo(q, i + 1)) <= Len(log)
        /\ log[n + Cardinality(EndsUpTo(q, i + 1))] = <<Title(q, i + 1, line), q[i + 1].exit>>
    BY <1>4, <2>1, <2>2 DEF Recorded
  <2>6. Cardinality(EndsUpTo(t, i)) \in Nat
    BY <1>1, EndsAre
  <2>7. n + (IF q[1].kind = "D" THEN 1 ELSE 0) + Cardinality(EndsUpTo(t, i)) = n + Cardinality(EndsUpTo(q, i + 1))
    BY <1>2, <2>1, <2>6
  <2> QED
    BY <2>2, <2>4, <2>5, <2>7
<1>5. ASSUME LastOne(q, {"C"}) PROVE Title(t, Len(t) + 1, next) = Title(q, Len(q) + 1, line)
  <2>1. Len(q) \in 1..Len(q) /\ q[Len(q)].kind = "C" /\ Len(t) + 1 = Len(q)
    BY <1>1, <1>5 DEF LastOne
  <2> QED
    BY <1>3, <2>1
<1> QED
  BY <1>4, <1>5 DEF Recorded, t
-----------------------------------------------------------------------------
(* The next mark is read.                                                  *)
LEMMA PtyMarks == ASSUME BlocksTypeOK PROVE pty \in Seq(Marks)
BY DEF BlocksTypeOK, Marks

LEMMA MarkRead ==
    ASSUME BlocksTypeOK, SegTypes, Segment
    PROVE  /\ pty \in Seq(Marks) /\ pty # <<>> /\ pty' = Tail(pty) /\ SegFields' /\ SegFields
           /\ corrupted => corrupted' /\ FinishedSame /\ UNCHANGED segVars
           /\ ~corrupted =>
                  /\ pty[1].kind = "A" => Seg!PromptStart(0)
                  /\ pty[1].kind = "B" => Seg!CommandStart(0)
                  /\ pty[1].kind = "C" => Seg!CommandExecuted(0)
                  /\ pty[1].kind = "D" => Seg!CommandFinished(0, pty[1].exit) /\ pty[1].exit \in Exits
                  /\ pty[1].kind = "E" => Seg!CommandLine(pty[1].cmdline) /\ pty[1].cmdline \in Lines \cup {Enter}
           /\ pty[1].kind \in {"A", "B", "C", "D", "E"}
<1>1. pty \in Seq(Marks) /\ pty # <<>> /\ pty' = Tail(pty) /\ Seg!OnMark(Head(pty), 0)
  BY PtyMarks DEF Segment
<1>2. SegFields
  BY DEF SegTypes, SegFields
<1>3. Head(pty) = pty[1] /\ pty[1] \in Marks
  BY <1>1, FirstGoes
<1>4. /\ pty[1].kind \in {"A", "B", "C", "D", "E"}
      /\ pty[1].kind = "D" => pty[1].exit \in Exits
      /\ pty[1].kind = "E" => pty[1].cmdline \in Lines \cup {Enter}
  BY <1>3, MarkKinds
<1>5. CASE corrupted
  <2>1. UNCHANGED segVars
    BY <1>1, <1>5 DEF Seg!OnMark, Seg!segVars, segVars
  <2> QED
    BY <1>1, <1>2, <1>4, <1>5, <2>1, BlocksSame DEF segVars, SegFields
<1>6. CASE ~corrupted
  <2>1. Seg!Fed(pty[1], 0)
    BY <1>1, <1>3, <1>6 DEF Seg!OnMark
  <2>2. /\ pty[1].kind = "A" => Seg!PromptStart(0)
        /\ pty[1].kind = "B" => Seg!CommandStart(0)
        /\ pty[1].kind = "C" => Seg!CommandExecuted(0)
        /\ pty[1].kind = "D" => Seg!CommandFinished(0, pty[1].exit)
        /\ pty[1].kind = "E" => Seg!CommandLine(pty[1].cmdline)
    BY <1>4, <2>1 DEF Seg!Fed
  <2>3. pty[1].kind = "E" => pty[1].cmdline \in Nat
    BY <1>4, ShellLimits
  <2>4. SegFields'
    BY <1>2, <1>4, <1>6, <2>2, <2>3, StartFed, LineFed, ExecutedFed, FinishedFed
  <2> QED
    BY <1>1, <1>2, <1>4, <1>6, <2>2, <2>4
<1> QED
  BY <1>5, <1>6

-----------------------------------------------------------------------------
(* Types.                                                                  *)
LEMMA TypesInit == ASSUME ShellInit PROVE BlocksTypeOK /\ SegTypes
<1>1. MaxLines \in Nat /\ MaxRedraws \in Nat /\ MaxCrashes \in Nat
  BY ShellLimits
<1>2. 0 \in 0..MaxLines /\ 0 \in 0..MaxRedraws /\ 0 \in 0..MaxCrashes
  BY <1>1
<1>3. <<>> \in Seq(Lines \cup {Enter}) /\ <<>> \in Seq(Marks) /\ <<>> \in Seq(Lines \X Exits) /\ <<>> \in Seq(Seg!Block)
  OBVIOUS
<1>4. BlocksTypeOK
  BY <1>2, <1>3 DEF ShellInit, BlocksTypeOK, Marks
<1>5. SegTypes
  BY <1>3 DEF ShellInit, Seg!Init, SegTypes
<1> QED
  BY <1>4, <1>5

LEMMA LinesTyped ==
    ASSUME NEW S, NEW q \in Seq(S)
    PROVE  /\ \A x \in S : Append(q, x) \in Seq(S)
           /\ q # <<>> => Tail(q) \in Seq(S) /\ Head(q) \in S
OBVIOUS

(* What the shell emits.                                                   *)
LEMMA ShellEmits ==
    ASSUME BlocksTypeOK, SegTypes
    PROVE  /\ pty \in Seq(Marks) /\ A \in Marks /\ B \in Marks /\ C \in Marks /\ \A x \in Exits : D(x) \in Marks
           /\ D(status) \in Marks /\ E(current) \in Marks
           /\ Precmd => pty' = IF active /\ shell # "fish" THEN Append(Append(pty, D(status)), A) ELSE Append(pty, A)
           /\ Hook => pty' = Append(Append(pty, E(current)), C)
           /\ Prompt \/ Redraw => pty' = Append(pty, B)
           /\ ReadLine => /\ tty' \in Seq(Lines \cup {Enter}) /\ Head(tty) \in Lines \cup {Enter}
                          /\ E(Head(tty)) \in Marks
                          /\ \/ pty' = pty
                             \/ pty' = Append(Append(pty, E(Head(tty))), C)
           /\ \A x \in Exits : CommandEnds(x) => pty' = IF shell = "fish" THEN Append(pty, D(x)) ELSE pty
<1>1. pty \in Seq(Marks)
  BY PtyMarks
<1>2. A \in Marks /\ B \in Marks /\ C \in Marks /\ \A x \in Exits : D(x) \in Marks
  BY MarkParts
<1>3. D(status) \in Marks
  <2>1. status \in Exits
    BY DEF BlocksTypeOK
  <2> QED
    BY <1>2, <2>1
<1>4. E(current) \in Marks
  <2>1. current \in Lines \cup {Enter}
    BY DEF BlocksTypeOK
  <2> QED
    BY <2>1, MarkParts
<1>5. ASSUME Precmd
      PROVE  pty' = IF active /\ shell # "fish" THEN Append(Append(pty, D(status)), A) ELSE Append(pty, A)
  <2>1. pty \o <<D(status), A>> = Append(Append(pty, D(status)), A) /\ pty \o <<A>> = Append(pty, A)
    BY <1>1, <1>2, <1>3, TwoMore, OneEmitted
  <2> QED
    BY <1>5, <2>1 DEF Precmd, Emit
<1>6. ASSUME Hook PROVE pty' = Append(Append(pty, E(current)), C)
  BY <1>1, <1>2, <1>4, <1>6, TwoMore DEF Hook, Emit
<1>7. ASSUME Prompt \/ Redraw PROVE pty' = Append(pty, B)
  BY <1>1, <1>2, <1>7, OneEmitted DEF Prompt, Redraw, Emit
<1>8. ASSUME ReadLine
      PROVE  /\ tty' \in Seq(Lines \cup {Enter}) /\ Head(tty) \in Lines \cup {Enter} /\ E(Head(tty)) \in Marks
             /\ pty' = pty \/ pty' = Append(Append(pty, E(Head(tty))), C)
  <2>1. tty \in Seq(Lines \cup {Enter}) /\ tty # <<>> /\ tty' = Tail(tty)
    BY <1>8 DEF ReadLine, BlocksTypeOK
  <2>2. tty' \in Seq(Lines \cup {Enter}) /\ Head(tty) \in Lines \cup {Enter}
    BY <2>1, LinesTyped
  <2>3. E(Head(tty)) \in Marks
    BY <2>2, MarkParts
  <2>4. pty' = pty \/ pty' = pty \o <<E(Head(tty)), C>>
    BY <1>8 DEF ReadLine, Emit
  <2> QED
    BY <1>1, <1>2, <2>2, <2>3, <2>4, TwoMore
<1>9. ASSUME NEW x \in Exits, CommandEnds(x) PROVE pty' = IF shell = "fish" THEN Append(pty, D(x)) ELSE pty
  <2>1. pty \o <<D(x)>> = Append(pty, D(x))
    BY <1>1, <1>2, OneEmitted
  <2> QED
    BY <1>9, <2>1 DEF CommandEnds, Emit
<1> QED
  BY <1>1, <1>2, <1>3, <1>4, <1>5, <1>6, <1>7, <1>8, <1>9

LEMMA ShellMarks ==
    ASSUME BlocksTypeOK, SegTypes, Precmd \/ Hook \/ Prompt \/ Redraw \/ ReadLine \/ \E exit \in Exits : CommandEnds(exit)
    PROVE  pty' \in Seq(Marks)
<1>1. \A q \in Seq(Marks) : \A m \in Marks : Append(q, m) \in Seq(Marks)
  BY OneMore
<1> QED
  BY <1>1, ShellEmits

LEMMA ShellTypes ==
    ASSUME BlocksTypeOK, SegTypes, Precmd \/ Hook \/ Prompt \/ Redraw \/ ReadLine \/ \E exit \in Exits : CommandEnds(exit)
    PROVE  BlocksTypeOK' /\ SegTypes'
<1>1. pty' \in Seq(Marks)
  BY ShellMarks
<1>2. CASE Precmd
  BY <1>1, <1>2 DEF Precmd, BlocksTypeOK, SegTypes, agentVars, segVars, Marks
<1>3. CASE Hook
  BY <1>1, <1>3 DEF Hook, BlocksTypeOK, SegTypes, agentVars, segVars, Marks
<1>4. CASE Prompt \/ Redraw
  <2>1. redraws' \in 0..MaxRedraws
    BY <1>4, ShellLimits DEF Prompt, Redraw, BlocksTypeOK
  <2>2. stage' \in {"prompt", "edit"} /\ UNCHANGED <<shell, active, current, status, tty, ran, titled, agentVars, segVars,
                                                   typed, daemon, crashes>>
    BY <1>4 DEF Prompt, Redraw
  <2>3. BlocksTypeOK'
    BY <1>1, <2>1, <2>2 DEF BlocksTypeOK, agentVars, Marks
  <2> QED
    BY <2>2, <2>3 DEF SegTypes, agentVars, segVars
<1>5. CASE ReadLine
  <2>1. tty' \in Seq(Lines \cup {Enter}) /\ Head(tty) \in Lines \cup {Enter}
    BY <1>5, ShellEmits
  <2>2. /\ current' \in Lines \cup {Enter} /\ titled' \in Lines \cup {Enter} /\ stage' \in {"precmd", "running"}
        /\ active' \in BOOLEAN /\ (stage' = "running" => current' \in Lines)
    BY <1>5, <2>1 DEF ReadLine, BlocksTypeOK
  <2> QED
    BY <1>1, <1>5, <2>1, <2>2 DEF ReadLine, BlocksTypeOK, SegTypes, agentVars, segVars, Marks
<1>6. ASSUME NEW exit \in Exits, CommandEnds(exit) PROVE BlocksTypeOK' /\ SegTypes'
  <2>1. current \in Lines /\ ran \in Seq(Lines \X Exits)
    BY <1>6 DEF CommandEnds, BlocksTypeOK, SegTypes
  <2>2. <<current, exit>> \in Lines \X Exits
    BY <2>1
  <2>3. ran' = Append(ran, <<current, exit>>)
    BY <1>6 DEF CommandEnds
  <2>4. ran' \in Seq(Lines \X Exits)
    BY <2>1, <2>2, <2>3, LinesTyped
  <2> QED
    BY <1>1, <1>6, <2>4 DEF CommandEnds, BlocksTypeOK, SegTypes, agentVars, segVars, Marks
<1> QED
  BY <1>2, <1>3, <1>4, <1>5, <1>6

LEMMA SegmentTypes == ASSUME BlocksTypeOK, SegTypes, Segment PROVE BlocksTypeOK' /\ SegTypes'
<1>1. pty' \in Seq(Marks) /\ SegFields'
  BY MarkRead, FirstGoes
<1> QED
  BY <1>1 DEF Segment, BlocksTypeOK, SegTypes, SegFields, agentVars, Marks

LEMMA UserTypesTypes ==
    ASSUME BlocksTypeOK, SegTypes, NEW line, UserTypes(line) PROVE BlocksTypeOK' /\ SegTypes'
<1>1. typed' \in 0..MaxLines /\ typed + 1 \in Lines
  BY ShellLimits DEF UserTypes, BlocksTypeOK, Lines, AgentLine
<1>2. line \in Lines \cup {Enter} /\ tty \in Seq(Lines \cup {Enter})
  BY <1>1 DEF UserTypes, BlocksTypeOK
<1>3. tty' \in Seq(Lines \cup {Enter})
  BY <1>2, LinesTyped DEF UserTypes
<1>4. UNCHANGED <<shell, stage, active, current, status, pty, redraws, ran, titled, agent, after, result, segVars, daemon,
                  crashes>> /\ quiet' = FALSE
  BY DEF UserTypes
<1>5. BlocksTypeOK'
  BY <1>1, <1>3, <1>4 DEF BlocksTypeOK
<1> QED
  BY <1>4, <1>5 DEF SegTypes, segVars

LEMMA OtherTypes ==
    ASSUME BlocksTypeOK, SegTypes, ProgramReads \/ Crash \/ Readopt
    PROVE  BlocksTypeOK' /\ SegTypes'
<1>1. CASE ProgramReads
  <2>1. tty' \in Seq(Lines \cup {Enter})
    BY <1>1, LinesTyped DEF ProgramReads, BlocksTypeOK
  <2> QED
    BY <1>1, <2>1 DEF ProgramReads, BlocksTypeOK, SegTypes, agentVars, segVars
<1>2. CASE Crash
  <2>1. crashes' \in 0..MaxCrashes /\ crashes' # 0
    BY <1>2, ShellLimits DEF Crash, BlocksTypeOK
  <2> QED
    BY <1>2, <2>1 DEF Crash, BlocksTypeOK, SegTypes, shellVars, segVars
<1>3. CASE Readopt
  <2>1. <<>> \in Seq({A, B, C} \cup {D(x) : x \in Exits} \cup {E(l) : l \in Lines \cup {Enter}})
    OBVIOUS
  <2> QED
    BY <1>3, <2>1 DEF Readopt, BlocksTypeOK, SegTypes, agentVars
<1> QED
  BY <1>1, <1>2, <1>3

LEMMA AgentTypes ==
    ASSUME BlocksTypeOK, SegTypes, Settle \/ CountBlocks \/ TypeCommand \/ Find \/ Timeout
    PROVE  BlocksTypeOK' /\ SegTypes'
<1>1. CASE Settle
  BY <1>1 DEF Settle, AgentStep, BlocksTypeOK, SegTypes, shellVars, segVars
<1>2. CASE CountBlocks
  <2>1. after' \in Nat
    BY <1>2 DEF CountBlocks, SegTypes
  <2> QED
    BY <1>2, <2>1 DEF CountBlocks, AgentStep, BlocksTypeOK, SegTypes, shellVars, segVars
<1>3. CASE TypeCommand
  <2>1. tty' \in Seq(Lines \cup {Enter})
    BY <1>3, ShellLimits, LinesTyped DEF TypeCommand, BlocksTypeOK
  <2> QED
    BY <1>3, <2>1 DEF TypeCommand, AgentStep, BlocksTypeOK, SegTypes, segVars
<1>4. CASE Find
  BY <1>4 DEF Find, AgentStep, BlocksTypeOK, SegTypes, shellVars, segVars
<1>5. CASE Timeout
  BY <1>5 DEF Timeout, AgentStep, BlocksTypeOK, SegTypes, shellVars, segVars
<1> QED
  BY <1>1, <1>2, <1>3, <1>4, <1>5
-----------------------------------------------------------------------------
(* The session thread reads a mark: what is on its way stays a path.       *)
LEMMA RunsUnprompted ==
    ASSUME BlocksTypeOK, SegTypes, Segment, pty[1].kind = "C"
    PROVE  corrupted' \/ (Seg!InCommand' /\ ~Seg!InPrompt' /\ open'.executed)
BY MarkRead, ExecutedFed

LEMMA WaySegment ==
    ASSUME BlocksTypeOK, SegTypes, NEW way, Chain(pty, way), Segment
    PROVE  /\ Chain(pty', way) /\ (pty' # <<>> => <<pty[1].kind, pty'[1].kind>> \in way)
           /\ \A S : LastOne(pty, S) => LastOne(pty', S) /\ (pty' = <<>> => pty[1].kind \in S)
           /\ UNCHANGED <<shell, stage, active, current, status, tty, ran, agent, after, result, quiet, crashes, daemon>>
<1>1. pty \in Seq(Marks) /\ pty # <<>> /\ pty' = Tail(pty)
  BY MarkRead
<1>2. Chain(pty', way) /\ (pty' # <<>> => <<pty[1].kind, pty'[1].kind>> \in way)
  BY <1>1, ChainGoes
<1>3. ASSUME NEW S, LastOne(pty, S) PROVE LastOne(pty', S) /\ (pty' = <<>> => pty[1].kind \in S)
  BY <1>1, <1>3, LastStays
<1> QED
  BY <1>2, <1>3 DEF Segment, agentVars

LEMMA PlaceSegment ==
    ASSUME BlocksTypeOK, SegTypes, PlaceInv, Segment PROVE PlaceInv'
<1>1. /\ Chain(pty', Way) /\ \A S : LastOne(pty, S) => LastOne(pty', S) /\ (pty' = <<>> => pty[1].kind \in S)
      /\ UNCHANGED <<shell, stage, active, current, status, tty, ran, agent, after, result, quiet, crashes, daemon>>
  BY WaySegment DEF PlaceInv
<1>2. ASSUME stage = "running", pty' = <<>> PROVE ~Seg!AtPrompt'
  <2>1. LastOne(pty, {"C"})
    BY <1>2 DEF PlaceInv, Owed
  <2>2. pty[1].kind = "C"
    BY <1>1, <1>2, <2>1
  <2> QED
    BY <2>2, RunsUnprompted DEF Seg!AtPrompt
<1>3. Owed' <=> Owed
  BY <1>1 DEF Owed
<1> QED
  BY <1>1, <1>2, <1>3 DEF PlaceInv

(* And the segmenter follows it.                                           *)
LEMMA SyncSegment ==
    ASSUME BlocksTypeOK, SegTypes, PlaceInv, SyncInv, Segment PROVE SyncInv'
<1>1. /\ pty' # <<>> => <<pty[1].kind, pty'[1].kind>> \in Way
      /\ \A S : LastOne(pty, S) => (pty' = <<>> => pty[1].kind \in S)
      /\ UNCHANGED <<shell, stage, active, crashes, daemon>>
  BY WaySegment DEF PlaceInv
<1>2. /\ SegFields /\ (corrupted => corrupted' /\ UNCHANGED segVars) /\ pty # <<>>
      /\ pty[1].kind \in {"A", "B", "C", "D", "E"}
  BY MarkRead
<1>3. Owed' <=> Owed
  BY <1>1 DEF Owed
<1>4. (stage = "edit" => LastOne(pty, {"B"})) /\ (Owed => LastOne(pty, {"C"}))
  BY DEF PlaceInv
<1>5. CASE corrupted
  BY <1>1, <1>2, <1>5 DEF SyncInv, segVars
<1>6. CASE ~corrupted /\ pty[1].kind = "A"
  <2>1. disorder' = disorder /\ ~corrupted'
    BY <1>2, <1>6, MarkRead, StartFed
  <2>2. Synced'
    <3>1. pty' # <<>> => pty'[1].kind \notin {"C", "D", "E"}
      BY <1>1, <1>6 DEF Way
    <3>2. ~(pty' = <<>> /\ (stage = "edit" \/ Owed))
      BY <1>1, <1>4, <1>6
    <3> QED
      BY <1>1, <1>3, <3>1, <3>2 DEF Synced
  <2> QED
    BY <1>1, <2>1, <2>2, <1>6 DEF SyncInv
<1>7. CASE ~corrupted /\ pty[1].kind = "B"
  <2>1. disorder' = disorder /\ ~corrupted' /\ Seg!InCommand'
    BY <1>2, <1>7, MarkRead, StartFed
  <2>2. Synced'
    BY <2>1 DEF Synced
  <2> QED
    BY <1>1, <2>1, <2>2, <1>7 DEF SyncInv
<1>8. CASE ~corrupted /\ pty[1].kind = "E"
  <2>1. disorder' = disorder /\ ~corrupted' /\ Seg!InCommand' = Seg!InCommand
    <3>1. Seg!CommandLine(pty[1].cmdline) /\ pty[1].cmdline \in Nat
      BY <1>8, MarkRead, ShellLimits
    <3> QED
      BY <1>2, <1>8, <3>1, LineFed
  <2>2. ASSUME Synced PROVE Synced'
    <3>1. Seg!InCommand
      BY <1>2, <1>8, <2>2 DEF Synced
    <3> QED
      BY <2>1, <3>1 DEF Synced
  <2> QED
    BY <1>1, <2>1, <2>2, <1>8 DEF SyncInv
<1>9. CASE ~corrupted /\ pty[1].kind = "C"
  <2>1. /\ ~corrupted' => Seg!InCommand'
        /\ Seg!InCommand => disorder' = disorder /\ ~corrupted'
        /\ ~Seg!InCommand => disorder' = disorder + 1 /\ (corrupted' => disorder' >= CorruptLimit)
    BY <1>2, <1>9, MarkRead, ExecutedFed
  <2>2. ~corrupted' => Synced'
    BY <2>1 DEF Synced
  <2>3. Synced => Seg!InCommand
    BY <1>2, <1>9 DEF Synced
  <2> QED
    BY <1>1, <2>1, <2>2, <2>3, <1>9 DEF SyncInv
<1>10. CASE ~corrupted /\ pty[1].kind = "D"
  <2>1. /\ Seg!InCommand => disorder' = disorder /\ ~corrupted'
        /\ ~Seg!InCommand => disorder' = disorder + 1 /\ (corrupted' => disorder' >= CorruptLimit)
    BY <1>2, <1>10, MarkRead, FinishedFed
  <2>2. Synced'
    <3>1. pty' # <<>> => pty'[1].kind \notin {"C", "D", "E"}
      BY <1>1, <1>10 DEF Way
    <3>2. ~(pty' = <<>> /\ (stage = "edit" \/ Owed))
      BY <1>1, <1>4, <1>10
    <3> QED
      BY <1>1, <1>3, <3>1, <3>2 DEF Synced
  <2>3. Synced => Seg!InCommand
    BY <1>2, <1>10 DEF Synced
  <2> QED
    BY <1>1, <2>1, <2>2, <2>3, <1>10 DEF SyncInv
<1> QED
  BY <1>2, <1>5, <1>6, <1>7, <1>8, <1>9, <1>10

-----------------------------------------------------------------------------
(* The shell emits the marks its hooks stand for, and a path goes on.      *)
LEMMA OneOn ==
    ASSUME NEW q \in Seq(Marks), NEW m \in Marks, NEW way, Chain(q, way), NEW from, NEW to, LastOne(q, {from}),
           m.kind = to, <<from, to>> \in way
    PROVE  Chain(Append(q, m), way) /\ LastOne(Append(q, m), {to}) /\ Append(q, m) \in Seq(Marks)
<1>1. q = <<>> \/ <<q[Len(q)].kind, m.kind>> \in way
  BY DEF LastOne
<1>2. Chain(Append(q, m), way) /\ Append(q, m) \in Seq(Marks)
  BY <1>1, ChainGrows, OneMore
<1>3. LastOne(Append(q, m), {to})
  BY LastIs
<1> QED
  BY <1>2, <1>3

LEMMA PlaceShell ==
    ASSUME BlocksTypeOK, SegTypes, Honest, PlaceInv,
           Precmd \/ Hook \/ Prompt \/ Redraw \/ ReadLine \/ \E exit \in Exits : CommandEnds(exit)
    PROVE  PlaceInv'
<1>1. pty \in Seq(Marks) /\ Chain(pty, Way) /\ A \in Marks /\ B \in Marks /\ C \in Marks /\ D(status) \in Marks
  BY ShellEmits DEF PlaceInv
<1>2. /\ A.kind = "A" /\ B.kind = "B" /\ C.kind = "C" /\ D(status).kind = "D" /\ \A x : E(x).kind = "E" /\ D(x).kind = "D"
  BY MarkParts
<1>0. {<<"C", "D">>, <<"D", "A">>, <<"B", "E">>, <<"E", "C">>, <<"B", "A">>, <<"A", "B">>, <<"B", "B">>} \subseteq Way
  BY DEF Way
<1>3. CASE Precmd
  <2>1. stage' = "prompt" /\ ~active'
    BY <1>3 DEF Precmd, Honest
  <2>2. CASE active /\ shell # "fish"
    <3>1. pty' = Append(Append(pty, D(status)), A) /\ LastOne(pty, {"C"})
      BY <1>3, <2>2, ShellEmits DEF PlaceInv, Owed, Precmd
    <3>2. /\ Chain(Append(pty, D(status)), Way) /\ LastOne(Append(pty, D(status)), {"D"})
          /\ Append(pty, D(status)) \in Seq(Marks)
      BY <1>0, <1>1, <1>2, <3>1, OneOn
    <3>3. Chain(pty', Way) /\ LastOne(pty', {"A"})
      BY <1>0, <1>1, <1>2, <3>1, <3>2, OneOn
    <3> QED
      BY <2>1, <3>3 DEF PlaceInv, Owed
  <2>3. CASE ~(active /\ shell # "fish")
    <3>1. pty' = Append(pty, A) /\ (LastOne(pty, {"B"}) \/ LastOne(pty, {"D"}))
      BY <1>3, <2>3, ShellEmits DEF PlaceInv, Owed, Precmd
    <3>2. Chain(pty', Way) /\ LastOne(pty', {"A"})
      BY <1>0, <1>1, <1>2, <3>1, OneOn
    <3> QED
      BY <2>1, <3>2 DEF PlaceInv, Owed
  <2> QED
    BY <2>2, <2>3
<1>4. CASE Hook
  BY <1>4 DEF Hook, PlaceInv
<1>5. CASE Prompt \/ Redraw
  <2>1. pty' = Append(pty, B) /\ (LastOne(pty, {"A"}) \/ LastOne(pty, {"B"})) /\ stage' = "edit" /\ ~active'
    BY <1>5, ShellEmits DEF PlaceInv, Prompt, Redraw
  <2>2. Chain(pty', Way) /\ LastOne(pty', {"B"})
    BY <1>0, <1>1, <1>2, <2>1, OneOn
  <2> QED
    BY <2>1, <2>2 DEF PlaceInv, Owed
<1>6. CASE ReadLine
  <2>1. LastOne(pty, {"B"}) /\ ~active /\ UNCHANGED shell
    BY <1>6 DEF ReadLine, PlaceInv
  <2>2. CASE Head(tty) = Enter
    <3>1. stage' = "precmd" /\ ~active' /\ pty' = pty
      BY <1>6, <2>1, <2>2 DEF ReadLine
    <3> QED
      BY <1>1, <2>1, <3>1 DEF PlaceInv, Owed
  <2>3. CASE Head(tty) # Enter
    <3>1. stage' = "running" /\ active' /\ pty' = Append(Append(pty, E(Head(tty))), C)
      <4>1. pty' = pty \o <<E(Head(tty)), C>> /\ stage' = "running" /\ active'
        BY <1>6, <2>1, <2>3 DEF ReadLine, Emit
      <4>2. E(Head(tty)) \in Marks
        BY <1>6, ShellEmits
      <4> QED
        BY <1>1, <4>1, <4>2, TwoMore
    <3>2. E(Head(tty)) \in Marks
      BY <1>6, ShellEmits
    <3>3. /\ Chain(Append(pty, E(Head(tty))), Way) /\ LastOne(Append(pty, E(Head(tty))), {"E"})
          /\ Append(pty, E(Head(tty))) \in Seq(Marks)
      BY <1>0, <1>1, <1>2, <2>1, <3>2, OneOn
    <3>4. Chain(pty', Way) /\ LastOne(pty', {"C"}) /\ pty' # <<>>
      BY <1>0, <1>1, <1>2, <3>1, <3>3, OneOn, OneMore
    <3> QED
      BY <3>1, <3>4 DEF PlaceInv, Owed
  <2> QED
    BY <2>2, <2>3
<1>7. ASSUME NEW x \in Exits, CommandEnds(x) PROVE PlaceInv'
  <2>1. /\ stage' = "precmd" /\ active' /\ active /\ UNCHANGED shell /\ LastOne(pty, {"C"})
    BY <1>7 DEF CommandEnds, PlaceInv, Owed
  <2>2. CASE shell = "fish"
    <3>1. pty' = Append(pty, D(x)) /\ D(x) \in Marks
      BY <1>7, <2>2, ShellEmits
    <3>2. Chain(pty', Way) /\ LastOne(pty', {"D"})
      BY <1>0, <1>1, <1>2, <2>1, <3>1, OneOn
    <3> QED
      BY <2>1, <2>2, <3>2 DEF PlaceInv, Owed
  <2>3. CASE shell # "fish"
    <3>1. pty' = pty
      BY <1>7, <2>3, ShellEmits
    <3> QED
      BY <1>1, <2>1, <2>3, <3>1 DEF PlaceInv, Owed
  <2> QED
    BY <2>2, <2>3
<1> QED
  BY <1>3, <1>4, <1>5, <1>6, <1>7
(* The first mark on its way, after a step of the shell.                   *)
FirstBecomes(kind) ==
    /\ pty' # <<>> /\ (pty # <<>> => pty'[1] = pty[1])
    /\ pty = <<>> => pty'[1].kind = kind

LEMMA FirstOfOne ==
    ASSUME NEW m \in Marks, pty \in Seq(Marks), pty' = Append(pty, m) PROVE FirstBecomes(m.kind)
BY OneMore DEF FirstBecomes

LEMMA FirstOfTwo ==
    ASSUME NEW m \in Marks, NEW n \in Marks, pty \in Seq(Marks), pty' = Append(Append(pty, m), n)
    PROVE  FirstBecomes(m.kind)
<1>1. /\ Append(pty, m) \in Seq(Marks) /\ Append(pty, m) # <<>>
      /\ pty = <<>> => Append(pty, m)[1] = m
      /\ pty # <<>> => Append(pty, m)[1] = pty[1]
  BY OneMore
<1>2. pty' # <<>> /\ pty'[1] = Append(pty, m)[1]
  BY <1>1, OneMore
<1> QED
  BY <1>1, <1>2 DEF FirstBecomes

LEMMA ShellFirst ==
    ASSUME BlocksTypeOK, SegTypes
    PROVE  /\ Precmd => FirstBecomes(IF active /\ shell # "fish" THEN "D" ELSE "A")
           /\ Hook => FirstBecomes("E")
           /\ Prompt \/ Redraw => FirstBecomes("B")
           /\ ReadLine => pty' = pty \/ FirstBecomes("E")
           /\ \A x \in Exits : CommandEnds(x) => IF shell = "fish" THEN FirstBecomes("D") ELSE pty' = pty
<1>1. /\ pty \in Seq(Marks) /\ A \in Marks /\ B \in Marks /\ C \in Marks /\ D(status) \in Marks /\ E(current) \in Marks
      /\ \A x \in Exits : D(x) \in Marks
  BY ShellEmits
<1>2. /\ A.kind = "A" /\ B.kind = "B" /\ C.kind = "C" /\ \A x : E(x).kind = "E" /\ D(x).kind = "D"
  BY MarkParts
<1>3. ASSUME Precmd PROVE FirstBecomes(IF active /\ shell # "fish" THEN "D" ELSE "A")
  <2>1. CASE active /\ shell # "fish"
    <3>1. pty' = Append(Append(pty, D(status)), A)
      BY <1>3, <2>1, ShellEmits
    <3>2. FirstBecomes(D(status).kind)
      BY <1>1, <3>1, FirstOfTwo
    <3> QED
      BY <1>2, <2>1, <3>2
  <2>2. CASE ~(active /\ shell # "fish")
    <3>1. pty' = Append(pty, A)
      BY <1>3, <2>2, ShellEmits
    <3>2. FirstBecomes(A.kind)
      BY <1>1, <3>1, FirstOfOne
    <3> QED
      BY <1>2, <2>2, <3>2
  <2> QED
    BY <2>1, <2>2
<1>4. ASSUME Hook PROVE FirstBecomes("E")
  <2>1. pty' = Append(Append(pty, E(current)), C)
    BY <1>4, ShellEmits
  <2>2. FirstBecomes(E(current).kind)
    BY <1>1, <2>1, FirstOfTwo
  <2> QED
    BY <1>2, <2>2
<1>5. ASSUME Prompt \/ Redraw PROVE FirstBecomes("B")
  <2>1. pty' = Append(pty, B)
    BY <1>5, ShellEmits
  <2>2. FirstBecomes(B.kind)
    BY <1>1, <2>1, FirstOfOne
  <2> QED
    BY <1>2, <2>2
<1>6. ASSUME ReadLine, pty' # pty PROVE FirstBecomes("E")
  <2>1. pty' = Append(Append(pty, E(Head(tty))), C) /\ E(Head(tty)) \in Marks
    BY <1>6, ShellEmits
  <2>2. FirstBecomes(E(Head(tty)).kind)
    BY <1>1, <2>1, FirstOfTwo
  <2> QED
    BY <1>2, <2>2
<1>7. ASSUME NEW x \in Exits, CommandEnds(x) PROVE IF shell = "fish" THEN FirstBecomes("D") ELSE pty' = pty
  <2>1. CASE shell = "fish"
    <3>1. pty' = Append(pty, D(x)) /\ D(x) \in Marks
      BY <1>1, <1>7, <2>1, ShellEmits
    <3>2. FirstBecomes(D(x).kind)
      BY <1>1, <3>1, FirstOfOne
    <3> QED
      BY <1>2, <2>1, <3>2
  <2>2. CASE shell # "fish"
    BY <1>7, <2>2, ShellEmits
  <2> QED
    BY <2>1, <2>2
<1> QED
  BY <1>3, <1>4, <1>5, <1>6, <1>7

LEMMA SyncShell ==
    ASSUME BlocksTypeOK, SegTypes, Honest, PlaceInv, SyncInv,
           Precmd \/ Hook \/ Prompt \/ Redraw \/ ReadLine \/ \E exit \in Exits : CommandEnds(exit)
    PROVE  SyncInv'
<1>1. UNCHANGED <<shell, open, pendingCmdline, disorder, corrupted, crashes, daemon>>
  BY DEF Precmd, Hook, Prompt, Redraw, ReadLine, CommandEnds, segVars
<1>2. Seg!InCommand' = Seg!InCommand
  BY <1>1 DEF Seg!InCommand
<1> SUFFICES ASSUME Synced PROVE Synced'
  BY <1>1 DEF SyncInv
<1>3. CASE Precmd
  <2>1. FirstBecomes(IF active /\ shell # "fish" THEN "D" ELSE "A")
    BY <1>3, ShellFirst
  <2>2. active /\ shell # "fish" => Owed
    BY <1>3 DEF Precmd, Owed
  <2> QED
    BY <1>2, <2>1, <2>2 DEF FirstBecomes, Synced
<1>4. CASE Hook
  BY <1>4 DEF Hook, PlaceInv
<1>5. CASE Prompt \/ Redraw
  <2>1. FirstBecomes("B")
    BY <1>5, ShellFirst
  <2> QED
    BY <1>2, <2>1 DEF FirstBecomes, Synced
<1>6. CASE ReadLine
  <2>1. stage = "edit" /\ ~active
    BY <1>6 DEF ReadLine, PlaceInv
  <2>2. CASE FirstBecomes("E")
    BY <1>2, <2>1, <2>2 DEF FirstBecomes, Synced
  <2>3. CASE pty' = pty /\ Head(tty) = Enter
    <3>1. stage' = "precmd" /\ ~active'
      BY <1>6, <2>1, <2>3 DEF ReadLine
    <3> QED
      BY <1>2, <2>3, <3>1 DEF Synced, Owed
  <2>4. CASE Head(tty) # Enter
    <3>1. pty' = pty \o <<E(Head(tty)), C>> /\ pty \in Seq(Marks) /\ C \in Marks /\ E(Head(tty)) \in Marks
      <4>1. pty \in Seq(Marks) /\ C \in Marks /\ E(Head(tty)) \in Marks
        BY <1>6, ShellEmits
      <4> QED
        BY <1>6, <2>1, <2>4, <4>1 DEF ReadLine, Emit
    <3>2. FirstBecomes(E(Head(tty)).kind)
      BY <3>1, TwoMore, FirstOfTwo
    <3> QED
      BY <2>2, <3>2, MarkParts
  <2> QED
    BY <1>6, <2>2, <2>3, <2>4, ShellFirst
<1>7. ASSUME NEW x \in Exits, CommandEnds(x) PROVE Synced'
  <2>1. stage = "running" /\ stage' = "precmd" /\ Owed
    BY <1>7 DEF CommandEnds, Owed
  <2>2. CASE shell = "fish"
    <3>1. FirstBecomes("D")
      BY <1>7, <2>2, ShellFirst
    <3> QED
      BY <1>2, <2>1, <3>1 DEF FirstBecomes, Synced
  <2>3. CASE shell # "fish"
    <3>1. pty' = pty
      BY <1>7, <2>3, ShellFirst
    <3> QED
      BY <1>2, <2>1, <3>1 DEF Synced
  <2> QED
    BY <2>2, <2>3
<1> QED
  BY <1>3, <1>4, <1>5, <1>6, <1>7
-----------------------------------------------------------------------------
(* Nobody but the agent has typed: the command that runs is its own.       *)
LEMMA AloneSegment ==
    ASSUME BlocksTypeOK, SegTypes, PlaceInv, AloneInv, Segment PROVE AloneInv'
<1>1. /\ pty' # <<>> => <<pty[1].kind, pty'[1].kind>> \in Way
      /\ \A S : LastOne(pty, S) => (pty' = <<>> => pty[1].kind \in S)
      /\ UNCHANGED <<shell, stage, active, tty, agent, after, result>>
  BY WaySegment DEF PlaceInv
<1>2. /\ SegFields /\ (corrupted => corrupted' /\ FinishedSame /\ UNCHANGED segVars) /\ pty # <<>>
      /\ pty[1].kind \in {"A", "B", "C", "D", "E"} /\ pty \in Seq(Marks) /\ pty' = Tail(pty)
  BY MarkRead
<1>3. /\ \A i \in 1..Len(pty') : pty'[i] = pty[i + 1] /\ i + 1 \in 1..Len(pty)
      /\ DOMAIN pty = 1..Len(pty) /\ DOMAIN pty' = 1..Len(pty') /\ 1 \in 1..Len(pty)
  <2>1. pty' \in Seq(Marks) /\ Len(pty) > 0 /\ Len(pty) \in Nat
    BY <1>2, FirstGoes
  <2> QED
    BY <1>2, <2>1, FirstGoes
<1>4. Owed' <=> Owed
  BY <1>1 DEF Owed
<1>5. \/ FinishedSame
      \/ ~corrupted /\ pty[1].kind = "D" /\ Seg!InCommand /\ \E x : OneFinished(open.cmdline, x)
  <2>1. CASE corrupted
    BY <1>2, <2>1
  <2>2. CASE ~corrupted /\ pty[1].kind \in {"A", "B"}
    BY <1>2, <2>2, MarkRead, StartFed
  <2>3. CASE ~corrupted /\ pty[1].kind = "C"
    BY <1>2, <2>3, MarkRead, ExecutedFed
  <2>4. CASE ~corrupted /\ pty[1].kind = "D"
    BY <1>2, <2>4, MarkRead, FinishedFed
  <2>5. CASE ~corrupted /\ pty[1].kind = "E"
    <3>1. Seg!CommandLine(pty[1].cmdline) /\ pty[1].cmdline \in Nat
      BY <2>5, MarkRead, ShellLimits
    <3> QED
      BY <1>2, <2>5, <3>1, LineFed
  <2> QED
    BY <1>2, <2>1, <2>2, <2>3, <2>4, <2>5
<1>6. ASSUME agent \in {"settled", "counted"}
      PROVE  /\ stage' = "edit" /\ tty' = <<>> /\ \A i \in DOMAIN pty' : pty'[i].kind = "B"
             /\ FinishedSame
  <2>1. stage = "edit" /\ tty = <<>> /\ \A i \in DOMAIN pty : pty[i].kind = "B"
    BY <1>6 DEF AloneInv
  <2>2. pty[1].kind = "B"
    BY <1>3, <2>1
  <2> QED
    BY <1>1, <1>3, <1>5, <2>1, <2>2
<1>7. ASSUME agent = "counted" PROVE \A i \in Finished' : i <= after'
  BY <1>1, <1>6, <1>7 DEF AloneInv, FinishedSame
<1>8. ASSUME agent = "waiting"
      PROVE  /\ tty' = <<>> \/ (tty' = <<AgentLine>> /\ stage' = "edit")
             /\ \A i \in DOMAIN pty' : pty'[i].kind = "E" => pty'[i].cmdline = AgentLine
             /\ ~corrupted' /\ pty' # <<>> /\ pty'[1].kind \in {"C", "D"} => Titled' = AgentLine
             /\ ~corrupted' /\ pty' = <<>> /\ Owed' => Titled' = AgentLine
             /\ \A i \in Finished' : i > after' => blocks'[i].cmdline = AgentLine
  <2>1. /\ tty = <<>> \/ (tty = <<AgentLine>> /\ stage = "edit")
        /\ \A i \in DOMAIN pty : pty[i].kind = "E" => pty[i].cmdline = AgentLine
        /\ ~corrupted /\ pty[1].kind \in {"C", "D"} => Titled = AgentLine
        /\ \A i \in Finished : i > after => blocks[i].cmdline = AgentLine
    BY <1>2, <1>8 DEF AloneInv
  <2>2. tty' = <<>> \/ (tty' = <<AgentLine>> /\ stage' = "edit")
    BY <1>1, <2>1
  <2>3. \A i \in DOMAIN pty' : pty'[i].kind = "E" => pty'[i].cmdline = AgentLine
    BY <1>3, <2>1
  <2>4. ASSUME ~corrupted', pty[1].kind \in {"C", "E"} PROVE Titled' = AgentLine
    <3>1. ~corrupted
      BY <1>2, <2>4
    <3>2. CASE pty[1].kind = "C"
      <4>1. Titled' = Titled
        BY <1>2, <2>4, <3>1, <3>2, MarkRead, ExecutedFed
      <4> QED
        BY <2>1, <3>1, <3>2, <4>1
    <3>3. CASE pty[1].kind = "E"
      <4>1. Seg!CommandLine(pty[1].cmdline) /\ pty[1].cmdline \in Nat
        BY <3>1, <3>3, MarkRead, ShellLimits
      <4>2. Titled' = pty[1].cmdline
        BY <1>2, <3>1, <4>1, LineFed
      <4> QED
        BY <1>3, <2>1, <3>3, <4>2
    <3> QED
      BY <2>4, <3>2, <3>3
  <2>5. pty' # <<>> /\ pty'[1].kind \in {"C", "D"} => pty[1].kind \in {"C", "E"}
    BY <1>1 DEF Way
  <2>6. pty' = <<>> /\ Owed => pty[1].kind = "C"
    BY <1>1 DEF PlaceInv
  <2>7. \A i \in Finished' : i > after' => blocks'[i].cmdline = AgentLine
    <3>1. CASE FinishedSame
      BY <1>1, <2>1, <3>1 DEF FinishedSame
    <3>2. CASE ~corrupted /\ pty[1].kind = "D" /\ Seg!InCommand /\ \E x : OneFinished(open.cmdline, x)
      <4>1. open.cmdline = AgentLine
        BY <2>1, <3>2 DEF Titled
      <4> QED
        BY <1>1, <2>1, <3>2, <4>1 DEF OneFinished
    <3> QED
      BY <1>5, <3>1, <3>2
  <2> QED
    BY <1>4, <2>2, <2>3, <2>4, <2>5, <2>6, <2>7
<1> QED
  BY <1>1, <1>6, <1>7, <1>8 DEF AloneInv

LEMMA AloneShell ==
    ASSUME BlocksTypeOK, SegTypes, Honest, PlaceInv, AloneInv,
           Precmd \/ Hook \/ Prompt \/ Redraw \/ ReadLine \/ \E exit \in Exits : CommandEnds(exit)
    PROVE  AloneInv'
<1>1. UNCHANGED <<shell, open, pendingCmdline, corrupted, blocks, agent, after, result>>
  BY DEF Precmd, Hook, Prompt, Redraw, ReadLine, CommandEnds, segVars, agentVars
<1>2. Titled' = Titled /\ FinishedSame
  BY <1>1, BlocksSame DEF Titled, Seg!InCommand
<1>3. /\ pty \in Seq(Marks) /\ A \in Marks /\ B \in Marks /\ C \in Marks /\ D(status) \in Marks
      /\ A.kind = "A" /\ B.kind = "B" /\ C.kind = "C" /\ \A x : E(x).kind = "E" /\ E(x).cmdline = x /\ D(x).kind = "D"
  BY ShellEmits, MarkParts
<1> DEFINE OwnLines(q) == \A i \in DOMAIN q : q[i].kind = "E" => q[i].cmdline = AgentLine
           AllB(q) == \A i \in DOMAIN q : q[i].kind = "B"
<1>4. ASSUME NEW q \in Seq(Marks), NEW m \in Marks
      PROVE  /\ Append(q, m) \in Seq(Marks)
             /\ OwnLines(q) /\ (m.kind = "E" => m.cmdline = AgentLine) => OwnLines(Append(q, m))
             /\ AllB(q) /\ m.kind = "B" => AllB(Append(q, m))
  <2>1. /\ Append(q, m) \in Seq(Marks) /\ Len(q) \in Nat
        /\ Len(Append(q, m)) = Len(q) + 1 /\ Append(q, m)[Len(q) + 1] = m /\ \A i \in 1..Len(q) : Append(q, m)[i] = q[i]
    BY OneMore
  <2>2. DOMAIN q = 1..Len(q) /\ DOMAIN Append(q, m) = 1..(Len(q) + 1)
    BY <2>1
  <2>3. \A i \in 1..(Len(q) + 1) : i \in 1..Len(q) \/ i = Len(q) + 1
    BY <2>1
  <2> QED
    BY <2>1, <2>2, <2>3
<1>5. CASE Prompt \/ Redraw
  <2>1. stage' = "edit" /\ pty' = Append(pty, B) /\ UNCHANGED tty /\ FirstBecomes("B")
    BY <1>5, ShellEmits, ShellFirst DEF Prompt, Redraw
  <2>2. ~Owed'
    BY <2>1 DEF Owed
  <2>3. (OwnLines(pty) => OwnLines(pty')) /\ (AllB(pty) => AllB(pty'))
    BY <1>3, <1>4, <2>1
  <2>4. agent = "waiting" => tty = <<>> \/ stage = "edit"
    BY DEF AloneInv
  <2>5. agent \in {"settled", "counted"} => stage = "edit" /\ tty = <<>> /\ AllB(pty)
    BY DEF AloneInv
  <2> QED
    BY <1>1, <1>2, <2>1, <2>2, <2>3, <2>4, <2>5 DEF AloneInv, FirstBecomes, FinishedSame
<1>6. CASE ReadLine
  <2>1. stage = "edit" /\ ~active /\ tty # <<>> /\ tty' = Tail(tty)
    BY <1>6 DEF ReadLine, PlaceInv
  <2>2. agent \notin {"settled", "counted"}
    BY <2>1 DEF AloneInv
  <2>3. ASSUME agent = "waiting"
        PROVE  /\ tty' = <<>> /\ FirstBecomes("E") /\ OwnLines(pty') 
    <3>1. tty = <<AgentLine>> /\ OwnLines(pty)
      BY <2>1, <2>3 DEF AloneInv
    <3>2. Head(tty) = AgentLine /\ tty' = <<>> /\ AgentLine # Enter
      BY <2>1, <3>1, ShellLimits
    <3>3. pty' = pty \o <<E(Head(tty)), C>>
      BY <1>6, <2>1, <3>2 DEF ReadLine, Emit
    <3>4. E(Head(tty)) \in Marks
      BY <1>6, ShellEmits
    <3>5. pty' = Append(Append(pty, E(Head(tty))), C)
      BY <1>3, <3>3, <3>4, TwoMore
    <3>6. FirstBecomes("E")
      BY <1>3, <3>4, <3>5, FirstOfTwo
    <3>7. Append(pty, E(Head(tty))) \in Seq(Marks) /\ OwnLines(Append(pty, E(Head(tty))))
      BY <1>3, <1>4, <3>1, <3>2, <3>4
    <3>8. OwnLines(pty')
      BY <1>3, <1>4, <3>5, <3>7
    <3> QED
      BY <3>2, <3>6, <3>8
  <2> QED
    BY <1>1, <1>2, <2>2, <2>3 DEF AloneInv, FirstBecomes, FinishedSame
<1>7. CASE Precmd
  <2>1. stage = "precmd" /\ stage' = "prompt" /\ UNCHANGED tty
    BY <1>7 DEF Precmd, Honest
  <2>2. FirstBecomes(IF active /\ shell # "fish" THEN "D" ELSE "A") /\ ~Owed' /\ (active /\ shell # "fish" => Owed)
    BY <1>7, <2>1, ShellFirst DEF Owed
  <2>3. OwnLines(pty) => OwnLines(pty')
    <3>1. CASE active /\ shell # "fish"
      <4>1. pty' = Append(Append(pty, D(status)), A)
        BY <1>7, <3>1, ShellEmits
      <4>2. Append(pty, D(status)) \in Seq(Marks) /\ (OwnLines(pty) => OwnLines(Append(pty, D(status))))
        BY <1>3, <1>4
      <4> QED
        BY <1>3, <1>4, <4>1, <4>2
    <3>2. CASE ~(active /\ shell # "fish")
      <4>1. pty' = Append(pty, A)
        BY <1>7, <3>2, ShellEmits
      <4> QED
        BY <1>3, <1>4, <4>1
    <3> QED
      BY <3>1, <3>2
  <2> QED
    BY <1>1, <1>2, <2>1, <2>2, <2>3 DEF AloneInv, FirstBecomes, FinishedSame
<1>8. ASSUME NEW x \in Exits, CommandEnds(x) PROVE AloneInv'
  <2>1. stage = "running" /\ stage' = "precmd" /\ UNCHANGED tty /\ Owed
    BY <1>8 DEF CommandEnds, Owed
  <2>2. CASE shell = "fish"
    <3>1. pty' = Append(pty, D(x)) /\ D(x) \in Marks /\ FirstBecomes("D")
      BY <1>8, <2>2, ShellEmits, ShellFirst
    <3>2. OwnLines(pty) => OwnLines(pty')
      BY <1>3, <1>4, <3>1
    <3> QED
      BY <1>1, <1>2, <2>1, <3>1, <3>2 DEF AloneInv, FirstBecomes, FinishedSame
  <2>3. CASE shell # "fish"
    <3>1. pty' = pty
      BY <1>8, <2>3, ShellEmits
    <3> QED
      BY <1>1, <1>2, <2>1, <3>1 DEF AloneInv, FinishedSame
  <2> QED
    BY <2>2, <2>3
<1>9. CASE Hook
  BY <1>9 DEF Hook, PlaceInv
<1> QED
  BY <1>5, <1>6, <1>7, <1>8, <1>9

(* Agent Mode's own steps.                                                 *)
LEMMA AloneAgent ==
    ASSUME BlocksTypeOK, SegTypes, quiet => AloneInv, quiet', Settle \/ CountBlocks \/ TypeCommand \/ Find \/ Timeout
    PROVE  AloneInv'
<1>1. UNCHANGED <<stage, active, shell, pty, open, pendingCmdline, corrupted, blocks>>
  BY DEF Settle, CountBlocks, TypeCommand, Find, Timeout, shellVars, segVars
<1>2. Titled' = Titled /\ FinishedSame /\ (Owed' <=> Owed)
  BY <1>1, BlocksSame DEF Titled, Seg!InCommand, Owed
<1>3. CASE Settle
  <2>1. stage = "edit" /\ tty = <<>> /\ pty = <<>> /\ tty' = <<>> /\ DOMAIN pty = {}
    <3>1. quiet' = (stage = "edit" /\ tty = <<>> /\ pty = <<>>) /\ UNCHANGED tty
      BY <1>3 DEF Settle, shellVars
    <3>2. stage = "edit" /\ tty = <<>> /\ pty = <<>> /\ UNCHANGED tty
      BY <3>1
    <3> QED
      BY <3>2
  <2>2. agent' \in {"settled", "gave_up"} /\ result' = Nothing
    BY <1>3 DEF Settle, AgentStep, SegTypes
  <2> QED
    BY <1>1, <2>1, <2>2 DEF AloneInv
<1>4. CASE CountBlocks
  <2>1. AloneInv /\ agent = "settled" /\ agent' = "counted" /\ after' = Len(blocks) /\ UNCHANGED <<tty, result>>
    BY <1>4 DEF CountBlocks, AgentStep, shellVars
  <2>2. \A i \in Finished : i <= Len(blocks)
    BY FinishedAre DEF SegTypes, SegFields
  <2> QED
    BY <1>1, <1>2, <2>1, <2>2 DEF AloneInv, FinishedSame
<1>5. CASE TypeCommand
  <2>1. AloneInv /\ agent = "counted" /\ agent' = "waiting" /\ tty' = Append(tty, AgentLine) /\ UNCHANGED <<after, result>>
    BY <1>5 DEF TypeCommand, AgentStep
  <2>2. /\ stage = "edit" /\ tty = <<>> /\ (\A i \in DOMAIN pty : pty[i].kind = "B") /\ \A i \in Finished : i <= after
    BY <2>1 DEF AloneInv
  <2>3. tty' = <<AgentLine>> /\ ~Owed
    BY <2>1, <2>2 DEF Owed
  <2>4. pty # <<>> => 1 \in DOMAIN pty
    <3>1. pty \in Seq(Marks)
      BY PtyMarks
    <3> QED
      BY <3>1
  <2>5. \A i \in Finished : ~(i > after)
    <3>1. Finished \subseteq Nat /\ after \in Nat
      BY FinishedAre DEF SegTypes, SegFields, BlocksTypeOK
    <3> QED
      BY <2>2, <3>1
  <2> QED
    BY <1>1, <1>2, <2>1, <2>2, <2>3, <2>4, <2>5 DEF AloneInv, FinishedSame
<1>6. CASE Find
  <2>1. AloneInv /\ agent = "waiting" /\ agent' = "done"
    BY <1>6 DEF Find, AgentStep
  <2>2. PICK i \in after + 1..Len(blocks) : HasExit(blocks[i]) /\ result' = blocks[i]
    BY <1>6 DEF Find
  <2>3. i \in Finished /\ i > after
    <3>1. after \in Nat /\ DOMAIN blocks = 1..Len(blocks) /\ Len(blocks) \in Nat
      BY DEF SegTypes, BlocksTypeOK
    <3> QED
      BY <2>2, <3>1 DEF Finished
  <2> QED
    BY <2>1, <2>2, <2>3 DEF AloneInv
<1>7. CASE Timeout
  BY <1>7 DEF Timeout, AgentStep, AloneInv
<1> QED
  BY <1>3, <1>4, <1>5, <1>6, <1>7
-----------------------------------------------------------------------------
(* The finished blocks, counted.                                           *)
LEMMA FinishedCounted ==
    ASSUME SegFields
    PROVE  /\ IsFiniteSet(Finished) /\ Cardinality(Finished) \in Nat
           /\ \A i \in Finished : Nth(i) \in Nat /\ Nth(i) > 0
<1>1. Finished \subseteq 1..Len(blocks) /\ Len(blocks) \in Nat
  BY FinishedAre
<1>2. IsFiniteSet(Finished) /\ Cardinality(Finished) \in Nat
  <2>1. IsFiniteSet(1..Len(blocks))
    BY <1>1, FS_Interval
  <2>2. IsFiniteSet(Finished)
    BY <1>1, <2>1, FS_Subset
  <2> QED
    BY <2>2, FS_CardinalityType
<1>3. ASSUME NEW i \in Finished PROVE Nth(i) \in Nat /\ Nth(i) > 0
  <2> DEFINE S == {j \in Finished : j <= i}
  <2>1. IsFiniteSet(S) /\ Cardinality(S) \in Nat
    BY <1>2, FS_Subset, FS_CardinalityType
  <2>2. i \in S
    BY <1>1
  <2>3. Cardinality(S) # 0
    BY <2>1, <2>2, FS_EmptySet
  <2> QED
    BY <2>1, <2>3 DEF Nth
<1> QED
  BY <1>2, <1>3

LEMMA CountedSame ==
    ASSUME FinishedSame
    PROVE  Cardinality(Finished)' = Cardinality(Finished) /\ \A i \in Finished : Nth(i)' = Nth(i)
BY DEF FinishedSame, Nth

LEMMA CountedOne ==
    ASSUME SegFields, NEW line, NEW exit, OneFinished(line, exit)
    PROVE  /\ Cardinality(Finished)' = Cardinality(Finished) + 1
           /\ \A i \in Finished : Nth(i)' = Nth(i)
           /\ \A k \in Finished' \ Finished : Nth(k)' = Cardinality(Finished) + 1
<1> DEFINE n == Len(blocks) + 1
<1>1. /\ Finished' = Finished \cup {n} /\ n \notin Finished /\ n \in Nat /\ \A i \in Finished : i < n
  BY DEF OneFinished
<1>2. IsFiniteSet(Finished) /\ Finished \subseteq Nat /\ Cardinality(Finished) \in Nat
  BY FinishedAre, FinishedCounted
<1>3. Cardinality(Finished)' = Cardinality(Finished) + 1
  <2>1. Cardinality(Finished \cup {n}) = Cardinality(Finished) + 1
    BY <1>1, <1>2, FS_AddElement
  <2> QED
    BY <1>1, <2>1
<1>4. ASSUME NEW i \in Finished PROVE Nth(i)' = Nth(i)
  <2>1. ~(n <= i)
    BY <1>1, <1>2
  <2>2. {j \in Finished' : j <= i} = {j \in Finished : j <= i}
    BY <1>1, <2>1
  <2> QED
    BY <2>2 DEF Nth
<1>5. ASSUME NEW k \in Finished' \ Finished PROVE Nth(k)' = Cardinality(Finished) + 1
  <2>1. k = n
    BY <1>1
  <2>2. k <= k /\ \A j \in Finished : j <= k
    BY <1>1, <1>2, <2>1
  <2>3. {j \in Finished' : j <= k} = Finished'
    BY <1>1, <2>1, <2>2
  <2> QED
    BY <1>3, <2>3 DEF Nth
<1> QED
  BY <1>3, <1>4, <1>5
(* The session thread stores what the shell told it.                       *)
LEMMA ToldSegment ==
    ASSUME BlocksTypeOK, SegTypes, PlaceInv, SyncInv, ToldInv, crashes = 0, Segment PROVE ToldInv'
<1> DEFINE one == IF pty[1].kind = "D" THEN 1 ELSE 0
<1>1. /\ SegFields /\ pty # <<>> /\ pty[1].kind \in {"A", "B", "C", "D", "E"} /\ pty \in Seq(Marks) /\ pty' = Tail(pty)
      /\ UNCHANGED <<shell, stage, active, current, status, ran>> /\ Chain(pty, Way)
  BY MarkRead, WaySegment DEF PlaceInv
<1>2. ~corrupted /\ (pty[1].kind \in {"C", "D", "E"} => Seg!InCommand)
  BY <1>1 DEF SyncInv, Synced
<1>3. /\ pendingCmdline' = Nothing
      /\ pty[1].kind = "E" => open'.cmdline = pty[1].cmdline
      /\ pty[1].kind = "C" => open'.cmdline = open.cmdline
      /\ pty[1].kind # "D" => FinishedSame
      /\ pty[1].kind = "D" => OneFinished(open.cmdline, pty[1].exit)
  <2>1. pendingCmdline = Nothing
    BY DEF ToldInv
  <2>2. CASE pty[1].kind \in {"A", "B"}
    BY <1>1, <1>2, <2>1, <2>2, MarkRead, StartFed
  <2>3. CASE pty[1].kind = "C"
    BY <1>1, <1>2, <2>1, <2>3, MarkRead, ExecutedFed
  <2>4. CASE pty[1].kind = "D"
    BY <1>1, <1>2, <2>1, <2>4, MarkRead, FinishedFed
  <2>5. CASE pty[1].kind = "E"
    <3>1. Seg!CommandLine(pty[1].cmdline) /\ pty[1].cmdline \in Nat
      BY <1>2, <2>5, MarkRead, ShellLimits
    <3> QED
      BY <1>1, <1>2, <2>1, <2>5, <3>1, LineFed
  <2> QED
    BY <1>1, <2>2, <2>3, <2>4, <2>5
<1>4. /\ \A i \in Finished : Nth(i) <= Len(ran) /\ ran[Nth(i)] = <<blocks[i].cmdline, blocks[i].exit>>
      /\ Recorded(pty, Cardinality(Finished), open.cmdline, ran)
      /\ Cardinality(Finished) + EndsIn(pty) + Unsaid = Len(ran)
  BY DEF ToldInv
<1>5. Cardinality(Finished) \in Nat
  BY <1>1, FinishedCounted
<1>6. /\ Recorded(pty', Cardinality(Finished) + one, open'.cmdline, ran)
      /\ LastOne(pty, {"C"}) => Title(pty', Len(pty') + 1, open'.cmdline) = Title(pty, Len(pty) + 1, open.cmdline)
  <2>1. ASSUME NEW next, pty[1].kind = "E" => next = pty[1].cmdline, pty[1].kind = "C" => next = open.cmdline
        PROVE  /\ Recorded(Tail(pty), Cardinality(Finished) + one, next, ran)
               /\ LastOne(pty, {"C"}) =>
                      Title(Tail(pty), Len(Tail(pty)) + 1, next) = Title(pty, Len(pty) + 1, open.cmdline)
    <3>1. /\ Recorded(pty, Cardinality(Finished), open.cmdline, ran) /\ Cardinality(Finished) \in Nat
          /\ pty # <<>> /\ pty \in Seq(Marks) /\ Chain(pty, Way)
      BY <1>1, <1>4, <1>5
    <3> HIDE <1>1, <1>4, <1>5, <1>3
    <3> QED
      BY <2>1, <3>1, RecordGoes
  <2> QED
    BY <1>1, <1>3, <2>1
<1>7. Cardinality(Finished)' = Cardinality(Finished) + one
  <2>1. CASE pty[1].kind = "D"
    BY <1>1, <1>3, <2>1, CountedOne
  <2>2. CASE pty[1].kind # "D"
    BY <1>3, <1>5, <2>2, CountedSame
  <2> QED
    BY <2>1, <2>2
<1>8. EndsIn(pty) = EndsIn(pty') + one /\ EndsIn(pty') \in Nat
  BY <1>1, EndsGo
<1>9. \A i \in Finished' : Nth(i)' <= Len(ran) /\ ran[Nth(i)'] = <<blocks'[i].cmdline, blocks'[i].exit>>
  <2>1. CASE pty[1].kind # "D"
    BY <1>3, <1>4, <2>1, CountedSame DEF FinishedSame
  <2>2. CASE pty[1].kind = "D"
    <3>1. /\ \A i \in Finished : Nth(i)' = Nth(i) /\ blocks'[i] = blocks[i]
          /\ \A k \in Finished' \ Finished : /\ Nth(k)' = Cardinality(Finished) + 1
                                             /\ blocks'[k].cmdline = open.cmdline /\ blocks'[k].exit = pty[1].exit
      BY <1>1, <1>3, <2>2, CountedOne DEF OneFinished
    <3>2. Cardinality(EndsUpTo(pty, 1)) = 1 /\ 1 \in 1..Len(pty) /\ Title(pty, 1, open.cmdline) = open.cmdline
      <4>1. 1 \in 1..Len(pty)
        BY <1>1, FirstGoes
      <4>2. EndsUpTo(pty, 1) = {1}
        BY <2>2, <4>1 DEF EndsUpTo
      <4>3. Cardinality({1}) = 1
        BY FS_Singleton
      <4>4. Title(pty, 1, open.cmdline) = open.cmdline
        BY DEF Title
      <4> QED
        BY <4>1, <4>2, <4>3, <4>4
    <3>3. /\ Cardinality(Finished) + 1 <= Len(ran)
          /\ ran[Cardinality(Finished) + 1] = <<open.cmdline, pty[1].exit>>
      BY <1>4, <2>2, <3>2 DEF Recorded
    <3> QED
      BY <1>4, <3>1, <3>3
  <2> QED
    BY <2>1, <2>2
<1>10. Owed' = Owed /\ Unsaid' = Unsaid
  BY <1>1 DEF Owed, Unsaid
<1>11. Owed => LastOne(pty, {"C"})
  BY DEF PlaceInv
<1>12. Cardinality(Finished)' + EndsIn(pty') + Unsaid' = Len(ran)
  <2>1. Unsaid \in Nat
    BY DEF Unsaid
  <2> QED
    BY <1>4, <1>5, <1>7, <1>8, <1>10, <2>1
<1>13. /\ Owed' => current' \in Lines /\ Title(pty', Len(pty') + 1, open'.cmdline) = current'
       /\ Unsaid' = 1 => ran'[Len(ran')] = <<current', status'>>
  BY <1>1, <1>6, <1>10, <1>11 DEF ToldInv
<1>14. Recorded(pty', Cardinality(Finished)', open'.cmdline, ran')
  BY <1>1, <1>6, <1>7
<1> HIDE DEF one
<1> QED
  BY <1>1, <1>3, <1>9, <1>12, <1>13, <1>14 DEF ToldInv

(* The shell runs a line, and the mark of its end names it.                *)
LEMMA ToldSame ==
    ASSUME UNCHANGED segVars
    PROVE  /\ Finished' = Finished /\ Cardinality(Finished)' = Cardinality(Finished)
           /\ \A i \in Finished : Nth(i)' = Nth(i) /\ blocks'[i] = blocks[i]
           /\ open'.cmdline = open.cmdline /\ pendingCmdline' = pendingCmdline
BY BlocksSame, CountedSame DEF segVars, FinishedSame

LEMMA ToldNothingNew ==
    ASSUME BlocksTypeOK, SegTypes, ToldInv, UNCHANGED <<segVars, ran>>, ~Owed', Unsaid' = Unsaid, Unsaid = 0,
           \/ pty' = pty
           \/ \E m \in Marks : m.kind # "D" /\ pty' = Append(pty, m)
    PROVE  ToldInv'
<1>1. SegFields /\ pty \in Seq(Marks)
  BY PtyMarks DEF SegTypes, SegFields
<1>2. Cardinality(Finished) \in Nat
  BY <1>1, FinishedCounted
<1>3. /\ Recorded(pty, Cardinality(Finished), open.cmdline, ran)
      /\ Cardinality(Finished) + EndsIn(pty) + Unsaid = Len(ran)
  BY DEF ToldInv
<1>4. Recorded(pty', Cardinality(Finished), open.cmdline, ran) /\ EndsIn(pty') = EndsIn(pty)
  <2>1. CASE pty' = pty
    BY <1>3, <2>1
  <2>2. ASSUME NEW m \in Marks, m.kind # "D", pty' = Append(pty, m)
        PROVE  Recorded(pty', Cardinality(Finished), open.cmdline, ran) /\ EndsIn(pty') = EndsIn(pty)
    <3>1. Recorded(Append(pty, m), Cardinality(Finished), open.cmdline, ran)
      BY <1>1, <1>2, <1>3, <2>2, RecordGrows
    <3>2. EndsIn(Append(pty, m)) = EndsIn(pty) + 0 /\ EndsIn(pty) \in Nat
      BY <1>1, <2>2, EndsGrow
    <3> QED
      BY <2>2, <3>1, <3>2
  <2> QED
    BY <2>1, <2>2
<1> QED
  BY <1>3, <1>4, ToldSame DEF ToldInv
LEMMA ToldPrecmd ==
    ASSUME BlocksTypeOK, SegTypes, Honest, PlaceInv, ToldInv, Precmd PROVE ToldInv'
<1>1. stage = "precmd" /\ stage' = "prompt" /\ ~active' /\ UNCHANGED <<segVars, ran, shell>>
  BY DEF Precmd, Honest
<1>2. ~Owed' /\ Unsaid' = 0
  BY <1>1 DEF Owed, Unsaid
<1>3. /\ pty \in Seq(Marks) /\ A \in Marks /\ A.kind = "A" /\ D(status) \in Marks /\ D(status).kind = "D"
      /\ D(status).exit = status
  BY ShellEmits, MarkParts
<1>4. CASE ~(active /\ shell # "fish")
  <2>1. Unsaid = 0 /\ pty' = Append(pty, A)
    BY <1>1, <1>4, ShellEmits DEF Unsaid, Precmd
  <2> QED
    BY <1>1, <1>2, <1>3, <2>1, ToldNothingNew
<1>5. CASE active /\ shell # "fish"
  <2> DEFINE q == Append(pty, D(status))
  <2>1. Unsaid = 1 /\ Owed /\ pty' = Append(q, A)
    BY <1>1, <1>5, ShellEmits DEF Unsaid, Owed, Precmd
  <2>2. SegFields /\ Cardinality(Finished) \in Nat
    BY FinishedCounted DEF SegTypes, SegFields
  <2>3. /\ Recorded(pty, Cardinality(Finished), open.cmdline, ran)
        /\ Cardinality(Finished) + EndsIn(pty) + 1 = Len(ran)
        /\ ran[Len(ran)] = <<Title(pty, Len(pty) + 1, open.cmdline), status>>
    BY <2>1 DEF ToldInv
  <2>4. /\ Cardinality(Finished) + EndsIn(pty) + 1 <= Len(ran)
        /\ ran[Cardinality(Finished) + EndsIn(pty) + 1] = <<Title(pty, Len(pty) + 1, open.cmdline), D(status).exit>>
    <3>1. Len(ran) \in Nat
      BY DEF BlocksTypeOK
    <3> QED
      BY <1>3, <2>3, <3>1
  <2>5. Recorded(q, Cardinality(Finished), open.cmdline, ran)
    BY <1>3, <2>2, <2>3, <2>4, RecordGrows
  <2>6. q \in Seq(Marks) /\ EndsIn(q) = EndsIn(pty) + 1 /\ EndsIn(pty) \in Nat
    BY <1>3, OneMore, EndsGrow
  <2> HIDE DEF q
  <2>7. Recorded(Append(q, A), Cardinality(Finished), open.cmdline, ran)
    <3>1. A.kind # "D"
      BY <1>3
    <3> QED
      BY <1>3, <2>2, <2>5, <2>6, <3>1, RecordGrows
  <2>8. EndsIn(Append(q, A)) = EndsIn(q) + 0 /\ EndsIn(q) \in Nat
    <3>1. A.kind # "D"
      BY <1>3
    <3> QED
      BY <1>3, <2>6, <3>1, EndsGrow
  <2>9. Recorded(pty', Cardinality(Finished), open.cmdline, ran) /\ EndsIn(pty') = EndsIn(pty) + 1
    BY <2>1, <2>6, <2>7, <2>8
  <2>10. Cardinality(Finished) + EndsIn(pty') + Unsaid' = Len(ran)
    BY <1>2, <2>2, <2>3, <2>6, <2>9
  <2> QED
    BY <1>1, <1>2, <2>9, <2>10, ToldSame DEF ToldInv
<1> QED
  BY <1>4, <1>5

LEMMA ToldReadLine ==
    ASSUME BlocksTypeOK, SegTypes, Honest, PlaceInv, ToldInv, ReadLine PROVE ToldInv'
<1>1. stage = "edit" /\ ~active /\ UNCHANGED <<segVars, ran, shell>> /\ Unsaid = 0
  BY DEF ReadLine, PlaceInv, Unsaid
<1>2. CASE Head(tty) = Enter
  <2>1. stage' = "precmd" /\ ~active' /\ pty' = pty
    BY <1>1, <1>2 DEF ReadLine
  <2>2. ~Owed' /\ Unsaid' = Unsaid
    BY <1>1, <2>1 DEF Owed, Unsaid
  <2> QED
    BY <1>1, <2>1, <2>2, ToldNothingNew
<1>3. CASE Head(tty) # Enter
  <2> DEFINE q == Append(pty, E(Head(tty)))
  <2>1. /\ stage' = "running" /\ current' = Head(tty) /\ Head(tty) \in Lines /\ pty \in Seq(Marks) /\ C \in Marks
        /\ E(Head(tty)) \in Marks /\ pty' = Append(q, C)
    <3>1. pty \in Seq(Marks) /\ C \in Marks /\ E(Head(tty)) \in Marks /\ Head(tty) \in Lines \cup {Enter}
      BY ShellEmits
    <3>2. stage' = "running" /\ current' = Head(tty) /\ pty' = pty \o <<E(Head(tty)), C>>
      BY <1>1, <1>3 DEF ReadLine, Emit
    <3> QED
      BY <1>3, <3>1, <3>2, TwoMore
  <2>2. E(Head(tty)).kind # "D" /\ C.kind # "D" /\ E(Head(tty)).cmdline = Head(tty)
    BY MarkParts
  <2>3. SegFields /\ Cardinality(Finished) \in Nat
    BY FinishedCounted DEF SegTypes, SegFields
  <2>4. Recorded(pty, Cardinality(Finished), open.cmdline, ran) /\ Cardinality(Finished) + EndsIn(pty) + Unsaid = Len(ran)
    BY DEF ToldInv
  <2>5. Recorded(q, Cardinality(Finished), open.cmdline, ran)
    BY <2>1, <2>2, <2>3, <2>4, RecordGrows
  <2>6. q \in Seq(Marks) /\ EndsIn(q) = EndsIn(pty) /\ EndsIn(pty) \in Nat /\ Len(q) = Len(pty) + 1 /\ q[Len(pty) + 1] = E(Head(tty))
        /\ Len(pty) \in Nat
    <3>1. EndsIn(q) = EndsIn(pty) + 0 /\ EndsIn(pty) \in Nat
      BY <2>1, <2>2, EndsGrow
    <3> QED
      BY <2>1, <3>1, OneMore
  <2> HIDE DEF q
  <2>7. Recorded(Append(q, C), Cardinality(Finished), open.cmdline, ran)
    BY <2>1, <2>2, <2>3, <2>5, <2>6, RecordGrows
  <2>8. EndsIn(Append(q, C)) = EndsIn(pty)
    <3>1. EndsIn(Append(q, C)) = EndsIn(q) + 0
      BY <2>1, <2>2, <2>6, EndsGrow
    <3> QED
      BY <2>6, <3>1
  <2>9. Title(pty', Len(pty') + 1, open.cmdline) = current'
    <3>1. Len(Append(q, C)) = Len(pty) + 2 /\ Append(q, C)[Len(pty) + 1] = E(Head(tty))
      <4>1. Len(Append(q, C)) = Len(q) + 1 /\ \A i \in 1..Len(q) : Append(q, C)[i] = q[i]
        BY <2>1, <2>6, OneMore
      <4> QED
        BY <2>6, <4>1
    <3>2. (Len(pty) + 2) + 1 >= 3 /\ ((Len(pty) + 2) + 1) - 2 = Len(pty) + 1
      BY <2>6
    <3> QED
      BY <2>1, <2>2, <3>1, <3>2 DEF Title
  <2>10. Unsaid' = 0
    BY <2>1 DEF Unsaid
  <2> QED
    BY <1>1, <2>1, <2>4, <2>7, <2>8, <2>9, <2>10, ToldSame DEF ToldInv
<1> QED
  BY <1>2, <1>3

LEMMA ToldCommandEnds ==
    ASSUME BlocksTypeOK, SegTypes, Honest, PlaceInv, ToldInv, NEW x \in Exits, CommandEnds(x) PROVE ToldInv'
<1>1. /\ stage = "running" /\ stage' = "precmd" /\ active /\ active' /\ UNCHANGED <<segVars, shell, current>>
      /\ ran' = Append(ran, <<current, x>>) /\ status' = x /\ Owed /\ Unsaid = 0
  BY DEF CommandEnds, PlaceInv, Owed, Unsaid
<1>2. SegFields /\ Cardinality(Finished) \in Nat /\ pty \in Seq(Marks) /\ ran \in Seq(Lines \X Exits)
  BY FinishedCounted, PtyMarks DEF SegTypes, SegFields, BlocksTypeOK
<1>3. /\ Recorded(pty, Cardinality(Finished), open.cmdline, ran)
      /\ Cardinality(Finished) + EndsIn(pty) + 0 = Len(ran)
      /\ current \in Lines /\ Title(pty, Len(pty) + 1, open.cmdline) = current
      /\ \A i \in Finished : Nth(i) <= Len(ran) /\ ran[Nth(i)] = <<blocks[i].cmdline, blocks[i].exit>>
      /\ pendingCmdline = Nothing
  BY <1>1 DEF ToldInv
<1>4. /\ Len(ran) \in Nat /\ Len(ran') = Len(ran) + 1 /\ ran'[Len(ran) + 1] = <<current, x>>
      /\ \A k \in 1..Len(ran) : ran'[k] = ran[k]
  <2>1. <<current, x>> \in Lines \X Exits
    BY <1>3
  <2> QED
    BY <1>1, <1>2, <2>1
<1>5. Recorded(pty, Cardinality(Finished), open.cmdline, ran')
  <2>1. <<current, x>> \in Lines \X Exits
    BY <1>3
  <2> QED
    BY <1>1, <1>2, <1>3, <2>1, RecordKept
<1>6. \A i \in Finished : Nth(i) <= Len(ran') /\ ran'[Nth(i)] = <<blocks[i].cmdline, blocks[i].exit>>
  <2> SUFFICES ASSUME NEW i \in Finished
               PROVE  Nth(i) <= Len(ran') /\ ran'[Nth(i)] = <<blocks[i].cmdline, blocks[i].exit>>
    OBVIOUS
  <2>1. Nth(i) \in Nat /\ Nth(i) > 0 /\ Nth(i) <= Len(ran) /\ ran[Nth(i)] = <<blocks[i].cmdline, blocks[i].exit>>
    BY <1>2, <1>3, FinishedCounted
  <2>2. Nth(i) \in 1..Len(ran) /\ Nth(i) <= Len(ran')
    BY <1>4, <2>1
  <2> QED
    BY <1>4, <2>1, <2>2
<1>7. EndsIn(pty) \in Nat
  BY <1>2, EndsAre DEF EndsIn
<1>8. CASE shell = "fish"
  <2>1. pty' = Append(pty, D(x)) /\ D(x) \in Marks /\ D(x).kind = "D" /\ D(x).exit = x /\ Unsaid' = 0 /\ ~Owed'
    BY <1>1, <1>8, ShellEmits, MarkParts DEF Unsaid, Owed
  <2>2. /\ Cardinality(Finished) + EndsIn(pty) + 1 <= Len(ran')
        /\ ran'[Cardinality(Finished) + EndsIn(pty) + 1] = <<Title(pty, Len(pty) + 1, open.cmdline), D(x).exit>>
    <3>1. Cardinality(Finished) + EndsIn(pty) + 1 = Len(ran) + 1
      BY <1>2, <1>3, <1>7
    <3> QED
      BY <1>3, <1>4, <2>1, <3>1
  <2>3. Recorded(Append(pty, D(x)), Cardinality(Finished), open.cmdline, ran')
    BY <1>2, <1>5, <2>1, <2>2, RecordGrows
  <2>4. EndsIn(Append(pty, D(x))) = EndsIn(pty) + 1
    BY <1>2, <2>1, EndsGrow
  <2>5. Cardinality(Finished) + EndsIn(pty') + Unsaid' = Len(ran')
    BY <1>2, <1>3, <1>4, <1>7, <2>1, <2>4
  <2>6. \A i \in Finished' : Nth(i)' <= Len(ran') /\ ran'[Nth(i)'] = <<blocks'[i].cmdline, blocks'[i].exit>>
    BY <1>1, <1>6, ToldSame
  <2>7. /\ Recorded(pty', Cardinality(Finished)', open'.cmdline, ran') /\ pendingCmdline' = Nothing
        /\ Cardinality(Finished)' + EndsIn(pty') + Unsaid' = Len(ran') /\ Unsaid' # 1
    BY <1>1, <1>3, <2>1, <2>3, <2>5, ToldSame
  <2> QED
    BY <2>1, <2>6, <2>7 DEF ToldInv
<1>9. CASE shell # "fish"
  <2>1. pty' = pty /\ Unsaid' = 1
    BY <1>1, <1>9, ShellEmits DEF Unsaid
  <2>2. Cardinality(Finished) + EndsIn(pty') + Unsaid' = Len(ran')
    BY <1>2, <1>3, <1>4, <1>7, <2>1
  <2>3. ran'[Len(ran')] = <<current', status'>>
    BY <1>1, <1>4
  <2> QED
    BY <1>1, <1>3, <1>5, <1>6, <2>1, <2>2, <2>3, ToldSame DEF ToldInv
<1> QED
  BY <1>8, <1>9

LEMMA ToldShell ==
    ASSUME BlocksTypeOK, SegTypes, Honest, PlaceInv, ToldInv,
           Precmd \/ Hook \/ Prompt \/ Redraw \/ ReadLine \/ \E exit \in Exits : CommandEnds(exit)
    PROVE  ToldInv'
<1>1. CASE Hook
  BY <1>1 DEF Hook, PlaceInv
<1>2. CASE Prompt \/ Redraw
  <2>1. /\ pty' = Append(pty, B) /\ B \in Marks /\ B.kind # "D" /\ stage \in {"prompt", "edit"} /\ stage' = "edit"
        /\ UNCHANGED <<segVars, ran>>
    BY <1>2, ShellEmits, MarkParts DEF Prompt, Redraw
  <2>2. ~Owed' /\ Unsaid' = 0 /\ Unsaid = 0
    BY <2>1 DEF Owed, Unsaid
  <2> QED
    BY <2>1, <2>2, ToldNothingNew
<1> QED
  BY <1>1, <1>2, ToldPrecmd, ToldReadLine, ToldCommandEnds
-----------------------------------------------------------------------------
(* A bash whose prompt commands set off the trap.                          *)
LEMMA UntitledCounted ==
    ASSUME SegFields
    PROVE  /\ IsFiniteSet(Untitled) /\ Cardinality(Untitled) \in Nat
           /\ FinishedSame => Untitled' = Untitled
           /\ \A line, exit : OneFinished(line, exit) =>
                  Cardinality(Untitled)' \in Nat /\ Cardinality(Untitled)' <= Cardinality(Untitled) + 1
<1>1. IsFiniteSet(Finished) /\ Untitled \subseteq Finished
  BY FinishedCounted DEF Untitled
<1>2. IsFiniteSet(Untitled) /\ Cardinality(Untitled) \in Nat
  BY <1>1, FS_Subset, FS_CardinalityType
<1>3. ASSUME NEW line, NEW exit, OneFinished(line, exit)
      PROVE  Cardinality(Untitled)' \in Nat /\ Cardinality(Untitled)' <= Cardinality(Untitled) + 1
  <2> DEFINE n == Len(blocks) + 1
  <2>1. /\ Finished' = Finished \cup {n} /\ n \notin Finished /\ \A i \in Finished : blocks'[i] = blocks[i]
    BY <1>3 DEF OneFinished
  <2> HIDE DEF n
  <2>2. Untitled' = Untitled \/ Untitled' = Untitled \cup {n}
    BY <2>1 DEF Untitled
  <2>3. n \notin Untitled
    BY <1>1, <2>1
  <2>4. Cardinality(Untitled \cup {n}) = Cardinality(Untitled) + 1
    BY <1>2, <2>3, FS_AddElement
  <2>5. CASE Untitled' = Untitled
    BY <1>2, <2>5
  <2>6. CASE Untitled' = Untitled \cup {n}
    BY <1>2, <2>4, <2>6
  <2> QED
    BY <2>2, <2>5, <2>6
<1>4. FinishedSame => Untitled' = Untitled
  BY <1>1 DEF FinishedSame, Untitled
<1> QED
  BY <1>2, <1>3, <1>4

(* What is open says which mark is next.                                   *)
HookNext ==
    /\ pty # <<>> /\ open = Nothing => pty[1].kind = "A"
    /\ pty # <<>> /\ Seg!InPrompt => pty[1].kind \in {"E", "C"}
    /\ pty # <<>> /\ Seg!InCommand => pty[1].kind \in {"B", "D"}
    /\ pty = <<>> /\ stage = "hook" => Seg!InPrompt
    /\ pty = <<>> /\ (stage \in {"prompt", "edit", "running"} \/ (stage = "precmd" /\ active)) => Seg!InCommand
HookCount ==
    /\ disorder < CorruptLimit /\ Cardinality(Untitled) <= disorder
    /\ Seg!InCommand => Cardinality(Untitled) < disorder

LEMMA OpenCases ==
    ASSUME SegFields
    PROVE  \/ open = Nothing /\ ~Seg!InPrompt /\ ~Seg!InCommand
           \/ open # Nothing /\ Seg!InPrompt /\ ~Seg!InCommand
           \/ open # Nothing /\ ~Seg!InPrompt /\ Seg!InCommand
<1>1. open = Nothing \/ (open \in Seg!Open /\ open.kind \in {"prompt", "command"})
  BY OpenParts DEF SegFields
<1> QED
  BY <1>1 DEF Seg!InPrompt, Seg!InCommand

LEMMA HookSegment ==
    ASSUME BlocksTypeOK, SegTypes, HookInv, Segment PROVE HookInv'
<1>1. /\ Chain(pty', HookWay) /\ (pty' # <<>> => <<pty[1].kind, pty'[1].kind>> \in HookWay)
      /\ \A S : LastOne(pty, S) => LastOne(pty', S) /\ (pty' = <<>> => pty[1].kind \in S)
      /\ UNCHANGED <<shell, stage, active>>
  BY WaySegment DEF HookInv
<1>2. /\ SegFields /\ SegFields' /\ (corrupted => corrupted' /\ FinishedSame /\ UNCHANGED segVars) /\ pty # <<>>
      /\ pty[1].kind \in {"A", "B", "C", "D", "E"}
  BY MarkRead
<1>3. /\ stage = "hook" => LastOne(pty, {"A"}) /\ ~active
      /\ stage = "prompt" => LastOne(pty, {"C"}) /\ active
      /\ stage \in {"edit", "running"} => LastOne(pty, {"B"}) /\ active
      /\ stage = "precmd" => active /\ LastOne(pty, {"B"})
  BY <1>2 DEF HookInv
<1>4. pty' = <<>> /\ stage = "hook" => pty[1].kind = "A"
  BY <1>1, <1>3
<1>5. pty' = <<>> /\ stage = "prompt" => pty[1].kind = "C"
  BY <1>1, <1>3
<1>6. pty' = <<>> /\ stage \in {"edit", "running", "precmd"} => pty[1].kind = "B"
  BY <1>1, <1>3
<1>7. stage \in {"precmd", "hook", "prompt", "edit", "running"}
  BY DEF BlocksTypeOK
<1>8. Cardinality(Untitled) \in Nat /\ Cardinality(Untitled) < CorruptLimit /\ CorruptLimit \in Nat
  BY <1>2, UntitledCounted, ShellLimits DEF HookInv
<1>9. ~corrupted => HookNext /\ HookCount
  BY DEF HookInv, HookNext, HookCount
<1>10. disorder \in Nat
  BY DEF SegTypes
<1>11. CASE corrupted
  <2>1. corrupted' /\ Untitled' = Untitled
    BY <1>2, <1>11, UntitledCounted
  <2> QED
    BY <1>1, <1>3, <1>8, <2>1 DEF HookInv
<1>12. CASE ~corrupted
  <2>1. Cardinality(Untitled)' < CorruptLimit /\ (~corrupted' => HookNext' /\ HookCount')
    <3>1. CASE pty[1].kind = "A"
      <4>1. FinishedSame /\ disorder' = disorder /\ ~corrupted' /\ Seg!InPrompt' /\ ~Seg!InCommand' /\ open' # Nothing
        BY <1>2, <1>12, <3>1, MarkRead, StartFed
      <4>2. Untitled' = Untitled
        BY <1>2, <4>1, UntitledCounted
      <4>3. pty' # <<>> => pty'[1].kind \in {"E", "C"}
        BY <1>1, <3>1 DEF HookWay
      <4>4. pty' = <<>> => stage = "hook"
        BY <1>5, <1>6, <1>7, <3>1
      <4> QED
        BY <1>1, <1>8, <1>9, <1>12, <4>1, <4>2, <4>3, <4>4 DEF HookNext, HookCount
    <3>2. CASE pty[1].kind = "B"
      <4>1. FinishedSame /\ disorder' = disorder /\ ~corrupted' /\ Seg!InCommand' /\ ~Seg!InPrompt' /\ open' # Nothing
        BY <1>2, <1>12, <3>2, MarkRead, StartFed
      <4>2. Untitled' = Untitled
        BY <1>2, <4>1, UntitledCounted
      <4>3. pty' # <<>> => pty'[1].kind \in {"B", "D"}
        BY <1>1, <3>2 DEF HookWay
      <4>4. Seg!InCommand
        BY <1>2, <1>9, <1>12, <3>2, OpenCases DEF HookNext
      <4>5. ~(pty' = <<>> /\ stage = "hook")
        BY <1>4, <3>2
      <4> QED
        BY <1>1, <1>8, <1>9, <1>12, <4>1, <4>2, <4>3, <4>4, <4>5 DEF HookNext, HookCount
    <3>3. CASE pty[1].kind = "E"
      <4>1. Seg!CommandLine(pty[1].cmdline) /\ pty[1].cmdline \in Nat
        BY <1>12, <3>3, MarkRead, ShellLimits
      <4>2. Seg!InPrompt /\ ~Seg!InCommand /\ open # Nothing
        BY <1>2, <1>9, <1>12, <3>3, OpenCases DEF HookNext
      <4>3. FinishedSame /\ disorder' = disorder /\ ~corrupted' /\ Seg!InPrompt' /\ ~Seg!InCommand'
        BY <1>2, <1>12, <4>1, <4>2, LineFed
      <4>4. Untitled' = Untitled /\ open' # Nothing
        BY <1>2, <4>3, UntitledCounted DEF Seg!InPrompt
      <4>5. pty' # <<>> /\ pty'[1].kind \in {"E", "C"}
        BY <1>1, <1>4, <1>5, <1>6, <1>7, <3>3 DEF HookWay
      <4> QED
        BY <1>1, <1>8, <1>9, <1>12, <4>3, <4>4, <4>5 DEF HookNext, HookCount
    <3>4. CASE pty[1].kind = "C"
      <4>1. ~Seg!InCommand
        BY <1>2, <1>9, <1>12, <3>4, OpenCases DEF HookNext
      <4>2. /\ FinishedSame /\ disorder' = disorder + 1 /\ (corrupted' <=> disorder + 1 >= CorruptLimit)
            /\ ~corrupted' => Seg!InCommand' /\ ~Seg!InPrompt' /\ open' # Nothing
        BY <1>2, <1>12, <3>4, <4>1, MarkRead, ExecutedFed
      <4>3. Untitled' = Untitled
        BY <1>2, <4>2, UntitledCounted
      <4>4. pty' # <<>> => pty'[1].kind \in {"B", "D"}
        BY <1>1, <3>4 DEF HookWay
      <4>5. ~(pty' = <<>> /\ stage = "hook")
        BY <1>4, <3>4
      <4>6. ~corrupted' => HookNext'
        BY <1>1, <4>2, <4>4, <4>5 DEF HookNext
      <4>7. Cardinality(Untitled) <= disorder
        BY <1>9, <1>12 DEF HookCount
      <4>8. ~corrupted' => HookCount'
        BY <1>8, <1>10, <4>2, <4>3, <4>7 DEF HookCount
      <4> QED
        BY <1>8, <4>3, <4>6, <4>8
    <3>5. CASE pty[1].kind = "D"
      <4>1. Seg!InCommand
        BY <1>2, <1>9, <1>12, <3>5, OpenCases DEF HookNext
      <4>2. /\ disorder' = disorder /\ ~corrupted' /\ open' = Nothing /\ OneFinished(open.cmdline, pty[1].exit)
        BY <1>2, <1>12, <3>5, <4>1, MarkRead, FinishedFed
      <4>3. Cardinality(Untitled)' \in Nat /\ Cardinality(Untitled)' <= Cardinality(Untitled) + 1
        BY <1>2, <4>2, UntitledCounted
      <4>4. pty' # <<>> /\ pty'[1].kind = "A"
        BY <1>1, <1>4, <1>5, <1>6, <1>7, <3>5 DEF HookWay
      <4>5. ~Seg!InCommand' /\ ~Seg!InPrompt'
        BY <4>2 DEF Seg!InCommand, Seg!InPrompt
      <4>6. HookNext'
        BY <4>4, <4>5 DEF HookNext
      <4>7. Cardinality(Untitled) < disorder /\ disorder < CorruptLimit
        BY <1>9, <1>12, <4>1 DEF HookCount
      <4>8. HookCount' /\ Cardinality(Untitled)' < CorruptLimit
        BY <1>8, <1>10, <4>2, <4>3, <4>5, <4>7 DEF HookCount
      <4> QED
        BY <4>6, <4>8
    <3> QED
      BY <1>2, <3>1, <3>2, <3>3, <3>4, <3>5
  <2> QED
    BY <1>1, <1>3, <2>1 DEF HookInv, HookNext, HookCount
<1> QED
  BY <1>11, <1>12

LEMMA HookShell ==
    ASSUME BlocksTypeOK, SegTypes, ~Honest, HookInv,
           Precmd \/ Hook \/ Prompt \/ Redraw \/ ReadLine \/ \E exit \in Exits : CommandEnds(exit)
    PROVE  HookInv'
<1>1. UNCHANGED <<shell, segVars>> /\ shell = "hooked_bash"
  BY DEF Precmd, Hook, Prompt, Redraw, ReadLine, CommandEnds, Honest
<1>2. /\ Untitled' = Untitled /\ Seg!InCommand' = Seg!InCommand /\ Seg!InPrompt' = Seg!InPrompt
      /\ UNCHANGED <<open, corrupted, disorder>> /\ SegFields
  BY <1>1, UntitledCounted, BlocksSame DEF segVars, Seg!InCommand, Seg!InPrompt, SegTypes, SegFields
<1>3. HookCount' = HookCount
  BY <1>2 DEF HookCount
<1>4. /\ pty \in Seq(Marks) /\ Chain(pty, HookWay) /\ A \in Marks /\ B \in Marks /\ C \in Marks /\ D(status) \in Marks
      /\ E(current) \in Marks
  BY ShellEmits DEF HookInv
<1>5. /\ A.kind = "A" /\ B.kind = "B" /\ C.kind = "C" /\ D(status).kind = "D" /\ E(current).kind = "E"
  BY MarkParts
<1>6. {<<"A", "E">>, <<"E", "C">>, <<"C", "B">>, <<"B", "B">>, <<"B", "D">>, <<"D", "A">>} \subseteq HookWay
  BY DEF HookWay
<1>7. Cardinality(Untitled) < CorruptLimit /\ (~corrupted => HookCount /\ HookNext)
  BY DEF HookInv, HookCount, HookNext
<1>8. \/ open = Nothing /\ ~Seg!InPrompt /\ ~Seg!InCommand
      \/ open # Nothing /\ Seg!InPrompt /\ ~Seg!InCommand
      \/ open # Nothing /\ ~Seg!InPrompt /\ Seg!InCommand
  BY <1>2, OpenCases
<1>9. CASE Precmd
  <2>1. stage = "precmd" /\ stage' = "hook" /\ ~active' /\ FirstBecomes(IF active THEN "D" ELSE "A")
    BY <1>1, <1>9, ShellFirst DEF Precmd
  <2>2. (active /\ LastOne(pty, {"B"})) \/ (~active /\ pty = <<>> /\ open = Nothing)
    BY <2>1 DEF HookInv
  <2>3. Chain(pty', HookWay) /\ LastOne(pty', {"A"})
    <3>1. CASE active
      <4>1. pty' = Append(Append(pty, D(status)), A)
        BY <1>1, <1>9, <3>1, ShellEmits
      <4>2. /\ Chain(Append(pty, D(status)), HookWay) /\ LastOne(Append(pty, D(status)), {"D"})
            /\ Append(pty, D(status)) \in Seq(Marks)
        BY <1>4, <1>5, <1>6, <2>2, <3>1, OneOn
      <4> QED
        BY <1>4, <1>5, <1>6, <4>1, <4>2, OneOn
    <3>2. CASE ~active
      <4>1. pty' = Append(pty, A) /\ LastOne(pty, {"D"})
        BY <1>9, <2>2, <3>2, ShellEmits DEF LastOne
      <4> QED
        BY <1>4, <1>5, <1>6, <4>1, OneOn
    <3> QED
      BY <3>1, <3>2
  <2>4. ~corrupted => HookNext'
    BY <1>2, <1>7, <1>8, <2>1, <2>2 DEF HookNext, FirstBecomes
  <2> QED
    BY <1>2, <1>3, <1>7, <2>1, <2>3, <2>4 DEF HookInv, HookNext, HookCount
<1>10. CASE Hook
  <2>1. stage = "hook" /\ stage' = "prompt" /\ active' /\ FirstBecomes("E") /\ pty' = Append(Append(pty, E(current)), C)
    BY <1>10, ShellFirst, ShellEmits DEF Hook
  <2>2. LastOne(pty, {"A"})
    BY <2>1 DEF HookInv
  <2>3. /\ Chain(Append(pty, E(current)), HookWay) /\ LastOne(Append(pty, E(current)), {"E"})
        /\ Append(pty, E(current)) \in Seq(Marks)
    BY <1>4, <1>5, <1>6, <2>2, OneOn
  <2>4. Chain(pty', HookWay) /\ LastOne(pty', {"C"})
    BY <1>4, <1>5, <1>6, <2>1, <2>3, OneOn
  <2>5. ~corrupted => HookNext'
    BY <1>2, <1>7, <1>8, <2>1 DEF HookNext, FirstBecomes
  <2> QED
    BY <1>2, <1>3, <1>7, <2>1, <2>4, <2>5 DEF HookInv, HookNext, HookCount
<1>11. CASE Prompt \/ Redraw
  <2>1. /\ stage \in {"prompt", "edit"} /\ stage' = "edit" /\ UNCHANGED active /\ FirstBecomes("B") /\ pty' = Append(pty, B)
    BY <1>11, ShellFirst, ShellEmits DEF Prompt, Redraw
  <2>2. (LastOne(pty, {"C"}) \/ LastOne(pty, {"B"})) /\ active
    BY <2>1 DEF HookInv
  <2>3. Chain(pty', HookWay) /\ LastOne(pty', {"B"})
    BY <1>4, <1>5, <1>6, <2>1, <2>2, OneOn
  <2>4. ~corrupted => HookNext'
    BY <1>2, <1>7, <1>8, <2>1 DEF HookNext, FirstBecomes
  <2> QED
    BY <1>2, <1>3, <1>7, <2>1, <2>2, <2>3, <2>4 DEF HookInv, HookNext, HookCount
<1>12. CASE ReadLine \/ \E exit \in Exits : CommandEnds(exit)
  <2>1. stage \in {"edit", "running"} /\ LastOne(pty, {"B"}) /\ active
    BY <1>12 DEF HookInv, ReadLine, CommandEnds
  <2>2. stage' \in {"precmd", "running"} /\ active' /\ pty' = pty
    BY <1>1, <1>12, <2>1 DEF ReadLine, CommandEnds
  <2>3. ~corrupted => HookNext'
    BY <1>2, <1>7, <2>1, <2>2 DEF HookNext
  <2> QED
    BY <1>2, <1>3, <1>4, <1>7, <2>1, <2>2, <2>3 DEF HookInv, HookNext, HookCount
<1> QED
  BY <1>9, <1>10, <1>11, <1>12
-----------------------------------------------------------------------------
(* The rest leaves the shell, the marks and the segmenter alone.           *)
LEMMA AroundStays ==
    ASSUME UNCHANGED <<shell, stage, active, current, status, pty, ran, segVars>>, crashes' = crashes \/ crashes' # 0,
           daemon' = daemon \/ crashes' # 0
    PROVE  /\ PlaceInv => PlaceInv'
           /\ SyncInv => SyncInv'
           /\ ToldInv => ToldInv'
           /\ HookInv => HookInv'
<1>1. /\ Finished' = Finished /\ Cardinality(Finished)' = Cardinality(Finished)
      /\ \A i \in Finished : Nth(i)' = Nth(i) /\ blocks'[i] = blocks[i]
      /\ open' = open /\ pendingCmdline' = pendingCmdline /\ disorder' = disorder /\ corrupted' = corrupted
  BY ToldSame DEF segVars
<1>2. /\ Owed' = Owed /\ Unsaid' = Unsaid /\ Seg!AtPrompt' = Seg!AtPrompt /\ Seg!InCommand' = Seg!InCommand
      /\ Seg!InPrompt' = Seg!InPrompt
  BY <1>1 DEF Owed, Unsaid, Seg!AtPrompt, Seg!InCommand, Seg!InPrompt
<1>3. Synced' = Synced
  BY <1>2 DEF Synced
<1>4. Untitled' = Untitled
  BY <1>1 DEF Untitled
<1>5. PlaceInv => PlaceInv'
  BY <1>2 DEF PlaceInv
<1>6. SyncInv => SyncInv'
  BY <1>1, <1>3 DEF SyncInv
<1>7. ToldInv => ToldInv'
  BY <1>1, <1>2 DEF ToldInv
<1>8. HookInv => HookInv'
  BY <1>1, <1>2, <1>4 DEF HookInv
<1> QED
  BY <1>5, <1>6, <1>7, <1>8

LEMMA AroundAlone ==
    ASSUME quiet => AloneInv, quiet',
           ProgramReads \/ Crash \/ Readopt \/ \E line \in Enter..MaxLines : UserTypes(line), SegTypes
    PROVE  AloneInv'
<1>1. CASE \E line \in Enter..MaxLines : UserTypes(line)
  BY <1>1 DEF UserTypes
<1>2. CASE ProgramReads
  <2>1. AloneInv /\ stage = "running" /\ tty # <<>> /\ UNCHANGED <<agent, result>>
    BY <1>2 DEF ProgramReads, agentVars
  <2>2. agent \notin {"settled", "counted", "waiting"}
    BY <2>1 DEF AloneInv
  <2> QED
    BY <2>1, <2>2 DEF AloneInv
<1>3. CASE Crash
  <2>1. AloneInv /\ agent' \in {"idle", "gave_up"} /\ UNCHANGED result
    BY <1>3 DEF Crash
  <2> QED
    BY <2>1 DEF AloneInv
<1>4. CASE Readopt
  <2>1. AloneInv /\ agent \notin {"settled", "counted", "waiting"} /\ UNCHANGED <<agent, result>>
    BY <1>4 DEF Readopt, agentVars, SegTypes
  <2> QED
    BY <2>1 DEF AloneInv
<1> QED
  BY <1>1, <1>2, <1>3, <1>4

LEMMA ReadoptFresh ==
    ASSUME SegTypes, PlaceInv, Readopt PROVE PlaceInv' /\ SyncInv' /\ crashes' # 0
<1>1. /\ pty' = <<>> /\ open' = Nothing /\ disorder' = 0 /\ ~corrupted' /\ crashes' # 0
      /\ UNCHANGED <<shell, stage, active, crashes>>
  BY DEF Readopt, SegTypes
<1>2. ~Seg!AtPrompt' /\ (\A S : LastOne(pty', S)) /\ Chain(pty', Way)
  <2>1. \A i \in 1..(Len(<<>>) - 1) : FALSE
    OBVIOUS
  <2>2. Chain(<<>>, Way)
    BY <2>1 DEF Chain
  <2> QED
    BY <1>1, <2>2 DEF Seg!AtPrompt, Seg!InPrompt, Seg!InCommand, LastOne
<1>3. PlaceInv'
  BY <1>1, <1>2 DEF PlaceInv, Owed
<1>4. SyncInv'
  BY <1>1 DEF SyncInv
<1> QED
  BY <1>1, <1>3, <1>4

LEMMA ShellBegins == ASSUME ShellInit PROVE ShellInv
<1>1. BlocksTypeOK /\ SegTypes
  BY TypesInit
<1>2. /\ stage = "precmd" /\ active = FALSE /\ pty = <<>> /\ daemon = "up" /\ crashes = 0 /\ agent = "idle"
      /\ result = Nothing /\ open = Nothing /\ pendingCmdline = Nothing /\ disorder = 0 /\ corrupted = FALSE
      /\ blocks = <<>> /\ ran = <<>> /\ quiet = FALSE
  BY DEF ShellInit, Seg!Init
<1>3. /\ ~Seg!AtPrompt /\ ~Seg!InCommand /\ ~Seg!InPrompt /\ ~Owed /\ Unsaid = 0
  BY <1>2 DEF Seg!AtPrompt, Seg!InCommand, Seg!InPrompt, Owed, Unsaid
<1>4. (\A S : LastOne(pty, S)) /\ Chain(pty, Way) /\ Chain(pty, HookWay)
  <2>1. \A i \in 1..(Len(<<>>) - 1) : FALSE
    OBVIOUS
  <2> QED
    BY <1>2, <2>1 DEF Chain, LastOne
<1>5. Finished = {} /\ Untitled = {} /\ Cardinality(Finished) = 0 /\ Cardinality(Untitled) = 0
  <2>1. DOMAIN blocks = {}
    BY <1>2
  <2>2. Finished = {} /\ Untitled = {}
    BY <2>1 DEF Finished, Untitled
  <2> QED
    BY <2>2, FS_EmptySet
<1>6. EndsIn(pty) = 0 /\ Recorded(pty, 0, open.cmdline, ran) /\ Len(ran) = 0
  <2>1. Len(<<>>) = 0 /\ \A i \in 1..Len(<<>>) : FALSE
    OBVIOUS
  <2>2. EndsUpTo(<<>>, Len(<<>>)) = {}
    BY <2>1 DEF EndsUpTo
  <2> QED
    BY <1>2, <2>1, <2>2, FS_EmptySet DEF EndsIn, Recorded
<1>7. PlaceInv
  BY <1>2, <1>3, <1>4 DEF PlaceInv
<1>8. SyncInv
  BY <1>2, <1>3 DEF SyncInv, Synced
<1>9. ToldInv
  BY <1>2, <1>3, <1>5, <1>6 DEF ToldInv
<1>10. HookInv
  <2>1. CorruptLimit \in Nat /\ CorruptLimit > 0
    BY ShellLimits
  <2> QED
    BY <1>2, <1>3, <1>4, <1>5, <2>1 DEF HookInv
<1> QED
  BY <1>1, <1>2, <1>7, <1>8, <1>9, <1>10 DEF ShellInv

LEMMA ShellGoesOn == ASSUME ShellInv, [ShellNext]_wayVars PROVE ShellInv'
<1>1. BlocksTypeOK /\ SegTypes
  BY DEF ShellInv
<1> DEFINE OfShell == Precmd \/ Hook \/ Prompt \/ Redraw \/ ReadLine \/ \E exit \in Exits : CommandEnds(exit)
           OfAgent == Settle \/ CountBlocks \/ TypeCommand \/ Find \/ Timeout
           OfUser == \E line \in Enter..MaxLines : UserTypes(line)
<1>2. CASE OfShell
  <2>1. BlocksTypeOK' /\ SegTypes' /\ UNCHANGED <<shell, crashes, quiet>>
    BY <1>1, <1>2, ShellTypes DEF Precmd, Hook, Prompt, Redraw, ReadLine, CommandEnds, agentVars
  <2>2. ASSUME Honest
        PROVE  PlaceInv' /\ SyncInv' /\ (crashes = 0 => ToldInv') /\ (quiet => AloneInv')
    BY <1>1, <1>2, <2>2, PlaceShell, SyncShell, ToldShell, AloneShell DEF ShellInv
  <2>3. ~Honest /\ crashes = 0 => HookInv'
    BY <1>1, <1>2, HookShell DEF ShellInv
  <2> QED
    BY <2>1, <2>2, <2>3 DEF ShellInv, Honest
<1>3. CASE Segment
  <2>1. BlocksTypeOK' /\ SegTypes' /\ UNCHANGED <<shell, crashes, quiet>>
    BY <1>1, <1>3, SegmentTypes DEF Segment, agentVars
  <2>2. ASSUME Honest
        PROVE  PlaceInv' /\ SyncInv' /\ (crashes = 0 => ToldInv') /\ (quiet => AloneInv')
    BY <1>1, <1>3, <2>2, PlaceSegment, SyncSegment, ToldSegment, AloneSegment DEF ShellInv
  <2>3. ~Honest /\ crashes = 0 => HookInv'
    BY <1>1, <1>3, HookSegment DEF ShellInv
  <2> QED
    BY <2>1, <2>2, <2>3 DEF ShellInv, Honest
<1>4. CASE OfAgent
  <2>1. BlocksTypeOK' /\ SegTypes'
    BY <1>1, <1>4, AgentTypes
  <2>2. UNCHANGED <<shell, stage, active, current, status, pty, ran, segVars, crashes, daemon>>
    BY <1>4 DEF Settle, CountBlocks, TypeCommand, Find, Timeout, shellVars
  <2>3. /\ PlaceInv => PlaceInv'
        /\ SyncInv => SyncInv'
        /\ ToldInv => ToldInv'
        /\ HookInv => HookInv'
    BY <2>2, AroundStays
  <2>4. Honest /\ quiet' => AloneInv'
    BY <1>1, <1>4, AloneAgent DEF ShellInv
  <2> QED
    BY <2>1, <2>2, <2>3, <2>4 DEF ShellInv, Honest
<1>5. CASE ProgramReads \/ Crash \/ OfUser
  <2>1. BlocksTypeOK' /\ SegTypes'
    BY <1>1, <1>5, UserTypesTypes, OtherTypes
  <2>2. UNCHANGED <<shell, stage, active, current, status, pty, ran, segVars>>
    BY <1>5 DEF ProgramReads, Crash, UserTypes, shellVars
  <2>3. (crashes' = crashes /\ daemon' = daemon) \/ crashes' # 0
    <3>1. crashes \in Nat
      BY <1>1, ShellLimits DEF BlocksTypeOK
    <3> QED
      BY <1>5, <3>1 DEF ProgramReads, Crash, UserTypes
  <2>4. /\ PlaceInv => PlaceInv'
        /\ SyncInv => SyncInv'
        /\ ToldInv => ToldInv'
        /\ HookInv => HookInv'
    BY <2>2, <2>3, AroundStays
  <2>5. Honest /\ quiet' => AloneInv'
    BY <1>1, <1>5, AroundAlone DEF ShellInv
  <2> QED
    BY <2>1, <2>2, <2>3, <2>4, <2>5 DEF ShellInv, Honest
<1>6. CASE Readopt
  <2>1. BlocksTypeOK' /\ SegTypes' /\ UNCHANGED shell
    BY <1>1, <1>6, OtherTypes DEF Readopt
  <2>2. Honest => PlaceInv' /\ SyncInv'
    BY <1>1, <1>6, ReadoptFresh DEF ShellInv
  <2>3. crashes' # 0
    BY <1>1, <1>6 DEF Readopt, SegTypes
  <2>4. Honest /\ quiet' => AloneInv'
    BY <1>1, <1>6, AroundAlone DEF ShellInv
  <2> QED
    BY <2>1, <2>2, <2>3, <2>4 DEF ShellInv, Honest
<1>7. CASE UNCHANGED wayVars
  <2>1. UNCHANGED <<shell, stage, active, current, status, pty, ran, segVars, crashes, daemon, tty, typed, redraws, titled,
                    agent, after, result, quiet>>
    BY <1>7 DEF wayVars, shellVars, agentVars
  <2>2. BlocksTypeOK' /\ SegTypes'
    BY <1>1, <2>1 DEF BlocksTypeOK, SegTypes, segVars
  <2>3. /\ PlaceInv => PlaceInv'
        /\ SyncInv => SyncInv'
        /\ ToldInv => ToldInv'
        /\ HookInv => HookInv'
    BY <2>1, AroundStays
  <2>4. AloneInv => AloneInv'
    BY <2>1 DEF AloneInv, segVars, Titled, Seg!InCommand, Owed, Finished, HasExit
  <2> QED
    BY <2>1, <2>2, <2>3, <2>4 DEF ShellInv, Honest
<1> QED
  BY <1>2, <1>3, <1>4, <1>5, <1>6, <1>7 DEF ShellNext
-----------------------------------------------------------------------------
(* What follows from it.                                                   *)
LEMMA BlocksFollow == ASSUME ShellInv PROVE BlocksFollowCommands
<1> SUFFICES ASSUME crashes = 0, Honest
             PROVE  /\ \A i \in Finished : Nth(i) <= Len(ran) /\ ran[Nth(i)] = <<blocks[i].cmdline, blocks[i].exit>>
                    /\ pty = <<>> /\ stage = "edit" => Cardinality(Finished) = Len(ran)
  BY DEF BlocksFollowCommands, Honest
<1>1. ToldInv /\ SegFields /\ BlocksTypeOK
  BY DEF ShellInv, SegTypes, SegFields
<1>2. ASSUME pty = <<>>, stage = "edit" PROVE Cardinality(Finished) = Len(ran)
  <2>1. Cardinality(Finished) + EndsIn(pty) + 0 = Len(ran)
    BY <1>1, <1>2 DEF ToldInv, Unsaid
  <2>2. EndsIn(pty) = 0
    <3>1. Len(<<>>) = 0 /\ \A i \in 1..Len(<<>>) : FALSE
      OBVIOUS
    <3>2. EndsUpTo(<<>>, Len(<<>>)) = {}
      BY <3>1 DEF EndsUpTo
    <3> QED
      BY <1>2, <3>2, FS_EmptySet DEF EndsIn
  <2>3. Cardinality(Finished) \in Nat
    BY <1>1, FinishedCounted
  <2> QED
    BY <2>1, <2>2, <2>3
<1> QED
  BY <1>1, <1>2 DEF ToldInv

LEMMA WrongAreFew == ASSUME ShellInv PROVE WrongBlocksAreFew
<1> SUFFICES ASSUME crashes = 0 PROVE Cardinality(Untitled) < CorruptLimit
  BY DEF WrongBlocksAreFew
<1>1. CASE Honest
  <2>1. ToldInv /\ SegFields /\ ran \in Seq(Lines \X Exits)
    BY <1>1 DEF ShellInv, SegTypes, SegFields, BlocksTypeOK
  <2>2. ASSUME NEW i \in Finished PROVE blocks[i].cmdline \in Lines
    <3>1. Nth(i) \in Nat /\ Nth(i) > 0 /\ Nth(i) <= Len(ran)
      BY <2>1, FinishedCounted DEF ToldInv
    <3>2. Nth(i) \in 1..Len(ran)
      BY <2>1, <3>1
    <3>3. ran[Nth(i)] \in Lines \X Exits /\ ran[Nth(i)] = <<blocks[i].cmdline, blocks[i].exit>>
      BY <2>1, <3>2 DEF ToldInv
    <3> QED
      BY <3>3
  <2>3. Untitled = {}
    BY <2>2 DEF Untitled
  <2> QED
    BY <2>3, FS_EmptySet, ShellLimits
<1>2. CASE ~Honest
  BY <1>2 DEF ShellInv, HookInv
<1> QED
  BY <1>1, <1>2

LEMMA ShellInvGives == ASSUME ShellInv PROVE BlocksTypeOK /\ BlocksAreTrue /\ OwnMarksInOrder /\ AgentAlone
<1>1. PromptIsHonest
  BY DEF ShellInv, PlaceInv, PromptIsHonest, Honest
<1>2. AgentAlone
  BY DEF ShellInv, AloneInv, AgentAlone, Honest
<1>3. OwnMarksInOrder
  <2> SUFFICES ASSUME Honest PROVE ~corrupted /\ disorder <= crashes
    BY DEF OwnMarksInOrder, Honest
  <2>1. SyncInv /\ crashes \in Nat
    BY ShellLimits DEF ShellInv, BlocksTypeOK
  <2> QED
    BY <2>1, ShellLimits DEF SyncInv
<1> QED
  BY <1>1, <1>2, <1>3, BlocksFollow, WrongAreFew DEF BlocksAreTrue, ShellInv

(* The marks on their way are a path through the shell's hooks, and the    *)
(* segmenter, the store and Agent Mode are where that path has brought     *)
(* them, for the integrations of zsh, bash and fish; for a bash whose      *)
(* prompt commands set off the trap every wrong block is paid for with     *)
(* disorder.                                                               *)
THEOREM ShellInvariant == ShellSpec => []ShellInv
<1> QED
  BY ShellBegins, ShellGoesOn, PTL DEF ShellSpec

(* The finished blocks are the commands that ran, in order and each once,  *)
(* with the status they ended with, and none is missing once the marks are *)
(* through; at_prompt holds of no running command; fewer finished blocks   *)
(* than the limit of disorder name no line, and marks of the integrations  *)
(* are never too many out of order.                                        *)
THEOREM BlocksAreTrueHolds == ShellSpec => []BlocksAreTrue
<1> QED
  BY ShellInvariant, ShellInvGives, PTL

(* A command that Agent Mode types at an idle prompt, where nobody else    *)
(* types, comes back to it as the block it takes.                          *)
THEOREM AgentAloneHolds == ShellSpec => []AgentAlone
<1> QED
  BY ShellInvariant, ShellInvGives, PTL

(* The integrations of zsh, bash and fish keep their own marks in order:   *)
(* a restart of the daemon costs one mark, which is not yet too many, and  *)
(* the segmenter never takes such a session for corrupted.                 *)
THEOREM OwnMarksHold == ShellSpec => []OwnMarksInOrder
<1> QED
  BY ShellInvariant, ShellInvGives, PTL
=============================================================================
