------------------------------ MODULE Approvals ------------------------------
(***************************************************************************)
(* The approval inbox of vtermd (crates/vtermd/src/agents.rs): the thread  *)
(* that raises a request and then blocks on it, the RPC threads that       *)
(* answer it, the codex observer that withdraws it, and the registry that  *)
(* forgets the session under all of them.  The grain is one critical       *)
(* section, or one condition variable operation, per action.               *)
(*                                                                         *)
(* A request is one PendingApproval object.  Kind says who is blocked:     *)
(*   hook   the HTTP thread of a vendor hook, in hold(): gives up after    *)
(*          HOLD_TIMEOUT and lets the agent ask in its own terminal        *)
(*   codex  the codex-answer thread, in wait_decision(): no timeout        *)
(*   mode   an Agent Mode turn, in wait_decision(): no timeout             *)
(***************************************************************************)
EXTENDS Naturals, FiniteSets

CONSTANTS Requests, Sessions, Ids,
          SessionOf,   (* the session a request belongs to                 *)
          IdOf,        (* its approval id; two requests may share one      *)
          Kind,        (* hook, codex or mode                              *)
          None         (* no request, no decision, no reply                *)

Decisions == {"allow", "deny"}

ASSUME RequestAssumption ==
    /\ SessionOf \in [Requests -> Sessions]
    /\ IdOf \in [Requests -> Ids]
    /\ Kind \in [Requests -> {"hook", "codex", "mode"}]

ASSUME NoneAssumption ==
    /\ None \notin Requests
    /\ None \notin Decisions \cup {"pass", "nothing"}

VARIABLES
    pending,     (* Agents.pending: the inbox, a request or None per id    *)
    armed,       (* ids the Watchdog tracks                                *)
    asker,       (* where the thread blocked on each request is            *)
    remover,     (* where the thread that took it out of the inbox is      *)
    decision,    (* PendingApproval.decision                               *)
    hookOpen,    (* PendingApproval.hook_open                              *)
    withdrawn,   (* PendingApproval.withdrawn                              *)
    expired,     (* HOLD_TIMEOUT has passed for the hook that holds it     *)
    reply,       (* what the blocked thread returned                       *)
    keys,        (* the y or n typed into the session for it               *)
    log,         (* agent events recorded for it                           *)
    phase,       (* per session: how far Registry::remove has come         *)
    awaiting     (* per session: info.state is AwaitingInput               *)

reqVars == <<decision, hookOpen, withdrawn, expired, reply, keys, log>>
sesVars == <<phase, awaiting>>
vars == <<pending, armed, asker, remover, reqVars, sesVars>>

-----------------------------------------------------------------------------
(***************************************************************************)
(* Program counters.                                                       *)
(***************************************************************************)
AskerAt == {"idle", "raised", "armed", "listed", "shown", "asked",
            "tested", "asleep", "awake", "closing", "closed", "done"}

RemoverAt == {"none", "d.disarm", "d.set", "d.notify", "d.hook", "d.keys",
              "d.state", "d.done", "w.disarm", "w.flag", "w.notify",
              "w.record", "w.done", "dropped", "replaced"}

Deciding == {"d.disarm", "d.set", "d.notify", "d.hook", "d.keys", "d.state", "d.done"}

Withdrawing == {"w.disarm", "w.flag", "w.notify", "w.record", "w.done"}

\* Mutant: the mutex is given back before the hook is closed.
HoldsDecisionUntilTimeout(r) == asker[r] = "tested"

\* The blocked thread owns the decision mutex from the test of its predicate
\* until the condition variable releases it, and while it closes the hook.
HoldsDecision(r) == asker[r] \in {"tested", "closing", "closed"}

Asking(r, from, to) == /\ asker[r] = from
                       /\ asker' = [asker EXCEPT ![r] = to]

Removing(r, from, to) == /\ remover[r] = from
                         /\ remover' = [remover EXCEPT ![r] = to]

InInbox(r) == pending[IdOf[r]] = r

\* One observer thread per codex session reads the app-server: it raises
\* requests and withdraws them one message after the other.
ObserverFree(s) ==
    \A r \in Requests : (Kind[r] = "codex" /\ SessionOf[r] = s) =>
        /\ asker[r] \notin {"raised", "armed", "listed", "shown"}
        /\ remover[r] \notin {"w.disarm", "w.flag", "w.notify", "w.record"}

\* Registry::find succeeds until the session leaves the map.
Found(s) == phase[s] # "gone"

\* Mutant: nobody is notified.
NotifyNobody(r) == UNCHANGED asker

\* notify_all: only a thread already in the wait set hears it.
NotifyAll(r) == asker' = [asker EXCEPT ![r] = IF @ = "asleep" THEN "awake" ELSE @]

Init ==
    /\ pending = [i \in Ids |-> None]
    /\ armed = {}
    /\ asker = [r \in Requests |-> "idle"]
    /\ remover = [r \in Requests |-> "none"]
    /\ decision = [r \in Requests |-> None]
    /\ hookOpen = [r \in Requests |-> TRUE]
    /\ withdrawn = [r \in Requests |-> FALSE]
    /\ expired = [r \in Requests |-> FALSE]
    /\ reply = [r \in Requests |-> None]
    /\ keys = [r \in Requests |-> None]
    /\ log = [r \in Requests |-> {}]
    /\ phase = [s \in Sessions |-> "live"]
    /\ awaiting = [s \in Sessions |-> FALSE]

-----------------------------------------------------------------------------
(***************************************************************************)
(* Raising a request: Agents::ask, reached from apply_events for a vendor  *)
(* agent and straight from Agent Mode.                                     *)
(***************************************************************************)
\* A vendor request needs the session's token; Agent Mode only its handle.
Raise(r) ==
    /\ IF Kind[r] = "mode" THEN Found(SessionOf[r]) ELSE phase[SessionOf[r]] = "live"
    /\ Kind[r] = "codex" => ObserverFree(SessionOf[r])
    /\ Asking(r, "idle", "raised")
    /\ UNCHANGED <<pending, armed, remover, reqVars, sesVars>>

Arm(r) ==
    /\ Asking(r, "raised", "armed")
    /\ armed' = armed \cup {IdOf[r]}
    /\ UNCHANGED <<pending, remover, reqVars, sesVars>>

\* HashMap::insert: a request already listed under the id is replaced.
Insert(r) ==
    /\ Asking(r, "armed", "listed")
    /\ pending' = [pending EXCEPT ![IdOf[r]] = r]
    /\ remover' = [x \in Requests |->
                     IF pending[IdOf[r]] = x THEN "replaced" ELSE remover[x]]
    /\ UNCHANGED <<armed, reqVars, sesVars>>

\* set_state(AwaitingInput): nothing to set once the session is forgotten.
ShowAwaiting(r) ==
    /\ Asking(r, "listed", IF Kind[r] = "mode" THEN "asked" ELSE "shown")
    /\ awaiting' = [awaiting EXCEPT ![SessionOf[r]] = @ \/ Found(SessionOf[r])]
    /\ UNCHANGED <<pending, armed, remover, reqVars, phase>>

\* apply_events records the ApprovalNeeded event after ask() returned.
RecordNeeded(r) ==
    /\ Asking(r, "shown", "asked")
    /\ log' = [log EXCEPT ![r] = @ \cup {"needed"}]
    /\ UNCHANGED <<pending, armed, remover, decision, hookOpen, withdrawn,
                   expired, reply, keys, sesVars>>

-----------------------------------------------------------------------------
(***************************************************************************)
(* Blocking on a request: hold() and wait_decision().  Both take the       *)
(* decision mutex, test a predicate, and wait on the condition variable    *)
(* while the predicate says so.  hold() does not look at withdrawn.        *)
(***************************************************************************)
Testing(r) == asker[r] \in {"asked", "awake"}

TakeDecision(r) ==
    /\ Testing(r)
    /\ decision[r] # None
    /\ reply' = [reply EXCEPT ![r] = decision[r]]
    /\ asker' = [asker EXCEPT ![r] = "done"]
    /\ UNCHANGED <<pending, armed, remover, decision, hookOpen, withdrawn,
                   expired, keys, log, sesVars>>

TakeWithdrawal(r) ==
    /\ Kind[r] # "hook"
    /\ Testing(r)
    /\ decision[r] = None /\ withdrawn[r]
    /\ reply' = [reply EXCEPT ![r] = "nothing"]
    /\ asker' = [asker EXCEPT ![r] = "done"]
    /\ UNCHANGED <<pending, armed, remover, decision, hookOpen, withdrawn,
                   expired, keys, log, sesVars>>

\* The predicate says wait: the thread is about to sleep, mutex in hand.
KeepWaiting(r) ==
    /\ Testing(r)
    /\ decision[r] = None
    /\ IF Kind[r] = "hook" THEN ~expired[r] ELSE ~withdrawn[r]
    /\ asker' = [asker EXCEPT ![r] = "tested"]
    /\ UNCHANGED <<pending, armed, remover, reqVars, sesVars>>

\* Condvar::wait releases the mutex and joins the wait set in one step.
Sleep(r) ==
    /\ Asking(r, "tested", IF expired[r] THEN "awake" ELSE "asleep")
    /\ UNCHANGED <<pending, armed, remover, reqVars, sesVars>>

\* A condition variable may wake its waiters for no reason.
SpuriousWake(r) ==
    /\ Asking(r, "asleep", "awake")
    /\ UNCHANGED <<pending, armed, remover, reqVars, sesVars>>

\* HOLD_TIMEOUT passes; only hold() has one.
Expire(r) ==
    /\ Kind[r] = "hook" /\ ~expired[r]
    /\ asker[r] \in {"asked", "tested", "asleep", "awake"}
    /\ expired' = [expired EXCEPT ![r] = TRUE]
    /\ NotifyAll(r)
    /\ UNCHANGED <<pending, armed, remover, decision, hookOpen, withdrawn,
                   reply, keys, log, sesVars>>

\* Mutant: a timeout is taken for one more spurious wakeup.
GiveUpNever(r) ==
    /\ Kind[r] = "hook" /\ Testing(r)
    /\ decision[r] = None /\ expired[r]
    /\ asker' = [asker EXCEPT ![r] = "tested"]
    /\ UNCHANGED <<pending, armed, remover, reqVars, sesVars>>

\* wait_timeout_while tests once more before it reports the timeout.
GiveUp(r) ==
    /\ Kind[r] = "hook" /\ Testing(r)
    /\ decision[r] = None /\ expired[r]
    /\ asker' = [asker EXCEPT ![r] = "closing"]
    /\ UNCHANGED <<pending, armed, remover, reqVars, sesVars>>

\* From here on an answer can only be typed at the agent's own prompt.
CloseHook(r) ==
    /\ Asking(r, "closing", "closed")
    /\ hookOpen' = [hookOpen EXCEPT ![r] = FALSE]
    /\ UNCHANGED <<pending, armed, remover, decision, withdrawn, expired,
                   reply, keys, log, sesVars>>

\* The empty reply {}: the agent goes on to its own prompt.
Pass(r) ==
    /\ Asking(r, "closed", "done")
    /\ reply' = [reply EXCEPT ![r] = "pass"]
    /\ UNCHANGED <<pending, armed, remover, decision, hookOpen, withdrawn,
                   expired, keys, log, sesVars>>

-----------------------------------------------------------------------------
(***************************************************************************)
(* Answering: Agents::decide, on the thread of an RPC connection.  Taking  *)
(* the request out of the map is what makes this thread its only decider.  *)
(***************************************************************************)

\* Mutant: the request is looked up, and stays in the inbox.
DecideWithoutRemoving(r) ==
    /\ InInbox(r)
    /\ remover' = [remover EXCEPT ![r] = "d.disarm"]
    /\ UNCHANGED <<pending, armed, asker, reqVars, sesVars>>

Decide(r) ==
    /\ InInbox(r)
    /\ pending' = [pending EXCEPT ![IdOf[r]] = None]
    /\ remover' = [remover EXCEPT ![r] = "d.disarm"]
    /\ UNCHANGED <<armed, asker, reqVars, sesVars>>

DecideDisarm(r) ==
    /\ Removing(r, "d.disarm", "d.set")
    /\ armed' = armed \ {IdOf[r]}
    /\ UNCHANGED <<pending, asker, reqVars, sesVars>>

DecideSet(r, d) ==
    /\ ~HoldsDecision(r)
    /\ Removing(r, "d.set", "d.notify")
    /\ decision' = [decision EXCEPT ![r] = d]
    /\ UNCHANGED <<pending, armed, asker, hookOpen, withdrawn, expired, reply,
                   keys, log, sesVars>>

DecideNotify(r) ==
    /\ Removing(r, "d.notify", "d.hook")
    /\ NotifyAll(r)
    /\ UNCHANGED <<pending, armed, reqVars, sesVars>>

\* Reads hook_open once, then records the resolution.
DecideHook(r) ==
    /\ Removing(r, "d.hook", IF hookOpen[r] THEN "d.state" ELSE "d.keys")
    /\ log' = [log EXCEPT ![r] = @ \cup {"resolved by inbox"}]
    /\ UNCHANGED <<pending, armed, asker, decision, hookOpen, withdrawn,
                   expired, reply, keys, sesVars>>

\* The prompt is on the agent's screen: type the answer, if the session is
\* still in the registry.
DecideKeys(r) ==
    /\ Removing(r, "d.keys", "d.state")
    /\ keys' = [keys EXCEPT ![r] = IF Found(SessionOf[r]) THEN decision[r] ELSE @]
    /\ UNCHANGED <<pending, armed, asker, decision, hookOpen, withdrawn,
                   expired, reply, log, sesVars>>

\* set_state(ToolRunning), whatever else of the session is still pending.
DecideState(r) ==
    /\ Removing(r, "d.state", "d.done")
    /\ awaiting' = [awaiting EXCEPT ![SessionOf[r]] = @ /\ ~Found(SessionOf[r])]
    /\ UNCHANGED <<pending, armed, asker, reqVars, phase>>

-----------------------------------------------------------------------------
(***************************************************************************)
(* Withdrawing: the codex app-server says the user answered in the TUI.    *)
(* Agents::withdraw sets the flag without the decision mutex.              *)
(***************************************************************************)
Withdraw(r) ==
    /\ Kind[r] = "codex" /\ phase[SessionOf[r]] = "live"
    /\ ObserverFree(SessionOf[r])
    /\ InInbox(r)
    /\ pending' = [pending EXCEPT ![IdOf[r]] = None]
    /\ remover' = [remover EXCEPT ![r] = "w.disarm"]
    /\ UNCHANGED <<armed, asker, reqVars, sesVars>>

WithdrawDisarm(r) ==
    /\ Removing(r, "w.disarm", "w.flag")
    /\ armed' = armed \ {IdOf[r]}
    /\ UNCHANGED <<pending, asker, reqVars, sesVars>>

WithdrawFlag(r) ==
    /\ Removing(r, "w.flag", "w.notify")
    /\ withdrawn' = [withdrawn EXCEPT ![r] = TRUE]
    /\ UNCHANGED <<pending, armed, asker, decision, hookOpen, expired, reply,
                   keys, log, sesVars>>

WithdrawNotify(r) ==
    /\ Removing(r, "w.notify", "w.record")
    /\ NotifyAll(r)
    /\ UNCHANGED <<pending, armed, reqVars, sesVars>>

WithdrawRecord(r) ==
    /\ Removing(r, "w.record", "w.done")
    /\ log' = [log EXCEPT ![r] = @ \cup {"resolved by agent"}]
    /\ UNCHANGED <<pending, armed, asker, decision, hookOpen, withdrawn,
                   expired, reply, keys, sesVars>>

-----------------------------------------------------------------------------
(***************************************************************************)
(* The session ends: Registry::remove calls Agents::unregister, which      *)
(* takes the token and then the requests, and drops the handle last.       *)
(* Nobody blocked on a dropped request is woken, and the watchdog keeps    *)
(* its id.                                                                 *)
(***************************************************************************)
DropToken(s) ==
    /\ phase[s] = "live"
    /\ phase' = [phase EXCEPT ![s] = "untokened"]
    /\ UNCHANGED <<pending, armed, asker, remover, reqVars, awaiting>>

DropPending(s) ==
    LET Dropped == {r \in Requests : SessionOf[r] = s /\ InInbox(r)}
    IN  /\ phase[s] = "untokened"
        /\ phase' = [phase EXCEPT ![s] = "forgotten"]
        /\ pending' = [i \in Ids |-> IF pending[i] \in Dropped THEN None ELSE pending[i]]
        /\ remover' = [r \in Requests |-> IF r \in Dropped THEN "dropped" ELSE remover[r]]
        /\ UNCHANGED <<armed, asker, reqVars, awaiting>>

DropHandle(s) ==
    /\ phase[s] = "forgotten"
    /\ phase' = [phase EXCEPT ![s] = "gone"]
    /\ UNCHANGED <<pending, armed, asker, remover, reqVars, awaiting>>

-----------------------------------------------------------------------------
Asks(r) == Arm(r) \/ Insert(r) \/ ShowAwaiting(r) \/ RecordNeeded(r)

Blocks(r) == \/ TakeDecision(r) \/ TakeWithdrawal(r) \/ KeepWaiting(r) \/ Sleep(r)
             \/ GiveUp(r) \/ CloseHook(r) \/ Pass(r)

SetsDecision(r) == \E d \in Decisions : DecideSet(r, d)

Decides(r) == \/ DecideDisarm(r) \/ DecideNotify(r)
              \/ DecideHook(r) \/ DecideKeys(r) \/ DecideState(r)

Withdraws(r) == \/ WithdrawDisarm(r) \/ WithdrawFlag(r)
                \/ WithdrawNotify(r) \/ WithdrawRecord(r)

Ends(s) == DropPending(s) \/ DropHandle(s)

Next == \/ \E r \in Requests : \/ Raise(r) \/ Asks(r) \/ Blocks(r)
                               \/ SpuriousWake(r) \/ Expire(r)
                               \/ Decide(r) \/ SetsDecision(r) \/ Decides(r)
                               \/ Withdraw(r) \/ Withdraws(r)
        \/ \E s \in Sessions : DropToken(s) \/ Ends(s)

Spec == Init /\ [][Next]_vars

(***************************************************************************)
(* A thread that can run does run, time passes, and a thread that waits    *)
(* for a mutex others keep releasing gets it.  Nobody has to answer, the   *)
(* agent has to resolve nothing, and no session has to end.                *)
(***************************************************************************)
Fairness ==
    /\ \A r \in Requests : /\ WF_vars(Asks(r)) /\ WF_vars(Blocks(r))
                           /\ WF_vars(Expire(r)) /\ SF_vars(SetsDecision(r))
                           /\ WF_vars(Decides(r)) /\ WF_vars(Withdraws(r))
    /\ \A s \in Sessions : WF_vars(Ends(s))

FairSpec == Spec /\ Fairness

-----------------------------------------------------------------------------
(***************************************************************************)
(* Properties.                                                             *)
(***************************************************************************)

\* Types of every variable.
TypeOK ==
    /\ pending \in [Ids -> Requests \cup {None}]
    /\ armed \subseteq Ids
    /\ asker \in [Requests -> AskerAt]
    /\ remover \in [Requests -> RemoverAt]
    /\ decision \in [Requests -> Decisions \cup {None}]
    /\ hookOpen \in [Requests -> BOOLEAN]
    /\ withdrawn \in [Requests -> BOOLEAN]
    /\ expired \in [Requests -> BOOLEAN]
    /\ reply \in [Requests -> Decisions \cup {"pass", "nothing", None}]
    /\ keys \in [Requests -> Decisions \cup {None}]
    /\ log \in [Requests -> SUBSET {"needed", "resolved by inbox", "resolved by agent"}]
    /\ phase \in [Sessions -> {"live", "untokened", "forgotten", "gone"}]
    /\ awaiting \in [Sessions -> BOOLEAN]

\* An answer never travels twice: a request whose hook was answered with
\* allow or deny gets no keystroke, and one that got a keystroke was not
\* answered through its hook (agents.rs, hold against decide).
OneChannel == \A r \in Requests : ~(reply[r] \in Decisions /\ keys[r] \in Decisions)

\* An answer is never typed at an agent that still has its hook open: the
\* keystrokes would land in its composer, not in a prompt.
KeysOnlyAtPrompt == \A r \in Requests : keys[r] # None => ~hookOpen[r]

\* Whatever reaches the agent is what the human said.
AnswerUnaltered == \A r \in Requests : /\ reply[r] \in Decisions => reply[r] = decision[r]
                                       /\ keys[r] # None => keys[r] = decision[r]

\* When the decider and the blocked thread are both through, the decision
\* was delivered, unless the session went away first: it cannot fall
\* between a hook that just gave up and a prompt that was just shown.
DecisionNotLost ==
    \A r \in Requests :
        /\ remover[r] = "d.done"
        /\ asker[r] = "done"
        /\ Found(SessionOf[r])
        => reply[r] \in Decisions \/ keys[r] \in Decisions

\* The inbox lists only what still can be answered: nothing decided, nothing
\* withdrawn, nothing whose blocked thread already came back with an answer.
InboxIsOpen == \A r \in Requests : InInbox(r) => /\ decision[r] = None
                                               /\ ~withdrawn[r]
                                               /\ reply[r] \in {None, "pass"}

\* Every listed request is watched, so a reminder will be raised for it.
InboxIsWatched == \A i \in Ids : pending[i] # None => i \in armed

\* The record of who resolved a request is unambiguous and never precedes
\* the resolution itself.
ResolvedOnce ==
    \A r \in Requests :
        /\ ~({"resolved by inbox", "resolved by agent"} \subseteq log[r])
        /\ "resolved by inbox" \in log[r] => decision[r] # None
        /\ "resolved by agent" \in log[r] => decision[r] = None

\* What a human decided reaches the agent over one channel, once, whatever
\* the threads that hold, wait, decide and withdraw do in between, and the
\* record says so.
DeliveredOnce == OneChannel /\ DecisionNotLost /\ ResolvedOnce

\* A session with a request a human can still answer, and no answer on its
\* way, shows that it awaits input.
AwaitingShown ==
    \A s \in Sessions :
        (/\ phase[s] = "live"
         /\ \E r \in Requests : SessionOf[r] = s /\ InInbox(r) /\ asker[r] = "asleep"
         /\ \A r \in Requests : SessionOf[r] = s => remover[r] \in {"none", "d.done", "w.done"}
         /\ \A r \in Requests : SessionOf[r] = s => asker[r] \notin {"raised", "armed", "listed"})
        => awaiting[s]

\* Every hook that is held is answered in the end, by a decision or by the
\* empty reply, also when its session ends meanwhile: the agent never hangs.
HookReplied == \A r \in Requests :
    (Kind[r] = "hook" /\ asker[r] = "asked") ~> asker[r] = "done"

\* A decision wakes whoever is blocked on the request.
DecisionWakes == \A r \in Requests : decision[r] # None ~> asker[r] = "done"

\* "Anyone waiting on it wakes up with no decision": a withdrawal wakes
\* whoever is blocked on the request.
WithdrawalWakes == \A r \in Requests : withdrawn[r] ~> asker[r] = "done"

-----------------------------------------------------------------------------
(***************************************************************************)
(* The refinement: a request has left the inbox when its remover says so,  *)
(* and what reached the agent is what its thread returned or was typed.    *)
(***************************************************************************)
StatusOf(r) ==
    CASE remover[r] \in Deciding -> "decided"
      [] remover[r] \in Withdrawing -> "withdrawn"
      [] remover[r] \in {"dropped", "replaced"} -> "dropped"
      [] OTHER -> IF asker[r] \in {"idle", "raised", "armed"} THEN "unasked" ELSE "open"

VerdictOf(r) == {decision[r]} \ {None}

DeliveredOf(r) == {<<"waiter", d>> : d \in {reply[r]} \cap Decisions}
                  \cup {<<"keys", d>> : d \in {keys[r]} \cap Decisions}

statusMap    == [r \in Requests |-> StatusOf(r)]
verdictMap   == [r \in Requests |-> VerdictOf(r)]
deliveredMap == [r \in Requests |-> DeliveredOf(r)]

Answer == INSTANCE ApprovalAnswer
            WITH Verdicts <- Decisions,
                 Channels <- {"waiter", "keys"},
                 status <- statusMap,
                 verdict <- verdictMap,
                 delivered <- deliveredMap

\* The inbox keeps the promise of ApprovalAnswer.
AnswerSpec == Answer!Spec
=============================================================================
