----------------------------- MODULE AiRequests -----------------------------
(***************************************************************************)
(* Requests to model providers: vtermd/src/ai.rs (routes, breakers,        *)
(* budget, fallback chain, egress log), vt-ai/src/resilience.rs (retries)  *)
(* and the tool loop of vtermd/src/agent_mode.rs.  Every request has a     *)
(* thread; they share the breakers and the egress log.  All requests are   *)
(* made for one session.                                                   *)
(*   ask    ai.ask, streaming or not: one answer                           *)
(*   agent  ai.ask with agent = true: turns of answers and tool calls      *)
(* A call costs 1.                                                         *)
(***************************************************************************)
EXTENDS Integers, FiniteSets

CONSTANTS Requests, Kind,
          HasHistory,   (* requests that carry earlier turns               *)
          Profiles,     (* of providers.toml                               *)
          Route,        (* the profile a request's feature is routed to    *)
          Fallback,     (* a profile's fallback: a name, which the file    *)
                        (* need not know, or None                          *)
          None,
          MaxAttempts,  (* Policy.max_attempts                             *)
          MaxTurns,     (* MAX_TURNS                                       *)
          HardStop,     (* [ai.budget] hard_stop                           *)
          Budget,       (* [ai.budget], in calls                           *)
          MaxCalls      (* bound: tool calls in one answer                 *)

ASSUME RequestAssumption ==
    /\ Kind \in [Requests -> {"ask", "agent"}] /\ HasHistory \subseteq Requests
    /\ Route \in [Requests -> Profiles] /\ DOMAIN Fallback = Profiles /\ None \notin Profiles
    /\ MaxAttempts \in Nat \ {0} /\ MaxTurns \in Nat \ {0} /\ MaxCalls \in Nat
    /\ HardStop \in BOOLEAN /\ Budget \in Nat

VARIABLES
    pc,         (* where the request's thread is                           *)
    at,         (* the profile it has picked, or looks at                  *)
    seen,       (* pick: profiles of the chain looked at                   *)
    tried,      (* run_chain: profiles prepared                            *)
    attempt,    (* stream_with_retry: attempts that failed                 *)
    emitted,    (* stream_with_retry: a chunk has been handed on           *)
    failure,    (* the error run_stream returned, and its verdict          *)
    turn,       (* drive: turns taken                                      *)
    appended,   (* drive: answers appended to the messages                 *)
    calls,      (* drive: tool calls of this answer not yet dispatched     *)
    cooling,    (* profiles whose breaker is open                          *)
    recorded,   (* the egress log: calls recorded                          *)
    payload,    (* last_payload of the session                             *)
    spent,      (* history: calls the providers answered                   *)
    passes,     (* history: times a request went to a profile, up to two   *)
    shown,      (* history: attempts of one answer that were shown         *)
    limited,    (* history: profiles that answered 429 to a request and    *)
                (* are still cooling                                       *)
    limits,     (* history: profiles that ever answered 429                *)
    late,       (* history: requests made with the budget used up          *)
    unlogged,   (* history: calls sent and not recorded, up to two         *)
    toolCalls   (* history: tool calls asked for                           *)

chainVars == <<at, seen, tried>>
streamVars == <<attempt, emitted, failure>>
driveVars == <<turn, appended, calls>>
sharedVars == <<cooling, recorded, payload>>
historyVars == <<spent, passes, shown, limited, limits, late, unlogged, toolCalls>>
vars == <<pc, chainVars, streamVars, driveVars, sharedVars, historyVars>>

PC == {"idle", "picking", "picked", "ready", "streaming", "backoff", "failed", "answered",
       "dispatch", "inbox", "executing", "done", "error", "panicked"}
Over == {"done", "error"}

Init ==
    /\ pc = [r \in Requests |-> "idle"] /\ at = Route
    /\ seen = [r \in Requests |-> {}] /\ tried = [r \in Requests |-> {}]
    /\ attempt = [r \in Requests |-> 0] /\ emitted = [r \in Requests |-> FALSE]
    /\ failure = [r \in Requests |-> None]
    /\ turn = [r \in Requests |-> 0] /\ appended = [r \in Requests |-> 0]
    /\ calls = [r \in Requests |-> 0]
    /\ cooling = {} /\ recorded = 0 /\ payload = None
    /\ spent = 0 /\ passes = [r \in Requests |-> [p \in Profiles |-> 0]]
    /\ shown = [r \in Requests |-> 0] /\ limited = [r \in Requests |-> {}] /\ limits = {}
    /\ late = {} /\ unlogged = [r \in Requests |-> 0] /\ toolCalls = [r \in Requests |-> 0]

Go(r, from, to) == pc[r] = from /\ pc' = [pc EXCEPT ![r] = to]

UpToTwo(n) == IF n < 2 THEN n + 1 ELSE n

-----------------------------------------------------------------------------
(* prepare_from: nothing has left yet. *)

(* Starts at a profile; one the file does not know is an error. *)
PrepareFrom(r, from, name) ==
    IF name \in Profiles
      THEN /\ Go(r, from, "picking")
           /\ at' = [at EXCEPT ![r] = name] /\ seen' = [seen EXCEPT ![r] = {name}]
      ELSE Go(r, from, "error") /\ UNCHANGED <<at, seen>>

Start(r) ==
    /\ PrepareFrom(r, "idle", Route[r])
    /\ late' = IF HardStop /\ recorded >= Budget THEN late \cup {r} ELSE late
    /\ UNCHANGED <<tried, streamVars, driveVars, sharedVars, spent, passes, shown, limited, limits,
                   unlogged, toolCalls>>

(* pick: one profile of the chain after the other, until one does not cool *)
(* off. *)
Pick(r) ==
    LET next == Fallback[at[r]] IN
    /\ \/ at[r] \notin cooling /\ Go(r, "picking", "picked") /\ UNCHANGED <<at, seen>>
       \/ /\ at[r] \in cooling /\ next \in Profiles \ seen[r]
          /\ Go(r, "picking", "picking") /\ at' = [at EXCEPT ![r] = next]
          /\ seen' = [seen EXCEPT ![r] = @ \cup {next}]
       \/ /\ at[r] \in cooling /\ next \notin Profiles \ seen[r]
          /\ Go(r, "picking", "error") /\ UNCHANGED <<at, seen>>
    /\ UNCHANGED <<tried, streamVars, driveVars, sharedVars, historyVars>>

(* The request as it leaves, and as prepare_from shows it. *)
Body(r, n, tools) == [request |-> r, profile |-> at[r], appended |-> n, tools |-> tools]

(* The budget stops it, or the redaction fails, or it is prepared; or the  *)
(* cut of the context comes to stand inside a character (Outgoing says     *)
(* when), and the thread panics, with the store's mutex in its hands.      *)
Prepare(r) ==
    /\ \/ /\ ~(HardStop /\ recorded >= Budget) /\ Go(r, "picked", "ready")
          /\ payload' = Body(r, 0, FALSE) /\ tried' = [tried EXCEPT ![r] = @ \cup {at[r]}]
       \/ Go(r, "picked", "error") /\ UNCHANGED <<payload, tried>>
       \/ /\ ~(HardStop /\ recorded >= Budget) /\ Go(r, "picked", "panicked")
          /\ UNCHANGED <<payload, tried>>
    /\ UNCHANGED <<at, seen, streamVars, driveVars, cooling, recorded, historyVars>>

-----------------------------------------------------------------------------
(* stream_with_retry. *)

(* A turn of drive has begun: no more than MAX_TURNS. *)
TurnsLeft(r) == Kind[r] = "ask" \/ turn[r] < MaxTurns

Sending(r) ==
    /\ emitted' = [emitted EXCEPT ![r] = FALSE]
    /\ unlogged' = [unlogged EXCEPT ![r] = UpToTwo(@)]

Send(r) ==
    /\ TurnsLeft(r) /\ Go(r, "ready", "streaming") /\ Sending(r)
    /\ attempt' = [attempt EXCEPT ![r] = 0]
    /\ turn' = [turn EXCEPT ![r] = IF Kind[r] = "agent" THEN @ + 1 ELSE @]
    /\ passes' = [passes EXCEPT ![r][at[r]] = IF appended[r] = 0 THEN UpToTwo(@) ELSE @]
    /\ UNCHANGED <<chainVars, failure, appended, calls, sharedVars, spent, shown, limited, limits,
                   late, toolCalls>>

Resend(r) ==
    /\ Go(r, "backoff", "streaming") /\ Sending(r)
    /\ UNCHANGED <<chainVars, attempt, failure, driveVars, sharedVars, spent, passes, shown, limited,
                   limits, late, toolCalls>>

(* A missing key, an unknown model: nothing leaves. *)
Refuse(r) ==
    /\ TurnsLeft(r) /\ Go(r, "ready", "failed")
    /\ failure' = [failure EXCEPT ![r] = <<"wrong", "give_up">>]
    /\ turn' = [turn EXCEPT ![r] = IF Kind[r] = "agent" THEN @ + 1 ELSE @]
    /\ UNCHANGED <<chainVars, attempt, emitted, appended, calls, sharedVars, historyVars>>

StopAtCap(r) ==
    /\ ~TurnsLeft(r) /\ Go(r, "ready", "error")
    /\ UNCHANGED <<chainVars, streamVars, driveVars, sharedVars, historyVars>>

Chunk(r) ==
    /\ pc[r] = "streaming" /\ ~emitted[r] /\ emitted' = [emitted EXCEPT ![r] = TRUE]
    /\ shown' = [shown EXCEPT ![r] = UpToTwo(@)]
    /\ UNCHANGED <<pc, chainVars, attempt, failure, driveVars, sharedVars, spent, passes, limited,
                   limits, late, unlogged, toolCalls>>

StreamEnds(r, n) ==
    /\ Kind[r] = "ask" => n = 0
    /\ Go(r, "streaming", "answered") /\ calls' = [calls EXCEPT ![r] = n]
    /\ spent' = spent + 1 /\ toolCalls' = [toolCalls EXCEPT ![r] = @ + n]
    /\ UNCHANGED <<chainVars, streamVars, turn, appended, sharedVars, passes, shown, limited, limits,
                   late, unlogged>>

(* Policy::classify; limited is a 429, down a 5xx or the transport. *)
Classify(error, n) ==
    CASE error = "limited" -> "fallback"
      [] error = "down"    -> IF n + 1 < MaxAttempts THEN "retry" ELSE "fallback"
      [] error = "wrong"   -> "give_up"

(* Mutation: a failed attempt is not counted. *)
FailingUncounted(r, error, verdict) ==
    /\ IF verdict = "retry"
         THEN Go(r, "streaming", "backoff") /\ UNCHANGED <<attempt, failure>>
         ELSE /\ Go(r, "streaming", "failed") /\ UNCHANGED attempt
              /\ failure' = [failure EXCEPT ![r] = <<error, verdict>>]
    /\ UNCHANGED <<chainVars, emitted, driveVars, sharedVars, historyVars>>

Failing(r, error, verdict) ==
    /\ IF verdict = "retry"
         THEN /\ Go(r, "streaming", "backoff") /\ attempt' = [attempt EXCEPT ![r] = @ + 1]
              /\ UNCHANGED failure
         ELSE /\ Go(r, "streaming", "failed") /\ UNCHANGED attempt
              /\ failure' = [failure EXCEPT ![r] = <<error, verdict>>]
    /\ UNCHANGED <<chainVars, emitted, driveVars, sharedVars, historyVars>>

(* Mutation: a stream that broke off is tried again. *)
StreamFailsAnyhow(r, error) == Failing(r, error, Classify(error, attempt[r]))

(* Nothing is tried again once a chunk has been handed on. *)
StreamFails(r, error) ==
    Failing(r, error, IF emitted[r] THEN "give_up" ELSE Classify(error, attempt[r]))

-----------------------------------------------------------------------------
(* run_stream, run_chain and drive on a failure. *)
OpenBreaker(r) ==
    /\ pc[r] = "failed"
    /\ IF failure[r][1] = "limited"
         THEN /\ cooling' = cooling \cup {at[r]} /\ limits' = limits \cup {at[r]}
              /\ limited' = [limited EXCEPT ![r] = @ \cup {at[r]}]
         ELSE UNCHANGED <<cooling, limits, limited>>

NextProfile(r) == IF failure[r][2] = "fallback" THEN Fallback[at[r]] ELSE None

(* run_chain remembers the profiles it prepared. *)
AskGoesOn(r) == NextProfile(r) # None /\ NextProfile(r) \notin tried[r]

(* drive does not, and goes on while the messages are but one. *)
AgentGoesOn(r) == NextProfile(r) # None /\ appended[r] = 0 /\ r \notin HasHistory

(* A profile that answered 429 has its breaker opened; then the next one,  *)
(* or the error. *)
Fail(r) ==
    /\ OpenBreaker(r)
    /\ IF (Kind[r] = "ask" /\ AskGoesOn(r)) \/ (Kind[r] = "agent" /\ AgentGoesOn(r))
         THEN PrepareFrom(r, "failed", NextProfile(r))
         ELSE Go(r, "failed", "error") /\ UNCHANGED <<at, seen>>
    /\ UNCHANGED <<tried, streamVars, driveVars, recorded, payload, spent, passes, shown, late,
                   unlogged, toolCalls>>

(* The cooldown of a breaker passes: 60 seconds, while pick takes none and *)
(* looks at each profile once. *)
Expire(p) ==
    /\ \A r \in Requests : pc[r] # "picking"
    /\ p \in cooling /\ cooling' = cooling \ {p}
    /\ limited' = [r \in Requests |-> limited[r] \ {p}]
    /\ UNCHANGED <<pc, chainVars, streamVars, driveVars, recorded, payload, spent, passes, shown,
                   limits, late, unlogged, toolCalls>>

-----------------------------------------------------------------------------
(* "if let Ok(store) = store.lock()": not so once a thread has died with   *)
(* it.                                                                     *)
Poisoned == \E r \in Requests : pc[r] = "panicked"

(* finish: the call that gave the last answer is recorded, and that alone. *)
Finish(r) ==
    /\ calls[r] = 0 /\ Go(r, "answered", "done")
    /\ \/ Poisoned /\ UNCHANGED <<recorded, unlogged>>
       \/ ~Poisoned /\ recorded' = recorded + 1 /\ unlogged' = [unlogged EXCEPT ![r] = @ - 1]
    /\ UNCHANGED <<chainVars, streamVars, driveVars, cooling, payload, spent, passes, shown, limited,
                   limits, late, toolCalls>>

(* drive: the answer joins the messages, and its tool calls are run. *)
TakeCalls(r) ==
    /\ calls[r] > 0 /\ Go(r, "answered", "dispatch")
    /\ appended' = [appended EXCEPT ![r] = @ + 1]
    /\ UNCHANGED <<chainVars, streamVars, turn, calls, sharedVars, historyVars>>

(* run_command and decide.  An unknown tool, a call without a command, a   *)
(* session that is gone, or a rule that denies: the call has its result.   *)
CallOver(r, from) ==
    /\ calls[r] > 0 /\ Go(r, from, "dispatch") /\ calls' = [calls EXCEPT ![r] = @ - 1]
    /\ UNCHANGED <<chainVars, streamVars, turn, appended, sharedVars, historyVars>>

CallTo(r, from, to) ==
    /\ calls[r] > 0 /\ Go(r, from, to)
    /\ UNCHANGED <<chainVars, streamVars, driveVars, sharedVars, historyVars>>

TurnDown(r)   == CallOver(r, "dispatch")
RuleAllows(r)  == CallTo(r, "dispatch", "executing")
AskInbox(r)    == CallTo(r, "dispatch", "inbox")
HumanAllows(r) == CallTo(r, "inbox", "executing")
HumanDenies(r) == CallOver(r, "inbox")
Executed(r)    == CallOver(r, "executing")

NextTurn(r) ==
    /\ calls[r] = 0 /\ Go(r, "dispatch", "ready") /\ shown' = [shown EXCEPT ![r] = 0]
    /\ UNCHANGED <<chainVars, streamVars, driveVars, sharedVars, spent, passes, limited, limits, late,
                   unlogged, toolCalls>>

-----------------------------------------------------------------------------
Errors == {"limited", "down", "wrong"}

Own(r) ==
    \/ Pick(r) \/ Prepare(r) \/ Send(r) \/ Resend(r) \/ Refuse(r) \/ StopAtCap(r) \/ Fail(r)
    \/ Finish(r) \/ TakeCalls(r) \/ TurnDown(r) \/ RuleAllows(r) \/ AskInbox(r) \/ NextTurn(r)
    \/ Executed(r)

Provider(r) == Chunk(r) \/ (\E n \in 0..MaxCalls : StreamEnds(r, n))
               \/ (\E error \in Errors : StreamFails(r, error))

Next == \/ \E r \in Requests : Start(r) \/ Own(r) \/ Provider(r) \/ HumanAllows(r) \/ HumanDenies(r)
        \/ \E p \in Profiles : Expire(p)

Spec == Init /\ [][Next]_vars

(* Threads run, a command ends or times out, an HTTP call ends, time       *)
(* passes, also in the middle of a pick.  Nobody has to ask, or to decide. *)
FairSpec == /\ Spec /\ \A r \in Requests : WF_vars(Own(r)) /\ WF_vars(Provider(r))
            /\ \A p \in Profiles : SF_vars(Expire(p))

-----------------------------------------------------------------------------
(* Types; an attempt counts from 0 and stays below the limit. *)
TypeOK ==
    /\ pc \in [Requests -> PC] /\ at \in [Requests -> Profiles]
    /\ tried \in [Requests -> SUBSET Profiles] /\ seen \in [Requests -> SUBSET Profiles]
    /\ attempt \in [Requests -> 0..MaxAttempts - 1] /\ emitted \in [Requests -> BOOLEAN]
    /\ \A r \in Requests : pc[r] = "failed" => failure[r] \in Errors \X {"fallback", "give_up"}
    /\ turn \in [Requests -> 0..MaxTurns] /\ appended \in [Requests -> 0..MaxTurns]
    /\ calls \in [Requests -> 0..MaxCalls] /\ cooling \subseteq Profiles /\ recorded \in Nat

(* Parts of two attempts are never shown as one answer: a stream that broke *)
(* off is not tried again, neither on its profile nor on the next. *)
ShownOnce == \A r \in Requests : shown[r] <= 1

(* A profile that answered 429 to a request gets nothing more from it until *)
(* its breaker closes, however the chain leads back to it. *)
CoolingLeftAlone == \A r \in Requests : pc[r] = "streaming" => at[r] \notin limited[r]

(* While no profile limits anybody, an ask goes through each profile of    *)
(* its chain once, and a circle of fallbacks ends. *)
OncePerProfile ==
    limits = {} => \A r \in Requests, p \in Profiles : Kind[r] = "ask" => passes[r][p] <= 1

(* A request made when the log says the budget is used up never leaves, on *)
(* no profile of its chain. *)
BudgetStops == \A r \in late, p \in Profiles : passes[r][p] = 0

(* No answer is shown twice, no profile that cools down is called, no      *)
(* request leaves beyond the budget in the log, and an ask is sent to each *)
(* profile once. *)
WithinBounds == TypeOK /\ ShownOnce /\ CoolingLeftAlone /\ BudgetStops /\ OncePerProfile

(* Every request ends in an answer or an error, unless it waits for a      *)
(* human, or its thread panicked over the context (EveryRequestEnds).      *)
Answered == \A r \in Requests : pc[r] # "idle" ~> pc[r] \in Over \cup {"inbox", "panicked"}

-----------------------------------------------------------------------------
(* What the documentation says and the code does not do. *)

(* Chains are followed never twice through the same profile. *)
NeverTwice == \A r \in Requests, p \in Profiles : passes[r][p] <= 1

(* hard_stop refuses further calls. *)
NothingBeyondBudget == HardStop => spent <= Budget

(* ai.rs, "then ai.done [...] or ai.error": a thread that panics sends     *)
(* neither.                                                                *)
EveryRequestEnds == \A r \in Requests : pc[r] # "idle" ~> pc[r] \in Over \cup {"inbox"}

(* Every request is recorded. *)
EveryRequestRecorded == \A r \in Requests : pc[r] = "done" => unlogged[r] = 0

(* The last payload is the last request sent, exactly as it left. *)
PayloadIsWhatLeft ==
    [][\A r \in Requests : Send(r) => payload = Body(r, appended[r], Kind[r] = "agent")]_vars

(* MAX_TURNS bounds the tool calls of a request. *)
ToolCallsCapped == \A r \in Requests : toolCalls[r] <= MaxTurns
=============================================================================
