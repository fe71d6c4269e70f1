------------------------------ MODULE InboxFeed ------------------------------
(***************************************************************************)
(* What a viewer sees of the approval inbox and of a mute agent: the       *)
(* inbox.changed broadcasts of vtermd/src/agents.rs, the reminders of its  *)
(* watchdog thread (vt-agent/src/watchdog.rs), and the list of the app     *)
(* (App.swift, InboxModel.swift), which every broadcast replaces.          *)
(*                                                                         *)
(* broadcast_inbox copies the inbox under its lock and posts the copy      *)
(* after letting go of it, so the copies of two threads can be posted in   *)
(* the other order; only a later broadcast mends the list.  The answers    *)
(* themselves, and the session's state, are in Approvals.                  *)
(***************************************************************************)
EXTENDS Naturals, Sequences, FiniteSets

CONSTANTS Asks,      (* approval requests, each raised by a hook of its own *)
          FromApp,   (* those a human answers in the app                    *)
          FromCli,   (* those a human answers with vterm                    *)
          Withdrawn, (* those the agent may resolve on its own surface      *)
          MayEnd,    (* whether the session can end                         *)
          MaxQueue   (* bound: broadcasts on their way to the app           *)

ASSUME InboxFeedAssumption ==
    /\ FromApp \cup FromCli \cup Withdrawn \subseteq Asks /\ FromApp \cap FromCli = {}
    /\ MayEnd \in BOOLEAN /\ MaxQueue \in Nat \ {0}

Hook(a)  == <<"hook", a>>
Human(a) == <<"human", a>>
Agent(a) == <<"agent", a>>
Dog      == <<"watchdog">>
Removers == {Human(a) : a \in FromApp \cup FromCli} \cup {Agent(a) : a \in Withdrawn}
Threads  == {Hook(a) : a \in Asks} \cup Removers \cup {Dog}

VARIABLES
    at,       (* where each thread is                                       *)
    copy,     (* broadcast_inbox: the inbox as the thread copied it         *)
    pending,  (* Agents.pending                                             *)
    closed,   (* requests whose hook_open is false                          *)
    armed,    (* Watchdog.pending                                           *)
    due,      (* what Watchdog::due returned, still to be reminded of       *)
    life,     (* the session: listed, forgotten, dropped, gone              *)
    heard,    (* AgentSession.heard_from                                    *)
    label,    (* SessionInfo.degraded is set                                *)
    queue,    (* inbox.changed on its way to the app                        *)
    shown     (* InboxList.items                                            *)

inboxVars   == <<pending, closed, armed>>
sessionVars == <<life, heard, label>>
appVars     == <<queue, shown>>
vars == <<at, copy, inboxVars, due, sessionVars, appVars>>

-----------------------------------------------------------------------------
\* Agents::inbox: what is pending, each item with prompt_shown.
Inbox == {<<a, a \in closed>> : a \in pending}

Init ==
    /\ at = [t \in Threads |-> IF t = Dog THEN "asleep" ELSE "idle"]
    /\ copy = [t \in Threads |-> {}]
    /\ pending = {} /\ closed = {} /\ armed = {}
    /\ due = {}
    /\ life = "listed" /\ heard = FALSE /\ label = FALSE
    /\ queue = <<>> /\ shown = {}

Goes(t, from, to) == at[t] = from /\ at' = [at EXCEPT ![t] = to]

-----------------------------------------------------------------------------
(***************************************************************************)
(* broadcast_inbox, by whichever thread.                                   *)
(***************************************************************************)
Copy(t) ==
    /\ \/ Goes(t, "asked", "posting first") \/ Goes(t, "noted", "posting second")
       \/ Goes(t, "expired", "posting third") \/ Goes(t, "removed", "posting")
       \/ Goes(t, "reminding", "posting reminder")
    /\ copy' = [copy EXCEPT ![t] = Inbox]
    /\ UNCHANGED <<inboxVars, due, sessionVars, appVars>>

\* The bound: others post no faster than the app takes in, which it does not
\* while it waits for an answer.
Post(t) ==
    /\ \/ Goes(t, "posting first", "noted") \/ Goes(t, "posting second", "held")
       \/ Goes(t, "posting third", "done") \/ Goes(t, "posting", "answered")
       \/ Goes(t, "posting reminder", "awake")
    /\ Len(queue) < MaxQueue \/ t[1] = "human"
    /\ queue' = Append(queue, copy[t])
    /\ copy' = [copy EXCEPT ![t] = {}]
    /\ UNCHANGED <<inboxVars, due, sessionVars, shown>>

-----------------------------------------------------------------------------
(***************************************************************************)
(* A hook that raises a request: lookup, apply_ingested, apply_events, ask *)
(* and hold.                                                               *)
(***************************************************************************)
Lookup(a) ==
    /\ Goes(Hook(a), "idle", "in")
    /\ life = "listed"
    /\ UNCHANGED <<copy, inboxVars, due, sessionVars, appVars>>

\* The first payload of a session takes its label away: degrade(None) runs
\* under the lock of heard_from.
Clear == heard' = TRUE /\ label' = (label /\ heard)

\* by_session failed: the session was forgotten since the lookup.
TooLate(a) ==
    /\ Goes(Hook(a), "in", "done")
    /\ life # "listed"
    /\ UNCHANGED <<copy, inboxVars, due, sessionVars, appVars>>

Hear(a) ==
    /\ Goes(Hook(a), "in", "known")
    /\ life = "listed"
    /\ Clear
    /\ UNCHANGED <<copy, inboxVars, due, life, appVars>>

\* A payload that raises nothing: a status line, a tool call.
Status ==
    /\ life = "listed" /\ ~heard
    /\ Clear
    /\ UNCHANGED <<at, copy, inboxVars, due, life, appVars>>

Arm(a) ==
    /\ Goes(Hook(a), "known", "armed")
    /\ armed' = armed \cup {a}
    /\ UNCHANGED <<copy, pending, closed, due, sessionVars, appVars>>

Insert(a) ==
    /\ Goes(Hook(a), "armed", "asked")
    /\ pending' = pending \cup {a}
    /\ UNCHANGED <<copy, closed, armed, due, sessionVars, appVars>>

\* A decision has been made: hold returns it.
Reply(a) ==
    /\ Goes(Hook(a), "held", "done")
    /\ Human(a) \in Threads /\ at[Human(a)] \notin {"idle", "taken"}
    /\ UNCHANGED <<copy, inboxVars, due, sessionVars, appVars>>

\* HOLD_TIMEOUT has passed without one.
Expire(a) ==
    /\ Goes(Hook(a), "held", "expired")
    /\ Human(a) \in Threads => at[Human(a)] \in {"idle", "taken"}
    /\ closed' = closed \cup {a}
    /\ UNCHANGED <<copy, pending, armed, due, sessionVars, appVars>>

-----------------------------------------------------------------------------
(***************************************************************************)
(* decide and withdraw, as far as the inbox goes.                          *)
(***************************************************************************)
AskOf(t) == t[2]

Take(t) ==
    /\ Goes(t, "idle", "taken")
    /\ AskOf(t) \in pending
    /\ pending' = pending \ {AskOf(t)}
    /\ UNCHANGED <<copy, closed, armed, due, sessionVars, appVars>>

Disarm(t) ==
    /\ Goes(t, "taken", "removed")
    /\ armed' = armed \ {AskOf(t)}
    /\ UNCHANGED <<copy, pending, closed, due, sessionVars, appVars>>

\* The answer to inbox.decide.  The sheet of the app then calls inbox.list;
\* the card above a pane, vterm and the vendor do not.
Answered(t) ==
    /\ Goes(t, "answered", "done")
    /\ \/ t \in {Human(a) : a \in FromApp} /\ shown' = Inbox
       \/ UNCHANGED shown
    /\ UNCHANGED <<copy, inboxVars, due, sessionVars, queue>>

-----------------------------------------------------------------------------
(***************************************************************************)
(* The watchdog thread.                                                    *)
(***************************************************************************)
\* Mutant: a request is reminded of once.
DueOnce ==
    /\ Goes(Dog, "asleep", "awake")
    /\ \E elapsed \in SUBSET armed : due' = elapsed /\ armed' = armed \ elapsed
    /\ UNCHANGED <<copy, pending, closed, sessionVars, appVars>>

\* tick: Watchdog::due, the requests for which another reminder_interval has
\* passed.
Due ==
    /\ Goes(Dog, "asleep", "awake")
    /\ due' \in SUBSET armed
    /\ UNCHANGED <<copy, inboxVars, sessionVars, appVars>>

\* One request whose turn has come; nothing if it was answered since.
Remind(a) ==
    /\ a \in due
    /\ due' = due \ {a}
    /\ IF a \in pending THEN Goes(Dog, "awake", "reminding")
                        ELSE at[Dog] = "awake" /\ UNCHANGED at
    /\ UNCHANGED <<copy, inboxVars, sessionVars, appVars>>

\* Mutant: only a session that was heard of is judged.
LookForSpeaking ==
    /\ due = {}
    /\ Goes(Dog, "awake", IF life = "listed" /\ heard THEN "judging" ELSE "asleep")
    /\ UNCHANGED <<copy, inboxVars, due, sessionVars, appVars>>

\* Of the sessions registered by now it judges those whose heard_from it
\* finds false; the lock is let go of before that.
Look ==
    /\ due = {}
    /\ Goes(Dog, "awake", IF life = "listed" /\ ~heard THEN "judging" ELSE "asleep")
    /\ UNCHANGED <<copy, inboxVars, due, sessionVars, appVars>>

\* Not heard of, and the grace period since it was registered is over or not:
\* the session is degraded.
Judge ==
    /\ Goes(Dog, "judging", "asleep")
    /\ label' \in {label, life # "gone" \/ label}
    /\ UNCHANGED <<copy, inboxVars, due, life, heard, appVars>>

-----------------------------------------------------------------------------
(***************************************************************************)
(* The session ends: Registry::remove, with unregister.                    *)
(***************************************************************************)
Forget ==
    /\ MayEnd /\ life = "listed" /\ life' = "forgotten"
    /\ UNCHANGED <<at, copy, inboxVars, due, heard, label, appVars>>

DropPending ==
    /\ life = "forgotten" /\ life' = "dropped"
    /\ pending' = {}
    /\ UNCHANGED <<at, copy, closed, armed, due, heard, label, appVars>>

Unlist ==
    /\ life = "dropped" /\ life' = "gone"
    /\ UNCHANGED <<at, copy, inboxVars, due, heard, label, appVars>>

-----------------------------------------------------------------------------
(***************************************************************************)
(* The app.  A decision made in it blocks its main thread until the daemon *)
(* has answered.                                                           *)
(***************************************************************************)
Deciding == \E a \in FromApp : at[Human(a)] \notin {"idle", "done"}

Apply ==
    /\ queue # <<>> /\ ~Deciding
    /\ shown' = Head(queue) /\ queue' = Tail(queue)
    /\ UNCHANGED <<at, copy, inboxVars, due, sessionVars>>

-----------------------------------------------------------------------------
HookStep(a) == \/ Lookup(a) \/ TooLate(a) \/ Hear(a) \/ Arm(a) \/ Insert(a)
               \/ Reply(a) \/ Expire(a) \/ Copy(Hook(a)) \/ Post(Hook(a))

RemoverStep(t) == Disarm(t) \/ Copy(t) \/ Post(t) \/ Answered(t)

DogStep == \/ Due \/ Look \/ Judge \/ Copy(Dog) \/ Post(Dog)
           \/ \E a \in Asks : Remind(a)

EndStep == DropPending \/ Unlist

Next == \/ \E a \in Asks : HookStep(a)
        \/ \E t \in Removers : Take(t) \/ RemoverStep(t)
        \/ DogStep \/ Status \/ Forget \/ EndStep \/ Apply

Spec == Init /\ [][Next]_vars

\* Threads that have something to do run, timers expire, and the app's main
\* thread comes round to its events.  Nobody has to ask, answer or speak.
Fairness ==
    /\ WF_vars(DogStep) /\ SF_vars(Judge /\ label') /\ WF_vars(EndStep) /\ WF_vars(Apply)
    /\ \A a \in Asks : /\ SF_vars(Due /\ a \in due')
                       /\ WF_vars(at[Hook(a)] # "idle" /\ HookStep(a))
    /\ \A t \in Removers : WF_vars(RemoverStep(t))

FairSpec == Spec /\ Fairness

-----------------------------------------------------------------------------
Snapshots == SUBSET (Asks \X BOOLEAN)

HookAt == {"idle", "in", "known", "armed", "asked", "posting first", "noted",
           "posting second", "held", "expired", "posting third", "done"}
RemoverAt == {"idle", "taken", "removed", "posting", "answered", "done"}
DogAt == {"asleep", "awake", "reminding", "posting reminder", "judging"}

\* Where each thread can be.
PlacesOK ==
    /\ at \in [Threads -> HookAt \cup RemoverAt \cup DogAt]
    /\ \A a \in Asks : at[Hook(a)] \in HookAt
    /\ \A t \in Removers : at[t] \in RemoverAt
    /\ at[Dog] \in DogAt

\* Types of every variable.
TypeOK ==
    /\ PlacesOK
    /\ copy \in [Threads -> Snapshots]
    /\ pending \subseteq Asks /\ closed \subseteq Asks /\ armed \subseteq Asks
    /\ due \subseteq Asks
    /\ heard \in BOOLEAN /\ label \in BOOLEAN
    /\ life \in {"listed", "forgotten", "dropped", "gone"}
    /\ queue \in Seq(Snapshots) /\ shown \in Snapshots

\* A request that waits reaches the app's list, whatever order the copies
\* were posted in: the reminders bring it back.
PendingIsShown ==
    \A a \in Asks : a \in pending ~> (a \notin pending \/ \E p \in BOOLEAN : <<a, p>> \in shown)

\* When the agent has gone back to its own prompt, the app learns of it and
\* disables the buttons of the request.
ExpiryIsShown ==
    \A a \in Asks : (a \in pending /\ a \in closed) ~> (a \notin pending \/ <<a, TRUE>> \in shown)

\* What waits in the inbox comes to the app's list as it is, in the end.
ShownInTheEnd == PendingIsShown /\ ExpiryIsShown

\* An agent that stays mute is labelled degraded.
MuteIsLabelled == <>(label \/ heard \/ life # "listed")

\* Nothing is under way: every copy is posted and taken in.
AllTold == queue = <<>> /\ \A t \in Threads : at[t] \in {"idle", "held", "done", "asleep"}
-----------------------------------------------------------------------------
(* Promises of the documentation that the code breaks. *)

\* "ours must never look resolved when it is not": a request in the app's
\* list leaves it only once it is resolved.
NeverLooksResolved ==
    [][ \A a \in Asks : (\E p \in BOOLEAN : <<a, p>> \in shown) /\ a \in pending'
            => \E p \in BOOLEAN : <<a, p>> \in shown' ]_vars

\* "every viewer sees the new inbox": what the app lists once all is told.
ToldIsTrue == AllTold => shown = Inbox

\* "live session mislabelled": a session that has been heard of carries no
\* label once the watchdog sleeps.
SpeakingIsNotMute == (heard /\ at[Dog] = "asleep") => ~label
=============================================================================
