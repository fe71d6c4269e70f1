--------------------------- MODULE CodexObserver ---------------------------
(***************************************************************************)
(* A Codex session: vtermd/src/codex.rs, the connection of                 *)
(* vt-agent/src/codex.rs and the inbox as it uses it.  The app-server has  *)
(* two clients, the user's TUI and this daemon's observer; it is external  *)
(* and does what the observer relies on: a client sees thread news without *)
(* asking, the approval requests of a thread only once it has resumed it,  *)
(* a resume is refused until the thread's first turn, the first answer     *)
(* wins.  The observer has a reader, one thread per refused resume that    *)
(* sleeps before it tries again, and one thread per approval that waits    *)
(* for the inbox.                                                          *)
(***************************************************************************)
EXTENDS Integers, Sequences, FiniteSets, SequencesExt

CONSTANTS Threads, Requests,
          Of,           (* the thread that raises a request                *)
          Decisions,    (* what an inbox decision can be                   *)
          MaxNews,      (* bound: status changes other than a request's    *)
          MaxRetries,   (* bound: sleeping retry threads told apart; the   *)
                        (* code has none                                   *)
          MaxRestarts   (* bound: restarts of the daemon                   *)

ASSUME ObserverAssumption ==
    /\ IsFiniteSet(Threads) /\ IsFiniteSet(Requests) /\ Of \in [Requests -> Threads]
    /\ Decisions \cap {"new", "open", "tui", "absent", "pending", "withdrawn"} = {}
    /\ MaxNews \in Nat /\ MaxRetries \in Nat \ {0} /\ MaxRestarts \in Nat

VARIABLES
    server,     (* "starting", "up", "down"                                *)
    life,       (* a thread of the server: "none", "loaded", "rolled" (its *)
                (* first turn has written the rollout)                     *)
    req,        (* a request: "new", "open", or who answered it: "tui" or  *)
                (* the decision of the inbox                               *)
    follows,    (* threads the observer's connection has resumed, at the   *)
                (* server                                                  *)
    news,       (* status changes so far                                   *)
    toServer, toObserver,
    conn,       (* "connecting", "handshake", "reading", "lost",           *)
                (* "unreachable"                                           *)
    subscribed, (* Threads.subscribed: how often it lists the thread       *)
    pending,    (* Threads.pending: Unseen (not in it), Noted (None), or   *)
                (* the number of the outstanding request                   *)
    retries,    (* retry_resume threads asleep, up to MaxRetries           *)
    item,       (* the inbox: "absent", "pending", "withdrawn" or the      *)
                (* decision                                                *)
    answerer,   (* codex-answer thread: "none"; "waiting", on its way to   *)
                (* the test; "tested", it found nothing and holds the      *)
                (* decision's mutex; "asleep" in the condition variable;   *)
                (* "missed", asleep past its wakeup; "sent"; "failed"      *)
    orphans,    (* answer threads whose item another one replaced          *)
    degraded,   (* SessionInfo.degraded                                    *)
    restarts

Unseen == -2
Noted == -1

serverVars == <<server, life, req, follows, news>>
resumeVars == <<subscribed, pending, retries>>
inboxVars == <<item, answerer, orphans>>
vars == <<serverVars, toServer, toObserver, conn, resumeVars, inboxVars, degraded, restarts>>

Init ==
    /\ server = "starting" /\ life = [t \in Threads |-> "none"]
    /\ req = [r \in Requests |-> "new"] /\ follows = {} /\ news = 0
    /\ toServer = <<>> /\ toObserver = <<>> /\ conn = "connecting"
    /\ subscribed = [t \in Threads |-> 0] /\ pending = [t \in Threads |-> Unseen] /\ retries = 0
    /\ item = [r \in Requests |-> "absent"] /\ answerer = [r \in Requests |-> "none"] /\ orphans = 0
    /\ degraded = FALSE /\ restarts = 0

-----------------------------------------------------------------------------
(* The app-server and its other client, the TUI. *)

News(t) == [kind |-> "news", thread |-> t]
About(kind, r) == [kind |-> kind, thread |-> Of[r], request |-> r]

(* What the server sends the observer, if it is there. *)
Tell(msgs) ==
    toObserver' = IF conn \in {"handshake", "reading"} THEN toObserver \o msgs ELSE toObserver

IfFollowed(r, kind) == IF Of[r] \in follows THEN <<About(kind, r)>> ELSE <<>>

ServerStarts ==
    /\ server = "starting" /\ server' = "up"
    /\ UNCHANGED <<life, req, follows, news, toServer, toObserver, conn, resumeVars, inboxVars, degraded, restarts>>

(* stop_app_server, or its own end: what it has sent can still be read. *)
ServerEnds ==
    /\ server = "up" /\ server' = "down" /\ toServer' = <<>>
    /\ UNCHANGED <<life, req, follows, news, toObserver, conn, resumeVars, inboxVars, degraded, restarts>>

(* The rollout is written some time after the turn has started, silently.  *)
ThreadMoves(t) ==
    /\ server = "up"
    /\ \/ life[t] = "none" /\ life' = [life EXCEPT ![t] = "loaded"] /\ Tell(<<News(t)>>) /\ UNCHANGED news
       \/ life[t] = "loaded" /\ life' = [life EXCEPT ![t] = "rolled"] /\ UNCHANGED <<news, toObserver>>
       \/ life[t] # "none" /\ news < MaxNews /\ news' = news + 1 /\ Tell(<<News(t)>>) /\ UNCHANGED life
    /\ UNCHANGED <<server, req, follows, toServer, conn, resumeVars, inboxVars, degraded, restarts>>

Raise(r) ==
    /\ server = "up" /\ life[Of[r]] = "rolled" /\ req[r] = "new"
    /\ req' = [req EXCEPT ![r] = "open"] /\ Tell(<<News(Of[r])>> \o IfFollowed(r, "approval"))
    /\ UNCHANGED <<server, life, follows, news, toServer, conn, resumeVars, inboxVars, degraded, restarts>>

TuiAnswers(r) ==
    /\ server = "up" /\ req[r] = "open"
    /\ req' = [req EXCEPT ![r] = "tui"] /\ Tell(IfFollowed(r, "resolved"))
    /\ UNCHANGED <<server, life, follows, news, toServer, conn, resumeVars, inboxVars, degraded, restarts>>

ServeResume(m) ==
    LET ok == life[m.thread] = "rolled"
        open == {r \in Requests : Of[r] = m.thread /\ req[r] = "open"}
        reply == [kind |-> "resumed", thread |-> m.thread, id |-> m.id, ok |-> ok]
    IN  /\ follows' = IF ok THEN follows \cup {m.thread} ELSE follows
        /\ \E replayed \in {{}, IF ok THEN open ELSE {}} :
               Tell(<<reply>> \o SetToSeq({About("approval", r) : r \in replayed}))
        /\ UNCHANGED req

ServeAnswer(m) ==
    /\ req' = [req EXCEPT ![m.request] = IF @ = "open" THEN m.decision ELSE @]
    /\ Tell(IF req[m.request] = "open" THEN <<About("resolved", m.request)>> ELSE <<>>)
    /\ UNCHANGED follows

Serve ==
    /\ server = "up" /\ toServer # <<>> /\ toServer' = Tail(toServer)
    /\ LET m == Head(toServer) IN
       \/ m.kind = "initialize" /\ Tell(<<[kind |-> "initialized"]>>) /\ UNCHANGED <<follows, req>>
       \/ /\ m.kind = "list" /\ UNCHANGED <<follows, req>>
          /\ Tell(<<[kind |-> "listed", threads |-> {t \in Threads : life[t] # "none"}]>>)
       \/ m.kind = "resume" /\ ServeResume(m)
       \/ m.kind = "answer" /\ ServeAnswer(m)
    /\ UNCHANGED <<server, life, news, conn, resumeVars, inboxVars, degraded, restarts>>

-----------------------------------------------------------------------------
(* The observer's connection. *)

(* AppServer::connect: sends initialize and reads until it is answered. *)
Connect ==
    /\ conn = "connecting" /\ server = "up" /\ conn' = "handshake"
    /\ toServer' = <<[kind |-> "initialize"]>> /\ toObserver' = <<>> /\ follows' = {}
    /\ UNCHANGED <<server, life, req, news, resumeVars, inboxVars, degraded, restarts>>

(* CONNECT_WAIT is over: an event says so, and the observer is gone. *)
GiveUp ==
    /\ conn = "connecting" /\ server # "up" /\ conn' = "unreachable"
    /\ UNCHANGED <<serverVars, toServer, toObserver, resumeVars, inboxVars, degraded, restarts>>

Handshake ==
    /\ conn = "handshake"
    /\ \/ /\ toObserver # <<>> /\ toObserver' = Tail(toObserver)
          /\ IF Head(toObserver).kind = "initialized"
             THEN conn' = "reading"
                  /\ toServer' = IF server = "up" THEN Append(toServer, [kind |-> "list"]) ELSE toServer
             ELSE UNCHANGED <<conn, toServer>>
       \/ /\ toObserver = <<>> /\ server # "up" /\ conn' = "connecting"
          /\ UNCHANGED <<toServer, toObserver>>
    /\ UNCHANGED <<serverVars, resumeVars, inboxVars, degraded, restarts>>

ReadEof ==
    /\ conn = "reading" /\ server # "up" /\ toObserver = <<>>
    /\ conn' = "lost" /\ degraded' = TRUE
    /\ UNCHANGED <<serverVars, toServer, toObserver, resumeVars, inboxVars, restarts>>

-----------------------------------------------------------------------------
(* Threads: which are followed, which are asked for. *)

Note(ts, p) ==
    [t \in Threads |-> IF t \in ts /\ subscribed[t] = 0 /\ p[t] = Unseen THEN Noted ELSE p[t]]

(* Numbers of requests for a thread that are under way, as requests or as *)
(* replies; a fresh one is none of them. *)
IdsOf(t) ==
    {m.id : m \in {n \in ToSet(toServer) \cup ToSet(toObserver) : n.kind \in {"resume", "resumed"} /\ n.thread = t}}
FreshId(t) == CHOOSE n \in 0 .. Cardinality(IdsOf(t)) : n \notin IdsOf(t)

(* Mutation: every thread not followed yet is asked for, whether or not a  *)
(* request is out.                                                         *)
ResumeAll(p) ==
    LET asked == {t \in Threads : p[t] # Unseen} IN
    /\ toServer' = toServer \o SetToSeq({[kind |-> "resume", thread |-> t, id |-> FreshId(t)] : t \in asked})
    /\ pending' = [t \in Threads |-> IF t \in asked THEN FreshId(t) ELSE p[t]]

(* resume_pending; nothing can be sent once the server is gone. *)
ResumePending(p) ==
    LET asked == {t \in Threads : p[t] = Noted /\ server = "up"} IN
    /\ toServer' = toServer \o SetToSeq({[kind |-> "resume", thread |-> t, id |-> FreshId(t)] : t \in asked})
    /\ pending' = [t \in Threads |-> IF t \in asked THEN FreshId(t) ELSE p[t]]

Reads(kind) ==
    /\ conn = "reading" /\ toObserver # <<>> /\ Head(toObserver).kind = kind
    /\ toObserver' = Tail(toObserver)

ReadListed ==
    /\ Reads("listed") /\ ResumePending(Note(Head(toObserver).threads, pending))
    /\ UNCHANGED <<serverVars, conn, subscribed, retries, inboxVars, degraded, restarts>>

(* Mutation: a refused thread waits for the next message. *)
RefusedForNow(t) ==
    /\ pending' = [pending EXCEPT ![t] = Noted] /\ UNCHANGED <<subscribed, retries>>

(* on_response, error: a thread of its own tries again after RESUME_RETRY. *)
Refused(t) ==
    /\ pending' = [pending EXCEPT ![t] = Noted] /\ UNCHANGED subscribed
    /\ retries' = IF retries < MaxRetries THEN retries + 1 ELSE retries

Resumed(t) ==
    /\ pending' = [pending EXCEPT ![t] = Unseen]
    /\ subscribed' = [subscribed EXCEPT ![t] = @ + 1] /\ UNCHANGED retries

ReadResponse ==
    /\ Reads("resumed")
    /\ LET m == Head(toObserver) IN
       \/ pending[m.thread] # m.id /\ UNCHANGED resumeVars
       \/ pending[m.thread] = m.id /\ m.ok /\ Resumed(m.thread)
       \/ pending[m.thread] = m.id /\ ~m.ok /\ Refused(m.thread)
    /\ UNCHANGED <<serverVars, toServer, conn, inboxVars, degraded, restarts>>

RetryWakes ==
    /\ retries > 0 /\ ResumePending(pending)
    /\ retries' \in IF retries = MaxRetries THEN {retries - 1, retries} ELSE {retries - 1}
    /\ UNCHANGED <<serverVars, toObserver, conn, subscribed, inboxVars, degraded, restarts>>

-----------------------------------------------------------------------------
(* Approvals. *)

Waits(r) == answerer[r] \in {"waiting", "tested", "asleep"}

(* ask: the item, and a thread that waits for its decision. *)
Ask(r) ==
    /\ item' = [item EXCEPT ![r] = "pending"] /\ answerer' = [answerer EXCEPT ![r] = "waiting"]
    /\ orphans' = IF Waits(r) THEN orphans + 1 ELSE orphans

(* Mutation: the item goes, its answer thread is not woken. *)
WithdrawSilently(r) ==
    /\ item' = [item EXCEPT ![r] = IF @ = "pending" THEN "withdrawn" ELSE @]
    /\ UNCHANGED <<answerer, orphans>>

(* notify_all without the mutex: a thread that has tested the flag and is  *)
(* not in the condition variable yet misses it.                            *)
Woken(a) == CASE a = "tested" -> "missed" [] a = "asleep" -> "waiting" [] OTHER -> a

(* withdraw: unless it is decided.  The flag is set and who waits is woken *)
(* in one step; Approvals has them apart, and what comes of it is the same. *)
Withdraw(r) ==
    /\ item' = [item EXCEPT ![r] = IF @ = "pending" THEN "withdrawn" ELSE @]
    /\ answerer' = [answerer EXCEPT ![r] = IF item[r] = "pending" THEN Woken(@) ELSE @]
    /\ UNCHANGED orphans

(* A message with a method: the threads it names are noted, all that are   *)
(* noted are asked for, then it is ingested.                               *)
ReadMethod ==
    /\ \/ Reads("news") /\ UNCHANGED inboxVars
       \/ Reads("approval") /\ Ask(Head(toObserver).request)
       \/ Reads("resolved") /\ Withdraw(Head(toObserver).request)
    /\ ResumePending(Note({Head(toObserver).thread}, pending))
    /\ UNCHANGED <<serverVars, conn, subscribed, retries, degraded, restarts>>

(* decide: of the two who may resolve an item only one finds it.  It sets  *)
(* the decision under the mutex.                                           *)
Decide(r, d) ==
    /\ item[r] = "pending" /\ answerer[r] # "tested"
    /\ item' = [item EXCEPT ![r] = d]
    /\ answerer' = [answerer EXCEPT ![r] = IF @ = "asleep" THEN "waiting" ELSE @]
    /\ UNCHANGED <<serverVars, toServer, toObserver, conn, resumeVars, orphans, degraded, restarts>>

(* Mutation: the thread waits no longer than a held hook does. *)
AnswerInTime(r) ==
    /\ answerer[r] = "waiting"
    /\ \/ /\ item[r] \in Decisions /\ server = "up" /\ answerer' = [answerer EXCEPT ![r] = "sent"]
          /\ toServer' = Append(toServer, [kind |-> "answer", request |-> r, decision |-> item[r]])
       \/ item[r] = "pending" /\ answerer' = [answerer EXCEPT ![r] = "failed"] /\ UNCHANGED toServer
    /\ UNCHANGED <<serverVars, toObserver, conn, resumeVars, item, orphans, degraded, restarts>>

(* wait_decision: the test of wait_while, under the mutex, and the wait. *)
Tests(r) ==
    /\ answerer[r] = "waiting"
    /\ \/ item[r] = "pending" /\ answerer' = [answerer EXCEPT ![r] = "tested"]
       \/ item[r] = "withdrawn" /\ answerer' = [answerer EXCEPT ![r] = "none"]
    /\ UNCHANGED <<serverVars, toServer, toObserver, conn, resumeVars, item, orphans, degraded, restarts>>

Sleeps(r) ==
    /\ answerer[r] = "tested" /\ answerer' = [answerer EXCEPT ![r] = "asleep"]
    /\ UNCHANGED <<serverVars, toServer, toObserver, conn, resumeVars, item, orphans, degraded, restarts>>

(* The test that finds a decision, then answer_approval. *)
Answer(r) ==
    /\ answerer[r] = "waiting" /\ item[r] \in Decisions
    /\ IF server = "up"
       THEN toServer' = Append(toServer, [kind |-> "answer", request |-> r, decision |-> item[r]])
            /\ answerer' = [answerer EXCEPT ![r] = "sent"]
       ELSE answerer' = [answerer EXCEPT ![r] = "failed"] /\ UNCHANGED toServer
    /\ UNCHANGED <<serverVars, toObserver, conn, resumeVars, item, orphans, degraded, restarts>>

(* The daemon restarts and re-adopts the session: the app-server is still  *)
(* there, the observer starts from nothing.                                *)
Restart ==
    /\ restarts < MaxRestarts /\ restarts' = restarts + 1
    /\ conn' = "connecting" /\ toServer' = <<>> /\ toObserver' = <<>> /\ follows' = {}
    /\ subscribed' = [t \in Threads |-> 0] /\ pending' = [t \in Threads |-> Unseen] /\ retries' = 0
    /\ item' = [r \in Requests |-> "absent"] /\ answerer' = [r \in Requests |-> "none"] /\ orphans' = 0
    /\ degraded' = FALSE /\ UNCHANGED <<server, life, req, news>>

Observer == \/ Connect \/ GiveUp \/ Handshake \/ ReadEof \/ ReadListed \/ ReadResponse \/ ReadMethod
Next ==
    \/ ServerStarts \/ ServerEnds \/ Serve \/ Observer \/ RetryWakes \/ Restart
    \/ \E t \in Threads : ThreadMoves(t)
    \/ \E r \in Requests :
          \/ Raise(r) \/ TuiAnswers(r) \/ Tests(r) \/ Sleeps(r) \/ Answer(r)
          \/ \E d \in Decisions : Decide(r, d)

Spec == Init /\ [][Next]_vars

(* The threads of the daemon run and the app-server answers; nothing makes *)
(* a person answer, a thread start or the server end.                      *)
FairSpec ==
    /\ Spec /\ WF_vars(Observer) /\ WF_vars(Serve) /\ WF_vars(RetryWakes)
    /\ \A r \in Requests : WF_vars(Tests(r) \/ Sleeps(r) \/ Answer(r))
-----------------------------------------------------------------------------
(* Properties. *)

InFlight(t) ==
    Cardinality({i \in DOMAIN toServer : toServer[i].kind = "resume" /\ toServer[i].thread = t})
    + Cardinality({i \in DOMAIN toObserver : toObserver[i].kind = "resumed" /\ toObserver[i].thread = t})

(* A thread is asked for at most once at a time and followed at most once, *)
(* whatever the reader and the sleeping threads do in between; so no       *)
(* approval reaches the inbox twice and no answer thread waits for an item *)
(* another one took over (codex.rs: note, resume_pending, on_response).    *)
FollowedOnce ==
    /\ \A t \in Threads :
           /\ subscribed[t] <= 1 /\ InFlight(t) <= 1
           /\ (InFlight(t) = 1 /\ server = "up" /\ conn = "reading") => pending[t] >= 0
           /\ subscribed[t] = 1 => pending[t] = Unseen
    /\ orphans = 0

(* The server is given the decision the inbox recorded, for the request it *)
(* is about, once; and a request it holds for answered by the inbox was    *)
(* answered that way there (answer_approval, rpc_id_of), in this life of   *)
(* the daemon.                                                             *)
AnswersAreDecisions ==
    LET answers(r) == {i \in DOMAIN toServer : toServer[i].kind = "answer" /\ toServer[i].request = r} IN
    \A r \in Requests :
        /\ Cardinality(answers(r)) <= 1
        /\ \A i \in answers(r) : toServer[i].decision = item[r]
        /\ restarts = 0 /\ req[r] \in Decisions => item[r] = req[r]

(* A thread is followed once, and answered once, as the inbox decided.     *)
ObservedOnce == FollowedOnce /\ AnswersAreDecisions

(* Every thread whose rollout is written is followed in the end, whatever  *)
(* was dropped during the handshake and however often it was refused.      *)
EveryThreadFollowed ==
    \A t \in Threads : (life[t] = "rolled" /\ conn = "reading") ~> (subscribed[t] = 1 \/ conn # "reading")

(* A decision of the inbox reaches the server while the connection lives,  *)
(* unless the TUI was first.                                               *)
DecisionsArrive ==
    \A r \in Requests : (item[r] \in Decisions /\ conn = "reading")
                            ~> (req[r] # "open" \/ conn # "reading")

(* What the TUI answers first leaves the inbox, and its answer thread      *)
(* ends; but one that was just going to sleep misses the wakeup            *)
(* (AnswerThreadEnds).                                                     *)
NothingWaitsForNothing ==
    \A r \in Requests : (req[r] = "tui" /\ conn = "reading")
        ~> ((item[r] # "pending" /\ ~Waits(r)) \/ conn # "reading")

-----------------------------------------------------------------------------
(* Promises TLC refutes. *)

(* agents.rs, "Anyone waiting on it wakes up with no decision": withdraw   *)
(* does not hold the mutex the flag is tested under, and who has tested it *)
(* and not yet gone to sleep sleeps for ever.                              *)
AnswerThreadEnds ==
    \A r \in Requests : (req[r] = "tui" /\ conn = "reading")
        ~> ((item[r] # "pending" /\ ~Waits(r) /\ answerer[r] # "missed") \/ conn # "reading")

(* A session whose app-server cannot be reached carries the label, as one  *)
(* whose app-server ends under the observer does (codex.rs: run).          *)
UnreachableIsLabelled == conn = "unreachable" => degraded

(* docs/03: an approval "becomes an inbox item" to be answered; what is in *)
(* the inbox can still be answered.                                        *)
InboxCanAnswer == \A r \in Requests : item[r] = "pending" => conn = "reading"
=============================================================================
