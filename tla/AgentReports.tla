---------------------------- MODULE AgentReports ----------------------------
(***************************************************************************)
(* What a vendor's messages make of a session: the four tables of vt-agent *)
(* (hooks.rs, the stream-json of claude.rs, the exec lines and app-server  *)
(* messages of codex.rs), the adapters that choose between them            *)
(* (adapter.rs) and Agents::apply_ingested and apply_events, which put     *)
(* events on the timeline, requests in the inbox and a state on the        *)
(* session.  Messages come one at a time here; how the daemon's threads    *)
(* interleave over the inbox is Approvals and CodexObserver.               *)
(***************************************************************************)
EXTENDS Naturals, Sequences, FiniteSets, SequencesExt

None == "none"
NoId == <<>>
States == {"starting", "idle", "thinking", "tool_running", "awaiting_input", "stopped"}

(* A message: its name (hook event, "type" or method), the item it is      *)
(* about, the id it carries and what else a table looks at.                *)
Message(name, item, id, ok, text) == [name |-> name, item |-> item, id |-> id, ok |-> ok, text |-> text]
Bare(name) == Message(name, None, NoId, TRUE, None)

Event(is, id, ok) == [is |-> is, id |-> id, ok |-> ok]
Note == Event("notification", NoId, TRUE)
Started == Event("session_started", NoId, TRUE)
Unknown == Event("unknown", NoId, TRUE)

Ingested(events, state) == [events |-> events, state |-> state, withdrawn |-> <<>>, warned |-> FALSE]
Nothing == Ingested(<<>>, None)
Tolerated == [Ingested(<<Unknown>>, None) EXCEPT !.warned = TRUE]
IdOr(m, name, n) == IF m.id = NoId THEN <<name, n>> ELSE m.id
Said(m) == IF m.text = None THEN <<>> ELSE <<Event("assistant_text", NoId, TRUE)>>

-----------------------------------------------------------------------------
(* The id of an approval, as text: tokens, so that it can be cut again.    *)
HookApproval(session, id, n) == IF id = NoId THEN session \o <<":req-", n>> ELSE session \o <<":">> \o id
Shown(rpc) == IF rpc.is = "number" THEN rpc.of ELSE <<"\"">> \o rpc.of \o <<"\"">>
RpcApproval(thread, rpc) == thread \o <<":rpc-">> \o Shown(rpc)

(* Mutation: the id is cut at the first ":rpc-". *)
RpcIdOfFirst(approval) ==
    LET at == {i \in DOMAIN approval : approval[i] = ":rpc-"}
        rest == SubSeq(approval, 1 + CHOOSE i \in at : \A j \in at : i <= j, Len(approval))
    IN  IF at = {} THEN <<>> ELSE <<[is |-> IF rest \in {<<"0">>, <<"1">>} THEN "number" ELSE "text", of |-> rest]>>
(* rpc_id_of: what follows the last ":rpc-" is read as JSON, or is a text. *)
RpcIdOf(approval) ==
    LET at == {i \in DOMAIN approval : approval[i] = ":rpc-"}
        rest == SubSeq(approval, 1 + CHOOSE i \in at : \A j \in at : j <= i, Len(approval))
    IN  IF at = {} THEN <<>>
        ELSE IF Len(rest) > 1 /\ Head(rest) = "\"" /\ Last(rest) = "\"" THEN <<[is |-> "text", of |-> Tail(Front(rest))]>>
        ELSE <<[is |-> IF rest \in {<<"0">>, <<"1">>} THEN "number" ELSE "text", of |-> rest]>>

-----------------------------------------------------------------------------
(* hooks.rs: one arm per hook event. *)
Observed == {"PreCompact", "CwdChanged", "TaskCreated", "PermissionDenied"}
Hook(m, n) ==
    CASE m.name = "SessionStart" -> Ingested(<<Started>>, None)
      [] m.name = "SessionEnd" -> Ingested(<<Event("session_ended", NoId, TRUE)>>, None)
      [] m.name = "UserPromptSubmit" -> Ingested(<<Event("prompt", NoId, TRUE)>>, None)
      [] m.name = "PreToolUse" -> [Ingested(<<Event("tool_start", IdOr(m, "unknown", n), TRUE)>>, None) EXCEPT !.warned = m.id = NoId]
      [] m.name \in {"PostToolUse", "PostToolUseFailure"} -> Ingested(<<Event("tool_end", IdOr(m, "unknown", n), m.name = "PostToolUse")>>, None)
      [] m.name = "PermissionRequest" -> Ingested(<<Event("approval", HookApproval(m.text, m.id, n), TRUE)>>, None)
      [] m.name = "Stop" -> Ingested(Said(m), None)
      [] m.name = "StopFailure" -> Ingested(Append(Said(m), Event("error", NoId, FALSE)), None)
      [] m.name = "FileChanged" -> Ingested(<<Event("file_changed", NoId, TRUE)>>, None)
      [] m.name \in {"SubagentStart", "SubagentStop"} -> Ingested(<<Event(m.name, IdOr(m, "subagent", n), TRUE)>>, None)
      [] m.name \in {"Notification", "Interrupt"} \cup Observed -> Ingested(<<Note>>, None)
      [] OTHER -> Tolerated

(* claude.rs ingest_stream: the contents of a message are its items.       *)
Content(item) ==
    CASE item.item = "text" -> <<Event("assistant_text", NoId, TRUE)>>
      [] item.item = "tool_use" -> <<Event("tool_start", item.id, TRUE)>>
      [] item.item = "thinking" -> <<Event("thinking", NoId, TRUE)>>
      [] OTHER -> <<>>
Result(item) == IF item.item = "tool_result" THEN <<Event("tool_end", item.id, item.ok)>> ELSE <<>>

StreamLine(m) ==
    CASE m.name = "system/init" -> Ingested(<<Started>>, None)
      [] m.name \in {"system/permission_denied", "system/status"} -> Ingested(<<Note>>, None)
      [] m.name \in {"system/task_progress", "stream_event"} -> Nothing
      [] m.name = "assistant" -> Ingested(FlattenSeq([i \in DOMAIN m.item |-> Content(m.item[i])]), "thinking")
      [] m.name = "user" -> Ingested(FlattenSeq([i \in DOMAIN m.item |-> Result(m.item[i])]), None)
      [] m.name = "result" ->
             Ingested(<<Event("usage", NoId, TRUE)>> \o (IF m.ok THEN <<>> ELSE <<Event("error", NoId, FALSE)>>) \o <<Note>>, "idle")
      [] m.name = "rate_limit_event" -> Ingested(<<Event("rate_limit", NoId, TRUE)>>, None)
      [] OTHER -> Tolerated

-----------------------------------------------------------------------------
(* codex.rs: an item of either protocol.  `first` is item.started.         *)
Command(m, n, first) == <<Event(IF first THEN "tool_start" ELSE "tool_end", IdOr(m, "item", n), first \/ m.ok)>>
Item(m, n, first) ==
    CASE m.item = "command" -> Ingested(Command(m, n, first), None)
      [] m.item = "message" /\ ~first -> Ingested(<<Event("assistant_text", NoId, TRUE)>>, None)
      [] m.item = "file_change" /\ ~first -> Ingested(<<Event("file_changed", NoId, TRUE)>>, None)
      [] m.item = "error" -> Ingested(<<Event("error", NoId, FALSE)>>, None)
      [] OTHER -> Nothing
Known == {"command", "message", "file_change", "error", "collab", "reasoning", None}

ExecItem(m, n, first) ==
    CASE m.item = "collab" -> Ingested(<<Event(IF first THEN "SubagentStart" ELSE "SubagentStop", IdOr(m, "item", n), TRUE)>>, None)
      [] m.item \notin Known \/ (m.item \in {"message", "file_change"} /\ first) -> Tolerated
      [] OTHER -> Item(m, n, first)
ExecLine(m, n) ==
    CASE m.name = "thread.started" -> Ingested(<<Started>>, None)
      [] m.name = "turn.started" -> Ingested(<<>>, "thinking")
      [] m.name = "turn.completed" -> Ingested(<<Event("usage", NoId, TRUE), Note>>, "idle")
      [] m.name \in {"turn.failed", "error"} -> Ingested(<<Event("error", NoId, FALSE)>>, None)
      [] m.name \in {"item.started", "item.completed"} -> ExecItem(m, n, m.name = "item.started")
      [] OTHER -> Tolerated

(* The app-server: requests for an approval, notices, and silence.         *)
Requests == {"item/commandExecution/requestApproval", "item/fileChange/requestApproval"}
Silent == {"item/agentMessage/delta", "turn/plan/updated"}
Rpc(m, n) ==
    CASE m.name \in Requests -> Ingested(<<Event("approval", RpcApproval(m.text, m.id), TRUE)>>, "awaiting_input")
      [] m.name = "serverRequest/resolved" -> [Nothing EXCEPT !.withdrawn = <<RpcApproval(m.text, m.id)>>]
      [] m.name = "thread/started" -> Ingested(<<Started>>, None)
      [] m.name = "thread/status/changed" ->
             Ingested(<<>>, CASE m.item = "active" -> IF m.ok THEN "thinking" ELSE "awaiting_input"
                              [] m.item = "idle" -> "idle" [] OTHER -> None)
      [] m.name = "turn/started" -> Ingested(<<Note>>, "thinking")
      [] m.name \in {"item/started", "item/completed"} -> Item(m, n, m.name = "item/started")
      [] m.name = "thread/tokenUsage/updated" -> Ingested(<<Event("usage", NoId, TRUE)>>, None)
      [] m.name = "turn/completed" -> Ingested(<<Note>>, "idle")
      [] m.name = "thread/closed" -> Ingested(<<Event("session_ended", NoId, TRUE)>>, None)
      [] m.name \in Silent -> Nothing
      [] OTHER -> Tolerated

(* adapter.rs: which table reads what comes by which way; a line that is   *)
(* no JSON is only warned of.                                              *)
Ingest(source, m, n) ==
    CASE m.name = "not JSON" -> [Nothing EXCEPT !.warned = TRUE]
      [] m.name # "not JSON" /\ source = "hooks" -> Hook(m, n)
      [] m.name # "not JSON" /\ source = "stream" -> StreamLine(m)
      [] m.name # "not JSON" /\ source = "exec" -> ExecLine(m, n)
      [] OTHER -> Rpc(m, n)

-----------------------------------------------------------------------------
(* agents.rs *)
Session == [state |-> "starting", timeline |-> <<>>, inbox |-> <<>>, heard |-> FALSE, count |-> 0]
StateAfter(s, e) ==
    CASE e.is = "session_started" -> "idle" [] e.is = "tool_start" -> "tool_running" [] e.is \in {"tool_end", "prompt"} -> "thinking"
      [] e.is = "assistant_text" -> "idle" [] e.is = "session_ended" -> "stopped" [] e.is = "approval" -> "awaiting_input"
      [] OTHER -> s.state
Without(inbox, id) == SelectSeq(inbox, LAMBDA i : i # id)
ApplyEvent(s, e) ==
    [s EXCEPT !.state = StateAfter(s, e), !.timeline = Append(@, e),
              !.inbox = IF e.is = "approval" THEN Append(Without(@, e.id), e.id) ELSE @]
ApplyIngested(s, in) ==
    LET cleared == [s EXCEPT !.heard = TRUE, !.inbox = SelectSeq(@, LAMBDA i : \A k \in DOMAIN in.withdrawn : in.withdrawn[k] # i)]
        applied == FoldLeft(ApplyEvent, cleared, in.events)
        held == \E k \in DOMAIN in.events : in.events[k].is = "approval"
    IN  IF in.state = None \/ held THEN applied ELSE [applied EXCEPT !.state = in.state]

Hear(source, s, m) ==
    LET in == Ingest(source, m, s.count + 1)
        silent == source \in {"stream", "exec"} /\ in.events = <<>> /\ in.state = None /\ ~in.warned
    IN  [IF silent THEN s ELSE ApplyIngested(s, in) EXCEPT !.count = s.count + 1]
Heard(source, messages) == FoldLeft(LAMBDA s, m : Hear(source, s, m), Session, messages)

-----------------------------------------------------------------------------
(* A turn as the agent makes it, and as each source tells of it.           *)
Step(is, id, ok) == [is |-> is, id |-> id, ok |-> ok]
Thread == <<"s">>
AsHook(st) ==
    CASE st.is = "prompt" -> Bare("UserPromptSubmit")
      [] st.is = "start" -> Message("PreToolUse", None, st.id, TRUE, None)
      [] st.is = "end" -> Message(IF st.ok THEN "PostToolUse" ELSE "PostToolUseFailure", None, st.id, TRUE, None)
      [] st.is = "ask" -> Message("PermissionRequest", None, st.id, TRUE, Thread)
      [] st.is = "finish" -> Message(IF st.ok THEN "Stop" ELSE "StopFailure", None, NoId, TRUE, "said")
      [] OTHER -> Bare("NewHook")
AsStream(st) ==
    CASE st.is = "prompt" -> Bare("stream_event")
      [] st.is = "start" -> Message("assistant", <<Message("", "text", NoId, TRUE, None), Message("", "tool_use", st.id, TRUE, None)>>, NoId, TRUE, None)
      [] st.is = "end" -> Message("user", <<Message("", "tool_result", st.id, st.ok, None)>>, NoId, TRUE, None)
      [] st.is = "finish" -> Message("result", None, NoId, st.ok, None)
      [] OTHER -> Bare("new_line")
AsExec(st) ==
    CASE st.is = "prompt" -> Bare("turn.started")
      [] st.is = "start" -> Message("item.started", "command", st.id, TRUE, None)
      [] st.is = "end" -> Message("item.completed", "command", st.id, st.ok, None)
      [] st.is = "finish" -> Bare(IF st.ok THEN "turn.completed" ELSE "turn.failed")
      [] OTHER -> Bare("turn.new")
Rid(id) == [is |-> "number", of |-> IF id = <<"t1">> THEN <<"0">> ELSE <<"1">>]
AsRpc(st) ==
    CASE st.is = "prompt" -> Bare("turn/started")
      [] st.is = "start" -> Message("item/started", "command", st.id, TRUE, None)
      [] st.is = "end" -> Message("item/completed", "command", st.id, st.ok, None)
      [] st.is = "ask" -> Message("item/commandExecution/requestApproval", None, Rid(st.id), TRUE, Thread)
      [] st.is = "resolved" -> Message("serverRequest/resolved", None, Rid(st.id), TRUE, Thread)
      [] st.is = "finish" -> Bare("turn/completed")
      [] OTHER -> Bare("turn/new")
Sources == {"hooks", "stream", "exec", "rpc"}
Tells(source, st) == /\ st.is = "ask" => source \in {"hooks", "rpc"}
                     /\ st.is = "resolved" => source = "rpc"
As(source, st) == CASE source = "hooks" -> AsHook(st) [] source = "stream" -> AsStream(st) [] source = "exec" -> AsExec(st) [] OTHER -> AsRpc(st)
Telling(source, turn) == SelectSeq(turn, LAMBDA st : Tells(source, st))
Told(source, turn) == [i \in DOMAIN Telling(source, turn) |-> As(source, Telling(source, turn)[i])]

(* docs/03, "one timeline": whichever way the vendor tells of a turn, its  *)
(* tool calls begin and end on the timeline as they did, each end with the *)
(* id of its beginning, and failures as failures.                          *)
Calls(timeline) == SelectSeq(timeline, LAMBDA e : e.is \in {"tool_start", "tool_end"})
CallsOf(turn) ==
    LET kept == SelectSeq(turn, LAMBDA st : st.is \in {"start", "end"})
    IN  [i \in DOMAIN kept |-> Event(IF kept[i].is = "start" THEN "tool_start" ELSE "tool_end", kept[i].id, kept[i].is = "start" \/ kept[i].ok)]
OneTimeline(source, turn) == Calls(Heard(source, Told(source, turn)).timeline) = CallsOf(turn)

(* ADR-0006: "a vendor schema change is a warning in the log, not an       *)
(* outage": a message nobody knows leaves its own mark on the timeline and *)
(* changes nothing else, wherever it comes.                                *)
SameBut(s, t) == s.state = t.state /\ s.inbox = t.inbox /\ Calls(s.timeline) = Calls(t.timeline)
UnknownIsHarmless(source, turn, n) ==
    LET odd == As(source, Step("odd", NoId, TRUE))
        told == Told(source, turn)
        strange == SubSeq(told, 1, n) \o <<odd, Bare("not JSON")>> \o SubSeq(told, n + 1, Len(told))
    IN  /\ SameBut(Heard(source, strange), Heard(source, told))
        /\ Ingest(source, odd, 1).warned /\ Unknown \in ToSet(Heard(source, strange).timeline)

(* docs/03: what waits in the inbox is what was asked and not resolved, a  *)
(* request asked again once, and while it is the last thing said the       *)
(* session awaits input; every answer to Codex finds its request.          *)
Since(turn, is, ends) ==
    {turn[i].id : i \in {k \in DOMAIN turn : turn[k].is = is /\ \A l \in (k + 1)..Len(turn) : ~(turn[l].is = ends /\ turn[l].id = turn[k].id)}}
IdIn(source, id) == IF source = "hooks" THEN HookApproval(Thread, id, 0) ELSE RpcApproval(Thread, Rid(id))
InboxIsOpenRequests(source, turn) ==
    LET s == Heard(source, Told(source, turn))
    IN  /\ ToSet(s.inbox) = {IdIn(source, id) : id \in Since(Telling(source, turn), "ask", "resolved")}
        /\ Cardinality(ToSet(s.inbox)) = Len(s.inbox)
        /\ turn # <<>> /\ Last(turn).is = "ask" /\ Tells(source, Last(turn)) => s.state = "awaiting_input"
RoutesBack(thread, rpc) == RpcIdOf(RpcApproval(thread, rpc)) = <<rpc>>

(* A turn that is over leaves no session that looks busy.                  *)
FinishedIsIdle(source, turn) ==
    turn # <<>> /\ Last(turn).is = "finish" /\ Last(turn).ok => Heard(source, Told(source, turn)).state = "idle"

(* Promises TLC refutes. *)
(* docs/03 section 2, AgentState: so does one that failed,                 *)
FailedIsIdle(source, turn) == turn # <<>> /\ Last(turn).is = "finish" => Heard(source, Told(source, turn)).state = "idle"
(* and a session shows as running a tool while one of its calls is open.   *)
RunningIsShown(source, turn) ==
    (/\ turn # <<>> /\ Last(turn).is \in {"start", "end"}
     /\ \A i \in DOMAIN turn : turn[i].is = "end" => \E j \in 1..(i - 1) : turn[j].is = "start" /\ turn[j].id = turn[i].id
     /\ Since(turn, "start", "end") # {})
        => Heard(source, Told(source, turn)).state = "tool_running"
=============================================================================
