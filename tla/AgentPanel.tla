----------------------------- MODULE AgentPanel -----------------------------
(***************************************************************************)
(* The conversation panel of a pane of the app and the questions it asks   *)
(* the daemon: AgentConversation.swift and PaneController+Agent.swift over *)
(* ask_streaming (vtermd/src/ai.rs) and the loop of agent_mode.rs.         *)
(*                                                                         *)
(* A question is a call on one connection, whose reply names the request;  *)
(* what becomes of it comes as broadcasts on another, from a thread that   *)
(* starts before the reply is written.  Both end as events of the app's    *)
(* main thread, in either order.                                           *)
(***************************************************************************)
EXTENDS Naturals, Sequences, FiniteSets, SequencesExt

CONSTANTS Questions,  (* requests of the pane, each asked at most once     *)
          NoQuestion, (* conversation.request is nil                       *)
          MaxWords,   (* bound, for each: words of the answer              *)
          MaxToolUse, (* bound, for each: commands it asks for             *)
          MaxWire,    (* bound: broadcasts on their way                    *)
          MaxExplains (* bound: presses of "explain" with nothing failed   *)

ASSUME AgentPanelAssumption ==
    /\ NoQuestion \notin Questions
    /\ MaxWords \in [Questions -> Nat] /\ MaxToolUse \in [Questions -> Nat]
    /\ MaxWire \in Nat \ {0} /\ MaxExplains \in Nat

VARIABLES
    turns,    (* AgentConversation.turns                                   *)
    request,  (* AgentConversation.request                                 *)
    reply,    (* of ai.ask: "unasked", "asked", "named", "refused", "in"   *)
    run,      (* its thread: "none", "running", "calling", "ended"         *)
    said,     (* the words it has broadcast                                *)
    uses,     (* how many commands it has asked for                         *)
    wire,     (* broadcasts on their way to the main thread                *)
    explains,
    row       (* what was applied since the last question; history         *)

daemonVars == <<run, said, uses>>
panelVars == <<turns, request, reply, daemonVars, wire, explains, row>>

Ends == {"done", "error"}
Statuses == {"waiting", "done", "denied"}

-----------------------------------------------------------------------------
(* The turns of a conversation, and what each method makes of them. *)

User(q)      == [is |-> "user", of |-> q]
Spoken(ws)   == [is |-> "text", words |-> ws]
Tool(c)      == [is |-> "tool", call |-> c, status |-> "waiting"]
Thought      == [is |-> "thought"]
Thinking     == [is |-> "thinking"]
Streaming(ws) == [is |-> "streaming", words |-> ws]
Answer(ws, whole, split) == [is |-> "answer", words |-> ws, transcript |-> whole, split |-> split]
Failure      == [is |-> "failure"]

LastTurn(ts) == ts[Len(ts)]
Before(ts) == SubSeq(ts, 1, Len(ts) - 1)
InFlight(ts) == ts # <<>> /\ LastTurn(ts).is \in {"thinking", "streaming"}
Partial(ts) == IF LastTurn(ts).is = "streaming" THEN LastTurn(ts).words ELSE <<>>
Worded(ws) == FlattenSeq([i \in DOMAIN ws |-> IF ws[i].blank THEN <<>> ELSE <<ws[i]>>])

Asking(ts, q) == ts \o <<User(q), Thinking>>

AppendDelta(ts, w) == IF InFlight(ts) THEN Append(Before(ts), Streaming(Append(Partial(ts), w))) ELSE ts

\* Mutant: the row that streams is removed like the one that thinks.
ToolRequestDropping(ts, c) == IF ~InFlight(ts) THEN ts ELSE Before(ts) \o <<Tool(c), Thinking>>

(* What was streamed stays as a segment, unless it is blank. *)
ToolRequest(ts, c) ==
    IF ~InFlight(ts) THEN ts
    ELSE Before(ts) \o (IF Worded(Partial(ts)) = <<>> THEN <<>> ELSE <<Spoken(Partial(ts))>>) \o <<Tool(c), Thinking>>

ToolTurns(ts, c) == {i \in DOMAIN ts : ts[i].is = "tool" /\ ts[i].call = c}
ToolResult(ts, c, status) ==
    IF ToolTurns(ts, c) = {} THEN ts
    ELSE [ts EXCEPT ![CHOOSE i \in ToolTurns(ts, c) : \A j \in ToolTurns(ts, c) : j <= i].status = status]

Questioned(ts) == {i \in DOMAIN ts : ts[i].is = "user"}
Since(ts) == IF Questioned(ts) = {} THEN ts
             ELSE SubSeq(ts, 1 + CHOOSE i \in Questioned(ts) : \A j \in Questioned(ts) : j <= i, Len(ts))
HasToolTurnsInFlight(ts) == \E i \in DOMAIN Since(ts) : Since(ts)[i].is = "tool"

ReplaceThinking(ts, turn) == IF InFlight(ts) THEN Append(Before(ts), turn) ELSE Append(ts, turn)

\* Mutant: of an answer with commands only its last segment is kept.
AnswerTurnsShort(ts, ws, slow) ==
    LET shown == IF HasToolTurnsInFlight(ts) THEN Partial(ts) ELSE ws
    IN ReplaceThinking(ts, Answer(shown, shown, HasToolTurnsInFlight(ts)))

(* An answer that took a second has a thought above it, and one with       *)
(* commands in it shows only its last segment.                             *)
AnswerTurns(ts, ws, slow) ==
    LET thought == IF slow /\ LastTurn(ts).is = "thinking" THEN Append(Before(ts), Thought) \o <<Thinking>> ELSE ts
        split == HasToolTurnsInFlight(ts)
        shown == IF split THEN Partial(ts) ELSE ws
    IN ReplaceThinking(thought, Answer(shown, ws, split))

(* A question counts once it has its answer. *)
Settles == {"user", "answer", "thinking", "streaming", "failure"}
Pending(i) == \E j \in 1..(i - 1) : turns[j].is = "user" /\ \A k \in (j + 1)..(i - 1) : turns[k].is \notin Settles
QuestionOf(i) == turns[CHOOSE j \in 1..(i - 1) : turns[j].is = "user" /\ \A k \in (j + 1)..(i - 1) : turns[k].is # "user"].of
Counted == {i \in DOMAIN turns : turns[i].is = "answer" /\ Pending(i)}
\* In the order of the turns, and numbered as they are.
History == [i \in Counted |-> [question |-> QuestionOf(i), answer |-> turns[i].transcript]]

-----------------------------------------------------------------------------
PanelInit ==
    /\ turns = <<>> /\ request = NoQuestion
    /\ reply = [q \in Questions |-> "unasked"]
    /\ run = [q \in Questions |-> "none"]
    /\ said = [q \in Questions |-> <<>>] /\ uses = [q \in Questions |-> 0]
    /\ wire = <<>> /\ explains = 0 /\ row = <<>>

(* PaneController.ask, with the history so far; a beep while one is out. *)
Ask(q) ==
    /\ reply[q] = "unasked" /\ ~InFlight(turns)
    /\ turns' = Asking(turns, q)
    /\ reply' = [reply EXCEPT ![q] = "asked"]
    /\ row' = <<>>
    /\ UNCHANGED <<request, daemonVars, wire, explains>>

(* explainLastFailure where no command has failed. *)
ExplainNothing ==
    /\ explains < MaxExplains /\ explains' = explains + 1
    /\ turns' = ReplaceThinking(turns, Failure) /\ request' = NoQuestion
    /\ UNCHANGED <<reply, daemonVars, wire, row>>

(* The reply of ai.ask, on the main thread. *)
Named(q) ==
    /\ reply[q] = "named" /\ reply' = [reply EXCEPT ![q] = "in"]
    /\ request' = q
    /\ UNCHANGED <<turns, daemonVars, wire, explains, row>>

Refused(q) ==
    /\ reply[q] = "refused" /\ reply' = [reply EXCEPT ![q] = "in"]
    /\ turns' = ReplaceThinking(turns, Failure) /\ request' = NoQuestion
    /\ UNCHANGED <<daemonVars, wire, explains, row>>

\* Mutant: the end of a request leaves its id.
EndsRequestNever(e) == request

EndsRequest(e) == IF e.is \in Ends THEN NoQuestion ELSE request

(* handleAgent(event:). *)
Apply(e) ==
    /\ \/ e.is = "chunk" /\ turns' = AppendDelta(turns, e.word)
       \/ e.is = "tool_request" /\ turns' = ToolRequest(turns, e.call)
       \/ e.is = "tool_result" /\ turns' = ToolResult(turns, e.call, e.status)
       \/ e.is = "done" /\ \E slow \in BOOLEAN : turns' = AnswerTurns(turns, e.words, slow)
       \/ e.is = "error" /\ turns' = ReplaceThinking(turns, Failure)
    /\ request' = EndsRequest(e)
    /\ row' = IF InFlight(turns) \/ e.is = "tool_result" THEN Append(row, e) ELSE row

HearEvent ==
    /\ wire # <<>> /\ wire' = Tail(wire)
    /\ IF Head(wire).of = request THEN Apply(Head(wire)) ELSE UNCHANGED <<turns, request, row>>
    /\ UNCHANGED <<reply, daemonVars, explains>>

-----------------------------------------------------------------------------
(* The daemon: the thread of a request starts before its reply is written. *)

Broadcast(e) == Len(wire) < MaxWire /\ wire' = Append(wire, e)

Accept(q) ==
    /\ reply[q] = "asked"
    /\ \/ reply' = [reply EXCEPT ![q] = "named"] /\ run' = [run EXCEPT ![q] = "running"]
       \/ reply' = [reply EXCEPT ![q] = "refused"] /\ UNCHANGED run
    /\ UNCHANGED <<turns, request, said, uses, wire, explains, row>>

Say(q) ==
    /\ run[q] = "running" /\ Len(said[q]) < MaxWords[q]
    /\ \E b \in BOOLEAN :
           LET w == [of |-> q, n |-> Len(said[q]) + 1, blank |-> b]
           IN said' = [said EXCEPT ![q] = Append(@, w)] /\ Broadcast([is |-> "chunk", of |-> q, word |-> w])
    /\ UNCHANGED <<turns, request, reply, run, uses, explains, row>>

CallTool(q) ==
    /\ run[q] = "running" /\ uses[q] < MaxToolUse[q]
    /\ uses' = [uses EXCEPT ![q] = @ + 1] /\ run' = [run EXCEPT ![q] = "calling"]
    /\ Broadcast([is |-> "tool_request", of |-> q, call |-> <<q, uses[q] + 1>>])
    /\ UNCHANGED <<turns, request, reply, said, explains, row>>

(* The command ran, failed, or was denied in the inbox. *)
ToolEnds(q) ==
    /\ run[q] = "calling" /\ run' = [run EXCEPT ![q] = "running"]
    /\ \E s \in Statuses \ {"waiting"} : Broadcast([is |-> "tool_result", of |-> q, call |-> <<q, uses[q]>>, status |-> s])
    /\ UNCHANGED <<turns, request, reply, said, uses, explains, row>>

(* ai.done carries all of the words, whichever segments they came in. *)
EndRequest(q) ==
    /\ run[q] = "running" /\ run' = [run EXCEPT ![q] = "ended"]
    /\ \/ Broadcast([is |-> "done", of |-> q, words |-> said[q]])
       \/ Broadcast([is |-> "error", of |-> q])
    /\ UNCHANGED <<turns, request, reply, said, uses, explains, row>>

Works(q) == Say(q) \/ CallTool(q) \/ EndRequest(q)

PanelNext ==
    \/ ExplainNothing \/ HearEvent
    \/ \E q \in Questions : Ask(q) \/ Accept(q) \/ Named(q) \/ Refused(q) \/ Works(q) \/ ToolEnds(q)

PanelSpec == PanelInit /\ [][PanelNext]_panelVars

(* The main thread comes round to what is posted to it, the daemon serves  *)
(* a call, and its thread goes on: a provider has a timeout.  A human who  *)
(* is asked about a command need not answer.                               *)
PanelFairness ==
    /\ WF_panelVars(HearEvent)
    /\ \A q \in Questions : WF_panelVars(Accept(q)) /\ WF_panelVars(Named(q) \/ Refused(q)) /\ WF_panelVars(Works(q))

-----------------------------------------------------------------------------
Words == [of : Questions, n : Nat, blank : BOOLEAN]

(* Types of every variable; only the last turn is in flight. *)
PanelTypeOK ==
    /\ \A i \in DOMAIN turns :
           /\ turns[i].is \in {"user", "text", "tool", "thought", "thinking", "streaming", "answer", "failure"}
           /\ turns[i].is \in {"thinking", "streaming"} => i = Len(turns)
    /\ request \in Questions \cup {NoQuestion}
    /\ reply \in [Questions -> {"unasked", "asked", "named", "refused", "in"}]
    /\ run \in [Questions -> {"none", "running", "calling", "ended"}]
    /\ \A q \in Questions : Len(said[q]) <= MaxWords[q] /\ \A i \in DOMAIN said[q] : said[q][i] \in Words
    /\ (\A q \in Questions : uses[q] \in 0..MaxToolUse[q]) /\ explains \in 0..MaxExplains

(* What a list of turns, or of events, comes to: words and commands. *)
Item(x) == IF x.is \in {"text", "streaming", "answer"} THEN Worded(x.words)
           ELSE IF x.is = "chunk" THEN Worded(<<x.word>>)
           ELSE IF x.is \in {"tool", "tool_request"} THEN <<x.call>>
           ELSE <<>>
Items(xs) == FlattenSeq([i \in DOMAIN xs |-> Item(xs[i])])

Failed(ts) == \E i \in DOMAIN ts : ts[i].is = "failure"
ResultsIn(es, c) == {i \in DOMAIN es : es[i].is = "tool_result" /\ es[i].call = c}

(* docs/06: "Text before a command stays in place as a segment".  While an *)
(* answer comes in, and after it if it had commands, the panel shows the   *)
(* words and the commands it heard of in their order, each command with    *)
(* its result.                                                             *)
ShownInPlace ==
    turns # <<>> /\ (InFlight(turns) \/ (LastTurn(turns).is = "answer" /\ LastTurn(turns).split)) /\ ~Failed(Since(turns)) =>
        /\ Items(Since(turns)) = Items(row)
        /\ \A i \in DOMAIN Since(turns) :
               LET t == Since(turns)[i]
               IN t.is = "tool" => \/ t.status = "waiting" /\ ResultsIn(row, t.call) = {}
                                   \/ \E j \in ResultsIn(row, t.call) : row[j].status = t.status

(* AgentConversation.swift: "a refused or in-flight prompt is never resent" *)
(* and what is resent of an answer is all of it, every answer once.        *)
HistoryIsWhole ==
    /\ \A n \in DOMAIN History : \E q \in Questions : run[q] = "ended" /\ History[n].answer = said[q]
    /\ \A m, n \in DOMAIN History : m # n => History[m].question # History[n].question
    /\ \A n \in DOMAIN History : \A i \in DOMAIN turns :
           turns[i] = User(History[n].question) => \E j \in (i + 1)..Len(turns) : turns[j].is = "answer"

(* The panel shows what it heard of, in order.                             *)
PanelIsTrue == PanelTypeOK /\ ShownInPlace

EndComes(q) == run[q] # "ended" \/ \E i \in DOMAIN wire : wire[i].of = q /\ wire[i].is \in Ends

(* A request the panel listens to, and whose end has not gone by, comes to *)
(* its end there, unless it waits for a human.                             *)
HeardOut == \A q \in Questions : (request = q /\ EndComes(q)) ~> (request # q \/ run[q] = "calling")

-----------------------------------------------------------------------------
(* Promises of the code and the documentation that the code breaks. *)

(* docs/06: the panel "ignores events for any other request id"; those of  *)
(* its own that come before the reply are ignored as well, the end with    *)
(* them, and the row thinks for ever.                                      *)
ThinkingEnds == InFlight(turns) ~> (~InFlight(turns) \/ \E q \in Questions : run[q] = "calling")

(* PaneController+Agent.swift: "One request per pane at a time." *)
OneAtATime == Cardinality({q \in Questions : run[q] \in {"running", "calling"}}) <= 1

(* A question is resent with its own answer. *)
AnswersBelong == \A n \in DOMAIN History : History[n].answer = said[History[n].question]
=============================================================================
