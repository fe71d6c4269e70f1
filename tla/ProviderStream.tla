--------------------------- MODULE ProviderStream ---------------------------
(***************************************************************************)
(* vt-ai/src: how a provider's answer is read from its server-sent events  *)
(* (sse.rs, anthropic.rs, openai.rs, Assembler of provider.rs).  A text is *)
(* a sequence of pieces; an event's data is one JSON value, or two lines   *)
(* that are the halves of one.                                             *)
(***************************************************************************)
EXTENDS Naturals, Sequences, SequencesExt

None == "none"
NoUsage == [input |-> 0, output |-> 0, cacheRead |-> 0]

-----------------------------------------------------------------------------
(* sse.rs.  A line: "event", "data", "blank", "other", or "broken", where  *)
(* the read fails.                                                         *)
Line(field, of) == [field |-> field, of |-> of]
Whole(v) == [part |-> "whole", v |-> v]
Half(n, v) == [part |-> IF n = 1 THEN "first" ELSE "second", v |-> v]

Dispatch(e) == [name |-> "", data |-> <<>>, out |-> Append(e.out, [name |-> e.name, data |-> e.data])]
EventLine(e, line) ==
    CASE line.field = "blank" -> IF e.data = <<>> /\ e.name = "" THEN e ELSE Dispatch(e)
      [] line.field = "event" -> [e EXCEPT !.name = line.of]
      [] line.field = "data" -> [e EXCEPT !.data = Append(@, line.of)]
      [] line.field = "broken" -> Dispatch([e EXCEPT !.name = "broken"])
      [] OTHER -> e
Events(lines) ==
    LET e == FoldLeft(EventLine, [name |-> "", data |-> <<>>, out |-> <<>>], lines)
    IN  IF e.data = <<>> THEN e.out ELSE Dispatch(e).out

(* serde_json::from_str of the data lines, joined. *)
Readable(data) ==
    \/ Len(data) = 1 /\ data[1].part = "whole"
    \/ Len(data) = 2 /\ data[1].part = "first" /\ data[2].part = "second"

-----------------------------------------------------------------------------
(* provider.rs: Chunk and Assembler.                                       *)
TextDelta(t) == [is |-> "text", text |-> t]
ToolUseStart(id, name) == [is |-> "start", id |-> id, name |-> name]
ToolInputDelta(id, t) == [is |-> "input", id |-> id, text |-> t]
ThinkingDelta == [is |-> "thinking"]
UsageChunk(u) == [is |-> "usage", usage |-> u]
Done(stop) == [is |-> "done", stop |-> stop]

NothingYet == [text |-> <<>>, calls |-> <<>>, usage |-> NoUsage, stop |-> "end_turn"]
Push(a, c) ==
    CASE c.is = "text" -> [a EXCEPT !.text = @ \o c.text]
      [] c.is = "start" -> [a EXCEPT !.calls = Append(@, [id |-> c.id, name |-> c.name, json |-> <<>>])]
      [] c.is = "input" ->
             LET same == {i \in DOMAIN a.calls : a.calls[i].id = c.id}
             IN  IF same = {} THEN a ELSE [a EXCEPT !.calls[Min(same)].json = @ \o c.text]
      [] c.is = "usage" -> [a EXCEPT !.usage = c.usage]
      [] c.is = "done" -> [a EXCEPT !.stop = c.stop]
      [] OTHER -> a

(* One request being answered: what is assembled, what an adapter keeps    *)
(* between two events, and whether the stream has failed or is over.       *)
Fresh == [asm |-> NothingYet, shown |-> <<>>, usage |-> NoUsage, tool |-> None, ids |-> <<>>,
          finished |-> FALSE, over |-> FALSE, failed |-> FALSE]
Failure(r) == [r EXCEPT !.failed = TRUE]
Deliver(r, c) == [r EXCEPT !.asm = Push(@, c), !.shown = Append(@, c)]
DeliverAll(r, chunks) == FoldLeft(Deliver, r, chunks)

-----------------------------------------------------------------------------
(* anthropic.rs *)
BlockStart(r, v) ==
    CASE v.block = "tool_use" -> Deliver([r EXCEPT !.tool = v.id], ToolUseStart(v.id, v.name))
      [] v.block = "text" /\ v.text # <<>> -> Deliver(r, TextDelta(v.text))
      [] OTHER -> r
BlockDelta(r, v) ==
    CASE v.delta = "text_delta" -> Deliver(r, TextDelta(v.text))
      [] v.delta = "input_json_delta" -> Deliver(r, ToolInputDelta(IF r.tool = None THEN "" ELSE r.tool, v.text))
      [] v.delta = "thinking_delta" -> Deliver(r, ThinkingDelta)
      [] OTHER -> r
MessageDelta(r, v) ==
    LET u == IF v.output = {} THEN r.usage ELSE [r.usage EXCEPT !.output = CHOOSE n \in v.output : TRUE]
        s == Deliver([r EXCEPT !.usage = u], UsageChunk(u))
    IN  IF v.stop = None THEN s ELSE Deliver(s, Done(v.stop))

AnthropicValue(r, v) ==
    CASE v.type = "message_start" ->
             LET u == [r.usage EXCEPT !.input = v.input, !.cacheRead = v.cacheRead]
             IN  Deliver([r EXCEPT !.usage = u], UsageChunk(u))
      [] v.type = "content_block_start" -> BlockStart(r, v)
      [] v.type = "content_block_delta" -> BlockDelta(r, v)
      [] v.type = "content_block_stop" -> [r EXCEPT !.tool = None]
      [] v.type = "message_delta" -> MessageDelta(r, v)
      [] v.type = "error" -> Failure(r)
      [] OTHER -> r

AnthropicEvent(r, e) ==
    CASE r.failed -> r
      [] ~r.failed /\ e.name = "broken" -> Failure(r)
      [] ~r.failed /\ e.name # "broken" /\ Readable(e.data) -> AnthropicValue(r, e.data[1].v)
      [] OTHER -> IF e.name = "ping" \/ e.data = <<>> THEN r ELSE Failure(r)

-----------------------------------------------------------------------------
(* Mutation: a fragment without an id belongs to the call named last. *)
CallChunksByLast(r, call) ==
    LET named == IF call.id = None THEN r ELSE Deliver([r EXCEPT !.ids = Append(@, call.id)], ToolUseStart(call.id, call.name))
    IN  IF call.text = <<>> THEN named ELSE Deliver(named, ToolInputDelta(IF named.ids = <<>> THEN "" ELSE Last(named.ids), call.text))
(* openai.rs.  A call is named by its index after its first fragment.      *)
CallChunks(r, call) ==
    LET grown == [i \in 1..(IF Len(r.ids) > call.index THEN Len(r.ids) ELSE call.index) |->
                      IF i = call.index /\ call.id # None THEN call.id ELSE IF i \in DOMAIN r.ids THEN r.ids[i] ELSE ""]
        named == IF call.id = None THEN r ELSE Deliver([r EXCEPT !.ids = grown], ToolUseStart(call.id, call.name))
    IN  IF call.text = <<>> THEN named
        ELSE Deliver(named, ToolInputDelta(IF call.index \in DOMAIN named.ids THEN named.ids[call.index] ELSE "", call.text))

StopOf(reason) == CASE reason = "stop" -> "end_turn" [] reason = "length" -> "max_tokens" [] reason = "tool_calls" -> "tool_use" [] OTHER -> reason

ChoiceChunks(r, choice) ==
    LET texted == IF choice.text = <<>> THEN r ELSE Deliver(r, TextDelta(choice.text))
        called == FoldLeft(CallChunks, texted, choice.calls)
    IN  IF choice.finish = None THEN called ELSE [Deliver(called, Done(StopOf(choice.finish))) EXCEPT !.finished = TRUE]

OpenAiValue(r, v) ==
    LET used == IF v.usage = NoUsage THEN r
                ELSE Deliver([r EXCEPT !.usage = [@ EXCEPT !.input = v.usage.input, !.output = v.usage.output]],
                             UsageChunk([r.usage EXCEPT !.input = v.usage.input, !.output = v.usage.output]))
    IN  IF v.type = "error" THEN Failure(r) ELSE IF v.choices = <<>> THEN used ELSE ChoiceChunks(used, v.choices[1])

OpenAiEvent(r, e) ==
    CASE r.failed \/ r.over -> r
      [] ~r.failed /\ ~r.over /\ e.name = "broken" -> Failure(r)
      [] ~r.failed /\ ~r.over /\ e.name # "broken" /\ Readable(e.data) ->
             IF e.data[1].v.type = "[DONE]" THEN [r EXCEPT !.over = TRUE] ELSE OpenAiValue(r, e.data[1].v)
      [] OTHER -> Failure(r)

Anthropic(lines) == FoldLeft(AnthropicEvent, Fresh, Events(lines))
OpenAi(lines) ==
    LET r == FoldLeft(OpenAiEvent, Fresh, Events(lines))
    IN  IF r.failed \/ r.finished THEN r ELSE Deliver(r, Done("end_turn"))

-----------------------------------------------------------------------------
(* An answer as it is meant, and how each kind of server writes it.        *)
Text(pieces) == [is |-> "text", id |-> None, pieces |-> pieces]
Thought == [is |-> "thinking", id |-> None, pieces |-> << <<"t">> >>]
Call(id, pieces) == [is |-> "call", id |-> id, pieces |-> pieces]
Answer(blocks, stop, output) == [blocks |-> blocks, stop |-> stop, output |-> output]

Calls(blocks) == SelectSeq(blocks, LAMBDA b : b.is = "call")
Meant(answer) ==
    [text |-> FlattenSeq(FlattenSeq([i \in DOMAIN answer.blocks |-> IF answer.blocks[i].is = "text" THEN answer.blocks[i].pieces ELSE <<>>])),
     calls |-> [i \in DOMAIN Calls(answer.blocks) |->
                    [id |-> Calls(answer.blocks)[i].id, name |-> "tool", json |-> FlattenSeq(Calls(answer.blocks)[i].pieces)]],
     usage |-> [input |-> 3, output |-> answer.output, cacheRead |-> 0], stop |-> answer.stop]

Data(name, v) == <<Line("event", name), Line("data", Whole(v)), Line("blank", "")>>
Split(name, v) == <<Line("other", ": comment"), Line("data", Half(1, v)), Line("event", name), Line("data", Half(2, v)), Line("blank", "")>>
Ping == Data("ping", [type |-> "ping"])

DeltaOf(b, piece) ==
    Split("delta", [type |-> "content_block_delta", text |-> piece,
                    delta |-> CASE b.is = "text" -> "text_delta" [] b.is = "call" -> "input_json_delta" [] OTHER -> "thinking_delta"])
AnthropicBlock(b) ==
    Data("start", [type |-> "content_block_start", block |-> IF b.is = "call" THEN "tool_use" ELSE b.is, id |-> b.id, name |-> "tool", text |-> <<>>])
        \o Ping \o FlattenSeq([i \in DOMAIN b.pieces |-> DeltaOf(b, b.pieces[i])]) \o Data("stop", [type |-> "content_block_stop"])
AsAnthropic(answer) ==
    Data("message", [type |-> "message_start", input |-> 3, cacheRead |-> 0])
        \o FlattenSeq([i \in DOMAIN answer.blocks |-> AnthropicBlock(answer.blocks[i])])
        \o Data("delta", [type |-> "message_delta", output |-> {answer.output}, stop |-> answer.stop])
        \o Data("message_stop", [type |-> "message_stop"])

Choice(text, calls, finish) == [text |-> text, calls |-> calls, finish |-> finish]
Reply(choices, usage) == [type |-> "chunk", choices |-> choices, usage |-> usage]
CallPart(index, id, text) == [index |-> index, id |-> id, name |-> "tool", text |-> text]
OpenAiBlock(blocks, i) ==
    LET b == blocks[i]
        index == Len(Calls(SubSeq(blocks, 1, i)))
        Part(choice) == Data("", Reply(<<choice>>, NoUsage))
    IN  CASE b.is = "text" -> FlattenSeq([k \in DOMAIN b.pieces |-> Part(Choice(b.pieces[k], <<>>, None))])
          [] b.is = "call" -> Part(Choice(<<>>, <<CallPart(index, b.id, <<>>)>>, None))
                                  \o FlattenSeq([k \in DOMAIN b.pieces |-> Part(Choice(<<>>, <<CallPart(index, None, b.pieces[k])>>, None))])
          [] OTHER -> <<>>
Reason(stop) == CASE stop = "end_turn" -> "stop" [] stop = "max_tokens" -> "length" [] stop = "tool_use" -> "tool_calls" [] OTHER -> stop
Closing(answer) ==
    Data("", Reply(<<Choice(<<>>, <<>>, Reason(answer.stop))>>, NoUsage))
        \o Data("", Reply(<<>>, [input |-> 3, output |-> answer.output, cacheRead |-> 0])) \o Data("", [type |-> "[DONE]"])
AsOpenAi(answer) == FlattenSeq([i \in DOMAIN answer.blocks |-> OpenAiBlock(answer.blocks, i)]) \o Closing(answer)

(* All calls at once: an event holds the n-th fragment of each.            *)
Fragments(calls, n) ==
    SelectSeq([i \in DOMAIN calls |-> IF n = 0 THEN CallPart(i, calls[i].id, <<>>)
                                      ELSE CallPart(i, None, IF n \in DOMAIN calls[i].pieces THEN calls[i].pieces[n] ELSE <<>>)],
              LAMBDA part : part.id # None \/ part.text # <<>>)
MaxPieces == 2
AsOpenAiAtOnce(answer) ==
    LET blocks == answer.blocks
        said == SelectSeq(blocks, LAMBDA b : b.is # "call")
    IN  FlattenSeq([i \in DOMAIN said |-> OpenAiBlock(said, i)])
            \o FlattenSeq([n \in 1..(MaxPieces + 1) |-> Data("", Reply(<<Choice(<<>>, Fragments(Calls(blocks), n - 1), None)>>, NoUsage))])
            \o Closing(answer)

(* docs/04, "Normalise all three shapes into one internal stream": whoever *)
(* writes it, the answer assembled is the answer meant, and the chunks     *)
(* shown while it came are that answer too.                                *)
Assembled(r) == [text |-> r.asm.text, calls |-> r.asm.calls, usage |-> r.asm.usage, stop |-> r.asm.stop]
SameAnswer(answer) ==
    \A r \in {Anthropic(AsAnthropic(answer)), OpenAi(AsOpenAi(answer)), OpenAi(AsOpenAiAtOnce(answer))} :
        ~r.failed /\ Assembled(r) = Meant(answer) /\ FoldLeft(Push, NothingYet, r.shown) = r.asm

(* However the stream is cut, with an error or with an end, what is kept   *)
(* is a beginning of the answer: no text and no call that was not sent, no *)
(* call with another's input.                                              *)
BeginningOf(r, answer) ==
    LET m == Meant(answer)
    IN  /\ IsPrefix(r.asm.text, m.text) /\ Len(r.asm.calls) <= Len(m.calls)
        /\ \A i \in DOMAIN r.asm.calls : r.asm.calls[i].id = m.calls[i].id /\ IsPrefix(r.asm.calls[i].json, m.calls[i].json)
CutIsABeginning(answer, end) ==
    /\ \A n \in 0..Len(AsAnthropic(answer)) : BeginningOf(Anthropic(SubSeq(AsAnthropic(answer), 1, n) \o end), answer)
    /\ \A lines \in {AsOpenAi(answer), AsOpenAiAtOnce(answer)} :
           \A n \in 0..Len(lines) : BeginningOf(OpenAi(SubSeq(lines, 1, n) \o end), answer)
=============================================================================
