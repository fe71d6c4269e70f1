------------------------------ MODULE Outgoing ------------------------------
(***************************************************************************)
(* What a request to a provider carries of a session: the context that     *)
(* ai.rs puts together from the last commands, the output of a command     *)
(* that agent_mode.rs hands back to the model, and the redaction of every  *)
(* part, without which nothing is sent.                                    *)
(***************************************************************************)
EXTENDS Redaction

CONSTANTS MaxLines,     (* lines of a command's output in the context: 40  *)
          LastCommands  (* commands in the context: 3                      *)

Lines(out) == FoldLeftDomain(LAMBDA text, i : text \o (IF i = 1 THEN <<>> ELSE <<"nl">>) \o out[i], <<>>, out)
Tail40(out) == SubSeq(out, IF Len(out) > MaxLines THEN Len(out) - MaxLines + 1 ELSE 1, Len(out))
LastOf(blocks) == SubSeq(blocks, IF Len(blocks) > LastCommands THEN Len(blocks) - LastCommands + 1 ELSE 1, Len(blocks))

(* The bytes of the tokens before the i-th.                                *)
At(text, i) == Bytes(SubSeq(text, 1, i - 1))
Whole(text, bytes) == SubSeq(text, 1, From([i \in DOMAIN text |-> At(text, i + 1)], 1, LAMBDA end : end > bytes) - 1)
Splits(text, bytes) == Bytes(Whole(text, bytes)) < bytes
TokenAt(text, bytes) == text[Len(Whole(text, bytes)) + 1]

(* String::truncate panics inside a character; of any other token what is  *)
(* left is a part.                                                         *)
Panics(text, bytes) == Bytes(text) > bytes /\ Splits(text, bytes) /\ TokenAt(text, bytes) = "wide"
Truncated(text, bytes) ==
    IF Bytes(text) <= bytes THEN text
    ELSE Whole(text, bytes) \o (IF Splits(text, bytes) THEN <<"cut">> ELSE <<>>) \o <<"nl", "[context truncated]">>

(* context: a command after one that is already too long is left out.      *)
Shown(b) == <<"nl">> \o b.cmdline \o <<"nl">> \o Lines(Tail40(b.out)) \o <<"nl", "[exit]">>
Gathered(blocks, maxBytes) ==
    FoldLeft(LAMBDA text, b : IF Bytes(text) > maxBytes THEN text ELSE text \o Shown(b), <<"[cwd]">>, LastOf(blocks))
Context(blocks, maxBytes) == Truncated(Gathered(blocks, maxBytes), maxBytes)

(* execute: the end of a long output, from the next whole character on.    *)
TrimEnd(text) == SubSeq(text, 1, SelectLastInSeq(text, LAMBDA tok : tok \notin Blank))
Clipped(output, maxBytes) ==
    LET text == TrimEnd(output)
        cut  == Bytes(text) - maxBytes
        rest == SubSeq(text, Len(Whole(text, cut)) + (IF Splits(text, cut) THEN 2 ELSE 1), Len(text))
    IN IF Bytes(text) <= maxBytes THEN text
       ELSE <<"[truncated]", "nl">> \o (IF Splits(text, cut) /\ TokenAt(text, cut) # "wide" THEN <<"cut">> ELSE <<>>) \o rest
HandedBack(output, maxBytes, rules) == RedactWithin(Clipped(output, maxBytes), rules)

(* prepare: a part that cannot be redacted in time refuses them all.       *)
Together(parts) ==
    IF \E i \in DOMAIN parts : parts[i].is = "refused" THEN Refused
    ELSE [is |-> "clean", text |-> [i \in DOMAIN parts |-> parts[i].text]]
Prepare(blocks, maxBytes, prompt, history, rules) ==
    Together([i \in 1..(2 + Len(history)) |-> RedactWithin((<<Context(blocks, maxBytes), prompt>> \o history)[i], rules)])

-----------------------------------------------------------------------------
Block(cmdline, out) == [cmdline |-> cmdline, out |-> out]
Leaks(text) == ToSet(text) \cap Secrets
(* Of a refused request there is no text.                                  *)
NoneIn(sent) == \A i \in DOMAIN sent.text : Leaks(sent.text[i]) = {}

(* What was not cut leaves without a secret in it, in every part or not at *)
(* all; and a part that is cut is no longer than it may be.                *)
NothingInTheOpen(blocks, maxBytes, prompt, history, rules) ==
    /\ Bytes(Context(blocks, maxBytes)) <= maxBytes + Width("nl") + Width("[context truncated]")
    /\ Bytes(Gathered(blocks, maxBytes)) <= maxBytes /\ (\A i \in DOMAIN blocks : Len(blocks[i].out) <= MaxLines) =>
           NoneIn(Prepare(blocks, maxBytes, prompt, history, rules))
    /\ Bytes(prompt) <= maxBytes => Leaks(HandedBack(prompt, maxBytes, rules).text) = {}

-----------------------------------------------------------------------------
(* Promises of the documentation that the code breaks. *)

(* The context of a session whose output is not ASCII is put together.     *)
ContextIsBuilt(blocks, maxBytes) == ~Panics(Gathered(blocks, maxBytes), maxBytes)

(* PaneController+Agent.swift: "the daemon's context already carries the   *)
(* last blocks"; the last is the first to be left out.                     *)
LastIsTold(blocks, maxBytes) ==
    blocks # <<>> => \E i \in DOMAIN Context(blocks, maxBytes) : IsPrefix(Last(blocks).cmdline, SubSeq(Context(blocks, maxBytes), i, Len(Context(blocks, maxBytes))))

(* docs/05: "everything up to END is redacted regardless of chunking": a   *)
(* secret whose beginning or end is cut off before redaction is none.      *)
CutSecretsGone(output, maxBytes) == Leaks(HandedBack(output, maxBytes, Len(Rules)).text) = {}
=============================================================================
