------------------------------ MODULE Streams ------------------------------
(***************************************************************************)
(* What reads a session's bytes as they come: the scanner of shell marks   *)
(* (vt-core/src/osc.rs), the detector of terminal modes (vt-agent/src/     *)
(* generic.rs), the reader of agent lines (vtermd/src/observe.rs) and the  *)
(* detach prefix of `vterm attach` (vterm/src/attach.rs).  A byte is a     *)
(* token: the control bytes, the separators, and names for the runs of     *)
(* bytes that are only compared as a whole.  A chunk is what one read      *)
(* gives; where it ends is nobody's choice.                                *)
(***************************************************************************)
EXTENDS Naturals, Sequences, SequencesExt

CONSTANTS MaxPayload,     (* MAX_PAYLOAD of osc.rs *)
          MaxCarry,       (* bytes on_output looks back over: 12           *)
          MaxLine         (* MAX_LINE of observe.rs                        *)

None == "none"
Drop(s, n) == SubSeq(s, n + 1, Len(s))

-----------------------------------------------------------------------------
(* osc.rs: split_once, rsplit_once and split at ";".                       *)
Fields(s) == FoldLeft(LAMBDA out, b : IF b = ";" THEN Append(out, <<>>) ELSE Append(Front(out), Append(Last(out), b)), << <<>> >>, s)
Joined(fields) == FoldLeft(LAMBDA out, f : IF out = <<>> THEN f ELSE out \o <<";">> \o f, Head(fields), Tail(fields))
First(fields) == IF fields = <<>> THEN <<>> ELSE fields[1]

(* An escape is one token here: `\` alone never begins one. *)
Escapes == {"x3b", "x5c", "x0a"}
Unescaped(b) == CASE b = "x3b" -> ";" [] b = "x5c" -> "\\" [] b = "x0a" -> "nl" [] OTHER -> b
Unescape(s) == [i \in DOMAIN s |-> Unescaped(s[i])]
Escaped(b) == CASE b = ";" -> "x3b" [] b = "\\" -> "x5c" [] b = "nl" -> "x0a" [] OTHER -> b
Escape(s) == [i \in DOMAIN s |-> Escaped(s[i])]

Mark(is, of, nonce) == [is |-> is, of |-> of, nonce |-> nonce]
Params(fields) == SelectSeq(fields, LAMBDA f : f # <<>>)
Exit(fields) == IF First(fields) \in {<<"0">>, <<"2">>} THEN First(fields) ELSE <<>>
CommandLine(fields) ==
    IF Len(fields) > 1 /\ Last(fields) # <<>> /\ \A i \in DOMAIN Last(fields) : Last(fields)[i] \notin {"\\"} \cup Escapes
    THEN Mark("E", Unescape(Joined(Front(fields))), Last(fields))
    ELSE Mark("E", IF fields = <<>> THEN <<>> ELSE Unescape(Joined(fields)), <<>>)

(* parse, parse_133 and parse_633: <<>> for an OSC that is no mark.        *)
Parse(payload) ==
    LET fields == Fields(payload)
        kind == fields[1]
        rest == Tail(fields)
        code == First(rest)
        tail == IF rest = <<>> THEN <<>> ELSE Tail(rest)
        Is133 == kind = <<"133">>
    IN  CASE kind \notin {<<"133">>, <<"633">>} -> <<>>
          [] kind \in {<<"133">>, <<"633">>} /\ code \in {<<"A">>, <<"P">>} ->
                 << Mark("A", IF Is133 \/ code = <<"P">> THEN Params(tail) ELSE <<>>, <<>>) >>
          [] kind \in {<<"133">>, <<"633">>} /\ code \in {<<"B">>, <<"C">>} -> << Mark(code[1], <<>>, <<>>) >>
          [] kind \in {<<"133">>, <<"633">>} /\ code = <<"D">> -> << Mark("D", Exit(tail), <<>>) >>
          [] kind = <<"633">> /\ code = <<"E">> -> << CommandLine(tail) >>
          [] OTHER -> << Mark("malformed", IF rest = <<>> THEN <<>> ELSE Joined(rest), <<>>) >>

Scanner == [state |-> "ground", payload |-> <<>>, seen |-> 0, marks |-> <<>>]
Opened(sc) == [sc EXCEPT !.state = "osc", !.payload = <<>>]
Finish(sc) ==
    [sc EXCEPT !.state = "ground", !.payload = <<>>,
               !.marks = @ \o [i \in DOMAIN Parse(sc.payload) |-> [at |-> sc.seen, mark |-> Parse(sc.payload)[i]]]]
Scan1(before, b) ==
    LET sc == [before EXCEPT !.seen = @ + 1]
    IN  CASE sc.state = "ground" -> IF b = "esc" THEN [sc EXCEPT !.state = "escape"] ELSE sc
          [] sc.state = "escape" -> IF b = "]" THEN Opened(sc) ELSE [sc EXCEPT !.state = "ground"]
          [] sc.state = "osc" /\ b = "bel" -> Finish(sc)
          [] sc.state = "osc" /\ b = "esc" -> [sc EXCEPT !.state = "oscEscape"]
          [] sc.state = "osc" /\ b \notin {"bel", "esc"} ->
                 IF Len(sc.payload) < MaxPayload THEN [sc EXCEPT !.payload = Append(@, b)] ELSE [sc EXCEPT !.state = "ground"]
          [] sc.state = "oscEscape" /\ b = "\\" -> Finish(sc)
          [] OTHER -> IF b = "]" THEN Opened(sc) ELSE [sc EXCEPT !.state = "ground"]
(* scan of one chunk: the marks' places are those of the whole stream, as  *)
(* the session thread adds them up.                                        *)
ScanChunk(sc, chunk) == FoldLeft(Scan1, sc, chunk)
Scan(chunks) == FoldLeft(ScanChunk, Scanner, chunks)

-----------------------------------------------------------------------------
(* generic.rs.  A mode sequence is the bytes esc [ name, in two or three   *)
(* tokens: what matters is that a chunk may end inside it.                 *)
ModeSequences == [altOn |-> <<"esc", "[", "?1049", "h">>, altOff |-> <<"esc", "[", "?1049", "l">>, oldAltOn |-> <<"esc", "[", "?47", "h">>,
                  pasteOn |-> <<"esc", "[", "?2004", "h">>, pasteOff |-> <<"esc", "[", "?2004", "l">>,
                  kittyOn |-> <<"esc", "[", ">1u">>, kittyOff |-> <<"esc", "[", "<u">>]
ModeOf(name) == CASE name \in {"altOn", "altOff", "oldAltOn"} -> "alt" [] name \in {"pasteOn", "pasteOff"} -> "paste" [] OTHER -> "kitty"
TurnsOn(name) == name \in {"altOn", "oldAltOn", "pasteOn", "kittyOn"}

Detector == [modes |-> [m \in {"alt", "paste", "kitty"} |-> FALSE], carry |-> <<>>, told |-> <<>>]
SetMode(d, name) ==
    IF d.modes[ModeOf(name)] = TurnsOn(name) THEN d
    ELSE [d EXCEPT !.modes[ModeOf(name)] = TurnsOn(name), !.told = Append(@, <<ModeOf(name), TurnsOn(name)>>)]
Starting(buf) == {name \in DOMAIN ModeSequences : IsPrefix(ModeSequences[name], buf)}

RECURSIVE Modes(_, _)
Modes(d, buf) ==
    IF buf = <<>> THEN d
    ELSE IF Starting(buf) = {} THEN Modes(d, Tail(buf))
    ELSE LET name == CHOOSE n \in Starting(buf) : TRUE IN Modes(SetMode(d, name), Drop(buf, Len(ModeSequences[name])))

(* What is kept starts at the last escape of the last MaxCarry bytes.      *)
LastEscape(buf) == {i \in DOMAIN buf : buf[i] = "esc" /\ i > Len(buf) - MaxCarry /\ \A j \in (i + 1)..Len(buf) : buf[j] # "esc"}

(* Mutation: nothing is kept for the next chunk. *)
OnOutputForgetting(d, chunk) == Modes(d, chunk)
OnOutput(d, chunk) ==
    LET buf == d.carry \o chunk
    IN  [Modes(d, buf) EXCEPT !.carry = IF LastEscape(buf) = {} THEN <<>> ELSE SubSeq(buf, CHOOSE i \in LastEscape(buf) : TRUE, Len(buf))]
Detect(chunks) == FoldLeft(OnOutput, Detector, chunks)

-----------------------------------------------------------------------------
(* observe.rs: whole lines that look like an event are ingested; a line    *)
(* that goes on past MaxLine is forgotten.                                 *)
LineReader == [carry |-> <<>>, lines |-> <<>>]
NewLines(buf) == {i \in DOMAIN buf : buf[i] = "nl"}
RECURSIVE Drain(_)
Drain(r) ==
    IF NewLines(r.carry) = {} THEN r
    ELSE LET nl == CHOOSE i \in NewLines(r.carry) : \A j \in NewLines(r.carry) : i <= j
             line == SubSeq(r.carry, 1, nl - 1)
         IN  Drain([carry |-> Drop(r.carry, nl), lines |-> IF IsPrefix(<<"{type">>, line) THEN Append(r.lines, line) ELSE r.lines])
Observe(r, chunk) ==
    LET drained == Drain([r EXCEPT !.carry = @ \o chunk])
    IN  IF Len(drained.carry) > MaxLine THEN [drained EXCEPT !.carry = <<>>] ELSE drained
Lines(chunks) == FoldLeft(Observe, LineReader, chunks)

-----------------------------------------------------------------------------
(* generic.rs and observe.rs: a quiet screen is read for a guess.  A line  *)
(* of it is the names of the patterns it matches, and whether it asks.     *)
Guess(state, question) == [state |-> state, question |-> question]
Window(tail) == LET used == SelectSeq(tail, LAMBDA l : ~l.blank) IN Drop(used, IF Len(used) > 4 THEN Len(used) - 4 ELSE 0)
Matching(patterns, window) == {i \in DOMAIN patterns : \E k \in DOMAIN window : patterns[i].name \in window[k].matches}
Lowest(window, Test(_)) == LET ks == {k \in DOMAIN window : Test(window[k])} IN CHOOSE k \in ks : \A m \in ks : m <= k
MatchTail(patterns, window) ==
    LET i == CHOOSE j \in Matching(patterns, window) : \A k \in Matching(patterns, window) : j <= k
        line == Lowest(window, LAMBDA l : patterns[i].name \in l.matches)
        asks == \E k \in DOMAIN window : window[k].asks
    IN  IF Matching(patterns, window) = {} \/ patterns[i].kind = "shell" THEN Guess("idle", <<>>)
        ELSE Guess("awaiting_input", <<window[IF asks THEN Lowest(window, LAMBDA l : l.asks) ELSE line]>>)
OnIdle(patterns, tail, mark) == IF mark THEN Guess("idle", <<>>) ELSE MatchTail(patterns, Window(tail))

(* What the session thread tells Agents: "thinking" when output resumes,   *)
(* a guess when it has been quiet; on_activity has forgotten the last one. *)
Heuristic == [flowing |-> FALSE, last |-> <<>>, told |-> <<>>]
Output(h) == IF h.flowing THEN h ELSE [flowing |-> TRUE, last |-> <<>>, told |-> Append(h.told, Guess("thinking", <<>>))]
Quiet(h, guess) ==
    IF ~h.flowing THEN h
    ELSE [flowing |-> FALSE, last |-> <<guess>>, told |-> IF h.last = <<guess>> THEN h.told ELSE Append(h.told, guess)]
Watched(h, event) == IF event.is = "output" THEN Output(h) ELSE Quiet(h, OnIdle(event.patterns, event.tail, event.mark))
Watch(events) == FoldLeft(Watched, Heuristic, events)

-----------------------------------------------------------------------------
(* attach.rs: what is forwarded, and whether the user has left.            *)
Prefix == "ctrl-\\"
Keyboard == [prefix |-> FALSE, sent |-> <<>>, left |-> FALSE]
Key(k, b) ==
    CASE k.left -> k
      [] ~k.left /\ k.prefix /\ b = "d" -> [k EXCEPT !.prefix = FALSE, !.left = TRUE]
      [] ~k.left /\ k.prefix /\ b # "d" -> [k EXCEPT !.prefix = FALSE, !.sent = @ \o <<Prefix, b>>]
      [] ~k.left /\ ~k.prefix /\ b = Prefix -> [k EXCEPT !.prefix = TRUE]
      [] OTHER -> [k EXCEPT !.sent = Append(@, b)]
(* A read that ends in a detach sends nothing of itself.                   *)
Keys(k, chunk) ==
    LET read == FoldLeft(Key, k, chunk)
    IN  IF read.left THEN [read EXCEPT !.sent = k.sent] ELSE read
Typed(chunks) == FoldLeft(Keys, Keyboard, chunks)

-----------------------------------------------------------------------------
(* A stream as it is written: pieces, each with the mark it carries.       *)
Written(bytes, marks) == [bytes |-> bytes, marks |-> marks]
Osc(payload, end, marks) == Written(<<"esc", "]">> \o payload \o end, marks)
Bel == <<"bel">>
St == <<"esc", "\\">>
Prompt(end) == Osc(<<"133", ";", "A", ";", "k=v">>, end, <<Mark("A", << <<"k=v">> >>, <<>>)>>)
Finished(exit, end) == Osc(<<"133", ";", "D">> \o (IF exit = None THEN <<>> ELSE <<";", exit>>), end, <<Mark("D", IF exit = None THEN <<>> ELSE <<exit>>, <<>>)>>)
Line(text, nonce, end) ==
    Osc(<<"633", ";", "E", ";">> \o Escape(text) \o (IF nonce = None THEN <<>> ELSE <<";", nonce>>), end,
        <<Mark("E", text, IF nonce = None THEN <<>> ELSE <<nonce>>)>>)
Title(end) == Osc(<<"0", ";", "t">>, end, <<>>)
Corrupt(end) == Osc(<<"133", ";", "Z">>, end, <<Mark("malformed", <<"Z">>, <<>>)>>)
Aborted == Written(<<"esc", "]", "133", ";", "A", "esc", "x">>, <<>>)
Runaway == Written(<<"esc", "]">> \o [i \in 1..(MaxPayload + 2) |-> "t"] \o <<"bel">>, <<>>)
Plain(b) == Written(<<b>>, <<>>)
Mode(name) == Written(ModeSequences[name], <<>>)

Bytes(pieces) == FlattenSeq([i \in DOMAIN pieces |-> pieces[i].bytes])
MarksOf(pieces) ==
    FlattenSeq([i \in DOMAIN pieces |->
        [j \in DOMAIN pieces[i].marks |-> [at |-> Len(Bytes(SubSeq(pieces, 1, i))), mark |-> pieces[i].marks[j]]]])

(* Every way to read bytes in two chunks, and one byte at a time.          *)
Cut(bytes) == {<<SubSeq(bytes, 1, i), Drop(bytes, i)>> : i \in 0..Len(bytes)} \cup {[i \in DOMAIN bytes |-> <<bytes[i]>>]}

(* osc.rs, "keeps state across `advance` chunks": wherever the reads end,  *)
(* the marks found are the marks written, each just past its terminator;   *)
(* a corrupted one is found too, and a runaway one hides no later mark.    *)
MarksSurviveChunks(pieces) ==
    \A chunks \in Cut(Bytes(pieces)) : Scan(chunks).marks = MarksOf(pieces)

(* generic.rs, "Sequences split across chunks are handled with a small     *)
(* carry": the transitions told and the modes are those of the bytes read  *)
(* at once, although what is carried is read twice.                        *)
ModesSurviveChunks(pieces) ==
    \A chunks \in Cut(Bytes(pieces)) :
        LET d == Detect(chunks) IN d.modes = Modes(Detector, Bytes(pieces)).modes /\ d.told = Modes(Detector, Bytes(pieces)).told

(* observe.rs: so are the lines, as long as none is longer than MaxLine.   *)
LinesSurviveChunks(bytes) == \A chunks \in Cut(bytes) : Lines(chunks).lines = Drain([LineReader EXCEPT !.carry = bytes]).lines

(* attach.rs: what is typed reaches the session as typed, and the prefix   *)
(* is held back only until the next key: wherever the reads end.           *)
KeysSurviveChunks(bytes) ==
    \A chunks \in Cut(bytes) :
        LET k == Typed(chunks)
        IN  /\ k.left = Typed(<<bytes>>).left
            /\ ~k.left => k.sent \o (IF k.prefix THEN <<Prefix>> ELSE <<>>) = bytes
            /\ k.left => IsPrefix(k.sent, bytes)

(* docs/03, generic adapter: what Agents was last told is what the screen  *)
(* was last seen to be, a question only as it stands on it, and a prompt   *)
(* the shell marked is never taken for one.                                *)
GuessIsCurrent(events) ==
    LET last == Last(events)
        told == Last(Watch(events).told)
    IN  Watch(events).told # <<>> =>
            /\ last.is = "output" => told.state = "thinking"
            /\ last.is = "quiet" => told = OnIdle(last.patterns, last.tail, last.mark)
            /\ last.is = "quiet" /\ last.mark => told = Guess("idle", <<>>)
            /\ told.question # <<>> => told.question[1] \in {last.tail[k] : k \in DOMAIN last.tail}

(* Promises TLC refutes. *)
(* osc.rs, "the sequence is aborted and a new escape begins": an escape a  *)
(* program died after does not take the next sequence with it.             *)
LoneEscapeHidesNothing(piece) == MarksSurviveChunks(<<Plain("esc"), piece>>)

(* attach.rs, `vterm attach`: what is typed before the detach is sent.     *)
DetachKeepsInput(bytes) ==
    \A chunks \in Cut(bytes) : Typed(chunks).left => Typed(chunks).sent = Typed([i \in DOMAIN bytes |-> <<bytes[i]>>]).sent
=============================================================================
