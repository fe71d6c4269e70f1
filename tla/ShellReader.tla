----------------------------- MODULE ShellReader -----------------------------
(***************************************************************************)
(* vt-policy/src/shell/parser.rs and mod.rs: lists, pipelines, compound    *)
(* commands, simple commands and redirections, and the walk over every     *)
(* command that may run.  The line is a sequence of tokens: how characters *)
(* make a word is ShellWords.                                              *)
(***************************************************************************)
EXTENDS Naturals, Sequences, SequencesExt, TLC

(* Tokens.  A word that is all literal and not quoted may be reserved; one *)
(* holds the tokens of its substitutions.                                  *)
Token(is, text, plain, subs) == [is |-> is, text |-> text, plain |-> plain, subs |-> subs]
Op(text) == Token("op", text, FALSE, <<>>)
NewLine == Token("nl", "nl", FALSE, <<>>)
Word(text) == Token("word", text, TRUE, <<>>)
QuotedWord(text) == Token("word", text, FALSE, <<>>)
SubstWord(subs) == Token("word", "$", FALSE, subs)
Assignment(subs) == Token("assign", "NAME=", FALSE, subs)
Redirection(text) == Token("redir", text, FALSE, <<>>)
Line(text) == Token("line", text, FALSE, <<>>)      (* of a here-document *)
Ended == Token("end", "end", FALSE, <<>>)

ReservedEnd == {"then", "do", "done", "fi", "else", "elif", "esac", "}", "in"}
MaxDepth == 32

-----------------------------------------------------------------------------
(* A cursor: where it is, the here-documents still to come, how deep the   *)
(* substitution it reads is, and what it has read.  Failed is a ParseError.*)
Failed == 0
Cursor(depth) == [at |-> 1, docs |-> <<>>, depth |-> depth, out |-> <<>>]
Failure(r) == [r EXCEPT !.at = Failed]
Then(r, F(_)) == IF r.at = Failed THEN r ELSE F(r)
Moved(r, n) == [r EXCEPT !.at = @ + n]
Out(r, out) == [r EXCEPT !.out = out]

Peek(s, r) == IF r.at \in DOMAIN s THEN s[r.at] ELSE Ended
PeekAt(s, r, n) == Peek(s, Moved(r, n))
Operator(s, r) == IF Peek(s, r).is = "op" THEN Peek(s, r).text ELSE "none"
Reserved(s, r) == IF Peek(s, r).is = "word" /\ Peek(s, r).plain THEN Peek(s, r).text ELSE "none"

(* The bodies of the here-documents follow the newline.                    *)
RECURSIVE Bodies(_, _)
Bodies(s, r) ==
    CASE r.docs = <<>> -> r
      [] r.docs # <<>> /\ Peek(s, r).is = "end" -> Failure(r)
      [] OTHER -> Bodies(s, [Moved(r, 1) EXCEPT !.docs = IF Peek(s, r).text = Head(@) THEN Tail(@) ELSE @])
Newline(s, r) == Bodies(s, Moved(r, 1))

RECURSIVE SkipBlankLines(_, _)
SkipBlankLines(s, r) ==
    IF r.at # Failed /\ Peek(s, r).is = "nl" THEN SkipBlankLines(s, Newline(s, r)) ELSE r

ExpectWord(s, r, text) ==
    LET b == SkipBlankLines(s, r)
    IN  Then(b, LAMBDA c : IF Reserved(s, c) = text THEN Moved(c, 1) ELSE Failure(c))

-----------------------------------------------------------------------------
RECURSIVE List(_, _, _), PipelineOf(_, _), CommandOf(_, _), Simple(_, _, _), Ifs(_, _), ForWords(_, _), Arms(_, _)

(* A word at the cursor: its substitutions are programs.                   *)
Inner(s, depth) ==
    IF depth > MaxDepth THEN Failure(Cursor(depth))
    ELSE Then(SkipBlankLines(s, List(s, Cursor(depth + 1), {})), LAMBDA r : IF r.at <= Len(s) THEN Failure(r) ELSE r)
WordAt(s, r) ==
    LET subs == [i \in DOMAIN Peek(s, r).subs |-> Inner(Peek(s, r).subs[i], r.depth)]
    IN  IF Peek(s, r).is \notin {"word", "assign"} \/ \E i \in DOMAIN subs : subs[i].at = Failed THEN Failure(r)
        ELSE Out(Moved(r, 1), [text |-> Peek(s, r).text, subs |-> [i \in DOMAIN subs |-> subs[i].out]])

(* A redirection: a here-document's delimiter waits for the newline.       *)
Redirect(s, r) ==
    Then(WordAt(s, Moved(r, 1)), LAMBDA w :
         [w EXCEPT !.docs = IF Peek(s, r).text = "<<" THEN Append(@, w.out.text) ELSE @])
RECURSIVE TrailingRedirects(_, _)
TrailingRedirects(s, r) ==
    IF r.at # Failed /\ Peek(s, r).is = "redir" THEN Out(TrailingRedirects(s, Redirect(s, r)), r.out) ELSE r

Separators == {"&&", "||", ";", "&"}
Closers == {")", ";;", ";&"}

(* Pipelines up to a closer or a reserved word.                            *)
List(s, r, until) ==
    LET b == SkipBlankLines(s, r)
        Next(p) ==
            LET q == Out(p, Append(b.out, p.out))
            IN  CASE Operator(s, q) \in Separators -> List(s, Moved(q, 1), until)
                  [] Peek(s, q).is = "nl" -> Then(Newline(s, q), LAMBDA n : List(s, n, until))
                  [] Operator(s, q) \in Closers \/ Peek(s, q).is = "end" -> List(s, q, until)
                  [] OTHER -> Failure(q)
    IN  IF \/ b.at = Failed \/ Peek(s, b).is = "end" \/ Operator(s, b) \in Closers
           \/ Reserved(s, b) \in until \cup ReservedEnd
        THEN b ELSE Then(PipelineOf(s, Out(b, <<>>)), Next)

PipelineOf(s, r) ==
    LET Next(c) ==
            LET p == Out(c, Append(r.out, c.out))
            IN  IF Operator(s, p) \in {"|", "|&"}
                THEN Then(SkipBlankLines(s, Moved(p, 1)), LAMBDA q : PipelineOf(s, q)) ELSE p
        start == IF r.out = <<>> /\ Reserved(s, r) = "!" THEN Moved(r, 1) ELSE r
    IN  Then(CommandOf(s, Out(start, <<>>)), Next)

(* A compound command is every list it holds: each may run.                *)
Body(program) == [is |-> "body", body |-> program, words |-> <<>>, assignments |-> <<>>, targets |-> <<>>]
Compound(s, r) == Then(TrailingRedirects(s, r), LAMBDA c : Out(c, Body(c.out)))
(* More of a body: what the list holds follows what was there.             *)
More(s, r, until) == List(s, r, until)
Until(s, r, until, word) == Then(More(s, r, until), LAMBDA c : ExpectWord(s, c, word))
FunctionBody(s, r) ==
    Then(SkipBlankLines(s, r), LAMBDA b : Then(CommandOf(s, Out(b, <<>>)), LAMBDA c : Out(c, Body(<< <<c.out>> >>))))

CommandOf(s, r) ==
    LET next == Moved(r, 1)
        word == Reserved(s, r)
    IN  CASE Operator(s, r) = "(" ->
                 Then(SkipBlankLines(s, List(s, [next EXCEPT !.depth = @ + 1], {})), LAMBDA b :
                      IF Operator(s, b) # ")" THEN Failure(b)
                      ELSE Compound(s, [Moved(b, 1) EXCEPT !.depth = r.depth]))
          [] word = "{" -> Then(Until(s, next, {"}"}, "}"), LAMBDA b : Compound(s, b))
          [] word = "if" ->
                 Then(Until(s, next, {"then"}, "then"), LAMBDA c :
                      Then(More(s, c, {"elif", "else", "fi"}), LAMBDA b : Ifs(s, b)))
          [] word \in {"while", "until"} ->
                 Then(Until(s, next, {"do"}, "do"), LAMBDA c :
                      Then(Until(s, c, {"done"}, "done"), LAMBDA b : Compound(s, b)))
          [] word = "for" ->
                 Then(WordAt(s, next), LAMBDA n : Then(SkipBlankLines(s, Out(n, <<>>)), LAMBDA b :
                      Then(IF Reserved(s, b) = "in" THEN ForWords(s, Moved(b, 1))
                           ELSE IF Operator(s, b) = ";" THEN Moved(b, 1) ELSE b, LAMBDA w :
                           Then(ExpectWord(s, w, "do"), LAMBDA d :
                                Then(Until(s, d, {"done"}, "done"), LAMBDA c : Compound(s, c))))))
          [] word = "case" ->
                 Then(WordAt(s, next), LAMBDA n : Then(ExpectWord(s, Out(n, <<>>), "in"), LAMBDA a : Arms(s, a)))
          [] word = "function" -> Then(WordAt(s, next), LAMBDA n : FunctionBody(s, Out(n, <<>>)))
          [] OTHER -> Simple(s, r, Body(<<>>))

(* What follows the first branch of an if. *)
Ifs(s, r) ==
    LET b == SkipBlankLines(s, r)
        word == Reserved(s, b)
    IN  CASE b.at # Failed /\ word = "elif" ->
                 Then(Until(s, Moved(b, 1), {"then"}, "then"), LAMBDA c :
                      Then(More(s, c, {"elif", "else", "fi"}), LAMBDA d : Ifs(s, d)))
          [] b.at # Failed /\ word = "else" -> Then(More(s, Moved(b, 1), {"fi"}), LAMBDA c : Ifs(s, c))
          [] b.at # Failed /\ word = "fi" -> Compound(s, Moved(b, 1))
          [] OTHER -> Failure(b)

RECURSIVE Programs(_)
Programs(subs) == IF subs = <<>> THEN <<>> ELSE Head(subs) \o Programs(Tail(subs))
(* The words of a for: what their substitutions run is of the body.        *)
ForWords(s, r) ==
    CASE Operator(s, r) = ";" -> Moved(r, 1)
      [] Peek(s, r).is \in {"nl", "end"} -> r
      [] OTHER -> Then(WordAt(s, r), LAMBDA w : ForWords(s, Out(w, r.out \o Programs(w.out.subs))))

RECURSIVE Pattern(_, _)
Pattern(s, r) ==
    CASE Operator(s, r) = ")" -> Moved(r, 1)
      [] Operator(s, r) = "|" -> Pattern(s, Moved(r, 1))
      [] OTHER -> Then(WordAt(s, r), LAMBDA w : Pattern(s, Out(w, r.out)))
Arms(s, r) ==
    LET b == SkipBlankLines(s, r)
        open == IF Operator(s, b) = "(" THEN Moved(b, 1) ELSE b
    IN  CASE b.at = Failed -> b
          [] b.at # Failed /\ Reserved(s, b) = "esac" -> Compound(s, Moved(b, 1))
          [] OTHER ->
                 Then(Pattern(s, open), LAMBDA p :
                      Then(SkipBlankLines(s, More(s, p, {"esac"})), LAMBDA c :
                           Arms(s, IF Operator(s, c) \in {";;", ";&"} THEN Moved(c, 1) ELSE c)))

(* Assignments, words and redirections, up to what is none of them.        *)
Simple(s, r, cmd) ==
    LET nothing == cmd.words = <<>> /\ cmd.assignments = <<>>
        done == IF nothing /\ cmd.targets = <<>> THEN Failure(r) ELSE Out(r, [cmd EXCEPT !.is = "simple"])
        Assigned(w) == Simple(s, w, [cmd EXCEPT !.assignments = Append(@, w.out)])
        Pushed(w) == Simple(s, w, [cmd EXCEPT !.words = Append(@, w.out)])
        Redirected(w) == Simple(s, w, [cmd EXCEPT !.targets = Append(@, w.out)])
    IN  CASE Operator(s, r) = "(" ->
                 IF Len(cmd.words) = 1 /\ cmd.assignments = <<>> /\ Operator(s, Moved(r, 1)) = ")"
                 THEN FunctionBody(s, Moved(r, 2)) ELSE Failure(r)
          [] Operator(s, r) # "(" /\ Peek(s, r).is \in {"op", "nl", "end", "line"} -> done
          [] Peek(s, r).is = "redir" -> Then(Redirect(s, r), Redirected)
          [] cmd.words = <<>> /\ Reserved(s, r) \in ReservedEnd -> IF cmd.assignments = <<>> THEN Failure(r) ELSE done
          [] cmd.words = <<>> /\ Peek(s, r).is = "assign" -> Then(WordAt(s, r), Assigned)
          [] OTHER -> Then(WordAt(s, r), Pushed)

Parse(s) == Then(SkipBlankLines(s, List(s, Cursor(0), {})), LAMBDA r : IF r.at <= Len(s) THEN Failure(r) ELSE r)

-----------------------------------------------------------------------------
(* Program::walk: every simple command, with those its words run.          *)
RECURSIVE Walk(_), WalkPipeline(_), WalkWords(_), WalkAll(_)
Walk(program) == IF program = <<>> THEN <<>> ELSE WalkPipeline(Head(program)) \o Walk(Tail(program))
WalkPipeline(p) ==
    IF p = <<>> THEN <<>>
    ELSE LET c == Head(p)
         IN  (IF c.is = "body" THEN Walk(c.body) ELSE <<c>> \o WalkWords(c.words \o c.assignments \o c.targets))
                 \o WalkPipeline(Tail(p))
WalkWords(ws) == IF ws = <<>> THEN <<>> ELSE WalkAll(Head(ws).subs) \o WalkWords(Tail(ws))
WalkAll(programs) == IF programs = <<>> THEN <<>> ELSE Walk(Head(programs)) \o WalkAll(Tail(programs))

-----------------------------------------------------------------------------
(* A line as it is meant: its tokens, and the commands that may run, in    *)
(* the order of the line.                                                  *)
Meant(toks, names) == [toks |-> toks, names |-> names]
Run(name) == Meant(<<Word(name)>>, <<name>>)
RunQuoted(name) == Meant(<<QuotedWord(name), Word("if")>>, <<name>>)
WithSubst(name, p) == Meant(<<Word(name), SubstWord(<<p.toks>>)>>, <<name>> \o p.names)
WithTarget(name, p) == Meant(<<Redirection(">"), SubstWord(<<p.toks>>), Word(name)>>, <<name>> \o p.names)
WithAssignment(name, p) == Meant(<<Assignment(<<p.toks>>), Word(name)>>, <<name>> \o p.names)
HereDoc(name) == Meant(<<Word(name), Redirection("<<"), Word("EOF"), NewLine, Line("if"), Line("EOF")>>, <<name>>)
Joining(p, op, q) == Meant(p.toks \o <<op>> \o q.toks, p.names \o q.names)
Not(p) == Meant(<<Word("!")>> \o p.toks, p.names)
SubshellOf(p) == Meant(<<Op("(")>> \o p.toks \o <<Op(")")>>, p.names)
GroupOf(p) == Meant(<<Word("{")>> \o p.toks \o <<NewLine, Word("}"), Redirection(">"), Word("f")>>, p.names)
While(p, q) == Meant(<<Word("while")>> \o p.toks \o <<NewLine, Word("do")>> \o q.toks \o <<NewLine, Word("done")>>, p.names \o q.names)
If(p, q) == Meant(<<Word("if")>> \o p.toks \o <<NewLine, Word("then")>> \o q.toks \o <<NewLine, Word("fi")>>, p.names \o q.names)
IfElse(p, q, r) ==
    Meant(<<Word("if")>> \o p.toks \o <<Op(";"), Word("then"), Word("x"), NewLine, Word("elif")>> \o q.toks
              \o <<NewLine, Word("then"), Word("y"), NewLine, Word("else")>> \o r.toks \o <<NewLine, Word("fi")>>,
          p.names \o <<"x">> \o q.names \o <<"y">> \o r.names)
For(p, q) ==
    Meant(<<Word("for"), Word("i"), Word("in"), Word("a"), SubstWord(<<p.toks>>), Op(";"), Word("do")>> \o q.toks \o <<NewLine, Word("done")>>,
          p.names \o q.names)
Case(p, q) ==
    Meant(<<Word("case"), Word("x"), Word("in"), Op("("), Word("a"), Op("|"), Word("b"), Op(")")>> \o p.toks
              \o <<NewLine, Op(";;"), NewLine, Word("c"), Op(")")>> \o q.toks \o <<NewLine, Op(";;"), Word("esac")>>,
          p.names \o q.names)
Defined(p) == Meant(<<Word("f"), Op("("), Op(")"), Word("{")>> \o p.toks \o <<NewLine, Word("}")>>, p.names)
Function(p) == Meant(<<Word("function"), Word("f"), NewLine, Op("(")>> \o p.toks \o <<Op(")")>>, p.names)

RECURSIVE Nested(_)
Nested(n) == IF n = 0 THEN Run("a") ELSE WithSubst("a", Nested(n - 1))

Names(commands) == [i \in DOMAIN commands |-> commands[i].words[1].text]

(* docs/05, "every command in `ls && rm -rf /`": whatever a command is     *)
(* inside of, the walk comes to it, once and in order; and what is cut     *)
(* short is refused.                                                       *)
FindsEveryCommand(p) ==
    LET r == Parse(p.toks)
    IN  r.at # Failed /\ Names(Walk(r.out)) = p.names
RefusesUnfinished(p) ==
    Last(p.toks).text \in {"fi", "done", "esac", "}", ")"} => Parse(Front(p.toks)).at = Failed
=============================================================================
