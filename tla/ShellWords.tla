----------------------------- MODULE ShellWords -----------------------------
(***************************************************************************)
(* vt-policy/src/shell/word.rs: how a word of a command line is read,      *)
(* through quotes, escapes and substitutions.  A character is a member of  *)
(* a small alphabet: "a" and "1" stand for every letter and digit, "nl"    *)
(* for a newline, "tick" for a backquote.  What a substitution holds is    *)
(* kept as its text: the reader of commands (ShellReader) reads it.        *)
(***************************************************************************)
EXTENDS Naturals, Sequences, SequencesExt

(* A part of a word: literal text, an expansion, a command that runs.      *)
Lit(text) == [is |-> "lit", of |-> text]
Var(text) == [is |-> "var", of |-> text]
Subst(text) == [is |-> "subst", of |-> text]

(* Failed is where the cursor is after a ParseError.                       *)
Failed == 0
At(s, i) == IF i \in DOMAIN s THEN s[i] ELSE "end"

Alphanumeric == {"a", "1"}
EndsWord == {" ", "nl", "|", "&", ";", ")", "end"}

PushLit(parts, c) ==
    IF parts # <<>> /\ Last(parts).is = "lit"
    THEN Append(Front(parts), Lit(Append(Last(parts).of, c))) ELSE Append(parts, Lit(<<c>>))
PushLits(parts, text) == FoldLeft(PushLit, parts, text)

-----------------------------------------------------------------------------
(* Text up to the quote q: [at, of]. *)
RECURSIVE UntilQuote(_, _, _, _)
UntilQuote(s, i, q, out) ==
    LET c == At(s, i)
    IN  CASE c = "end" -> [at |-> Failed, of |-> out]
          [] c = q -> [at |-> i + 1, of |-> out]
          [] c = "\\" /\ q = "tick" /\ At(s, i + 1) \in {"tick", "\\", "$"} ->
                 UntilQuote(s, i + 2, q, Append(out, At(s, i + 1)))
          [] OTHER -> UntilQuote(s, i + 1, q, Append(out, c))

(* A quoted stretch inside a substitution: where it ends.                  *)
RECURSIVE Skipped(_, _, _)
Skipped(s, i, q) ==
    CASE At(s, i) = "end" -> Failed
      [] At(s, i) = "\\" /\ q = "\"" -> Skipped(s, i + 2, q)
      [] At(s, i) = q -> i + 1
      [] OTHER -> Skipped(s, i + 1, q)

Opening(close) == IF close = ")" THEN "(" ELSE "{"

RECURSIVE Closed(_, _, _, _)
(* Mutation: what closes is counted inside quotes too. *)
ClosedUnquoted(s, i, close, depth) ==
    LET c == At(s, i)
    IN  CASE c = "end" -> Failed
          [] c = "\\" -> Closed(s, i + 2, close, depth)
          [] c = Opening(close) -> Closed(s, i + 1, close, depth + 1)
          [] c = close -> IF depth = 0 THEN i + 1 ELSE Closed(s, i + 1, close, depth - 1)
          [] OTHER -> Closed(s, i + 1, close, depth)
(* Where the text that close ends is over, from i, inside depth of them.   *)
Closed(s, i, close, depth) ==
    LET c == At(s, i)
    IN  CASE c = "end" -> Failed
          [] c = "\\" -> Closed(s, i + 2, close, depth)
          [] c \in {"'", "\""} ->
                 LET after == Skipped(s, i + 1, c)
                 IN  IF after = Failed THEN Failed ELSE Closed(s, after, close, depth)
          [] c = Opening(close) -> Closed(s, i + 1, close, depth + 1)
          [] c = close -> IF depth = 0 THEN i + 1 ELSE Closed(s, i + 1, close, depth - 1)
          [] OTHER -> Closed(s, i + 1, close, depth)

Balanced(s, i, close) ==
    LET after == Closed(s, i, close, 0)
    IN  [at |-> after, of |-> IF after = Failed THEN <<>> ELSE SubSeq(s, i, after - 2)]

(* What is read so far of a word, and what is read next is a part of it.   *)
Read(w, at, part) == [w EXCEPT !.at = at, !.parts = Append(@, part)]
Failure(w) == [w EXCEPT !.at = Failed]
Taken(w, r, Part(_)) == IF r.at = Failed THEN Failure(w) ELSE Read(w, r.at, Part(r.of))
Literal(w, n, c) == [w EXCEPT !.at = @ + n, !.parts = PushLit(@, c)]

RECURSIVE NameEnd(_, _)
NameEnd(s, i) == IF At(s, i) \in Alphanumeric THEN NameEnd(s, i + 1) ELSE i

(* A dollar at the cursor; a digit is a name, letters as long as it goes.  *)
Dollar(s, w) ==
    LET i == w.at + 1
        c == At(s, i)
    IN  CASE c = "(" /\ At(s, i + 1) = "(" ->
                 LET r == Balanced(s, i + 2, ")")
                 IN  IF r.at = Failed \/ At(s, r.at) # ")" THEN Failure(w) ELSE Read(w, r.at + 1, Var(r.of))
          [] c = "(" -> Taken(w, Balanced(s, i + 1, ")"), Subst)
          [] c = "{" -> Taken(w, Balanced(s, i + 1, "}"), Var)
          [] c = "1" -> Read(w, i + 1, Var(<<c>>))
          [] c \in Alphanumeric -> Read(w, NameEnd(s, i), Var(SubSeq(s, i, NameEnd(s, i) - 1)))
          [] c \in {"*", "$", "?"} -> Read(w, i + 1, Var(<<c>>))
          [] OTHER -> Literal(w, 1, "$")

Backquoted(s, w) == Taken(w, UntilQuote(s, w.at + 1, "tick", <<>>), Subst)

Escapable == {"$", "\"", "\\", "tick"}
RECURSIVE DoubleQuoted(_, _, _)
DoubleQuoted(s, w, any) ==
    LET c == At(s, w.at)
        e == At(s, w.at + 1)
    IN  CASE w.at = Failed \/ c = "end" -> Failure(w)
          [] c = "\"" -> IF any THEN [w EXCEPT !.at = @ + 1] ELSE Read(w, w.at + 1, Lit(<<>>))
          [] c = "\\" /\ e \in Escapable -> DoubleQuoted(s, Literal(w, 2, e), TRUE)
          [] c = "\\" /\ e = "nl" -> DoubleQuoted(s, [w EXCEPT !.at = @ + 2], TRUE)
          [] c = "$" -> DoubleQuoted(s, Dollar(s, w), TRUE)
          [] c = "tick" -> DoubleQuoted(s, Backquoted(s, w), TRUE)
          [] OTHER -> DoubleQuoted(s, Literal(w, 1, c), TRUE)

Quoted(w) == [w EXCEPT !.quoted = TRUE]
SingleQuoted(s, w) ==
    LET r == UntilQuote(s, w.at + 1, "'", <<>>)
    IN  IF r.at = Failed THEN Failure(w)
        ELSE [w EXCEPT !.at = r.at, !.parts = PushLits(IF r.of = <<>> THEN Append(@, Lit(<<>>)) ELSE @, r.of)]

RECURSIVE WordFrom(_, _, _)
WordFrom(s, start, w) ==
    LET c == At(s, w.at)
        e == At(s, w.at + 1)
        Next(v) == IF v.at = Failed THEN v ELSE WordFrom(s, start, v)
    IN  CASE c \in EndsWord \/ (c = "(" /\ w.at > start) -> IF w.at = start THEN Failure(w) ELSE w
          [] c = "<" /\ e = "(" -> Next(Taken(w, Balanced(s, w.at + 2, ")"), Subst))
          [] c = "<" /\ e # "(" -> IF w.at = start THEN Failure(w) ELSE w
          [] c = "\\" /\ e = "nl" -> Next([w EXCEPT !.at = @ + 2])
          [] c = "\\" /\ e = "end" -> Failure(w)
          [] c = "\\" /\ e \notin {"nl", "end"} -> Next(Quoted(Literal(w, 2, e)))
          [] c = "'" -> Next(Quoted(SingleQuoted(s, w)))
          [] c = "\"" -> Next(DoubleQuoted(s, Quoted([w EXCEPT !.at = @ + 1]), FALSE))
          [] c = "$" -> Next(Dollar(s, w))
          [] c = "tick" -> Next(Backquoted(s, w))
          [] c \in {"*", "?"} -> Next([Literal(w, 1, c) EXCEPT !.glob = TRUE])
          [] OTHER -> Next(Literal(w, 1, c))

Word(s, i) == WordFrom(s, i, [at |-> i, parts |-> <<>>, quoted |-> FALSE, glob |-> FALSE])

(* Word::literal and text: neighbouring literals are one text.             *)
Joined(parts) ==
    FoldLeft(LAMBDA out, p : IF p.is = "lit" THEN PushLits(out, p.of) ELSE Append(out, p), <<>>, parts)

-----------------------------------------------------------------------------
(* A word as it is meant: pieces, each with the text that writes it and    *)
(* the parts it means.                                                     *)
Piece(text, parts) == [text |-> text, parts |-> parts]
Plain(c) == Piece(<<c>>, <<Lit(<<c>>)>>)
Escaped(c) == Piece(<<"\\", c>>, IF c = "nl" THEN <<>> ELSE <<Lit(<<c>>)>>)
Single(text) == Piece(<<"'">> \o text \o <<"'">>, <<Lit(text)>>)
Command(text) == Piece(<<"$", "(">> \o text \o <<")">>, <<Subst(text)>>)
Process(text) == Piece(<<"<", "(">> \o text \o <<")">>, <<Subst(text)>>)
Back(text) == Piece(<<"tick">> \o text \o <<"tick">>, <<Subst(text)>>)
Brace(text) == Piece(<<"$", "{">> \o text \o <<"}">>, <<Var(text)>>)
Sum(text) == Piece(<<"$", "(", "(">> \o text \o <<")", ")">>, <<Var(text)>>)
Double(pieces) ==
    Piece(<<"\"">> \o FlattenSeq([i \in DOMAIN pieces |-> pieces[i].text]) \o <<"\"">>,
          FlattenSeq([i \in DOMAIN pieces |-> pieces[i].parts]))

Text(pieces) == FlattenSeq([i \in DOMAIN pieces |-> pieces[i].text])
Meaning(pieces) == Joined(FlattenSeq([i \in DOMAIN pieces |-> pieces[i].parts]))

(* docs/05, "the quoting tricks that hide a verb": however a word is       *)
(* quoted, it is read as what it means, and the next word starts where it  *)
(* ends.  "Input this reader cannot follow is an error, never a guess":    *)
(* cut inside a quote or a substitution, it is refused.                    *)
ReadsAsMeant(pieces, rest) ==
    LET w == Word(Text(pieces) \o rest, 1)
    IN  w.at = Len(Text(pieces)) + 1 /\ Joined(w.parts) = Meaning(pieces)
RefusesCut(pieces) ==
    Len(Last(pieces).text) > 1 => Word(Front(Text(pieces)), 1).at = Failed
=============================================================================
