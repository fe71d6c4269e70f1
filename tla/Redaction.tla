----------------------------- MODULE Redaction ------------------------------
(***************************************************************************)
(* vt-redact: the rules and the entropy pass that take the secrets out of  *)
(* a text before it leaves the machine.  A text is a sequence of tokens,   *)
(* whose widths are those of what they stand for; of the fourteen rules    *)
(* there is one of each form: a block between two lines, a shape, a value  *)
(* after a word, a value in a URL, a value after the name of a key.        *)
(***************************************************************************)
EXTENDS Naturals, Sequences, SequencesExt

Keys       == {"password", "token"}
Blank      == {" ", "nl"}
Quotes     == {"'"}
Separators == {"=", ":"}
Secrets    == {"hunter", "AKIA", "random", "long", "body"}
(* What begins and ends with a word character, so that \b finds no         *)
(* boundary between two of them.                                           *)
Wordish    == Keys \cup {"hunter", "AKIA", "random", "long", "bearer", "ls"}

Width(tok) == CASE tok = "hunter" -> 14 [] tok = "AKIA" -> 20 [] tok = "random" -> 40 [] tok = "long" -> 24 [] tok = "body" -> 64
                [] tok = "password" -> 8 [] tok = "token" -> 5 [] tok = "bearer" -> 6 [] tok = "url" -> 12 [] tok = "@host" -> 5
                [] tok = "BEGIN" -> 27 [] tok = "END" -> 25 [] tok \in {"ls", "wide"} -> 2 [] tok = "cut" -> 1
                [] tok \in Blank \cup Quotes \cup Separators -> 1 [] OTHER -> 18
Bytes(text) == FoldLeft(LAMBDA n, tok : n + Width(tok), 0, text)

OrEnd(text, at) == IF at = 0 THEN Len(text) + 1 ELSE at
From(text, i, Test(_)) == OrEnd(text, SelectInSubSeq(text, i, Len(text), Test))
SkipBlank(text, i) == From(text, i, LAMBDA tok : tok \notin Blank)
SkipQuote(text, i) == IF i <= Len(text) /\ text[i] \in Quotes THEN i + 1 ELSE i
Bounded(text, i, j) == (i = 1 \/ text[i - 1] \notin Wordish) /\ (j = Len(text) \/ text[j + 1] \notin Wordish)

-----------------------------------------------------------------------------
(* rules.rs: what of a text each rule takes for a secret if it begins to   *)
(* match at i: the span of the secret, and where the match ends; or        *)
(* nothing.                                                                *)
Match(from, to, last) == <<[from |-> from, to |-> to, last |-> last]>>

PrivateKey(text, i) ==
    LET end == From(text, i, LAMBDA tok : tok = "END")
    IN IF text[i] = "BEGIN" /\ end <= Len(text) THEN Match(i, end, end) ELSE <<>>

Shaped(text, i) == IF text[i] = "AKIA" /\ Bounded(text, i, i) THEN Match(i, i, i) ELSE <<>>

Bearer(text, i) ==
    LET from == SkipBlank(text, i + 1)
        to   == From(text, from, LAMBDA tok : tok \notin Wordish) - 1
    IN IF text[i] = "bearer" /\ Bounded(text, i, Len(text)) /\ from > i + 1 /\ Bytes(SubSeq(text, from, to)) >= 20
       THEN Match(from, to, to) ELSE <<>>

UrlCredentials(text, i) ==
    LET to == From(text, i + 1, LAMBDA tok : tok \in Blank \cup {"@host"}) - 1
    IN IF text[i] = "url" /\ Bounded(text, i, Len(text)) /\ to < Len(text) /\ text[to + 1] = "@host" /\ Bytes(SubSeq(text, i + 1, to)) >= 3
       THEN Match(i + 1, to, to + 1) ELSE <<>>

KeyAssignment(text, i) ==
    LET sep  == SkipBlank(text, SkipQuote(text, i + 1))
        from == SkipQuote(text, SkipBlank(text, sep + 1))
        to   == From(text, from, LAMBDA tok : tok \in Blank \cup Quotes) - 1
    IN IF /\ text[i] \in Keys /\ Bounded(text, i, i)
          /\ sep <= Len(text) /\ text[sep] \in Separators
          /\ Bytes(SubSeq(text, from, to)) >= 8
       THEN Match(from, to, to) ELSE <<>>

PlaceholderOf == [r \in {"private-key", "aws-access-key-id", "bearer-token", "url-credentials", "assignment"} |-> "[" \o r \o "]"]
Rules == <<"private-key", "aws-access-key-id", "bearer-token", "url-credentials", "assignment">>
Found(rule, text, i) ==
    CASE rule = "private-key" -> PrivateKey(text, i)
      [] rule = "aws-access-key-id" -> Shaped(text, i)
      [] rule = "bearer-token" -> Bearer(text, i)
      [] rule = "url-credentials" -> UrlCredentials(text, i)
      [] rule = "assignment" -> KeyAssignment(text, i)

(* captures_iter: the next match is looked for where the last one ended.   *)
Matches(rule, text) ==
    FoldLeftDomain(LAMBDA found, i :
        IF found # <<>> /\ i <= Last(found).last THEN found ELSE found \o Found(rule, text, i), <<>>, text)

-----------------------------------------------------------------------------
(* apply.  The spans are replaced from the right, so that the places of    *)
(* the others stay what they are.                                          *)
Placed(text, m, placeholder) == SubSeq(text, 1, m.from - 1) \o <<placeholder>> \o SubSeq(text, m.to + 1, Len(text))

\* Mutant: from the left.
ReplacedLeftFirst(text, found, placeholder) == FoldLeft(LAMBDA out, m : Placed(out, m, placeholder), text, found)

Replaced(text, found, placeholder) == FoldRight(LAMBDA m, out : Placed(out, m, placeholder), found, text)

Hits(text) == SelectSeq(Rules, LAMBDA rule : Matches(rule, text) # <<>>)

(* looks_random: 32 bytes or more without anything but letters, digits and *)
(* +/=-_., and enough of them of each kind.  The word is what is left of   *)
(* it without the quotes around it.                                        *)
Trimmed(text, i, j) ==
    LET from == From(text, i, LAMBDA tok : tok \notin Quotes)
        to   == IF j > i /\ text[j] \in Quotes THEN j - 1 ELSE j
    IN [from |-> from, to |-> to, last |-> j]
LooksRandom(word) ==
    /\ "random" \in ToSet(word) /\ Bytes(word) >= 32
    /\ ToSet(word) \subseteq Wordish \cup {"=", "cut"}

(* redact_entropy: of the words, which end at a blank or a new line.       *)
WordsOf(text) ==
    FoldLeftDomain(LAMBDA words, i :
        IF text[i] \in Blank \/ (i > 1 /\ text[i - 1] \notin Blank) THEN words
        ELSE Append(words, Trimmed(text, i, From(text, i, LAMBDA tok : tok \in Blank) - 1)), <<>>, text)
RedactEntropy(text) ==
    Replaced(text, SelectSeq(WordsOf(text), LAMBDA w : LooksRandom(SubSeq(text, w.from, w.to))), "[entropy]")

Refused == [is |-> "refused", text |-> <<>>]
(* redact_within: rules is how many of them get their turn before the      *)
(* time is up; a text that no rule matches takes no time.                  *)
InTime(text, hits, rules) ==
    IF Len(hits) > rules THEN Refused
    ELSE [is |-> "clean",
          text |-> RedactEntropy(FoldLeft(LAMBDA out, rule : Replaced(out, Matches(rule, out), PlaceholderOf[rule]), text, hits))]
RedactWithin(text, rules) == InTime(text, Hits(text), rules)
Redact(text) == RedactWithin(text, Len(Rules)).text

-----------------------------------------------------------------------------
(* Texts with secrets in them, and what is to be left of each.             *)
Piece(toks, clean) == [toks |-> toks, clean |-> clean]
Said(tok)   == Piece(<<tok>>, <<tok>>)
Parent      == Piece(<<"token", ":">>, <<"token", ":">>)
Loose(q)    == Piece(q \o <<"random">> \o q, q \o <<"[entropy]">> \o q)
Bare        == Piece(<<"AKIA">>, <<"[aws-access-key-id]">>)
Pem         == Piece(<<"BEGIN", "nl", "body", "nl", "END">>, <<"[private-key]">>)
Url         == Piece(<<"url", "hunter", "@host">>, <<"url", "[url-credentials]", "@host">>)
Header      == Piece(<<"bearer", " ", "long">>, <<"bearer", " ", "[bearer-token]">>)
Assigned(key, by, q, value) == Piece(<<key>> \o by \o q \o <<value>> \o q, <<key>> \o by \o q \o <<"[assignment]">> \o q)
Named(by, q) == Piece(<<"ls">> \o by \o q \o <<"random">> \o q, <<"ls">> \o by \o q \o <<"[entropy]">> \o q)

Put(parts, seps) == FoldLeftDomain(LAMBDA text, i : text \o (IF i = 1 THEN <<>> ELSE seps[i - 1]) \o parts[i], <<>>, parts)
Text(ps, seps)  == Put([i \in DOMAIN ps |-> ps[i].toks], seps)
Clean(ps, seps) == Put([i \in DOMAIN ps |-> ps[i].clean], seps)

(* docs/05: every secret is gone, a placeholder stands for it, and         *)
(* everything else is as it was: what a reference that knows the secrets   *)
(* would make of the text.                                                 *)
SecretsGone(ps, seps) == (\A i \in DOMAIN ps : ps[i] # Parent) => Redact(Text(ps, seps)) = Clean(ps, seps)

(* "Redaction is idempotent", and it fails closed: a text is redacted      *)
(* whole, or refused.                                                      *)
Settled(text, clean) ==
    /\ Redact(clean.text) = clean.text
    /\ \A rules \in 0..Len(Rules) : RedactWithin(text, rules) \in {Refused, clean}
OnceIsEnough(ps, seps) == Settled(Text(ps, seps), RedactWithin(Text(ps, seps), Len(Rules)))

-----------------------------------------------------------------------------
(* Promises of the documentation that the code breaks. *)

(* docs/05: "No credential leaves the machine unredacted."  The name of a  *)
(* key, with its colon, passes for the value of the key in front of it,    *)
(* and its own value stays.                                                *)
NestedSecretsGone(ps, seps) == ToSet(Redact(Text(ps, seps))) \cap Secrets = {}

(* docs/05: "a bare secret pasted into output must not leave either."  A   *)
(* colon or a quote inside a word, as compact JSON has them, and the word  *)
(* does not look random.                                                   *)
NamedSecretsGone(by, q) == ToSet(Redact(Named(by, q).toks)) \cap Secrets = {}
=============================================================================
