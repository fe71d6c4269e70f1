------------------------------ MODULE MCInputs ------------------------------
(***************************************************************************)
(* The parts of the daemon that compute an answer and keep no state, over  *)
(* bounded inputs: one state for each input, one action for each part.     *)
(* Beside them, PolicyDecision: a behaviour is of one part or of it.       *)
(***************************************************************************)
EXTENDS CommandChecks, MCPolicyDecision

W == INSTANCE ShellWords
Sh == INSTANCE ShellReader
S == INSTANCE Streams WITH MaxPayload <- 12, MaxCarry <- 4, MaxLine <- 6
F == INSTANCE Frames WITH Byte <- 4, Small <- 2, MaxBody <- 3
P == INSTANCE ProviderStream
R == INSTANCE ProviderRequest
A == INSTANCE AgentReports
O == INSTANCE Outgoing WITH MaxLines <- 2, LastCommands <- 2

VARIABLE input
Parts == {"word", "line", "command", "marks", "modes", "lines", "keys", "guess",
          "frame", "post", "answer", "route", "request", "turn", "reply", "secret", "context"}
Give(part, given) == input = <<part>> /\ \E x \in given : input' = <<part, x>>
SeqsUpTo(of, n) == UNION {[1..k -> of] : k \in 0..n}

-----------------------------------------------------------------------------
(* Command lines: words, token lines, and commands. *)
Bodies == {<<>>, <<"a">>, <<"a", " ", "|", "1">>, <<" ", "(", "a", ")">>, <<"'", ")", "'">>, <<"\\", ")", "a">>}
Quoting == {W!Plain("a"), W!Plain("/"), W!Plain("*"), W!Back(<<"a">>), W!Brace(<<"a">>), W!Brace(<<"{", "}">>), W!Sum(<<"1">>), W!Process(<<"a">>)}
           \cup {W!Escaped(c) : c \in {"a", " ", "'", "nl"}} \cup {W!Single(t) : t \in {<<>>, <<"a">>, <<" ", "\\", "$", "a">>}}
           \cup {W!Command(t) : t \in Bodies}
Within == {W!Plain("a"), W!Plain(" "), W!Plain("'"), W!Escaped("$"), W!Escaped("\""), W!Escaped("nl"), W!Back(<<"a">>), W!Brace(<<"a">>),
           W!Command(<<"\"", ")", "\"">>)}
Pieces == Quoting \cup {W!Double(p) : p \in SeqsUpTo(Within, 2)}
GiveWords == Give("word", {<<ps, rest>> : ps \in (SeqsUpTo(Pieces, 2) \ {<<>>}), rest \in {<<>>, <<" ", "a">>, <<"|">>}})

Two == {Sh!Run("a"), Sh!Run("b")}
Small == Two \cup {Sh!RunQuoted("if"), Sh!HereDoc("h")}
Around(p) == {Sh!WithSubst("s", p), Sh!WithTarget("t", p), Sh!WithAssignment("u", p), Sh!SubshellOf(p), Sh!Defined(p), Sh!Function(p), Sh!Not(p), Sh!GroupOf(p)}
Operators == {Sh!Op("&&"), Sh!Op("|"), Sh!Op(";"), Sh!Op("&"), Sh!Op("|&"), Sh!NewLine}
Both(p, q) == {Sh!While(p, q), Sh!If(p, q), Sh!For(p, q), Sh!Case(p, q)} \cup {Sh!Joining(p, o, q) : o \in Operators}
Once == Small \cup UNION {Around(p) : p \in Two \cup {Sh!HereDoc("h")}} \cup UNION {Both(p, q) : p \in Two, q \in Two}
Inner == {Sh!Run("a"), Sh!HereDoc("h"), Sh!WithSubst("s", Sh!Run("b")), Sh!While(Sh!Run("a"), Sh!Run("b")), Sh!Defined(Sh!Run("a")),
          Sh!Joining(Sh!Run("a"), Sh!Op("|"), Sh!Run("b"))}
(* A "!" is not taken twice. *)
GiveLines == Give("line", Once \cup UNION {Around(p) : p \in {q \in Once : q.toks[1] # Sh!Word("!")}}
                              \cup UNION {Both(p, q) : p \in (Inner \ {Sh!HereDoc("h")}), q \in (Inner \ {Sh!HereDoc("h")})}
                              \cup {Sh!IfElse(p, q, r) : p \in Two, q \in Two, r \in Two})

(* docs/05: however a command line is quoted and put together, every       *)
(* command in it is found, and what is cut short is refused and not        *)
(* guessed at.                                                             *)
LinesAreRead ==
    /\ input[1] = "word" /\ Len(input) = 2 => W!ReadsAsMeant(input[2][1], input[2][2]) /\ W!RefusesCut(input[2][1])
    /\ input[1] = "line" /\ Len(input) = 2 => Sh!FindsEveryCommand(input[2]) /\ Sh!RefusesUnfinished(input[2])

Root(steps) == PathWord([from |-> "root", steps |-> steps, glob |-> FALSE])
Here(steps) == PathWord([from |-> "here", steps |-> steps, glob |-> FALSE])
Glob(steps) == PathWord([from |-> "here", steps |-> steps, glob |-> TRUE])
Recursively == Option("-rf", {"r", "f"})
Forced == Option("-f", {"f"})
Push(list) == <<Plain("git"), Plain("push")>> \o list
Simple ==
    {<<Plain("rm"), Recursively, Here(<<"t">>)>>, <<Plain("rm"), Recursively, Here(<<"..", "t">>)>>, <<Plain("rm"), Here(<<"d", "..", "t">>)>>,
     <<Plain("rm"), Here(<<"..", "repo", "t">>)>>, <<Plain("rm"), Glob(<<"d", "*">>)>>, <<Plain("rm"), Expansion>>,
     <<Plain("rm"), WordOf("end", "--", {}, NoPath, <<>>), Option("-x", {"x"})>>, <<Expansion>>, <<Plain("ls")>>,
     <<Plain("git"), Plain("reset"), Option("--hard", {})>>, Push(<<Forced>>), Push(<<Forced, Plain("origin"), Plain("main")>>),
     Push(<<Plain("origin"), Plain(":main")>>), Push(<<Plain("origin"), Plain("main")>>), Push(<<Forced, Plain("origin"), Plain("feature")>>),
     <<Plain("cat"), Here(<<".env">>)>>, <<Plain("cat"), Here(<<".ssh", "key">>)>>, <<Plain("cp"), Here(<<"a">>), Root(<<"etc", "x">>)>>,
     <<Plain("curl"), Plain("localhost")>>, <<Plain("curl"), Plain("new.example")>>, <<Plain("env")>>, <<Plain("export")>>, <<Plain("printenv")>>,
     <<Plain("su")>>, <<Plain("find"), Here(<<"d">>), Option("-delete", {})>>, <<Plain("find"), Option("-exec", {}), Plain("rm")>>,
     <<Plain("op"), Plain("item"), Plain("get"), Plain("x")>>, <<Plain("terraform"), Plain("apply")>>, <<Plain("chmod"), Plain("777"), Here(<<"a">>)>>,
     <<Plain("python"), Option("-c", {"c"}), Plain("exec(x)")>>, <<Plain("psql"), Script(<< <<Command(<<Plain("DROP"), Plain("TABLE"), Plain("t")>>, <<>>)>> >>)>>,
     <<Plain("dd"), WordOf("setting", "of=", {}, [from |-> "root", steps |-> <<"dev", "disk">>, glob |-> FALSE], <<>>)>>,
     <<Plain("truncate"), Option("-s", {"s"}), WordOf("number", "0", {}, NoPath, <<>>), Here(<<"t">>)>>, <<Plain("bash"), Substitution>>,
     <<Plain("eval"), Expansion>>, <<Plain("systemctl"), Plain("stop")>>, <<Plain("security"), Plain("export")>>,
     <<Plain("echo"), WordOf("expansion", "$TOKEN", {}, NoPath, <<>>)>>}
Contexts == [cwd : {<<"repo">>, <<"repo", "src">>, <<"x">>}, worktree : {<<"repo">>, <<>>}, home : {<<"home">>}, known : {{"localhost"}}]
Wrapping == WrapperWords \cup {<<Plain("sh")>>}
ShellFirst == {<<Plain("sh")>>} \X {<<Plain("sh")>>, <<Plain("sudo")>>} \X Wrapping
Chains == SeqsUpTo(Wrapping, 2) \cup ShellFirst \cup {[i \in 1..n |-> <<Plain("sudo")>>] : n \in 15..17}
(* The loosest policy that loads: all that is not on the floor is allowed. *)
Eager == [DefaultPolicy EXCEPT !.enabled = TRUE, !.dryRun = FALSE, !.safety = Trusting, !.rules = Anything]
Plainly == [repo |-> "none", tool |-> "Bash", command |-> "line", findings |-> {}, inWorktree |-> TRUE, pathOutside |-> FALSE, generic |-> FALSE]
GiveCommands == Give("command", Chains \X Simple)


(* docs/05 says it of every wrapper.  Refuted: behind sudo, nohup, env,    *)
(* timeout or eval the words of `sh -c 'cat .env'` are joined without      *)
(* quotes and read again, and the script that is looked at is `cat`.       *)
WrappersHideNothing ==
    input[1] = "command" /\ Len(input) = 2 =>
        \A ctx \in Contexts : NothingHides(input[2][1], input[2][2], ctx) /\ FloorHolds(input[2][1], input[2][2], ctx, Eager, Plainly)

-----------------------------------------------------------------------------
(* Streams of bytes, and what is framed in them. *)
Terminators == {S!Bel, S!St}
Written == {S!Plain("a"), S!Plain("]"), S!Aborted, S!Runaway, S!Mode("altOn")} \cup
           UNION {{S!Prompt(e), S!Finished("none", e), S!Finished("2", e), S!Line(<<"a", ";", "\\">>, "none", e), S!Line(<<"nl">>, "n", e),
                   S!Title(e), S!Corrupt(e)} : e \in Terminators}
Modal == {S!Mode(n) : n \in DOMAIN S!ModeSequences} \cup {S!Plain("a"), S!Plain("esc"), S!Written(<<"esc", "[">>, <<>>)}
Row(m, a, b) == [matches |-> m, asks |-> a, blank |-> b]
Rows == {Row({}, FALSE, TRUE), Row({"menu"}, FALSE, FALSE), Row({"ask"}, TRUE, FALSE), Row({"shell"}, FALSE, FALSE), Row({}, TRUE, FALSE)}
Screens == SeqsUpTo(Rows, 2) \cup {<<Row({"ask"}, TRUE, FALSE)>> \o [i \in 1..n |-> Row({}, FALSE, FALSE)] : n \in 3..4}
Silences == {[is |-> "quiet", tail |-> t, mark |-> m,
              patterns |-> <<[name |-> "shell", kind |-> "shell"], [name |-> "ask", kind |-> "question"], [name |-> "menu", kind |-> "menu"]>>] :
                t \in Screens, m \in BOOLEAN}
Resumed == [is |-> "output"]
GiveMarks == Give("marks", [1..2 -> Written])
GiveModes == Give("modes", [1..3 -> Modal])
GiveAgentLines == Give("lines", SeqsUpTo({"{type", "nl", "b"}, 5) \ {<<>>})
GiveKeys == Give("keys", SeqsUpTo({S!Prefix, "d", "b"}, 5) \ {<<>>})
GiveGuesses == Give("guess", {<<e, Resumed, g>> : e \in Silences, g \in Silences} \cup {<<e, Resumed, g, g, Resumed>> : e \in Silences, g \in Silences})

(* osc.rs, generic.rs, observe.rs, attach.rs: where a read ends changes    *)
(* nothing of what a session's bytes are understood to say, and what is    *)
(* said of a quiet screen is what is on it.                                *)
StreamsSplitAnywhere ==
    Len(input) = 2 =>
        /\ input[1] = "marks" => S!MarksSurviveChunks(input[2])
        /\ input[1] = "modes" => S!ModesSurviveChunks(input[2])
        /\ input[1] = "lines" => S!LinesSurviveChunks(input[2])
        /\ input[1] = "keys" => S!KeysSurviveChunks(input[2])
        /\ input[1] = "guess" => S!GuessIsCurrent(input[2])

Payloads == {[i \in 1..n |-> (i * k) % 4] : n \in 0..20, k \in {1, 3}}
Masks == {<<>>, <<0, 1, 2, 3>>, <<3, 3, 1, 0>>}
Cuts(t) == {<<>>, <<0>>, <<0, Len(t)>>} \cup (IF t = <<>> THEN {} ELSE {<<1>>})
GiveFrames == Give("frame", UNION {{<<t, c, m>> : c \in Cuts(t), m \in Masks} : t \in Payloads})
GivePosts == Give("post", (0..6) \X (0..6))

(* ws.rs and http.rs: a message comes out of the bytes as it went in, in   *)
(* as many fragments as there are; one that is cut short is no message.    *)
FramesRoundTrip ==
    Len(input) = 2 =>
        /\ input[1] = "frame" => F!TextsSurvive(<<input[2][1], <<1>>>>, <<input[2][2], <<>>>>, input[2][3]) /\ F!LostIsNotText(input[2][1], input[2][3])
        /\ input[1] = "post" => F!PostIsHeard([i \in 1..input[2][1] |-> 1], [i \in 1..input[2][2] |-> 1])

-----------------------------------------------------------------------------
(* Providers. *)
Blocks == {P!Text(<< <<"a">>, <<"b", "c">> >>), P!Thought, P!Call("c1", << <<"{">>, <<"}">> >>), P!Call("c2", << <<"[]">> >>), P!Call("c3", <<>>), P!Text(<< <<"d">> >>)}
Distinct(bs) == \A i, j \in DOMAIN bs : bs[i].is = "call" /\ bs[j] = bs[i] => i = j
Dialogues(n) == {b \in SeqsUpTo(Blocks, n) : Distinct(b)}
GiveAnswers == Give("answer", {<<P!Answer(bs, s, 5), end>> : bs \in Dialogues(2), s \in {"end_turn", "tool_use", "odd"},
                               end \in {<<>>, <<P!Line("broken", "")>>}}
                              \cup {<<P!Answer(bs, "tool_use", 5), <<>>>> : bs \in Dialogues(3)})
Profiles == [name : {"p", "q"}, kind : R!Kinds, model : {"m"}, models : {{}, {"o"}}, defaultOnly : {{}, {"m"}}, url : {R!None, "localhost"}]
GiveRoutes == Give("route", {<<[profiles |-> <<p, q>>, routes |-> r], k>> : p \in Profiles, q \in Profiles,
                             r \in {<<>>} \cup [{"f"} -> {"p", "q", R!None, "zz"}], k \in {R!None, "k"}})
Talk == << R!Message("user", <<R!Content("text", "", <<"hi">>)>>),
           R!Message("assistant", <<R!Content("text", "", <<"a">>), R!Content("use", "1", <<>>), R!Content("use", "2", <<>>)>>),
           R!Message("user", <<R!Content("result", "1", <<"r">>), R!Content("result", "2", <<"r">>), R!Content("text", "", <<"b">>)>>),
           R!Message("assistant", <<R!Content("use", "3", <<>>)>>),
           R!Message("user", <<R!Content("text", "", <<"c">>), R!Content("result", "3", <<"r">>)>>) >>
GiveRequests == Give("request", {<<SubSeq(Talk, 1, n), s>> : n \in {1, 3, 5}, s \in {R!None, "sys"}})

(* docs/04: every provider's stream is the same answer to the loop, one    *)
(* that breaks off gives a beginning of it, and a feature's request goes   *)
(* to the profile it names, with its results beside their calls.           *)
ProvidersAgree ==
    Len(input) = 2 =>
        /\ input[1] = "answer" => P!SameAnswer(input[2][1]) /\ P!CutIsABeginning(input[2][1], input[2][2])
        /\ input[1] = "route" =>
               /\ R!RoutesAnswer(input[2][1], "f", input[2][2])
               /\ R!SamplingDropped(input[2][1], "f", input[2][2], [model |-> "m", sampling |-> "hot", system |-> R!None, messages |-> <<>>])
        /\ input[1] = "request" => R!ResultsFollowCalls(input[2][2], input[2][1])

-----------------------------------------------------------------------------
(* What is sent of a session. *)
Bys == {<<"=">>, <<":", " ">>, <<" ", "=", " ">>, <<"'", ":">>}
Quotings == {<<>>, <<"'">>}
Plains == {O!Said("ls"), O!Said("wide"), O!Bare, O!Pem, O!Url, O!Header, O!Loose(<<>>), O!Assigned("password", <<"=">>, <<>>, "hunter")}
Secretive == Plains \cup {O!Parent, O!Loose(<<"'">>)} \cup
             {O!Assigned(k, by, q, v) : k \in O!Keys, by \in Bys, q \in Quotings, v \in {"hunter", "AKIA", "random"}}
GiveSecrets == Give("secret", {<<<<p, q>>, <<sep>>>> : p \in Secretive, q \in Secretive, sep \in {<<" ">>}}
                              \cup {<<<<p, q, r>>, <<<<"nl">>, <<"nl", " ">>>>>> : p \in Plains \cup {O!Parent}, q \in Plains, r \in Plains})
Sessions == {<<>>} \cup {<<O!Block(<<"ls">>, <<p.toks, q.toks>>)>> : p \in Plains, q \in Plains}
            \cup {<<O!Block(<<"ls">>, <<>>), O!Block(p.toks, <<<<"ls">>>>), O!Block(<<"ls">>, <<q.toks, p.toks, p.toks>>)>> : p \in Plains, q \in Plains}
GiveContexts == Give("context", {<<ss, m, p.toks, <<p.toks, <<"ls">>>>, r>> : ss \in Sessions, m \in {23, 50, 200}, p \in {O!Pem, O!Url, O!Said("wide")}, r \in {1, 5}})

(* docs/05 and ADR-0007: no text leaves with a secret in it that a rule    *)
(* knows, whatever stands beside it; the rest of it is left alone, and a   *)
(* part that takes too long keeps all of them here.  Left out are a secret *)
(* behind the name of another key, one with a quote or a colon in its word *)
(* and no random look, and one cut before the rules see it: those leave    *)
(* (NestedSecretsGone, NamedSecretsGone, CutSecretsGone).                  *)
SecretsStayHere ==
    Len(input) = 2 =>
        /\ input[1] = "secret" => O!SecretsGone(input[2][1], input[2][2]) /\ O!OnceIsEnough(input[2][1], input[2][2])
        /\ input[1] = "context" => O!NothingInTheOpen(input[2][1], input[2][2], input[2][3], input[2][4], input[2][5])

-----------------------------------------------------------------------------
(* Agents. *)
T1 == <<"t1">>
T2 == <<"t2">>
Steps == {A!Step("prompt", A!NoId, TRUE), A!Step("finish", A!NoId, TRUE), A!Step("finish", A!NoId, FALSE), A!Step("end", T1, FALSE)}
         \cup {A!Step(k, t, TRUE) : k \in {"start", "ask", "resolved", "end"}, t \in {T1, T2}}
GiveTurns == Give("turn", A!Sources \X SeqsUpTo(Steps, 3))
Ids == [is : {"number"}, of : {<<"0">>, <<"1">>}] \cup [is : {"text"}, of : {<<"a">>, <<>>}]
GiveReplies == Give("reply", {<<"t">>, <<"t", ":rpc-", "x">>} \X Ids)

(* docs/03: a turn reported by hooks, by `codex exec` or by the app server *)
(* is the same timeline and the same inbox; an event nobody knows changes  *)
(* nothing, a finished turn is idle, and an answer finds its request.      *)
ReportsRead ==
    Len(input) = 2 =>
        /\ input[1] = "turn" =>
               /\ A!OneTimeline(input[2][1], input[2][2])
               /\ \A n \in 0..Len(A!Told(input[2][1], input[2][2])) : A!UnknownIsHarmless(input[2][1], input[2][2], n)
               /\ A!InboxIsOpenRequests(input[2][1], input[2][2])
               /\ A!FinishedIsIdle(input[2][1], input[2][2])
        /\ input[1] = "reply" => A!RoutesBack(input[2][1], input[2][2])

-----------------------------------------------------------------------------
Given ==
    \/ GiveWords \/ GiveLines \/ GiveCommands
    \/ GiveMarks \/ GiveModes \/ GiveAgentLines \/ GiveKeys \/ GiveGuesses
    \/ GiveFrames \/ GivePosts \/ GiveAnswers \/ GiveRoutes \/ GiveRequests \/ GiveTurns \/ GiveReplies
    \/ GiveSecrets \/ GiveContexts
Still == globalFile = NoFile /\ repoFile = NoFile /\ request = Asked("line", {}, TRUE, TRUE)
Init ==
    /\ PolicyInit
    /\ \/ input \in {<<part>> : part \in Parts} /\ Still
       \/ input = <<"policy">>
Next ==
    \/ Given /\ UNCHANGED policyVars
    \/ input = <<"policy">> /\ PolicyNext /\ UNCHANGED input
Spec == Init /\ [][Next]_<<input, policyVars>>
=============================================================================
