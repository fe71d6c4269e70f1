---------------------------- MODULE CommandChecks ----------------------------
(***************************************************************************)
(* vt-policy/src/classify.rs, checks/ and paths.rs: what a command line,   *)
(* once read (ShellReader), is found to do, and the worst of it.  A name   *)
(* in a table stands for the names the code treats alike; a word is a      *)
(* record of what the checks look at.  A wrapper's words are joined        *)
(* without their quotes and read once more, so one that was quoted because *)
(* of its spaces comes apart.                                              *)
(***************************************************************************)
EXTENDS PolicyRules, SequencesExt

(* is: "plain", "option", "end" (--), "number", "setting" (NAME=value),    *)
(* "expansion" or "substitution".  letters are those of a short option,    *)
(* path what the word names, program what is read in a word that is quoted *)
(* and holds spaces: a script, a query.                                    *)
NoPath == [from |-> "here", steps |-> <<>>, glob |-> FALSE]
WordOf(is, text, letters, path, program) ==
    [is |-> is, text |-> text, letters |-> letters, path |-> path, program |-> program]
Plain(text) == WordOf("plain", text, {}, [NoPath EXCEPT !.steps = <<text>>], <<>>)
Option(text, letters) == WordOf("option", text, letters, NoPath, <<>>)
PathWord(path) == WordOf("plain", "path", {}, path, <<>>)
Script(program) == WordOf("plain", "script", {}, NoPath, program)
Expansion == WordOf("expansion", "$NAME", {}, NoPath, <<>>)
Substitution == WordOf("substitution", "$(...)", {}, NoPath, <<>>)

(* A simple command: its words and the files its output goes to.  A        *)
(* pipeline is a sequence of them, a program a sequence of pipelines.      *)
Command(words, targets) == [words |-> words, targets |-> targets]

Shells == {"sh", "bash"}
Interpreters == {"python"}
Fetchers == {"curl", "nc"}
Decoders == {"base64"}
Readers == {"cat", "cp", "base64"}
EgressTools == {"curl", "nc", "ssh"}
Hosts == {"localhost", "new.example"}
Wrappers == {"env", "nohup", "timeout", "xargs"}
Elevators == {"sudo", "doas"}
Services == {"systemctl", "passwd"}
Starting == {"enable", "stop"}
Movers == {"cp", "tee"}
CloudTools == {"op", "gh", "aws", "kubectl", "terraform", "npm"}

(* What a tool is asked to do: the words it starts with.                   *)
CredentialCalls == {<<"op", "read">>, <<"op", "item", "get">>, <<"gh", "auth", "token">>, <<"aws", "configure", "get">>,
                    <<"kubectl", "get", "secret">>}
RemoteCalls == {<<"gh", "repo", "delete">>, <<"terraform", "apply">>, <<"terraform", "destroy">>, <<"kubectl", "delete">>,
                <<"npm", "publish">>, <<"aws", "s3", "rm">>}

-----------------------------------------------------------------------------
Finding(class, outside, branch) == [class |-> class, outside |-> outside, branch |-> branch]
Found(class) == Finding(class, FALSE, NotPush)
If(condition, findings) == IF condition THEN findings ELSE {}

(* Whatever follows "--" is an operand.                                    *)
Ends(list) == {i \in DOMAIN list : list[i].is = "end"}
Operands(list) ==
    LET n == Min(Ends(list) \cup {Len(list) + 1})
    IN  SelectSeq(SubSeq(list, 1, n - 1), LAMBDA w : w.is # "option") \o SubSeq(list, n + 1, Len(list))
HasFlag(list, long, short) == \E i \in DOMAIN list : list[i].text = long \/ short \in list[i].letters
Says(list, texts) == \E i \in DOMAIN list : list[i].text \in texts
Texts(list) == [i \in DOMAIN list |-> list[i].text]
Calls(table, name, list) == \E call \in table : IsPrefix(call, <<name>> \o Texts(Operands(list)))

-----------------------------------------------------------------------------
(* classify.rs: a path, from the root, the home or the working directory,  *)
(* with its dots taken out.  ctx.worktree is <<>> if none is known.        *)
Walked(path, step) == CASE step = ".." -> IF path = <<>> THEN path ELSE Front(path) [] step = "." -> path [] OTHER -> Append(path, step)
Resolve(path, ctx) ==
    FoldLeft(Walked, CASE path.from = "root" -> <<>> [] path.from = "home" -> ctx.home [] OTHER -> ctx.cwd, path.steps)
InsideWorktree(path, ctx) == ctx.worktree # <<>> /\ IsStrictPrefix(ctx.worktree, path)

(* A pattern is where the files it may match are.                          *)
TargetInside(w, ctx) ==
    /\ w.is \notin {"expansion", "substitution"}
    /\ InsideWorktree(Resolve(IF w.path.glob THEN [w.path EXCEPT !.steps = Front(@)] ELSE w.path, ctx), ctx)

SystemPath(path) == path # <<>> /\ path[1] \in {"etc", "usr"}
SecretPath(w) == \/ w.path.steps # <<>> /\ Last(w.path.steps) \in {".env", "id_rsa", "credentials"}
                 \/ \E i \in 1..(Len(w.path.steps) - 1) : w.path.steps[i] \in {".aws", ".ssh"}
Device(path) == path.from = "root" /\ IsPrefix(<<"dev", "disk">>, path.steps)

-----------------------------------------------------------------------------
(* checks/destructive.rs *)

DestructiveTargets(targets, ctx) ==
    IF targets = <<>> THEN {Finding(Destructive, TRUE, NotPush)}
    ELSE {Finding(Destructive, ~TargetInside(targets[i], ctx), NotPush) : i \in DOMAIN targets}
InsideDestructive(ctx) == {Finding(Destructive, ~InsideWorktree(ctx.cwd, ctx), NotPush)}

(* A push that rewrites or deletes: the branch is the third operand.       *)
GitPush(list, ctx) ==
    LET ops == Operands(list)
        refs == SubSeq(ops, 3, Len(ops))
    IN  If(HasFlag(list, "--force", "f") \/ HasFlag(list, "--delete", "d") \/ Says(refs, {"+main", ":main"}),
           {Finding(IrreversibleRemote, FALSE,
                    IF refs = <<>> \/ refs[1].text = "HEAD" THEN Unread
                    ELSE IF refs[1].text \in {"+main", ":main"} THEN "main" ELSE refs[1].text)})

Git(list, ctx) ==
    LET ops == Operands(list)
        sub == IF ops = <<>> THEN "none" ELSE ops[1].text
    IN  If(\/ sub = "reset" /\ HasFlag(list, "--hard", "none")
           \/ sub = "clean" /\ HasFlag(list, "--force", "f")
           \/ sub = "checkout" /\ Says(list, {"--", "."})
           \/ sub = "restore" /\ ~HasFlag(list, "--staged", "S") /\ Len(ops) > 1
           \/ sub = "branch" /\ HasFlag(list, "--delete", "D") /\ HasFlag(list, "--force", "D")
           \/ sub = "stash" /\ Len(ops) > 1 /\ ops[2].text \in {"drop", "clear"}, InsideDestructive(ctx))
        \cup If(sub = "push", GitPush(list, ctx))

Find(list, ctx) ==
    LET start == SubSeq(list, 1, Min({i \in DOMAIN list : list[i].is = "option"} \cup {Len(list) + 1}) - 1)
        deletes == \/ Says(list, {"-delete"})
                   \/ \E i \in 1..(Len(list) - 1) : list[i].text = "-exec" /\ list[i + 1].text = "rm"
    IN  If(deletes, DestructiveTargets(IF start = <<>> THEN <<PathWord(NoPath)>> ELSE start, ctx))

Files(name, list, ctx) ==
    CASE name = "rm" -> DestructiveTargets(Operands(list), ctx)
      [] name = "truncate" -> DestructiveTargets(SelectSeq(Operands(list), LAMBDA w : w.is # "number"), ctx)
      [] name = "dd" ->
             LET to == SelectSeq(list, LAMBDA w : w.is = "setting") IN If(to # <<>>, DestructiveTargets(to, ctx))
      [] name = "mkfs" -> DestructiveTargets(Operands(list), ctx)
      [] name = "git" -> Git(list, ctx)
      [] name = "find" -> Find(list, ctx)
      [] OTHER -> {}

Redirects(cmd, ctx) ==
    UNION {LET path == cmd.targets[i].path
           IN  CASE cmd.targets[i].is # "plain" -> {}
                 [] cmd.targets[i].is = "plain" /\ Device(path) -> {Finding(Destructive, TRUE, NotPush)}
                 [] OTHER -> If(SystemPath(Resolve(path, ctx)), {Found(Privilege)}) : i \in DOMAIN cmd.targets}

(* Every word is searched, a script too: what is quoted in it is its text. *)
RECURSIVE TextOf(_)
TextOf(w) ==
    LET cmds == FlattenSeq(w.program)
        words == FlattenSeq([i \in DOMAIN cmds |-> cmds[i].words])
    IN  IF w.program = <<>> THEN <<w.text>> ELSE FlattenSeq([i \in DOMAIN words |-> TextOf(words[i])])
Drops(text) == \E i \in 1..(Len(text) - 1) : text[i] = "DROP" /\ text[i + 1] = "TABLE"
Sql(list) == If(\E i \in DOMAIN list : Drops(TextOf(list[i])), {Finding(Destructive, TRUE, NotPush)})

-----------------------------------------------------------------------------
(* checks/access.rs *)

Permissions(name, list, ctx) ==
    LET ops == Operands(list)
    IN  If(\/ ops # <<>> /\ name = "chmod" /\ ops[1].text \in {"777", "o+w"}
           \/ ops # <<>> /\ name = "chown" /\ ops[1].text = "root"
           \/ \E i \in 2..Len(ops) : SystemPath(Resolve(ops[i].path, ctx)), {Found(Privilege)})

CredentialFiles(list) == If(\E i \in DOMAIN Operands(list) : SecretPath(Operands(list)[i]), {Found(CredentialRead)})

Cloud(name, list) ==
    IF Calls(CredentialCalls, name, list) THEN {Found(CredentialRead)}
    ELSE If(Calls(RemoteCalls, name, list), {Found(IrreversibleRemote)})

(* The first host named is the one looked up. *)
Egress(name, list, ctx) ==
    LET hosts == SelectSeq(list, LAMBDA w : w.text \in Hosts)
    IN  If(name \in EgressTools /\ (hosts = <<>> \/ hosts[1].text \notin ctx.known), {Found(NetworkEgress)})

ServicesAndSecrets(name, cmd, list, ctx) ==
    LET ops == Operands(list)
    IN  CASE name \in {"chmod", "chown"} -> Permissions(name, list, ctx)
          [] name \in Services -> If(name # "systemctl" \/ (ops # <<>> /\ ops[1].text \in Starting), {Found(Privilege)})
          [] name \in Movers ->
                 If(ops # <<>> /\ SystemPath(Resolve(Last(ops).path, ctx)), {Found(Privilege)})
                     \cup If(name \in Readers, CredentialFiles(list))
          [] name = "security" -> If(Says(list, {"find-generic-password", "export"}), {Found(CredentialRead)})
          [] name \in CloudTools -> Cloud(name, list)
          [] name = "echo" -> If(Says(list, {"$TOKEN"}), {Found(CredentialRead)})
          [] name \in Readers \ Movers -> CredentialFiles(list)
          [] OTHER -> {}

-----------------------------------------------------------------------------
(* checks/mod.rs and wrappers.rs *)

MaxNesting == 16
(* The first word that is none of those: where the wrapped command starts. *)
Rest(list, skipped) ==
    LET starts == {i \in DOMAIN list : list[i].is \notin skipped}
    IN  IF starts = {} THEN <<>> ELSE SubSeq(list, Min(starts), Len(list))

(* A download or a decoder somewhere before a shell.                       *)
Name(cmd) == IF cmd.words # <<>> /\ cmd.words[1].is = "plain" THEN cmd.words[1].text ELSE "none"
ReadsInput(cmd) ==
    \/ Name(cmd) \in Shells
    \/ Name(cmd) \in Interpreters /\ \A i \in 2..Len(cmd.words) : cmd.words[i].is = "option"
PipelineFindings(pipe) ==
    If(\E i \in DOMAIN pipe : ReadsInput(pipe[i]) /\ \E j \in 1..(i - 1) : Name(pipe[j]) \in Fetchers \cup Decoders,
       {Found(Obfuscated)})

RECURSIVE ClassifyProgram(_, _, _), SimpleFindings(_, _, _), Execution(_, _, _, _)

(* Words as one text, read again: one pair of quotes is gone from each, so *)
(* a script is written out where it stood and the words around it go on    *)
(* with its first and its last command; a parenthesis is an operator now.  *)
Operating == {"exec(x)"}
LineOf(w) == IF w.program = <<>> THEN << <<Command(<<w>>, <<>>)>> >> ELSE w.program
GoesOn(left, right) ==
    LET cmd == Last(Last(left))
        next == right[1][1]
    IN  Front(left) \o << Front(Last(left)) \o <<Command(cmd.words \o next.words, cmd.targets \o next.targets)>> \o Tail(right[1]) >>
            \o Tail(right)
Reread(list) == FoldLeft(GoesOn, << <<Command(<<>>, <<>>)>> >>, [i \in DOMAIN list |-> LineOf(list[i])])

Nested(list, ctx, depth) ==
    IF Says(list, Operating) THEN {Found(Unparseable)} ELSE ClassifyProgram(Reread(list), ctx, depth + 1)

ShellC(cmd, list, ctx, depth) ==
    LET codes == {i \in DOMAIN list : "c" \in list[i].letters}
        i == Min(codes)
    IN  IF codes = {} THEN If(\E k \in DOMAIN list : list[k].is = "substitution", {Found(Obfuscated)})
        ELSE IF i = Len(list) THEN {}
        ELSE IF list[i + 1].is \in {"expansion", "substitution"} THEN {Found(Obfuscated)}
        ELSE Nested(<<list[i + 1]>>, ctx, depth)

Executes(name, list) ==
    \/ name \in Shells \cup Interpreters \cup Elevators \cup Wrappers \cup {"su", "printenv", "eval"}
    \/ name = "export" /\ list = <<>>
Execution(cmd, list, ctx, depth) ==
    LET name == Name(cmd)
        rest == Rest(list, {"option", "setting"} \cup If(name = "timeout", {"number"}))
    IN  CASE name \in Elevators -> {Found(Privilege)} \cup Nested(Rest(list, {"option", "setting"}), ctx, depth)
          [] name = "su" -> {Found(Privilege)}
          [] name \in Wrappers -> If(name = "env" /\ rest = <<>>, {Found(CredentialRead)}) \cup Nested(rest, ctx, depth)
          [] name \in {"printenv", "export"} -> {Found(CredentialRead)}
          [] name = "eval" -> IF \E i \in DOMAIN list : list[i].is \in {"expansion", "substitution"} THEN {Found(Obfuscated)}
                              ELSE Nested(list, ctx, depth)
          [] name \in Shells -> ShellC(cmd, list, ctx, depth)
          [] name \in Interpreters -> If(Says(list, {"-c"}) /\ Says(list, {"exec(x)"}), {Found(Obfuscated)})

SimpleFindings(cmd, ctx, depth) ==
    LET list == Tail(cmd.words)
        name == Name(cmd)
    IN  Redirects(cmd, ctx) \cup
        IF cmd.words = <<>> THEN {}
        ELSE IF cmd.words[1].is \in {"expansion", "substitution"} THEN {Found(Obfuscated)}
        ELSE Sql(list) \cup Egress(name, list, ctx) \cup
             IF Executes(name, list) THEN Execution(cmd, list, ctx, depth)
             ELSE Files(name, list, ctx) \cup ServicesAndSecrets(name, cmd, list, ctx)

ClassifyProgram(program, ctx, depth) ==
    IF depth > MaxNesting THEN {Finding(Obfuscated, TRUE, NotPush)}
    ELSE UNION {PipelineFindings(program[i]) \cup UNION {SimpleFindings(program[i][j], ctx, depth) : j \in DOMAIN program[i]}
                : i \in DOMAIN program}

(* A line that cannot be read is one finding, and never benign.            *)
Classify(line, ctx) ==
    IF line.reads THEN ClassifyProgram(line.program, ctx, 0) ELSE {Finding(Unparseable, TRUE, NotPush)}

-----------------------------------------------------------------------------
(* docs/05: "every command in ..." is classified, and a line is as bad as  *)
(* the worst in it.  Whatever a command is found to do alone, it is found  *)
(* to do behind wrappers that keep scripts, and beside other commands;     *)
(* what is evaluated from an expansion, or is too deep, is obfuscated, and *)
(* what cannot be read again is said to be.                                *)
WrapperWords == {<<Plain("sudo")>>, <<Plain("nohup")>>, <<Plain("env"), WordOf("setting", "A=b", {}, NoPath, <<>>)>>,
                 <<Plain("timeout"), Option("-k", {"k"}), WordOf("number", "5", {}, NoPath, <<>>)>>, <<Plain("eval")>>}
Wrap(wrapper, words) == IF wrapper = <<Plain("sh")>> THEN <<Plain("sh"), Option("-c", {"c"}), Script(<< <<Command(words, <<>>)>> >>)>>
                        ELSE wrapper \o words
Wrapped(wrappers, words) == FoldRight(Wrap, wrappers, words)
(* No wrapper that joins its words stands in front of a quoted script: of  *)
(* that only the first word would be read.                                 *)
KeepsScripts(wrappers) == \A i \in 1..(Len(wrappers) - 1) : wrappers[i + 1] = <<Plain("sh")>> => wrappers[i] = <<Plain("sh")>>
Alone(words) == [reads |-> TRUE, program |-> << <<Command(words, <<>>)>> >>]

NothingHides(wrappers, words, ctx) ==
    LET found == Classify(Alone(Wrapped(wrappers, words)), ctx)
    IN  \/ Classify(Alone(words), ctx) \subseteq found
        \/ \E f \in found : f.class \in {Obfuscated, Unparseable}
WorstWins(words, others, ctx) ==
    LET both == [reads |-> TRUE, program |-> << <<Command(others, <<>>)>>, <<Command(others, <<>>), Command(words, <<>>)>> >>]
    IN  ClassOf(Classify(Alone(words), ctx)) <= ClassOf(Classify(both, ctx))

(* docs/05, the floor: what destroys something outside the worktree, reads *)
(* a credential or is obfuscated is asked about, whatever the policy and   *)
(* the rules, behind wrappers that keep scripts.                           *)
FloorHolds(wrappers, words, ctx, policy, request) ==
    LET Req(found) == [request EXCEPT !.command = "line", !.findings = found]
        found == Classify(Alone(words), ctx)
    IN  (\E f \in found : FloorFinding(policy, f))
            => ~AutoAllows(policy, Req(Classify(Alone(Wrapped(wrappers, words)), ctx)))
=============================================================================
