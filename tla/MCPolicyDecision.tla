-------------------------- MODULE MCPolicyDecision --------------------------
(***************************************************************************)
(* PolicyDecision for TLC: files of each kind for the user and the repo,   *)
(* and commands of each kind of finding.                                   *)
(***************************************************************************)
EXTENDS PolicyDecision

Never == {CredentialRead, Obfuscated, Unparseable}
Trusting == [c \in Classes |-> IF c \in Never THEN Confirm ELSE Allow]
Strict == [DefaultPolicy.safety EXCEPT ![Destructive] = Block]
Rule(commands, decide) ==
    [repos |-> Repos \cup {"none"}, tools |-> Tools, commands |-> commands, inWorktree |-> BOOLEAN, outside |-> BOOLEAN, decide |-> decide]
Anything == <<Rule(Commands \cup {NoCommand}, "allow")>>
AskFirst == <<Rule({"rule"}, "ask")>> \o Anything
DenyFirst == <<Rule({"rule"}, "deny")>> \o Anything
Refusing == <<Rule(Commands, "deny")>>

Acting(safety, branches, rules) ==
    [DefaultPolicy EXCEPT !.enabled = TRUE, !.dryRun = FALSE, !.safety = safety, !.branches = branches, !.rules = rules]
Sends(mode, providers, bytes, never) ==
    [DefaultPolicy EXCEPT !.egress = [mode |-> mode, providers |-> providers, bytes |-> bytes, never |-> never]]

Unreadable == [is |-> "unreadable", policy |-> DefaultPolicy]
Loose == File(Acting([Trusting EXCEPT ![CredentialRead] = Allow], {}, Anything))
UserFiles ==
    {NoFile, Unreadable, Loose, File(Acting(Trusting, Branches, Anything)), File(Acting(Trusting, {}, AskFirst)),
     File(Acting(Strict, Branches, DenyFirst)), File([Acting(Trusting, {}, Anything) EXCEPT !.dryRun = TRUE])}
    \cup {File(Sends(1, {p}, 1, {})) : p \in Providers} \cup {File(Sends(0, {}, Unlimited, Commands))}
HostileFiles ==
    {NoFile, Unreadable, Loose, File(Acting(Trusting, {}, Anything)), File(Acting(Strict, Branches, Anything)),
     File(Acting(Trusting, {}, AskFirst)), File(Acting(Trusting, {}, Refusing))}
    \cup {File(Sends(2, {p}, 0, {})) : p \in Providers}

Seen(class, outside, branch) == [class |-> class, outside |-> outside, branch |-> branch]
FindingSets ==
    {{}, {Seen(CredentialRead, FALSE, NotPush)}, {Seen(Destructive, TRUE, NotPush)},
     {Seen(NetworkEgress, FALSE, NotPush), Seen(Destructive, FALSE, NotPush)}}
    \cup {{Seen(IrreversibleRemote, FALSE, b)} : b \in Branches \cup {Unread}}
Asked(line, f, inWorktree, generic) ==
    [repo |-> "none", tool |-> "Bash", command |-> line, findings |-> f, inWorktree |-> inWorktree, pathOutside |-> FALSE, generic |-> generic]
Commandlines ==
    {Asked("line", f, TRUE, FALSE) : f \in FindingSets} \cup {Asked("line", {}, i, TRUE) : i \in BOOLEAN}
    \cup {Asked("line", {}, FALSE, FALSE), Asked("rule", {}, TRUE, FALSE)}
=============================================================================
