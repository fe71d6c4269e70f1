----------------------------- MODULE PolicyRules -----------------------------
(***************************************************************************)
(* policy.toml: vt-policy/src/rules.rs, floor.rs and workspace.rs, and     *)
(* how the daemon asks them (vtermd/src/policy.rs, agent_mode.rs).  A      *)
(* request has been classified already (CommandChecks).  What a rule's     *)
(* matcher tests is the set of answers it admits: every value, if the file *)
(* leaves it out.                                                          *)
(***************************************************************************)
EXTENDS Integers, Sequences, FiniteSets

CONSTANTS Tools, Repos, Commands, Branches, Providers,
          NoCommand,    (* Option::None of ToolRequest.command             *)
          NotPush,      (* the branch of a finding that is no force push   *)
          Unread        (* a branch that cannot be read, or HEAD           *)

ASSUME PolicyAssumption == NoCommand \notin Commands /\ {NotPush, Unread} \cap Branches = {} /\ NotPush # Unread

(* SafetyClass, most to least benign. *)
Benign == 0
NetworkEgress == 1
Privilege == 2
IrreversibleRemote == 3
Destructive == 4
CredentialRead == 5
Obfuscated == 6
Unparseable == 7
Classes == 0..7

(* Decision of [safety], and what there is to decide for an agent. *)
Allow == 0
Warn == 1
Confirm == 2
Block == 3
Decide == {"allow", "ask", "deny"}

Unlimited == 0 - 1      (* max_context_bytes is not set *)

Findings == [class : Classes \ {Benign}, outside : BOOLEAN, branch : Branches \cup {NotPush, Unread}]

Rules == [repos : SUBSET (Repos \cup {"none"}), tools : SUBSET Tools, commands : SUBSET (Commands \cup {NoCommand}),
          inWorktree : SUBSET BOOLEAN, outside : SUBSET BOOLEAN, decide : Decide]

Egresses == [mode : 0..2, providers : SUBSET Providers, bytes : Nat \cup {Unlimited}, never : SUBSET Commands]

Policies == [safety : [Classes -> 0..3], branches : SUBSET Branches, enabled : BOOLEAN, dryRun : BOOLEAN,
             rules : Seq(Rules), egress : Egresses]

Requests == [repo : Repos \cup {"none"}, tool : Tools, command : Commands \cup {NoCommand}, findings : SUBSET Findings,
             inWorktree : BOOLEAN, pathOutside : BOOLEAN, generic : BOOLEAN]

-----------------------------------------------------------------------------
(* floor.rs, rules.rs *)

ClassOf(findings) ==
    IF findings = {} THEN Benign ELSE CHOOSE c \in {f.class : f \in findings} : \A f \in findings : f.class <= c

Protected(p, branch) == branch = Unread \/ branch \in p.branches

FloorFinding(p, f) ==
    \/ f.class \in {CredentialRead, Obfuscated, Unparseable}
    \/ f.class = Destructive /\ f.outside
    \/ f.class = IrreversibleRemote /\ Protected(p, f.branch)

OnFloor(p, req) ==
    \/ req.generic
    \/ req.command # NoCommand /\ \E f \in req.findings : FloorFinding(p, f)

Decision(p, class) == IF class = Benign THEN Allow ELSE p.safety[class]
Blocked(p, req) == req.command # NoCommand /\ Decision(p, ClassOf(req.findings)) = Block

Outside(req) ==
    \/ req.pathOutside
    \/ req.command # NoCommand /\ \E f \in req.findings : f.class = Destructive /\ f.outside

Matches(rule, req) ==
    /\ req.repo \in rule.repos /\ req.tool \in rule.tools /\ req.command \in rule.commands
    /\ req.inWorktree \in rule.inWorktree /\ Outside(req) \in rule.outside

First(rules, req) ==
    {i \in DOMAIN rules : Matches(rules[i], req) /\ \A j \in 1..(i - 1) : ~Matches(rules[j], req)}

(* What the first matching rule decides: "ask" if there is none. *)
Ruled(p, req) ==
    IF First(p.rules, req) = {} THEN "ask"
    ELSE LET rule == p.rules[CHOOSE i \in First(p.rules, req) : TRUE]
         IN  IF rule.decide = "allow" /\ Blocked(p, req) THEN "deny" ELSE rule.decide

Evaluated(p, req) ==
    IF OnFloor(p, req) THEN IF Blocked(p, req) THEN "deny" ELSE "ask" ELSE Ruled(p, req)

Acts(p) == p.enabled /\ ~p.dryRun
Evaluate(p, req) ==
    [decision |-> Evaluated(p, req), applied |-> Acts(p) /\ Evaluated(p, req) # "ask"]

(* agent_mode.rs: what is not applied goes to the inbox. *)
AutoAllows(p, req) == Evaluate(p, req).applied /\ Evaluate(p, req).decision = "allow"
AutoDenies(p, req) == Evaluate(p, req).applied /\ Evaluate(p, req).decision = "deny"

-----------------------------------------------------------------------------
(* workspace.rs *)

Lower(a, b) == IF a <= b THEN a ELSE b
Higher(a, b) == IF a <= b THEN b ELSE a

(* A repo's own "allow" is dropped: it matches nothing. *)
Kept(rule) == IF rule.decide = "allow" THEN [rule EXCEPT !.tools = {}] ELSE rule

(* Mutation: a repo's rules keep what they allow. *)
NarrowRulesAsWritten(mine, theirs) == theirs \o mine
NarrowRules(mine, theirs) == [i \in DOMAIN theirs |-> Kept(theirs[i])] \o mine

(* An empty list of providers is no restriction, in a file and in the      *)
(* intersection of two.                                                    *)
NarrowProviders(mine, theirs) ==
    IF theirs = {} THEN mine ELSE IF mine = {} THEN theirs ELSE mine \cap theirs

NarrowEgress(mine, theirs) ==
    [mode |-> Lower(mine.mode, theirs.mode),
     providers |-> NarrowProviders(mine.providers, theirs.providers),
     bytes |-> IF mine.bytes = Unlimited THEN theirs.bytes
               ELSE IF theirs.bytes = Unlimited THEN mine.bytes ELSE Lower(mine.bytes, theirs.bytes),
     never |-> mine.never \cup theirs.never]

NarrowSafety(mine, theirs) == [c \in Classes |-> Higher(mine[c], theirs[c])]

Narrow(mine, theirs) ==
    [safety |-> NarrowSafety(mine.safety, theirs.safety),
     branches |-> mine.branches \cup theirs.branches,
     enabled |-> mine.enabled /\ theirs.enabled, dryRun |-> mine.dryRun \/ theirs.dryRun,
     rules |-> NarrowRules(mine.rules, theirs.rules),
     egress |-> NarrowEgress(mine.egress, theirs.egress)]

-----------------------------------------------------------------------------
(* Files: one that is missing, one that does not load, or a policy. *)

DefaultPolicy ==
    [safety |-> [c \in Classes |-> CASE c = Benign -> Allow [] c = NetworkEgress -> Warn
                                     [] c = Obfuscated -> Block [] OTHER -> Confirm],
     branches |-> Branches, enabled |-> FALSE, dryRun |-> TRUE, rules |-> <<>>,
     egress |-> [mode |-> 1, providers |-> {}, bytes |-> Unlimited, never |-> {}]]

NoFile == [is |-> "missing", policy |-> DefaultPolicy]
File(policy) == [is |-> "policy", policy |-> policy]

(* Policy::validate: [safety] may not allow what is always on the floor. *)
Loads(file) ==
    \/ file.is = "missing"
    \/ file.is = "policy" /\ \A c \in {CredentialRead, Obfuscated, Unparseable} : file.policy.safety[c] # Allow

(* workspace::load and effective: whatever fails to load, the default.     *)
Effective(global, inWorktree, repo) ==
    IF ~Loads(global) \/ (inWorktree /\ ~Loads(repo)) THEN DefaultPolicy
    ELSE IF inWorktree THEN Narrow(global.policy, repo.policy) ELSE global.policy

-----------------------------------------------------------------------------
(* ADR-0009, docs/05: no file of a workspace allows what the global file   *)
(* does not allow, nor what the global file puts on the floor; and what    *)
(* [safety] holds back stays held back.                                    *)
NothingWidened(global, inWorktree, repo, req) ==
    LET p == Effective(global, inWorktree, repo)
    IN  /\ AutoAllows(p, req) => Loads(global) /\ AutoAllows(global.policy, req)
        /\ AutoAllows(p, req) => ~OnFloor(global.policy, req)
        /\ Loads(global) /\ Blocked(global.policy, req) => ~AutoAllows(p, req)

EgressWithin(mine, theirs) ==
    /\ mine.mode <= theirs.mode
    /\ theirs.bytes # Unlimited => mine.bytes # Unlimited /\ mine.bytes <= theirs.bytes
    /\ theirs.never \subseteq mine.never
EgressBounded(mine, theirs) ==
    EgressWithin(NarrowEgress(mine, theirs), mine) /\ EgressWithin(NarrowEgress(mine, theirs), theirs)

(* The providers that a list allows: an empty one is "all configured". *)
Allowed(egress) == IF egress.providers = {} THEN Providers ELSE egress.providers
=============================================================================
