--------------------------- MODULE PolicyDecision ---------------------------
(***************************************************************************)
(* decide of vtermd/src/agent_mode.rs: one command of Agent Mode against   *)
(* two policy.toml.  The user edits the one, whoever writes to the         *)
(* worktree, the agent included, the other, and decide reads both twice:   *)
(* for the verdict that is shown, and for the rules.  That the worktree    *)
(* has a .git, and of what kind the session is, stays.                     *)
(***************************************************************************)
EXTENDS PolicyRules

CONSTANTS GlobalFiles,  (* what the user's policy.toml may hold            *)
          RepoFiles,    (* what that of the worktree may hold              *)
          Commanded,    (* the commands that are asked for                 *)
          MaxEdits      (* bound: edits of the two files                   *)

PolicyFiles == [is : {"missing", "unreadable", "policy"}, policy : Policies]

ASSUME DecisionAssumption ==
    /\ GlobalFiles \subseteq PolicyFiles /\ RepoFiles \subseteq PolicyFiles
    /\ Commanded \subseteq Requests /\ \A req \in Commanded : req.command # NoCommand
    /\ MaxEdits \in Nat

VARIABLES globalFile, repoFile, edits,
          step,         (* where decide is                                 *)
          request,
          fileRead,     (* the user's file as this load has read it        *)
          shown,        (* classified.floor: whether the floor is named    *)
          outcome,      (* of evaluate                                     *)
          answer,
          stood,        (* history: the user's files since decide began    *)
          quiet         (* history: no edit since decide began             *)

diskVars == <<globalFile, repoFile, edits>>
decideVars == <<step, request, fileRead, shown, outcome, answer>>
policyVars == <<diskVars, decideVars, stood, quiet>>

Deciding == {"classify", "classify repo", "evaluate", "evaluate repo"}
Undecided == [decision |-> "ask", applied |-> FALSE, floor |-> FALSE]

DecisionTypeOK ==
    /\ globalFile \in GlobalFiles /\ repoFile \in RepoFiles /\ edits \in 0..MaxEdits
    /\ step \in Deciding \cup {"idle", "asked", "done"}
    /\ request \in Commanded /\ fileRead \in GlobalFiles /\ shown \in BOOLEAN
    /\ outcome \in [decision : Decide, applied : BOOLEAN, floor : BOOLEAN]
    /\ answer \in {"none", "allow", "deny"}
    /\ stood \subseteq GlobalFiles /\ quiet \in BOOLEAN

PolicyInit ==
    /\ globalFile \in GlobalFiles /\ repoFile \in RepoFiles /\ edits = 0
    /\ step = "idle" /\ request \in Commanded /\ fileRead = globalFile
    /\ shown = FALSE /\ outcome = Undecided /\ answer = "none" /\ stood = {} /\ quiet = TRUE

EditGlobal ==
    /\ edits < MaxEdits /\ edits' = edits + 1
    /\ globalFile' \in GlobalFiles \ {globalFile}
    /\ IF step \in Deciding THEN stood' = stood \cup {globalFile'} /\ quiet' = FALSE ELSE UNCHANGED <<stood, quiet>>
    /\ UNCHANGED <<repoFile, decideVars>>

EditRepo ==
    /\ edits < MaxEdits /\ edits' = edits + 1
    /\ repoFile' \in RepoFiles \ {repoFile}
    /\ IF step \in Deciding THEN quiet' = FALSE ELSE UNCHANGED quiet
    /\ UNCHANGED <<globalFile, decideVars, stood>>

(* run_command takes the next command and calls decide. *)
BeginDecide ==
    /\ step \in {"idle", "done"} /\ step' = "classify"
    /\ request' \in Commanded
    /\ fileRead' = globalFile /\ shown' = FALSE /\ outcome' = Undecided /\ answer' = "none"
    /\ stood' = {globalFile} /\ quiet' = TRUE
    /\ UNCHANGED diskVars

(* workspace::load: first the user's file, then that of the worktree. *)
ReadGlobal(from, to) ==
    /\ step = from /\ step' = to
    /\ fileRead' = globalFile
    /\ UNCHANGED <<diskVars, request, shown, outcome, answer, stood, quiet>>
ClassifyReads == ReadGlobal("classify", "classify repo")
EvaluateReads == ReadGlobal("evaluate", "evaluate repo")

Loaded == Effective(fileRead, request.inWorktree, repoFile)

(* classify(command, cwd, false): whatever kind the session is of. *)
Classifies ==
    /\ step = "classify repo" /\ step' = "evaluate"
    /\ shown' = OnFloor(Loaded, [request EXCEPT !.generic = FALSE])
    /\ UNCHANGED <<diskVars, request, fileRead, outcome, answer, stood, quiet>>

(* evaluate, and the rule's answer or the inbox. *)
Evaluates ==
    LET e == Evaluate(Loaded, request)
    IN  /\ step = "evaluate repo"
        /\ outcome' = [decision |-> e.decision, applied |-> e.applied, floor |-> OnFloor(Loaded, request)]
        /\ IF e.applied THEN step' = "done" /\ answer' = e.decision ELSE step' = "asked" /\ UNCHANGED answer
        /\ UNCHANGED <<diskVars, request, fileRead, shown, stood, quiet>>

(* wait_decision: a human's answer, or the request is withdrawn. *)
InboxAnswers ==
    /\ step = "asked" /\ step' = "done"
    /\ answer' \in {"allow", "deny"}
    /\ UNCHANGED <<diskVars, request, fileRead, shown, outcome, stood, quiet>>

PolicyNext ==
    \/ EditGlobal \/ EditRepo \/ BeginDecide
    \/ ClassifyReads \/ Classifies \/ EvaluateReads \/ Evaluates \/ InboxAnswers
PolicySpec == PolicyInit /\ [][PolicyNext]_policyVars

-----------------------------------------------------------------------------
(* ADR-0009 and docs/05: what runs unasked is what a file of the user's    *)
(* that stood while decide ran lets run, and is not on its floor: whatever *)
(* the worktree's file said, and whoever wrote it between the two reads.   *)
DecidesWithin ==
    step = "done" /\ outcome.applied /\ answer = "allow" =>
        \E g \in stood : Loads(g) /\ AutoAllows(g.policy, request) /\ ~OnFloor(g.policy, request)

(* The floor that the request is shown with is the one it was decided on,  *)
(* unless a file was edited in between, or the session is a generic one.   *)
ShownAsDecided == step \in {"asked", "done"} /\ quiet /\ ~request.generic => shown = outcome.floor

(* docs/05: what may leave the machine stays within each of the two files, *)
(* but for the providers.                                                  *)
EgressHeld ==
    Loads(globalFile) /\ Loads(repoFile) =>
        LET sent == Effective(globalFile, TRUE, repoFile).egress
        IN  EgressWithin(sent, globalFile.policy.egress) /\ EgressWithin(sent, repoFile.policy.egress)

(* A repo's file, missing, broken or hostile, lets an agent do nothing     *)
(* that the user's file holds back.                                        *)
PolicyNarrows == DecisionTypeOK /\ DecidesWithin /\ ShownAsDecided /\ EgressHeld

-----------------------------------------------------------------------------
(* Promises TLC refutes. *)

(* docs/07: "every inbox item whose request carries a command gets verdict *)
(* and floor [...], generic adapter => floor".                             *)
FloorIsShown == step = "asked" /\ request.generic => shown

(* docs/05, "repo policy \cap global policy": no repo reaches a provider   *)
(* that the user's file does not allow.                                    *)
ProvidersStayWithin ==
    Loads(globalFile) /\ Loads(repoFile) =>
        Allowed(Effective(globalFile, TRUE, repoFile).egress) \subseteq Allowed(globalFile.policy.egress)

(* docs/09, "It can narrow, never widen": what the global policy refuses   *)
(* stays refused.                                                          *)
RefusalsStay ==
    /\ step \in {"asked", "done"} /\ quiet /\ Loads(fileRead) /\ Loads(repoFile)
    /\ AutoDenies(fileRead.policy, request)
    => step = "done" /\ outcome.applied /\ answer = "deny"

(* workspace::load, "narrowed by the repo's [...] if there is one".        *)
NoFileNoChange ==
    step \in {"asked", "done"} /\ quiet /\ repoFile = NoFile /\ Loads(fileRead) =>
        outcome.applied = Evaluate(fileRead.policy, request).applied
=============================================================================
