--------------------------- MODULE MCShellBlocks ---------------------------
(***************************************************************************)
(* ShellBlocks and AgentPanel for TLC, side by side: a behaviour is one of *)
(* the one or of the other, as part says.                                  *)
(***************************************************************************)
EXTENDS ShellBlocks, AgentPanel

VARIABLE part

TwoQuestions == {"q1", "q2"}
TwoThenOne  == [q \in Questions |-> IF q = "q1" THEN 2 ELSE 1]
OneThenNone == [q \in Questions |-> IF q = "q1" THEN 1 ELSE 0]

(* Bounds: of all words only the first may be blank; q1 is asked first. *)
FewBlanks == \A q \in Questions : \A i \in DOMAIN said'[q] : said'[q][i].blank => q = "q1" /\ i = 1
InTurn    == reply'["q2"] # "unasked" => reply["q1"] # "unasked"

MCInit ==
    /\ ShellInit /\ PanelInit
    /\ part = "blocks" \/ (part = "panel" /\ shell = "zsh" /\ status = 0)

MCNext ==
    \/ part = "blocks" /\ ShellNext /\ UNCHANGED panelVars /\ UNCHANGED part
    \/ part = "panel" /\ PanelNext /\ FewBlanks /\ InTurn /\ UNCHANGED wayVars /\ UNCHANGED part

(* Whoever waits for an end hears of it: the agent of that of its command, *)
(* the panel of that of its request.                                       *)
EndsAreHeard == AgentHears /\ HeardOut

MCSpec == MCInit /\ [][MCNext]_<<wayVars, panelVars, part>> /\ (part = "blocks" => Fairness) /\ PanelFairness
=============================================================================
