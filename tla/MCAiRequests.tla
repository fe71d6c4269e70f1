---------------------------- MODULE MCAiRequests ----------------------------
(***************************************************************************)
(* Instances of AiRequests for TLC: requests by name, two or three         *)
(* profiles in a circle or in a line.                                      *)
(***************************************************************************)
EXTENDS AiRequests, TLC

Asks        == {"ask1", "ask2"}
AskAndAgent == {"ask1", "agent1"}
Agent       == {"agent1"}
Ask         == {"ask1"}

KindByName  == [r \in Requests |-> IF r = "agent1" THEN "agent" ELSE "ask"]
FirstRoute  == [r \in Requests |-> "a"]
CrossRoute  == [r \in Requests |-> IF r \in {"ask2", "agent1"} THEN "b" ELSE "a"]

TwoProfiles == {"a", "b"}
Circle      == "a" :> "b" @@ "b" :> "a"
Line        == "a" :> "b" @@ "b" :> None
=============================================================================
