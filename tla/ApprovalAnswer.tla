--------------------------- MODULE ApprovalAnswer ---------------------------
(***************************************************************************)
(* What the approval inbox of vtermd promises about one request, and       *)
(* nothing of how: a request is raised once, it stops being open in one of *)
(* three ways (a human decides, the agent resolves it on its own surface,  *)
(* its session ends), and a decision reaches the agent at most once, over  *)
(* exactly one channel, unaltered.  Approvals.tla is shown to implement it.*)
(***************************************************************************)
CONSTANTS Requests,    (* approval requests                                *)
          Verdicts,    (* what a human can answer                          *)
          Channels     (* ways an answer travels back to the agent         *)

VARIABLES status,      (* where each request is in its life                *)
          verdict,     (* the answers given so far, a set per request      *)
          delivered    (* what reached the agent: channel-verdict pairs    *)

answerVars == <<status, verdict, delivered>>

Statuses == {"unasked", "open", "decided", "withdrawn", "dropped"}

Init == /\ status = [r \in Requests |-> "unasked"]
        /\ verdict = [r \in Requests |-> {}]
        /\ delivered = [r \in Requests |-> {}]

Raise(r) == /\ status[r] = "unasked"
            /\ status' = [status EXCEPT ![r] = "open"]
            /\ UNCHANGED <<verdict, delivered>>

\* A request leaves the inbox once, for one reason.
Close(r) == /\ status[r] = "open"
            /\ \E why \in {"decided", "withdrawn", "dropped"} :
                 status' = [status EXCEPT ![r] = why]
            /\ UNCHANGED <<verdict, delivered>>

\* Several requests may leave in one step: a session that ends takes all of
\* its requests with it.
DropAll(R) == /\ \A r \in R : status[r] = "open"
              /\ status' = [r \in Requests |-> IF r \in R THEN "dropped" ELSE status[r]]
              /\ UNCHANGED <<verdict, delivered>>

\* A request raised a second time under the same id takes the place of the
\* first, which is nobody's to answer any more.
Supersede(r, old) == /\ status[r] = "unasked"
                     /\ status[old] = "open"
                     /\ status' = [status EXCEPT ![r] = "open", ![old] = "dropped"]
                     /\ UNCHANGED <<verdict, delivered>>

Answer(r, v) == /\ status[r] = "decided"
                /\ verdict[r] = {}
                /\ verdict' = [verdict EXCEPT ![r] = {v}]
                /\ UNCHANGED <<status, delivered>>

\* Exactly one channel carries the answer, and it carries what was answered.
Deliver(r, c, v) == /\ v \in verdict[r]
                    /\ delivered[r] = {}
                    /\ delivered' = [delivered EXCEPT ![r] = {<<c, v>>}]
                    /\ UNCHANGED <<status, verdict>>

Next == \/ \E r \in Requests : Raise(r) \/ Close(r)
        \/ \E R \in SUBSET Requests : DropAll(R)
        \/ \E r, old \in Requests : Supersede(r, old)
        \/ \E r \in Requests, v \in Verdicts : Answer(r, v)
        \/ \E r \in Requests, c \in Channels, v \in Verdicts : Deliver(r, c, v)

Spec == Init /\ [][Next]_answerVars
=============================================================================
