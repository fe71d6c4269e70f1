---------------------------- MODULE MCInboxFeed -----------------------------
(***************************************************************************)
(* Instances of InboxFeed for TLC.                                         *)
(***************************************************************************)
EXTENDS InboxFeed

CONSTANTS r1, r2

(* Bound: a session that is labelled, and one that ends, is seen with one  *)
(* hook; a human's answer, from the press of the button to the reply, with *)
(* a second hook that has not called or waits for its own answer.          *)
OneHook ==
    /\ (label' \/ life' # "listed") => at'[Hook(r2)] = "idle"
    /\ Human(r1) \in Threads =>
           at'[Human(r1)] \in {"idle", "done"} \/ at'[Hook(r2)] \in {"idle", "held", "done"}

FeedSpec == Init /\ [][Next /\ OneHook]_vars /\ Fairness
=============================================================================
