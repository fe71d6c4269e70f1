-------------------------- MODULE MCCodexObserver --------------------------
(***************************************************************************)
(* An instance of CodexObserver for TLC: two threads, one of which raises  *)
(* a request.                                                              *)
(***************************************************************************)
EXTENDS CodexObserver, TLC

TwoThreads == {"t1", "t2"}
OneRequest == {"r1"}
ByFirst == "r1" :> "t1"
Answers == {"accept", "decline"}
=============================================================================
