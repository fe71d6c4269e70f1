------------------------------ MODULE MCFanout ------------------------------
(***************************************************************************)
(* Instances of Fanout for TLC.                                            *)
(***************************************************************************)
EXTENDS Fanout

(* Two viewers whose input connections stay in the listen backlog, one of  *)
(* which calls attach and is stopped: what one viewer's stream does to the *)
(* other's.                                                                *)
StreamsOnly ==
    /\ \A v \in Viewers : thread'[Input(v)] \in {"none", "backlog"}
    /\ \A v \in Stalled : reader'[v] \in {"off", "attaching"} /\ queue'[v] = <<>>

StreamsSpec ==
    /\ Init /\ [][Next /\ StreamsOnly]_vars
    /\ WF_vars(Flush) /\ WF_vars(Unregister)
    /\ \A v \in Viewers : /\ WF_vars(Serve(Stream(v))) /\ WF_vars(Write(Stream(v)))
                          /\ WF_vars(WriterEnds(Stream(v)))
                          /\ v \notin Stalled => WF_vars(Reads(v))
=============================================================================
