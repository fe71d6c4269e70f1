---------------------------- MODULE MCSegmenter ----------------------------
(***************************************************************************)
(* Segmenter and PaneBlocks for TLC, side by side: a behaviour is one of   *)
(* the one or of the other, as part says.  Of the panes, two apps, of      *)
(* whose users one has a keyboard and the bookmarks.                       *)
(***************************************************************************)
EXTENDS Segmenter, PaneBlocks

VARIABLE part

TwoApps == {"a1", "a2"}
FirstApp == {"a1"}

(* Bound: the user of the second app opens and closes panes only.          *)
OneTypes ==
    /\ \A a \in Apps \ Marking : pane'[a].phase = "unknown" /\ pane'[a].keyboard = "editor"
    /\ clears' # clears => \E a \in Marking : call'[a] # call[a]

MCInit == Init /\ PaneInit /\ part \in {"segmenter", "panes"}

MCNext ==
    \/ part = "segmenter" /\ Next /\ UNCHANGED paneVars /\ UNCHANGED part
    \/ part = "panes" /\ PaneNext /\ OneTypes /\ UNCHANGED vars /\ UNCHANGED part

MCSpec == MCInit /\ [][MCNext]_<<vars, paneVars, part>> /\ PaneFairness
=============================================================================
