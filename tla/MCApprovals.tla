----------------------------- MODULE MCApprovals -----------------------------
(***************************************************************************)
(* Instances of Approvals for TLC.                                         *)
(***************************************************************************)
EXTENDS Approvals, TLC

CONSTANTS r1, r2, s1, i1, i2

\* A hook and a codex request of the same session, under different ids.
HookAndCodex == (r1 :> "hook") @@ (r2 :> "codex")
SameSession  == (r1 :> s1) @@ (r2 :> s1)
OwnIds       == (r1 :> i1) @@ (r2 :> i2)
=============================================================================
