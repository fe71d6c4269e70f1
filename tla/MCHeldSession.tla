---------------------------- MODULE MCHeldSession ----------------------------
(***************************************************************************)
(* Instances of HeldSession for TLC.                                       *)
(***************************************************************************)
EXTENDS HeldSession
=============================================================================
