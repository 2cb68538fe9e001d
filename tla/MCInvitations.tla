----------------------------- MODULE MCInvitations -----------------------------
(***************************************************************************)
(* Checking Invitations: two visitors race for the link and one response   *)
(* is lost; a second match shows that the link can start one.              *)
(***************************************************************************)
EXTENDS Invitations, TLC

Alike == Permutations(Visitor)
=============================================================================
