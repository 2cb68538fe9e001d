----------------------------- MODULE MCPlayClient -----------------------------
(***************************************************************************)
(* Checking PlayClient.  Two matches make one that can be mistaken for the *)
(* other; two mishaps are a break and what follows it.                     *)
(***************************************************************************)
EXTENDS PlayClient
=============================================================================
