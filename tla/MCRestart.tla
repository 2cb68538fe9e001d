------------------------------ MODULE MCRestart ------------------------------
(***************************************************************************)
(* Checking Restart with one match of the old process and one of the new,  *)
(* and a crash at any point, reconciliation included.  Matches are alike,  *)
(* so the answers about one of them are enough.                            *)
(***************************************************************************)
EXTENDS Restart
=============================================================================
