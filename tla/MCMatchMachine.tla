---------------------------- MODULE MCMatchMachine ----------------------------
(***************************************************************************)
(* Checking MatchMachine on a small clock: MaxMs = 3 lets each side submit *)
(* in three different milliseconds, enough for two wrong attempts before a *)
(* right one, and for ties.  A match comes to rest, so the cfg files turn  *)
(* the deadlock check off.                                                 *)
(***************************************************************************)
EXTENDS MatchMachine
==============================================================================
