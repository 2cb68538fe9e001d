------------------------------- MODULE Referee -------------------------------
(***************************************************************************)
(* What a match promises its two players, with the lifecycle left out:     *)
(* submissions come in, each is judged once, and a single ruling closes    *)
(* the match.  MatchMachine is shown to implement it.                      *)
(*                                                                         *)
(* The promise about solving is the one the lifecycle's comments call      *)
(* section 6.9: among the correct submissions the earliest RECEIVED wins,  *)
(* and no such ruling is given while a submission still awaits a verdict.  *)
(***************************************************************************)
EXTENDS Integers

CONSTANT Submission      \* records with at least a side and a receiptMs

VARIABLES
  pending,               \* received, not judged yet
  correct,               \* judged correct
  ruling                 \* how the match ended, or NoRuling

NoRuling == [kind |-> "NONE", winner |-> "NONE", reason |-> "NONE"]

Ruling(kind, winner, reason) ==
  [kind |-> kind, winner |-> winner, reason |-> reason]

\* The submissions of S that no other submission of S was received before.
Earliest(S) == {sub \in S : \A other \in S : sub.receiptMs <= other.receiptMs}

\* The rulings the play itself can justify, given what is still pending and
\* what was judged correct.
OnTheMerits(waiting, right) ==
  IF waiting # {} THEN {NoRuling}
  ELSE IF right # {} THEN {Ruling("WIN", sub.side, "SOLVED") : sub \in Earliest(right)}
  ELSE {NoRuling, Ruling("DRAW", "NONE", "NOBODY_SOLVED")}

\* The rulings that owe nothing to the code the players wrote.
OffTheMerits ==
     {Ruling("WIN", s, why) : s \in {"p1", "p2"}, why \in {"FORFEIT", "OPPONENT_ABANDONED"}}
\cup {Ruling("CANCELED", "NONE", why) : why \in {"BOTH_ABANDONED", "NEVER_STARTED"}}

Init ==
  /\ pending = {}
  /\ correct = {}
  /\ ruling = NoRuling

Receive(sub) ==
  /\ ruling = NoRuling
  /\ pending' = pending \cup {sub}
  /\ UNCHANGED <<correct, ruling>>

\* A verdict settles one pending submission, and the last one settles the match.
Judge(sub, right) ==
  /\ ruling = NoRuling
  /\ sub \in pending
  /\ pending' = pending \ {sub}
  /\ correct' = IF right THEN correct \cup {sub} ELSE correct
  /\ ruling' \in OnTheMerits(pending', correct')

\* No verdict could be produced for a pending submission: a no-contest at once.
NoContest(sub) ==
  /\ ruling = NoRuling
  /\ sub \in pending
  /\ pending' = pending \ {sub}
  /\ ruling' = Ruling("VOID", "NONE", "INTERNAL_ERROR")
  /\ UNCHANGED correct

\* The clock runs out with nothing pending and nothing correct.
CallDraw ==
  /\ ruling = NoRuling
  /\ pending = {} /\ correct = {}
  /\ ruling' = Ruling("DRAW", "NONE", "NOBODY_SOLVED")
  /\ UNCHANGED <<pending, correct>>

\* A player walks away, or never came.
Walkover ==
  /\ ruling = NoRuling
  /\ ruling' \in OffTheMerits
  /\ UNCHANGED <<pending, correct>>

Next ==
  \/ \E sub \in Submission :
       \/ Receive(sub)
       \/ \E right \in BOOLEAN : Judge(sub, right)
       \/ NoContest(sub)
  \/ CallDraw
  \/ Walkover

vars == <<pending, correct, ruling>>

Spec == Init /\ [][Next]_vars
==============================================================================
