----------------------------- MODULE MCSettlement -----------------------------
(***************************************************************************)
(* Checking Settlement with two matches of three players, one of them a    *)
(* guest, so that the settlement of one match can overlap the next.  The   *)
(* two registered players are alike, and so are the matches.               *)
(*                                                                         *)
(* Ladder has no steps to run.  Its functions are compared here with what  *)
(* they are to compute, at every half point of the ladder.                 *)
(***************************************************************************)
EXTENDS Settlement, FiniteSets, TLC

Alike == Permutations(Player \ Guest) \cup Permutations(Match)

L == INSTANCE Ladder

\* The tier is the highest one whose floor is reached, the division the number of whole
\* quarters of it that are behind, and the next tier is toNextTier points away.
ASSUME RanksAreRead ==
  \A points \in 600 * L!Point .. 2300 * L!Point :
    LET reached == {tier \in L!Tier \ {L!Iron} : L!tierFloor(tier) <= points}
        quarters == {q \in 1 .. 3 : L!tierFloor(L!tierOf(points)) + q * L!DIVISION_WIDTH <= points}
    IN  /\ L!tierOf(points) = Cardinality(reached)
        /\ L!tierOf(points) < L!Legend =>
             /\ L!divisionOf(points) = Cardinality(quarters)
             /\ L!tierOf(points + L!toNextTier(points) * L!Point) = L!tierOf(points) + 1

\* The band is 30 points at first, 25 more every ten seconds, and never above 400.
ASSUME BandsAreRead ==
  /\ {L!half(10000 * n) : n \in 0 .. 20} = {30 + 25 * n : n \in 0 .. 14} \cup {400}
  /\ \A n \in 0 .. 20 : L!widening(10000 * n) <=> n < 15
=============================================================================
