------------------------------- MODULE MCLobby -------------------------------
(***************************************************************************)
(* Lobby on small instances, and what comments of the gateway say of it    *)
(* that the code does not keep.  ProblemChoice has no steps; it is checked *)
(* here over small banks.                                                  *)
(***************************************************************************)
EXTENDS Lobby, TLC

\* The two members of the challenge have the same part in it.
Members == Permutations({Host, Taker})

\* "This is the line the whole design exists for: after this returns, neither player
\* can be paired again" (matchmaking.ts:91-92): no player is in two matches.
NeverInTwoMatches ==
  \A m, n \in MatchId : m # n => matches[m].players \cap matches[n].players = {}

C == INSTANCE ProblemChoice

Banks == [1 .. 6 -> {800, 1000, 1230, 1240}]
Ratings == {1000, 1200, 1301, 1500}

\* A match of the queue has a problem whenever there is one.  It is between 270 points
\* below the mean of its players and 30 above, or no problem is, and none easier than
\* it was left out.
ASSUME MatchesGetProblems ==
  \A bank \in Banks, r1, r2 \in Ratings :
    LET chosen == C!choices(bank, r1, r2, 150)
        fits(p) == 2 * bank[p] - (r1 + r2) \in -540 .. 60
    IN  /\ chosen # {}
        /\ \A p \in chosen, q \in DOMAIN bank :
             \/ fits(p)
             \/ ~fits(q) /\ (bank[q] < bank[p] => q \in chosen)
==============================================================================
