----------------------------- MODULE ProblemChoice -----------------------------
(***************************************************************************)
(* Which problem a match may get (pickProblem of the gateway).             *)
(*                                                                         *)
(* The bank is a function from problems to their ratings.  The choice      *)
(* among what is selected is random: a definition here is the set it is    *)
(* made from, and a match without a problem is one whose set is empty.     *)
(* The shape of what is sent (no hidden test) is left out.                 *)
(***************************************************************************)
EXTENDS Integers, FiniteSets

OFFSET == 120             \* how far below the mean of the players
EASIEST == 5

\* rating within spread of (r1 + r2) / 2 - OFFSET, doubled to stay whole.
near(bank, r1, r2, spread) ==
  LET distance(p) == 2 * bank[p] - (r1 + r2 - 2 * OFFSET)
  IN  {p \in DOMAIN bank : -2 * spread <= distance(p) /\ distance(p) <= 2 * spread}

\* take: 5, orderBy rating; which of equals is not said.
easiest(bank) ==
  {p \in DOMAIN bank : Cardinality({q \in DOMAIN bank : bank[q] < bank[p]}) < EASIEST}

\* A match of the queue.
choices(bank, r1, r2, spread) ==
  LET fitting == near(bank, r1, r2, spread)
  IN  IF fitting # {} THEN fitting ELSE easiest(bank)

\* A challenge: no rating is read, and nothing is made up for an empty band.
choicesInBand(bank, band) ==
  {p \in DOMAIN bank : band.min <= bank[p] /\ bank[p] <= band.max}
================================================================================
