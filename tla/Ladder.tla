-------------------------------- MODULE Ladder --------------------------------
(***************************************************************************)
(* The ladder: the rank a rating stands for, what a change of rating is    *)
(* announced as, and the band in which an opponent is looked for.          *)
(*                                                                         *)
(* Ratings are counted in half points, the coarsest unit in which every    *)
(* boundary of the ladder - a division is 37.5 points wide - is a whole    *)
(* number.  A tier is its place in TIERS and a division its place in       *)
(* DIVISIONS, both from 0; labels and the share of progress are left out.  *)
(***************************************************************************)
EXTENDS Integers

Point == 2
TIER_FLOOR == 950 * Point
TIER_WIDTH == 150 * Point
DIVISION_WIDTH == 75
PLACEMENT_MATCHES == 5

Rating == Int
Iron == 0
Legend == 8
Tier == Iron .. Legend
Division == 0 .. 3
NoDivision == -1

clamp(low, x, high) == IF x < low THEN low ELSE IF x > high THEN high ELSE x
wholePoints(x) == -((-x) \div Point)              \* Math.ceil
------------------------------------------------------------------------------
(* rankOf.                                                                 *)

tierFloor(tier) == TIER_FLOOR + (tier - 1) * TIER_WIDTH       \* but Iron has none
tierOf(rating) == clamp(Iron, (rating - TIER_FLOOR) \div TIER_WIDTH + 1, Legend)

\* Iron is measured back from its ceiling.
divisionOf(rating) ==
  IF tierOf(rating) = Legend THEN NoDivision
  ELSE clamp(0, (rating - tierFloor(tierOf(rating))) \div DIVISION_WIDTH, 3)

toNextTier(rating) == wholePoints(tierFloor(tierOf(rating) + 1) - rating)
------------------------------------------------------------------------------
(* ladderChange, of records of a rating and the rated matches behind it.   *)

Standing == [rating : Rating, ratedMatches : Nat]
placing(standing) == standing.ratedMatches < PLACEMENT_MATCHES
Change(kind, up) == [kind |-> kind, up |-> up]
NoChange == Change("none", FALSE)

ladderChange(before, after) ==
  LET from == before.rating  to == after.rating IN
  IF placing(after) THEN NoChange
  ELSE IF placing(before) THEN Change("tier", TRUE)
  ELSE IF tierOf(from) # tierOf(to) THEN Change("tier", tierOf(to) > tierOf(from))
  ELSE IF divisionOf(from) # divisionOf(to)
       THEN Change("division", divisionOf(to) > divisionOf(from))
  ELSE NoChange
------------------------------------------------------------------------------
(* bandFor, in whole points and milliseconds.                              *)

BAND_START == 30
BAND_STEP == 25
BAND_INTERVAL_MS == 10000
BAND_CEILING == 400

steps(elapsedMs) == elapsedMs \div BAND_INTERVAL_MS
half(elapsedMs) ==
  LET grown == BAND_START + steps(elapsedMs) * BAND_STEP
  IN  IF grown > BAND_CEILING THEN BAND_CEILING ELSE grown
widening(elapsedMs) == half(elapsedMs) < BAND_CEILING
==============================================================================
