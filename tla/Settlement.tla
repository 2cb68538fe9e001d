------------------------------ MODULE Settlement ------------------------------
(***************************************************************************)
(* How a match is rated: the snapshots createMatch takes, the row the      *)
(* match gets when it is played, and the writes of settleMatch and         *)
(* applyOutcome (index.ts, rating.ts) - the match row, then a user and a   *)
(* rating event for one player, then for the other - none of which is      *)
(* awaited by anything else the gateway does.                              *)
(*                                                                         *)
(* A rating is modelled by the matches it contains, in the order in which  *)
(* they were counted: Glicko makes a new number of the old one and the     *)
(* match, and these are what the number depends on.  Bots are left out:    *)
(* nothing in the program starts one.                                      *)
(***************************************************************************)
EXTENDS Integers, Sequences

CONSTANTS
  Player,
  Guest,                 \* those of them who play as guests
  Match

ASSUME SettlementAssumption == Guest \subseteq Player /\ "nobody" \notin Player

VARIABLES
  stage,                 \* how far a match has come
  lineup,                \* who plays it
  snapshot,              \* their ratings when it was created
  outcome,
  inserting,             \* matches whose row is being written
  hasRow,                \* matches with a row
  rating,                \* User: the matches in a player's rating
  events,                \* RatingEvent: players and matches
  settling,              \* calls of settleMatch under way
  ended                  \* the match.end messages of a match, with their ratings

vars == <<stage, lineup, snapshot, outcome, inserting, hasRow, rating, events, settling,
          ended>>
------------------------------------------------------------------------------
Side == {"p1", "p2"}
Sides(x, y) == [s \in Side |-> IF s = "p1" THEN x ELSE y]
Nobody == Sides("nobody", "nobody")
Played == {"p1 WINS", "p2 WINS", "DRAW"}
Outcome == Played \cup {"CANCELED", "VOID"}

\* What a call of settleMatch does next.
Step == {"row", "p1 user", "p1 event", "p2 user", "p2 event", "end"}
userOf(s) == IF s = "p1" THEN "p1 user" ELSE "p2 user"
eventOf(s) == IF s = "p1" THEN "p1 event" ELSE "p2 event"
afterEvent(s) == IF s = "p1" THEN "p2 user" ELSE "end"

\* A match that enters its terminal state twice (see LiveMatch) is settled by
\* two calls at once.  deltas: the sides the call has rated so far.
Settling == [match : Match, call : 1 .. 2, next : Step, deltas : SUBSET Side]

plays(p, m) == \E s \in Side : lineup[m][s] = p
inMatch(p) == \E m \in Match : stage[m] \in {"open", "live"} /\ plays(p, m)

Init ==
  /\ stage = [m \in Match |-> "none"]
  /\ lineup = [m \in Match |-> Nobody]
  /\ snapshot = [m \in Match |-> Sides(<<>>, <<>>)]
  /\ outcome = [m \in Match |-> "none"]
  /\ inserting = {}
  /\ hasRow = {}
  /\ rating = [p \in Player |-> <<>>]
  /\ events = {}
  /\ settling = {}
  /\ ended = [m \in Match |-> {}]
------------------------------------------------------------------------------
\* createMatch reads both ratings before the match is played.
Begin(m, a, b) ==
  /\ stage[m] = "none"
  /\ a # b /\ ~inMatch(a) /\ ~inMatch(b)
  /\ stage' = [stage EXCEPT ![m] = "open"]
  /\ lineup' = [lineup EXCEPT ![m] = Sides(a, b)]
  /\ snapshot' = [snapshot EXCEPT ![m] = Sides(rating[a], rating[b])]
  /\ UNCHANGED <<outcome, inserting, hasRow, rating, events, settling, ended>>

\* persistMatch, at the first entry into LIVE.
GoLive(m) ==
  /\ stage[m] = "open"
  /\ stage' = [stage EXCEPT ![m] = "live"]
  /\ inserting' = inserting \cup {m}
  /\ UNCHANGED <<lineup, snapshot, outcome, hasRow, rating, events, settling, ended>>

\* The INSERT may be refused, and it may come after the match is over.
Inserted(m) ==
  /\ m \in inserting
  /\ inserting' = inserting \ {m}
  /\ hasRow' \in {hasRow, hasRow \cup {m}}
  /\ UNCHANGED <<stage, lineup, snapshot, outcome, rating, events, settling, ended>>

\* onFinished: the players are free at once, settleMatch is started, not awaited.
\* Before LIVE a match is called off, or won by the one who accepted.
Finish(m, o, calls) ==
  /\ \/ stage[m] = "live"
     \/ stage[m] = "open" /\ o \in {"p1 WINS", "p2 WINS", "CANCELED"} /\ calls = 1
  /\ stage' = [stage EXCEPT ![m] = "over"]
  /\ outcome' = [outcome EXCEPT ![m] = o]
  /\ settling' = settling \cup
       [match : {m}, call : 1 .. calls, next : {"row"}, deltas : {{}}]
  /\ UNCHANGED <<lineup, snapshot, inserting, hasRow, rating, events, ended>>

Continue(call, next) ==
  settling' = (settling \ {call}) \cup {[call EXCEPT !.next = next]}

\* Seeded fault: guests are rated like anybody else.
isRatedForAll(m) == outcome[m] \in Played

\* A guest on either side makes the match unrated for both.
isRated(m) == outcome[m] \in Played /\ \A s \in Side : lineup[m][s] \notin Guest

\* The UPDATE of the match row, whatever becomes of it.
SettleRow(call) ==
  /\ call.next = "row"
  /\ Continue(call, IF isRated(call.match) THEN "p1 user" ELSE "end")
  /\ UNCHANGED <<stage, lineup, snapshot, outcome, inserting, hasRow, rating, events, ended>>

\* Seeded fault: the match is added to the rating as it is by then.
afterMatchReadBack(m, s) == Append(rating[lineup[m][s]], m)

\* rateMatch: the rating of the snapshot with this match in it.
afterMatch(m, s) == Append(snapshot[m][s], m)

RateUser(call, s) ==
  /\ call.next = userOf(s)
  /\ LET m == call.match IN rating' = [rating EXCEPT ![lineup[m][s]] = afterMatch(m, s)]
  /\ Continue(call, eventOf(s))
  /\ UNCHANGED <<stage, lineup, snapshot, outcome, inserting, hasRow, events, ended>>

\* The upsert: unique by player and match, and it refers to the match's row.
RateEvent(call, s) ==
  /\ call.next = eventOf(s)
  /\ call.match \in hasRow
  /\ events' = events \cup {<<lineup[call.match][s], call.match>>}
  /\ settling' = (settling \ {call}) \cup
       {[call EXCEPT !.next = afterEvent(s), !.deltas = @ \cup {s}]}
  /\ UNCHANGED <<stage, lineup, snapshot, outcome, inserting, hasRow, rating, ended>>

\* Seeded fault: what was rated before the error is announced.
RateFailsHalfway(call) ==
  /\ call.next \notin {"row", "end"}
  /\ Continue(call, "end")
  /\ UNCHANGED <<stage, lineup, snapshot, outcome, inserting, hasRow, rating, events, ended>>

\* applyOutcome throws - always at an event whose match has no row - and its
\* deltas are lost; what it has written stays.
RateFails(call) ==
  /\ call.next \notin {"row", "end"}
  /\ settling' = (settling \ {call}) \cup {[call EXCEPT !.next = "end", !.deltas = {}]}
  /\ UNCHANGED <<stage, lineup, snapshot, outcome, inserting, hasRow, rating, events, ended>>

\* match.end with the deltas for the victory screen.
End(call) ==
  /\ call.next = "end"
  /\ settling' = settling \ {call}
  /\ ended' = [ended EXCEPT ![call.match] = @ \cup {call.deltas}]
  /\ UNCHANGED <<stage, lineup, snapshot, outcome, inserting, hasRow, rating, events>>

Next ==
  \/ \E m \in Match :
       \/ \E a, b \in Player : Begin(m, a, b)
       \/ GoLive(m) \/ Inserted(m)
       \/ \E o \in Outcome, calls \in 1 .. 2 : Finish(m, o, calls)
  \/ \E call \in settling :
       \/ SettleRow(call) \/ RateFails(call) \/ End(call)
       \/ \E s \in Side : RateUser(call, s) \/ RateEvent(call, s)

Spec == Init /\ [][Next]_vars
------------------------------------------------------------------------------
TypeOK ==
  /\ stage \in [Match -> {"none", "open", "live", "over"}]
  /\ lineup \in [Match -> [Side -> Player] \cup {Nobody}]
  /\ snapshot \in [Match -> [Side -> Seq(Match)]]
  /\ outcome \in [Match -> Outcome \cup {"none"}]
  /\ inserting \subseteq Match /\ hasRow \subseteq Match
  /\ rating \in [Player -> Seq(Match)]
  /\ events \subseteq Player \X Match
  /\ settling \subseteq Settling
  /\ ended \in [Match -> SUBSET SUBSET Side]
  /\ \A m \in Match :
       /\ stage[m] = "none" <=> lineup[m] = Nobody
       /\ stage[m] = "over" <=> outcome[m] # "none"
  /\ \A call \in settling : stage[call.match] = "over"

\* "A replayed finish cannot double-count": however often a match is settled, and
\* whatever else is settled in between, no rating contains it twice.
CountedOnce ==
  \A p \in Player : \A i, k \in DOMAIN rating[p] : rating[p][i] = rating[p][k] => i = k

\* Only a match that was decided by play between two registered players, one of
\* them this one, is ever part of a rating - VOID and CANCELED cost nobody anything.
CountedByRight ==
  \A p \in Player : \A i \in DOMAIN rating[p] :
    LET m == rating[p][i] IN
      /\ plays(p, m)
      /\ outcome[m] \in Played
      /\ \A s \in Side : lineup[m][s] \notin Guest

\* The victory screen counts up both deltas or none, and a delta it counts up is on
\* record for both players, match row included.
DeltasAreOnRecord ==
  \A m \in Match : \A deltas \in ended[m] :
    \/ deltas = {}
    \/ /\ deltas = Side
       /\ m \in hasRow
       /\ \A s \in Side : <<lineup[m][s], m>> \in events
==============================================================================
