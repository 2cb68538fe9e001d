--------------------------- MODULE SettlementProofs ---------------------------
(***************************************************************************)
(* What ratings are made of, for any number of players and matches and     *)
(* with the writes of their settlements in any order.                      *)
(*                                                                         *)
(* A rating is overwritten with a snapshot and one match more, so what is  *)
(* to be shown of ratings has to be shown of the snapshots too (Snapped).  *)
(* The match that is added cannot be in its own snapshot: it was not over  *)
(* when the snapshot was taken.                                            *)
(***************************************************************************)
EXTENDS Settlement, Ladder, TLAPS

\* A history of matches that player p may have: no match twice, none without right.
Sound(h, p) ==
  /\ \A i \in 1 .. Len(h) : plays(p, h[i]) /\ isRated(h[i])
  /\ \A i, k \in 1 .. Len(h) : h[i] = h[k] => i = k

Rated == \A p \in Player : Sound(rating[p], p)

Snapped ==
  \A m \in Match, s \in Side : stage[m] # "none" =>
    /\ Sound(snapshot[m][s], lineup[m][s])
    /\ \A i \in 1 .. Len(snapshot[m][s]) : snapshot[m][s][i] # m

\* What a call has rated is on record, and it rates p1 first.
Recorded(m, s) == m \in hasRow /\ <<lineup[m][s], m>> \in events

Called ==
  \A call \in settling :
    /\ call.next \notin {"row", "end"} => isRated(call.match)
    /\ call.next \in {"row", "p1 user", "p1 event"} => call.deltas = {}
    /\ call.next \in {"p2 user", "p2 event"} => call.deltas = {"p1"}
    /\ call.next = "end" => call.deltas \in {{}, Side}
    /\ \A s \in call.deltas : Recorded(call.match, s)

IInv == TypeOK /\ Rated /\ Snapped /\ Called /\ DeltasAreOnRecord
------------------------------------------------------------------------------
LEMMA SidesType ==
  ASSUME NEW S, NEW x \in S, NEW y \in S
  PROVE  /\ Sides(x, y) \in [Side -> S]
         /\ Sides(x, y)["p1"] = x /\ Sides(x, y)["p2"] = y
BY DEF Sides, Side

\* A match that has been rated is over, and what is over does not change.
LEMMA StaysSound ==
  ASSUME TypeOK,
         \A m \in Match : stage[m] = "over" =>
           stage'[m] = "over" /\ outcome'[m] = outcome[m] /\ lineup'[m] = lineup[m],
         NEW h \in Seq(Match), NEW p, Sound(h, p)
  PROVE  Sound(h, p)'
<1>1. ASSUME NEW m \in Match, isRated(m)
      PROVE  stage[m] = "over"
  BY <1>1 DEF TypeOK, isRated, Played
<1>2. ASSUME NEW i \in 1 .. Len(h)
      PROVE  plays(p, h[i])' /\ isRated(h[i])'
  <2>1. h[i] \in Match /\ plays(p, h[i]) /\ isRated(h[i])
    BY DEF Sound
  <2> QED
    BY <1>1, <2>1 DEF plays, isRated
<1> QED
  BY <1>2 DEF Sound

LEMMA StaysRated ==
  ASSUME TypeOK,
         \A m \in Match : stage[m] = "over" =>
           stage'[m] = "over" /\ outcome'[m] = outcome[m] /\ lineup'[m] = lineup[m],
         NEW m \in Match, isRated(m)
  PROVE  isRated(m)'
BY DEF TypeOK, isRated, Played

LEMMA InitInv == Init => IInv
<1> SUFFICES ASSUME Init PROVE IInv
  OBVIOUS
<1>1. TypeOK
  <2>1. Sides(<<>>, <<>>) \in [Side -> Seq(Match)]
    <3>1. <<>> \in Seq(Match)
      OBVIOUS
    <3> QED
      BY <3>1, SidesType
  <2>2. snapshot \in [Match -> [Side -> Seq(Match)]]
    BY <2>1 DEF Init
  <2>3. lineup \in [Match -> {Nobody}] /\ rating \in [Player -> Seq(Match)]
    BY DEF Init
  <2> QED
    BY <2>2, <2>3 DEF Init, TypeOK
<1>2. Rated /\ Snapped /\ Called /\ DeltasAreOnRecord
  BY DEF Init, Rated, Snapped, Called, DeltasAreOnRecord, Sound
<1> QED
  BY <1>1, <1>2 DEF IInv

\* The snapshots are of this moment, and no rating contains a match not yet begun.
LEMMA BeginInv ==
  ASSUME IInv, NEW m \in Match, NEW a \in Player, NEW b \in Player, Begin(m, a, b)
  PROVE  IInv'
<1> USE DEF IInv, Begin
<1>1. \A n \in Match : n # m =>
        /\ stage'[n] = stage[n] /\ lineup'[n] = lineup[n] /\ snapshot'[n] = snapshot[n]
  BY DEF TypeOK
<1>2. /\ stage[m] = "none" /\ stage'[m] = "open" /\ outcome[m] = "none"
      /\ lineup'[m] = Sides(a, b) /\ snapshot'[m] = Sides(rating[a], rating[b])
      /\ outcome' = outcome
  BY DEF TypeOK
<1>3. /\ Sides(a, b) \in [Side -> Player] /\ Sides(a, b) # Nobody
      /\ Sides(a, b)["p1"] = a /\ Sides(a, b)["p2"] = b
  <2>1. Nobody["p1"] = "nobody"
    BY DEF Nobody, Sides, Side
  <2> QED
    BY <2>1, SidesType, SettlementAssumption
<1>4. /\ Sides(rating[a], rating[b]) \in [Side -> Seq(Match)]
      /\ Sides(rating[a], rating[b])["p1"] = rating[a]
      /\ Sides(rating[a], rating[b])["p2"] = rating[b]
  <2>1. rating[a] \in Seq(Match) /\ rating[b] \in Seq(Match)
    BY DEF TypeOK
  <2> QED
    BY <2>1, SidesType
<1>5. TypeOK'
  <2>1. /\ stage' \in [Match -> {"none", "open", "live", "over"}]
        /\ lineup' \in [Match -> [Side -> Player] \cup {Nobody}]
        /\ snapshot' \in [Match -> [Side -> Seq(Match)]]
    BY <1>3, <1>4 DEF TypeOK
  <2>2. \A n \in Match : (stage'[n] = "none") <=> (lineup'[n] = Nobody)
    BY <1>1, <1>2, <1>3 DEF TypeOK
  <2>3. \A n \in Match : (stage'[n] = "over") <=> (outcome'[n] # "none")
    BY <1>1, <1>2 DEF TypeOK
  <2>4. \A call \in settling : stage'[call.match] = "over"
    BY <1>1, <1>2 DEF TypeOK, Settling
  <2> QED
    BY <2>1, <2>2, <2>3, <2>4 DEF TypeOK
<1>6. \A n \in Match : stage[n] = "over" =>
        stage'[n] = "over" /\ outcome'[n] = outcome[n] /\ lineup'[n] = lineup[n]
  BY <1>1, <1>2
<1>7. \A h \in Seq(Match) : \A p : Sound(h, p) => Sound(h, p)'
  BY <1>6, StaysSound
<1>8. Rated'
  BY <1>7 DEF Rated, TypeOK
<1>9. ASSUME NEW n \in Match, NEW s \in Side, stage'[n] # "none"
      PROVE  /\ Sound(snapshot[n][s], lineup[n][s])'
             /\ \A i \in 1 .. Len(snapshot'[n][s]) : snapshot'[n][s][i] # n
  <2>1. CASE n # m
    <3>1. snapshot[n][s] \in Seq(Match)
      BY DEF TypeOK
    <3>2. /\ Sound(snapshot[n][s], lineup[n][s])
          /\ \A i \in 1 .. Len(snapshot[n][s]) : snapshot[n][s][i] # n
      BY <1>1, <1>9, <2>1 DEF Snapped
    <3>3. snapshot'[n][s] = snapshot[n][s] /\ lineup'[n][s] = lineup[n][s]
      BY <1>1, <2>1
    <3> QED
      BY <1>7, <3>1, <3>2, <3>3
  <2>2. CASE n = m
    <3>1. PICK p \in Player : lineup'[n][s] = p /\ snapshot'[n][s] = rating[p]
      BY <1>2, <1>3, <1>4, <2>2 DEF Side
    <3>2. rating[p] \in Seq(Match) /\ Sound(rating[p], p)
      BY DEF TypeOK, Rated
    <3>3. \A i \in 1 .. Len(rating[p]) : rating[p][i] # m
      BY <1>2, <3>2 DEF Sound, isRated, Played
    <3> QED
      BY <1>7, <2>2, <3>1, <3>2, <3>3
  <2> QED
    BY <2>1, <2>2
<1>10. Snapped'
  BY <1>9 DEF Snapped
<1>11. ASSUME NEW call \in settling
       PROVE  /\ call.match \in Match /\ stage[call.match] = "over"
              /\ lineup'[call.match] = lineup[call.match]
              /\ isRated(call.match) => isRated(call.match)'
  BY <1>6, StaysRated DEF TypeOK, Settling
<1>12. Called'
  <2>1. ASSUME NEW call \in settling, NEW s \in call.deltas
        PROVE  Recorded(call.match, s)'
    <3>1. Recorded(call.match, s)
      BY <2>1 DEF Called
    <3> QED
      BY <1>11, <3>1 DEF Recorded
  <2> QED
    BY <1>11, <2>1 DEF Called
<1>13. ASSUME NEW n \in Match, NEW deltas \in ended[n], deltas # {}
       PROVE  \A s \in Side : lineup'[n][s] = lineup[n][s]
  <2>1. <<lineup[n]["p1"], n>> \in events
    BY <1>13 DEF DeltasAreOnRecord, Side
  <2>2. lineup[n]["p1"] \in Player
    BY <2>1 DEF TypeOK
  <2>3. lineup[n] # Nobody
    BY <2>2, SettlementAssumption DEF Nobody, Sides, Side
  <2> QED
    BY <1>1, <1>2, <2>3 DEF TypeOK
<1>14. DeltasAreOnRecord'
  BY <1>13 DEF DeltasAreOnRecord
<1> QED
  BY <1>5, <1>8, <1>10, <1>12, <1>14
\* The steps of a match that is not over: its row, and its end.
LEMMA GoLiveInv ==
  ASSUME IInv, NEW m \in Match, GoLive(m) \/ Inserted(m)
  PROVE  IInv'
<1> USE DEF IInv
<1>1. /\ UNCHANGED <<lineup, snapshot, outcome, rating, events, settling, ended>>
      /\ hasRow \subseteq hasRow' /\ hasRow' \subseteq Match /\ inserting' \subseteq Match
      /\ stage' = stage \/ (stage[m] = "open" /\ stage' = [stage EXCEPT ![m] = "live"])
  BY DEF GoLive, Inserted, TypeOK
<1>2. \A n \in Match : /\ stage'[n] = "none" <=> stage[n] = "none"
                       /\ stage'[n] = "over" <=> stage[n] = "over"
  BY <1>1 DEF TypeOK
<1>3. TypeOK'
  <2>1. stage' \in [Match -> {"none", "open", "live", "over"}]
    BY <1>1 DEF TypeOK
  <2>2. \A call \in settling : stage'[call.match] = "over"
    BY <1>2 DEF TypeOK, Settling
  <2> QED
    BY <1>1, <1>2, <2>1, <2>2 DEF TypeOK
<1>4. Rated' /\ Snapped'
  BY <1>1, <1>2 DEF Rated, Snapped, Sound, plays, isRated
<1>5. Called'
  <2>1. ASSUME NEW call \in settling, NEW s \in call.deltas
        PROVE  Recorded(call.match, s)'
    <3>1. Recorded(call.match, s)
      BY <2>1 DEF Called
    <3> QED
      BY <1>1, <3>1 DEF Recorded
  <2> QED
    BY <1>1, <2>1 DEF Called, isRated
<1>6. DeltasAreOnRecord'
  BY <1>1 DEF DeltasAreOnRecord
<1> QED
  BY <1>3, <1>4, <1>5, <1>6

LEMMA FinishInv ==
  ASSUME IInv, NEW m \in Match, NEW o \in Outcome, NEW calls \in 1 .. 2,
         Finish(m, o, calls)
  PROVE  IInv'
<1> USE DEF IInv, Finish
<1> DEFINE new == [match : {m}, call : 1 .. calls, next : {"row"}, deltas : {{}}]
<1>1. /\ stage[m] # "over" /\ stage[m] # "none" /\ stage'[m] = "over" /\ outcome'[m] = o
      /\ \A n \in Match : n # m => stage'[n] = stage[n] /\ outcome'[n] = outcome[n]
      /\ UNCHANGED lineup
  BY DEF TypeOK
<1>2. \A n \in Match : stage[n] = "over" =>
        stage'[n] = "over" /\ outcome'[n] = outcome[n] /\ lineup'[n] = lineup[n]
  BY <1>1
<1>3. \A call \in new :
        /\ call \in Settling /\ call.match = m /\ call.next = "row" /\ call.deltas = {}
  <2>1. 1 .. calls \subseteq 1 .. 2
    <3> HIDE DEF IInv, Finish
    <3>1. \A k \in 1 .. calls : k \in 1 .. 2
      OBVIOUS
    <3> QED
      BY <3>1
  <2> QED
    BY <2>1 DEF Settling, Step
<1>4. TypeOK'
  <2>1. /\ stage' \in [Match -> {"none", "open", "live", "over"}]
        /\ outcome' \in [Match -> Outcome \cup {"none"}]
        /\ o # "none"
    BY DEF TypeOK, Outcome, Played
  <2>2. settling' \subseteq Settling
    BY <1>3 DEF TypeOK
  <2>3. ASSUME NEW n \in Match
        PROVE  /\ stage'[n] = "none" <=> lineup'[n] = Nobody
               /\ stage'[n] = "over" <=> outcome'[n] # "none"
    <3>1. /\ stage[n] = "none" <=> lineup[n] = Nobody
          /\ stage[n] = "over" <=> outcome[n] # "none"
      BY DEF TypeOK
    <3> HIDE DEF IInv, Finish
    <3> QED
      BY <1>1, <2>1, <3>1
  <2>4. \A call \in settling' : stage'[call.match] = "over"
    BY <1>1, <1>2, <1>3 DEF TypeOK, Settling
  <2> QED
    BY <2>1, <2>2, <2>3, <2>4 DEF TypeOK
<1>5. \A h \in Seq(Match) : \A p : Sound(h, p) => Sound(h, p)'
  BY <1>2, StaysSound
<1>6. Rated'
  BY <1>5 DEF Rated, TypeOK
<1>7. Snapped'
  <2>1. ASSUME NEW n \in Match, NEW s \in Side, stage'[n] # "none"
        PROVE  Sound(snapshot[n][s], lineup[n][s])'
    <3>1. snapshot[n][s] \in Seq(Match)
      BY DEF TypeOK
    <3>2. stage[n] # "none"
      BY <1>1, <2>1
    <3>3. Sound(snapshot[n][s], lineup[n][s])
      BY <3>2 DEF Snapped
    <3> QED
      BY <1>1, <1>5, <3>1, <3>3
  <2>2. \A n \in Match : stage'[n] # "none" => stage[n] # "none"
    BY <1>1
  <2> QED
    BY <2>1, <2>2 DEF Snapped
<1>8. Called'
  <2>1. ASSUME NEW call \in settling
        PROVE  isRated(call.match) => isRated(call.match)'
    BY <1>2, StaysRated DEF TypeOK, Settling
  <2>2. ASSUME NEW call \in settling', NEW s \in call.deltas
        PROVE  Recorded(call.match, s)'
    BY <1>3, <2>2 DEF Called, Recorded
  <2> QED
    BY <1>3, <2>1, <2>2 DEF Called
<1>9. DeltasAreOnRecord'
  BY DEF DeltasAreOnRecord
<1> QED
  BY <1>4, <1>6, <1>7, <1>8, <1>9
------------------------------------------------------------------------------
(* The steps of a call.  They leave the matches alone.                     *)

matches == <<stage, lineup, snapshot, outcome>>

\* c is the call after its step, or the call itself when that was its last.
LEMMA CallInv ==
  ASSUME IInv, UNCHANGED <<matches, inserting, hasRow>>,
         events \subseteq events', events' \subseteq Player \X Match,
         NEW call \in settling, NEW c \in Settling,
         settling' \subseteq settling \cup {c},
         c.match = call.match,
         c.next \notin {"row", "end"} => isRated(c.match),
         c.next \in {"row", "p1 user", "p1 event"} => c.deltas = {},
         c.next \in {"p2 user", "p2 event"} => c.deltas = {"p1"},
         c.next = "end" => c.deltas \in {{}, Side},
         \A s \in c.deltas : Recorded(c.match, s)',
         rating' \in [Player -> Seq(Match)], Rated',
         ended' \in [Match -> SUBSET SUBSET Side], DeltasAreOnRecord'
  PROVE  IInv'
<1> USE DEF IInv
<1>1. UNCHANGED <<stage, lineup, snapshot, outcome>>
  BY DEF matches
<1>2. TypeOK'
  <2>1. settling' \subseteq Settling
    BY DEF TypeOK
  <2>2. \A d \in settling' : stage[d.match] = "over"
    BY DEF TypeOK
  <2> QED
    BY <1>1, <2>1, <2>2 DEF TypeOK
<1>3. Snapped'
  <2>1. Snapped
    OBVIOUS
  <2> HIDE DEF IInv
  <2>2. stage' = stage /\ lineup' = lineup /\ snapshot' = snapshot /\ outcome' = outcome
    BY <1>1
  <2>3. \A h, p : Sound(h, p) => Sound(h, p)'
    BY <2>2 DEF Sound, plays, isRated
  <2> QED
    BY <2>1, <2>2, <2>3 DEF Snapped
<1>4. ASSUME NEW d \in settling'
      PROVE  /\ d.next \notin {"row", "end"} => isRated(d.match)
             /\ d.next \in {"row", "p1 user", "p1 event"} => d.deltas = {}
             /\ d.next \in {"p2 user", "p2 event"} => d.deltas = {"p1"}
             /\ d.next = "end" => d.deltas \in {{}, Side}
             /\ \A s \in d.deltas : Recorded(d.match, s)'
  <2>1. CASE d = c
    BY <2>1
  <2>2. CASE d \in settling
    <3>1. \A s \in d.deltas : Recorded(d.match, s)
      BY <2>2 DEF Called
    <3>2. \A s \in d.deltas : Recorded(d.match, s)'
      BY <1>1, <3>1 DEF Recorded
    <3> QED
      BY <2>2, <3>2 DEF Called
  <2> QED
    BY <2>1, <2>2
<1>5. Called'
  BY <1>1, <1>4 DEF Called, isRated
<1> QED
  BY <1>2, <1>3, <1>5

\* What a call leaves behind when it does not rate or announce anything.
LEMMA NothingRated ==
  ASSUME IInv, UNCHANGED <<matches, rating, events, ended, hasRow>>
  PROVE  /\ rating' \in [Player -> Seq(Match)] /\ Rated'
         /\ ended' \in [Match -> SUBSET SUBSET Side] /\ DeltasAreOnRecord'
         /\ events \subseteq events' /\ events' \subseteq Player \X Match
BY DEF IInv, TypeOK, Rated, Sound, plays, isRated, DeltasAreOnRecord, matches

LEMMA CallType ==
  ASSUME IInv, NEW call \in settling
  PROVE  /\ call \in Settling /\ call.match \in Match /\ call.deltas \subseteq Side
         /\ stage[call.match] = "over"
         /\ lineup[call.match] \in [Side -> Player]
         /\ \A s \in call.deltas : Recorded(call.match, s)
<1> USE DEF IInv
<1>1. /\ call \in Settling /\ call.match \in Match /\ call.deltas \subseteq Side
      /\ stage[call.match] = "over"
  BY DEF TypeOK, Settling
<1>2. lineup[call.match] \in [Side -> Player]
  BY <1>1 DEF TypeOK
<1>3. \A s \in call.deltas : Recorded(call.match, s)
  BY DEF Called
<1> QED
  BY <1>1, <1>2, <1>3

LEMMA NextStep ==
  ASSUME NEW call \in Settling, NEW n \in Step
  PROVE  LET c == [call EXCEPT !.next = n] IN
         /\ c \in Settling /\ c.match = call.match /\ c.next = n
         /\ c.deltas = call.deltas
BY DEF Settling

LEMMA NextStepDeltas ==
  ASSUME NEW call \in Settling, NEW n \in Step, NEW d \in SUBSET Side
  PROVE  LET c == [call EXCEPT !.next = n, !.deltas = d] IN
         /\ c \in Settling /\ c.match = call.match /\ c.next = n /\ c.deltas = d
BY DEF Settling

LEMMA SettleRowInv == ASSUME IInv, NEW call \in settling, SettleRow(call) PROVE IInv'
<1>1. PICK n \in {"p1 user", "end"} :
        /\ settling' = (settling \ {call}) \cup {[call EXCEPT !.next = n]}
        /\ n = "p1 user" => isRated(call.match)
  BY DEF SettleRow, Continue
<1>0. n \in Step
  BY DEF Step
<1> DEFINE c == [call EXCEPT !.next = n]
<1>2. /\ c \in Settling /\ c.match = call.match /\ c.next = n /\ c.deltas = call.deltas
  BY <1>0, CallType, NextStep
<1>3. call.deltas = {}
  BY DEF IInv, Called, SettleRow
<1>4. settling' \subseteq settling \cup {c}
  BY <1>1
<1>5. UNCHANGED <<matches, inserting, hasRow, rating, events, ended>>
  BY DEF SettleRow, matches
<1> HIDE DEF c
<1> QED
  BY <1>1, <1>2, <1>3, <1>4, <1>5, NothingRated, CallInv

LEMMA RateFailsInv == ASSUME IInv, NEW call \in settling, RateFails(call) PROVE IInv'
<1> DEFINE c == [call EXCEPT !.next = "end", !.deltas = {}]
<1>1. c \in Settling /\ c.match = call.match /\ c.next = "end" /\ c.deltas = {}
  BY CallType, NextStepDeltas DEF Step
<1>2. settling' \subseteq settling \cup {c}
  BY DEF RateFails
<1>3. UNCHANGED <<matches, inserting, hasRow, rating, events, ended>>
  BY DEF RateFails, matches
<1> HIDE DEF c
<1> QED
  BY <1>1, <1>2, <1>3, NothingRated, CallInv

\* The snapshot with the match in it: sound, because the match is not in it yet.
LEMMA RateUserInv ==
  ASSUME IInv, NEW call \in settling, NEW s \in Side, RateUser(call, s)
  PROVE  IInv'
<1> USE DEF IInv
<1> DEFINE m == call.match
           p == lineup[m][s]
           c == [call EXCEPT !.next = eventOf(s)]
<1>0. eventOf(s) \in Step
  BY DEF Step, eventOf
<1>1. /\ c \in Settling /\ c.match = m /\ c.next = eventOf(s) /\ c.deltas = call.deltas
      /\ m \in Match /\ p \in Player /\ stage[m] = "over"
  BY <1>0, CallType, NextStep
<1>2. /\ isRated(m)
      /\ eventOf(s) = "p1 event" => call.deltas = {}
      /\ eventOf(s) = "p2 event" => call.deltas = {"p1"}
      /\ eventOf(s) \in {"p1 event", "p2 event"}
      /\ \A t \in call.deltas : Recorded(m, t)
  BY CallType DEF RateUser, Called, userOf, eventOf, Side
<1>3. settling' \subseteq settling \cup {c}
  BY DEF RateUser, Continue
<1>4. /\ snapshot[m][s] \in Seq(Match) /\ Sound(snapshot[m][s], p)
      /\ \A i \in 1 .. Len(snapshot[m][s]) : snapshot[m][s][i] # m
  <2>1. snapshot[m][s] \in Seq(Match)
    BY <1>1 DEF TypeOK
  <2> QED
    BY <1>1, <2>1 DEF Snapped
<1>5. /\ rating' = [rating EXCEPT ![p] = afterMatch(m, s)]
      /\ UNCHANGED <<matches, inserting, hasRow, events, ended>>
  BY DEF RateUser, matches
<1> HIDE DEF c
<1> DEFINE h == afterMatch(m, s)
<1>6. h \in Seq(Match) /\ Sound(h, p)
  <2>1. /\ h \in Seq(Match) /\ Len(h) = Len(snapshot[m][s]) + 1
        /\ Len(snapshot[m][s]) \in Nat
        /\ h[Len(h)] = m
        /\ \A i \in 1 .. Len(snapshot[m][s]) : h[i] = snapshot[m][s][i]
    BY <1>1, <1>4 DEF afterMatch
  <2>2. plays(p, m)
    BY DEF plays
  <2> HIDE DEF h, m, p
  <2>3. \A i \in 1 .. Len(h) : i = Len(h) \/ i \in 1 .. Len(snapshot[m][s])
    BY <2>1
  <2>4. ASSUME NEW i \in 1 .. Len(h)
        PROVE  plays(p, h[i]) /\ isRated(h[i])
    BY <1>2, <1>4, <2>1, <2>2, <2>3 DEF Sound
  <2>5. ASSUME NEW i \in 1 .. Len(h), NEW k \in 1 .. Len(h), h[i] = h[k]
        PROVE  i = k
    BY <1>4, <2>1, <2>3, <2>5 DEF Sound
  <2> QED
    BY <2>1, <2>4, <2>5 DEF Sound
<1>7. rating' \in [Player -> Seq(Match)]
  BY <1>1, <1>5, <1>6 DEF TypeOK
<1>8. Rated'
  <2> HIDE DEF h, m, p
  <2>1. \A q \in Player : Sound(rating'[q], q)
    BY <1>1, <1>5, <1>6 DEF TypeOK, Rated, h
  <2> QED
    BY <1>5, <2>1 DEF Rated, Sound, plays, isRated, matches
<1>9. /\ ended' \in [Match -> SUBSET SUBSET Side] /\ DeltasAreOnRecord'
      /\ events' \subseteq Player \X Match
  BY <1>5 DEF TypeOK, DeltasAreOnRecord, matches
<1>10. \A t \in call.deltas : Recorded(m, t)'
  BY <1>2, <1>5 DEF Recorded, matches
<1> HIDE DEF m, p, h
<1> QED
  BY <1>1, <1>2, <1>3, <1>5, <1>7, <1>8, <1>9, <1>10, CallInv DEF m

LEMMA RateEventInv ==
  ASSUME IInv, NEW call \in settling, NEW s \in Side, RateEvent(call, s)
  PROVE  IInv'
<1> USE DEF IInv
<1> DEFINE m == call.match
           d == call.deltas \cup {s}
           c == [call EXCEPT !.next = afterEvent(s), !.deltas = d]
<1>0. afterEvent(s) \in Step /\ d \in SUBSET Side
  BY CallType DEF Step, afterEvent
<1> HIDE DEF d
<1>1. /\ c \in Settling /\ c.match = m /\ c.next = afterEvent(s)
      /\ c.deltas = d
      /\ m \in Match /\ lineup[m] \in [Side -> Player]
  <2>1. /\ call \in Settling /\ m \in Match
        /\ lineup[m] \in [Side -> Player]
    BY CallType
  <2> HIDE DEF IInv
  <2>2. /\ c \in Settling /\ c.match = m /\ c.next = afterEvent(s) /\ c.deltas = d
    BY <1>0, <2>1 DEF Settling
  <2> QED
    BY <2>1, <2>2
<1>2. /\ isRated(m)
      /\ s = "p1" => call.deltas = {}
      /\ s = "p2" => call.deltas = {"p1"}
      /\ \A t \in call.deltas : Recorded(m, t)
  BY CallType DEF RateEvent, Called, eventOf, Side
<1> USE DEF d
<1>3. /\ settling' \subseteq settling \cup {c}
      /\ m \in hasRow /\ events' = events \cup {<<lineup[m][s], m>>}
      /\ UNCHANGED <<matches, inserting, hasRow, rating, ended>>
  BY DEF RateEvent, matches
<1> HIDE DEF c, m
<1>4. /\ events' \subseteq Player \X Match /\ events \subseteq events'
      /\ rating' \in [Player -> Seq(Match)] /\ ended' \in [Match -> SUBSET SUBSET Side]
  BY <1>1, <1>3 DEF TypeOK
<1>5. Rated'
  BY <1>3 DEF Rated, Sound, plays, isRated, matches
<1>6. DeltasAreOnRecord'
  BY <1>3 DEF DeltasAreOnRecord, matches
<1>7. \A t \in c.deltas : Recorded(m, t)'
  BY <1>1, <1>2, <1>3 DEF Recorded, matches
<1>8. \/ c.next = "p2 user" /\ c.deltas = {"p1"}
      \/ c.next = "end" /\ c.deltas = Side
  BY <1>1, <1>2 DEF afterEvent, Side
<1> QED
  BY <1>1, <1>2, <1>3, <1>4, <1>5, <1>6, <1>7, <1>8, CallInv DEF m

LEMMA EndInv == ASSUME IInv, NEW call \in settling, End(call) PROVE IInv'
<1> USE DEF IInv
<1>1. /\ call.match \in Match /\ call \in Settling
      /\ call.next = "end" /\ call.deltas \in {{}, Side}
      /\ \A s \in call.deltas : Recorded(call.match, s)
  BY CallType DEF Called, End
<1>2. /\ UNCHANGED <<matches, inserting, hasRow, rating, events>>
      /\ settling' \subseteq settling \cup {call}
      /\ ended' = [ended EXCEPT ![call.match] = @ \cup {call.deltas}]
  BY DEF End, matches
<1>3. rating' \in [Player -> Seq(Match)] /\ ended' \in [Match -> SUBSET SUBSET Side]
  BY <1>1, <1>2 DEF TypeOK
<1>4. Rated' /\ events' \subseteq Player \X Match
  BY <1>2 DEF TypeOK, Rated, Sound, plays, isRated, matches
<1>5. DeltasAreOnRecord'
  <2>1. "p1" \in Side
    BY DEF Side
  <2>2. ASSUME NEW m \in Match, NEW deltas \in ended'[m], deltas # {}
        PROVE  deltas = Side /\ m \in hasRow /\ \A s \in Side : <<lineup[m][s], m>> \in events
    <3>1. CASE deltas \in ended[m]
      BY <2>2, <3>1 DEF DeltasAreOnRecord
    <3>2. CASE m = call.match /\ deltas = call.deltas
      BY <1>1, <2>1, <2>2, <3>2 DEF Recorded
    <3> QED
      BY <1>1, <1>2, <2>2, <3>1, <3>2 DEF TypeOK
  <2> QED
    BY <1>2, <2>2 DEF DeltasAreOnRecord, matches
<1>6. \A s \in call.deltas : Recorded(call.match, s)'
  BY <1>1, <1>2 DEF Recorded, matches
<1> QED
  BY <1>1, <1>2, <1>3, <1>4, <1>5, <1>6, CallInv
------------------------------------------------------------------------------
LEMMA NextInv == IInv /\ [Next]_vars => IInv'
<1> SUFFICES ASSUME IInv, [Next]_vars PROVE IInv'
  OBVIOUS
<1>1. ASSUME NEW m \in Match, NEW a \in Player, NEW b \in Player, Begin(m, a, b)
      PROVE  IInv'
  BY <1>1, BeginInv
<1>2. ASSUME NEW m \in Match, GoLive(m) \/ Inserted(m) PROVE IInv'
  BY <1>2, GoLiveInv
<1>3. ASSUME NEW m \in Match, NEW o \in Outcome, NEW calls \in 1 .. 2,
             Finish(m, o, calls)
      PROVE  IInv'
  BY <1>3, FinishInv
<1>4. ASSUME NEW call \in settling, SettleRow(call) \/ RateFails(call) \/ End(call)
      PROVE  IInv'
  BY <1>4, SettleRowInv, RateFailsInv, EndInv
<1>5. ASSUME NEW call \in settling, NEW s \in Side,
             RateUser(call, s) \/ RateEvent(call, s)
      PROVE  IInv'
  BY <1>5, RateUserInv, RateEventInv
<1>6. CASE UNCHANGED vars
  <2>1. TypeOK' /\ DeltasAreOnRecord'
    BY <1>6 DEF IInv, TypeOK, DeltasAreOnRecord, vars
  <2>2. Rated /\ Snapped /\ Called
    BY DEF IInv
  <2>3. /\ stage' = stage /\ lineup' = lineup /\ snapshot' = snapshot /\ outcome' = outcome
        /\ rating' = rating /\ settling' = settling /\ hasRow' = hasRow /\ events' = events
    BY <1>6 DEF vars
  <2>4. \A h, p : Sound(h, p) => Sound(h, p)'
    BY <2>3 DEF Sound, plays, isRated
  <2>5. Rated' /\ Snapped'
    BY <2>2, <2>3, <2>4 DEF Rated, Snapped
  <2>6. Called'
    BY <2>2, <2>3 DEF Called, Recorded, isRated
  <2> QED
    BY <2>1, <2>5, <2>6 DEF IInv
<1> QED
  BY <1>1, <1>2, <1>3, <1>4, <1>5, <1>6 DEF Next

LEMMA InvHolds == Spec => []IInv
<1> QED
  BY InitInv, NextInv, PTL DEF Spec
------------------------------------------------------------------------------
\* Type correctness, and that only a match that is over is settled.
THEOREM TypeCorrect == Spec => []TypeOK
<1>1. IInv => TypeOK
  BY DEF IInv
<1> QED
  BY <1>1, InvHolds, PTL

\* Settling a match twice, or two matches of one player at once, never leaves a rating
\* with a match in it twice.
THEOREM NoMatchCountsTwice == Spec => []CountedOnce
<1>1. ASSUME IInv PROVE CountedOnce
  <2>1. \A p \in Player : DOMAIN rating[p] = 1 .. Len(rating[p])
    BY <1>1 DEF IInv, TypeOK
  <2> QED
    BY <1>1, <2>1 DEF IInv, Rated, Sound, CountedOnce
<1> QED
  BY <1>1, InvHolds, PTL

\* No rating contains a match that was called off or voided, of a guest, or of others.
THEOREM OnlyRatedMatchesCount == Spec => []CountedByRight
<1>1. IInv => CountedByRight
  BY DEF IInv, TypeOK, Rated, Sound, isRated, CountedByRight
<1> QED
  BY <1>1, InvHolds, PTL

\* The deltas of a match.end are those of both players, and both are on record.
THEOREM AnnouncedDeltasAreOnRecord == Spec => []DeltasAreOnRecord
<1>1. IInv => DeltasAreOnRecord
  BY DEF IInv
<1> QED
  BY <1>1, InvHolds, PTL
------------------------------------------------------------------------------
(* What the ladder makes of a rating, for every rating, and the band for   *)
(* every wait.  The tests of ladder.ts and matchmaking.ts try a handful.   *)

\* A higher rating is never a lower rank: neither the tier falls, nor the division
\* within a tier (rankOf).
THEOREM RankIsMonotone ==
  ASSUME NEW r \in Rating, NEW s \in Rating, r <= s
  PROVE  /\ tierOf(r) <= tierOf(s)
         /\ tierOf(r) = tierOf(s) => divisionOf(r) <= divisionOf(s)
<1>1. tierOf(r) <= tierOf(s)
  BY SMTT(30) DEF Rating, tierOf, clamp, TIER_FLOOR, TIER_WIDTH, Point, Iron, Legend
<1>2. ASSUME tierOf(r) = tierOf(s)
      PROVE  divisionOf(r) <= divisionOf(s)
  <2>1. CASE tierOf(s) = Legend
    BY <1>2, <2>1 DEF divisionOf, NoDivision
  <2>2. CASE tierOf(s) # Legend
    <3> DEFINE floor == tierFloor(tierOf(s))
    <3>1. floor \in Int
      BY SMTT(30) DEF Rating, tierOf, tierFloor, clamp, TIER_FLOOR, TIER_WIDTH, Point,
                      Iron, Legend
    <3>2. /\ divisionOf(r) = clamp(0, (r - floor) \div DIVISION_WIDTH, 3)
          /\ divisionOf(s) = clamp(0, (s - floor) \div DIVISION_WIDTH, 3)
      BY <1>2, <2>2 DEF divisionOf
    <3> HIDE DEF floor
    <3> QED BY <3>1, <3>2, SMTT(30) DEF Rating, clamp, DIVISION_WIDTH
  <2> QED BY <2>1, <2>2
<1> QED BY <1>1, <1>2

\* Every rating has a rank, and only Legend has no division.
THEOREM RankIsTotal ==
  ASSUME NEW r \in Rating
  PROVE  /\ tierOf(r) \in Tier
         /\ tierOf(r) # Legend <=> divisionOf(r) \in Division
<1>1. tierOf(r) \in Tier /\ tierFloor(tierOf(r)) \in Int
  BY SMTT(30) DEF Rating, Tier, tierOf, tierFloor, clamp, TIER_FLOOR, TIER_WIDTH, Point,
                  Iron, Legend
<1> DEFINE floor == tierFloor(tierOf(r))
<1>2. divisionOf(r) = IF tierOf(r) = Legend THEN NoDivision
                      ELSE clamp(0, (r - floor) \div DIVISION_WIDTH, 3)
  BY DEF divisionOf
<1> HIDE DEF floor
<1>3. floor \in Int
  BY <1>1 DEF floor
<1> QED BY <1>1, <1>2, <1>3, SMTT(30) DEF Rating, Division, NoDivision, clamp, DIVISION_WIDTH

\* The points the hub shows to the next tier are enough to reach it, and one fewer
\* would not be (Hub.tsx shows them next to the name of that tier).
THEOREM PointsToNextTierAreExact ==
  ASSUME NEW r \in Rating, tierOf(r) # Legend
  PROVE  LET n == toNextTier(r) IN
         /\ n \in Nat \ {0}
         /\ tierOf(r + n * Point) = tierOf(r) + 1
         /\ tierOf(r + (n - 1) * Point) = tierOf(r)
BY SMTT(60) DEF Rating, toNextTier, wholePoints, tierOf, tierFloor, clamp, TIER_FLOOR,
                TIER_WIDTH, Point, Iron, Legend

\* What is announced after placements goes the way of the rating: a player who gained
\* is never shown a demotion, one who lost never a promotion, and no change of tier is
\* announced as anything less.
THEOREM ChangeFollowsTheRating ==
  ASSUME NEW before \in Standing, NEW after \in Standing,
         ~placing(before), ~placing(after)
  PROVE  LET change == ladderChange(before, after) IN
         /\ change.kind # "none" =>
              (change.up <=> after.rating > before.rating)
         /\ tierOf(after.rating) # tierOf(before.rating) => change.kind = "tier"
<1> DEFINE from == before.rating
           to == after.rating
<1>1. from \in Rating /\ to \in Rating
  BY DEF Standing
<1>2. /\ from <= to => tierOf(from) <= tierOf(to)
      /\ to <= from => tierOf(to) <= tierOf(from)
      /\ from <= to /\ tierOf(from) = tierOf(to) => divisionOf(from) <= divisionOf(to)
      /\ to <= from /\ tierOf(from) = tierOf(to) => divisionOf(to) <= divisionOf(from)
  BY <1>1, RankIsMonotone
<1>3. /\ tierOf(from) \in Int /\ tierOf(to) \in Int
      /\ divisionOf(from) \in Int /\ divisionOf(to) \in Int
  BY <1>1, RankIsTotal, SMT DEF Tier, Division, NoDivision, divisionOf, Iron, Legend
<1>4. ladderChange(before, after) =
        IF tierOf(from) # tierOf(to) THEN Change("tier", tierOf(to) > tierOf(from))
        ELSE IF divisionOf(from) # divisionOf(to)
             THEN Change("division", divisionOf(to) > divisionOf(from))
        ELSE NoChange
  BY Zenon DEF ladderChange
<1> HIDE DEF from, to
<1>5. from \in Int /\ to \in Int
  BY <1>1 DEF Rating
<1> DEFINE change == ladderChange(before, after)
<1> HIDE DEF change
<1>6. ASSUME NEW kind, NEW up
      PROVE  Change(kind, up).kind = kind /\ Change(kind, up).up = up
  BY DEF Change
<1> DEFINE Follows == /\ change.kind # "none" => (change.up <=> to > from)
                      /\ tierOf(to) # tierOf(from) => change.kind = "tier"
<1>7. ASSUME tierOf(from) # tierOf(to) PROVE Follows
  <2>1. change = Change("tier", tierOf(to) > tierOf(from))
    BY <1>4, <1>7 DEF change
  <2>2. tierOf(to) > tierOf(from) <=> to > from
    BY <1>2, <1>3, <1>5, <1>7, SMT
  <2>3. change.kind = "tier" /\ change.up = (tierOf(to) > tierOf(from))
    BY <1>6, <2>1, Zenon
  <2> QED BY <2>2, <2>3, Zenon
<1>8. ASSUME tierOf(from) = tierOf(to), divisionOf(from) # divisionOf(to) PROVE Follows
  <2>1. change = Change("division", divisionOf(to) > divisionOf(from))
    BY <1>4, <1>8, Zenon DEF change
  <2>2. divisionOf(to) > divisionOf(from) <=> to > from
    BY <1>2, <1>3, <1>5, <1>8, SMT
  <2>3. change.kind = "division" /\ change.up = (divisionOf(to) > divisionOf(from))
    BY <1>6, <2>1, Zenon
  <2> QED BY <1>8, <2>2, <2>3, Zenon
<1>9. ASSUME tierOf(from) = tierOf(to), divisionOf(from) = divisionOf(to) PROVE Follows
  <2>1. change = Change("none", FALSE)
    BY <1>4, <1>9, Zenon DEF NoChange, change
  <2> QED BY <1>6, <1>9, <2>1, Zenon
<1>10. Follows
  BY <1>7, <1>8, <1>9, Zenon
<1> QED BY <1>10, Zenon DEF change, from, to

\* The band only widens while a player waits, starts at BAND_START, and stops growing
\* at BAND_CEILING, after 150 seconds.
THEOREM BandWidens ==
  ASSUME NEW t \in Nat, NEW u \in Nat, t <= u
  PROVE  /\ half(t) <= half(u)
         /\ half(t) \in BAND_START .. BAND_CEILING
         /\ widening(t) <=> t < 15 * BAND_INTERVAL_MS
BY SMTT(30) DEF half, widening, steps, BAND_START, BAND_STEP, BAND_INTERVAL_MS, BAND_CEILING
==============================================================================
