----------------------------- MODULE LobbyProofs -----------------------------
(***************************************************************************)
(* Sessions, queue and challenge for any number of players, of matches     *)
(* being created and of calls to Redis under way.                          *)
(*                                                                         *)
(* What the properties of Lobby say holds together: a session is right     *)
(* about its match because nobody is entered into a match twice at one     *)
(* slot, and a seeker is not forgotten because a session that takes up no  *)
(* match has none.  Beside them the invariant needs that Redis never       *)
(* answers a player with the player's own name.                            *)
(***************************************************************************)
EXTENDS Lobby, FiniteSetTheorems, SequenceTheorems, TLAPS

\* The fields of the sessions and the maps beside them.
SessionTypes ==
  /\ present \in [Player -> BOOLEAN]
  /\ online \in [Player -> BOOLEAN]
  /\ queued \in [Player -> BOOLEAN]
  /\ intent \in [Player -> BOOLEAN]
  /\ sessionMatch \in [Player -> MatchId \cup {None}]
  /\ userMatch \in [Player -> MatchId \cup {None}]

\* Only a player with a socket is queued, only one with a session has a socket.
Sockets == \A p \in Player : (queued[p] => online[p]) /\ (online[p] => present[p])

\* The matchmaker's answers name somebody else, or nobody.
Redis ==
  /\ pool \subseteq Player
  /\ answers \in Seq(Answer)
  /\ \A i \in DOMAIN answers : answers[i].partner # answers[i].by

\* Only the two members are in the challenge.
Challenge == inChallenge \subseteq {Host, Taker} /\ asking \subseteq {Host, Taker}

\* A match has two players.
Matches ==
  /\ matches \in [MatchId -> Match \cup {NoMatch}]
  /\ \A m \in MatchId :
       matches[m] # NoMatch => \E p, q \in Player : p # q /\ matches[m].players = {p, q}

\* The match of the challenge that is being created, if there is one, is the only one,
\* and the code is in the set as long as there is one.
Guarded ==
  /\ challengeStarting \in BOOLEAN
  /\ \A m \in beingCreated("challenge") :
       challengeStarting /\ \A n \in beingCreated("challenge") : m = n

\* The inductive invariant.
LobbyInv ==
  /\ SessionTypes
  /\ Sockets
  /\ Redis
  /\ Challenge
  /\ Matches
  /\ Guarded
  /\ SessionKnowsItsMatch

\* Two different players are two.
LEMMA PairsAreTwo ==
  ASSUME NEW p, NEW q, p # q
  PROVE  Cardinality({p, q}) = 2
<1>1. IsFiniteSet({p}) /\ Cardinality({p}) = 1 /\ q \notin {p}
  BY FS_Singleton
<1>2. Cardinality({p} \cup {q}) = Cardinality({p}) + 1
  BY <1>1, FS_AddElement
<1>3. {p} \cup {q} = {p, q}
  OBVIOUS
<1> QED
  BY <1>1, <1>2, <1>3

\* A set whose members are all the same has one at most.
LEMMA AtMostOne ==
  ASSUME NEW S, \A x, y \in S : x = y
  PROVE  Cardinality(S) <= 1
<1>1. CASE S = {}
  BY <1>1, FS_EmptySet
<1>2. CASE S # {}
  <2>1. PICK x \in S : S = {x}
    BY <1>2
  <2> QED
    BY <2>1, FS_Singleton
<1> QED
  BY <1>1, <1>2

\* The named parts of the invariant are what LobbyTypeOK says, ...
LEMMA TypesFollow == LobbyInv => LobbyTypeOK
<1> SUFFICES ASSUME LobbyInv PROVE LobbyTypeOK
  OBVIOUS
<1>1. {present, online, queued, intent} \subseteq [Player -> BOOLEAN]
  BY Zenon DEF LobbyInv, SessionTypes
<1>2. {sessionMatch, userMatch} \subseteq [Player -> MatchId \cup {None}]
  BY Zenon DEF LobbyInv, SessionTypes
<1>3. \A m \in MatchId : matches[m] # NoMatch => Cardinality(matches[m].players) = 2
  <2> SUFFICES ASSUME NEW m \in MatchId, matches[m] # NoMatch
               PROVE  Cardinality(matches[m].players) = 2
    OBVIOUS
  <2>1. PICK p \in Player, q \in Player : p # q /\ matches[m].players = {p, q}
    BY DEF LobbyInv, Matches
  <2> QED
    BY <2>1, PairsAreTwo
<1>4. \A i \in DOMAIN answers : answers[i] \in Answer
  BY DEF LobbyInv, Redis
<1> QED
  BY <1>1, <1>2, <1>3, <1>4 DEF LobbyInv, LobbyTypeOK, Sockets, Redis, Challenge, Matches,
     Guarded

\* ... and Guarded is what ChallengeStartsOnce says.
LEMMA ChallengesFollow == LobbyInv => ChallengeStartsOnce
BY AtMostOne DEF LobbyInv, Guarded, ChallengeStartsOnce

\* A gateway that was just started: nobody is there.
LEMMA InitFree == LobbyInit => LobbyInv
<1> SUFFICES ASSUME LobbyInit PROVE LobbyInv
  OBVIOUS
<1>1. present \in [Player -> BOOLEAN] /\ online \in [Player -> BOOLEAN]
  BY DEF LobbyInit
<1>2. queued \in [Player -> BOOLEAN] /\ intent \in [Player -> BOOLEAN]
  BY DEF LobbyInit
<1>3. /\ sessionMatch \in [Player -> MatchId \cup {None}]
      /\ userMatch \in [Player -> MatchId \cup {None}]
  BY DEF LobbyInit
<1>4. Sockets /\ SessionKnowsItsMatch /\ Challenge
  BY DEF LobbyInit, Sockets, SessionKnowsItsMatch, Challenge
<1>5. Redis
  BY DEF LobbyInit, Redis
<1>6. Matches /\ Guarded
  BY DEF LobbyInit, Matches, Guarded, beingCreated, NoMatch
<1> QED
  BY <1>1, <1>2, <1>3, <1>4, <1>5, <1>6 DEF LobbyInv, SessionTypes
------------------------------------------------------------------------------
\* A flag set in the record of one player.
LEMMA FlagSet ==
  ASSUME NEW f \in [Player -> BOOLEAN], NEW p \in Player, NEW b \in BOOLEAN
  PROVE  /\ [f EXCEPT ![p] = b] \in [Player -> BOOLEAN]
         /\ [f EXCEPT ![p] = b][p] = b
         /\ \A q \in Player \ {p} : [f EXCEPT ![p] = b][q] = f[q]
BY Zenon

\* An answer on its way, from a call of p.
LEMMA AttemptAnswered ==
  ASSUME Redis, NEW p \in Player, Attempt(p)
  PROVE  Redis'
<1>1. PICK partner \in Player \cup {Nobody} :
        /\ joinOrPair(p, partner)
        /\ answers' = Append(answers, [op |-> "join", by |-> p, partner |-> partner,
                                      orphan |-> FALSE])
  BY DEF Attempt
<1>2. partner # p /\ pool' \subseteq Player
  BY <1>1, LobbyAssumption DEF joinOrPair, Pair, Enqueue, Redis
<1> DEFINE answer == [op |-> "join", by |-> p, partner |-> partner, orphan |-> FALSE]
<1>3. answer \in Answer /\ answer.partner # answer.by
  BY <1>2 DEF Answer
<1>4. answers' = Append(answers, answer)
  BY <1>1
<1> HIDE DEF answer
<1>5. answers' \in Seq(Answer) /\ \A i \in DOMAIN answers' : answers'[i].partner # answers'[i].by
  BY <1>3, <1>4 DEF Redis
<1> QED
  BY <1>2, <1>5 DEF Redis

\* The first answer is taken in.
LEMMA AnswerTaken ==
  ASSUME Redis, answers # <<>>
  PROVE  /\ Head(answers) \in Answer /\ Head(answers).partner # Head(answers).by
         /\ Tail(answers) \in Seq(Answer)
         /\ \A i \in DOMAIN Tail(answers) : Tail(answers)[i].partner # Tail(answers)[i].by
BY DEF Redis

\* The code stays in the set while nothing is begun and nothing is released.
LEMMA StillGuarded ==
  ASSUME Guarded, UNCHANGED <<matches, challengeStarting>>
  PROVE  Guarded'
BY DEF Guarded, beingCreated

\* What is said of the sessions and the matches, when those do not change.
LEMMA LobbyFrame ==
  ASSUME LobbyInv, UNCHANGED <<sessionVars, userMatch, matches>>, Redis', Challenge', Guarded'
  PROVE  LobbyInv'
BY DEF LobbyInv, SessionTypes, Sockets, Matches, SessionKnowsItsMatch, sessionVars

\* Only a player with a socket and no match joins the queue.
LEMMA QueueKeeps ==
  ASSUME LobbyInv, NEW p \in Player, QueueJoin(p) \/ QueueLeave(p) \/ Retry(p)
  PROVE  LobbyInv'
<1>1. CASE QueueJoin(p)
  <2>1. /\ queued' = [queued EXCEPT ![p] = TRUE] /\ intent' = [intent EXCEPT ![p] = TRUE]
        /\ Attempt(p) /\ online[p] /\ sessionMatch[p] = None
        /\ UNCHANGED <<present, online, sessionMatch, userMatch, matches, challengeVars>>
    BY <1>1 DEF QueueJoin, joinQueue
  <2>2. present[p] /\ userMatch[p] = None
    BY <2>1 DEF LobbyInv, Sockets, SessionKnowsItsMatch
  <2>3. queued' \in [Player -> BOOLEAN] /\ intent' \in [Player -> BOOLEAN]
    BY <2>1, FlagSet DEF LobbyInv, SessionTypes
  <2>4. \A q \in Player \ {p} : queued'[q] = queued[q] /\ intent'[q] = intent[q]
    BY <2>1, FlagSet DEF LobbyInv, SessionTypes
  <2>5. Redis'
    BY <2>1, AttemptAnswered DEF LobbyInv
  <2>6. SessionTypes' /\ Matches' /\ Challenge' /\ Guarded'
    BY <2>1, <2>3, StillGuarded DEF LobbyInv, SessionTypes, Matches, Challenge, challengeVars
  <2>7. Sockets'
    BY <2>1, <2>2, <2>4 DEF LobbyInv, Sockets
  <2>8. SessionKnowsItsMatch'
    BY <2>1, <2>2, <2>4 DEF LobbyInv, SessionKnowsItsMatch
  <2> QED
    BY <2>5, <2>6, <2>7, <2>8 DEF LobbyInv
<1>2. CASE QueueLeave(p)
  <2>1. /\ queued' = [queued EXCEPT ![p] = FALSE] /\ intent' = [intent EXCEPT ![p] = FALSE]
        /\ UNCHANGED <<present, online, sessionMatch, userMatch, matches, asking, answers>>
        /\ UNCHANGED challengeStarting
        /\ inChallenge' \subseteq inChallenge /\ pool' \subseteq pool
    BY <1>2 DEF QueueLeave, leave
  <2>2. queued' \in [Player -> BOOLEAN] /\ intent' \in [Player -> BOOLEAN]
    BY <2>1, FlagSet DEF LobbyInv, SessionTypes
  <2>3. \A q \in Player : (queued'[q] => queued[q]) /\ (intent'[q] => intent[q])
    BY <2>1, FlagSet DEF LobbyInv, SessionTypes
  <2>4. SessionTypes' /\ Matches' /\ Challenge' /\ Redis' /\ Guarded'
    BY <2>1, <2>2, StillGuarded DEF LobbyInv, SessionTypes, Matches, Challenge, Redis
  <2>5. Sockets' /\ SessionKnowsItsMatch'
    BY <2>1, <2>3 DEF LobbyInv, Sockets, SessionKnowsItsMatch
  <2> QED
    BY <2>4, <2>5 DEF LobbyInv
<1>3. CASE Retry(p)
  BY <1>3, AttemptAnswered, LobbyFrame, StillGuarded DEF Retry, LobbyInv, Challenge,
     challengeVars
<1> QED
  BY <1>1, <1>2, <1>3

\* A new session takes up the match of its player, and the queue only without one.
LEMMA ConnectKeeps ==
  ASSUME LobbyInv, NEW p \in Player, Connect(p)
  PROVE  LobbyInv'
<1>1. /\ present' = [present EXCEPT ![p] = TRUE] /\ online' = [online EXCEPT ![p] = TRUE]
      /\ sessionMatch' = IF present[p] THEN sessionMatch
                         ELSE [sessionMatch EXCEPT ![p] = userMatch[p]]
      /\ UNCHANGED <<userMatch, matches, challengeVars>>
  BY DEF Connect, OpenSocket
<1>2. /\ present' \in [Player -> BOOLEAN] /\ online' \in [Player -> BOOLEAN]
      /\ present'[p] /\ online'[p]
      /\ \A q \in Player \ {p} : present'[q] = present[q] /\ online'[q] = online[q]
  BY <1>1, FlagSet DEF LobbyInv, SessionTypes
<1>3. sessionMatch' \in [Player -> MatchId \cup {None}]
  BY <1>1 DEF LobbyInv, SessionTypes
<1>4. /\ sessionMatch'[p] = userMatch[p]
      /\ \A q \in Player \ {p} : sessionMatch'[q] = sessionMatch[q]
  BY <1>1 DEF LobbyInv, SessionTypes, SessionKnowsItsMatch
<1>5. Matches' /\ Challenge' /\ Guarded'
  BY <1>1, StillGuarded DEF LobbyInv, Matches, Challenge, challengeVars
<1>6. CASE joinQueue(p) /\ userMatch[p] = None
  <2>1. /\ queued' = [queued EXCEPT ![p] = TRUE] /\ intent' = [intent EXCEPT ![p] = TRUE]
        /\ Attempt(p)
    BY <1>6 DEF joinQueue
  <2>2. queued' \in [Player -> BOOLEAN] /\ intent' \in [Player -> BOOLEAN]
    BY <2>1, FlagSet DEF LobbyInv, SessionTypes
  <2>3. \A q \in Player \ {p} : queued'[q] = queued[q] /\ intent'[q] = intent[q]
    BY <2>1, FlagSet DEF LobbyInv, SessionTypes
  <2>4. Redis'
    BY <2>1, AttemptAnswered DEF LobbyInv
  <2>5. SessionTypes'
    BY <1>1, <1>2, <1>3, <2>2 DEF LobbyInv, SessionTypes
  <2>6. Sockets'
    BY <1>2, <2>3 DEF LobbyInv, Sockets
  <2>7. SessionKnowsItsMatch'
    BY <1>1, <1>2, <1>4, <1>6, <2>3 DEF LobbyInv, SessionKnowsItsMatch
  <2> QED
    BY <1>5, <2>4, <2>5, <2>6, <2>7 DEF LobbyInv
<1>7. CASE UNCHANGED <<queued, intent, redisVars>>
  <2>1. SessionTypes' /\ Redis'
    BY <1>1, <1>2, <1>3, <1>7 DEF LobbyInv, SessionTypes, Redis, redisVars
  <2>2. Sockets'
    BY <1>2, <1>7 DEF LobbyInv, Sockets
  <2>3. SessionKnowsItsMatch'
    BY <1>1, <1>2, <1>4, <1>7 DEF LobbyInv, SessionKnowsItsMatch
  <2> QED
    BY <1>5, <2>1, <2>2, <2>3 DEF LobbyInv
<1> QED
  BY <1>6, <1>7 DEF Connect

\* The session outlives its last socket exactly while its player has a match.
LEMMA DisconnectKeeps ==
  ASSUME LobbyInv, NEW p \in Player, Disconnect(p)
  PROVE  LobbyInv'
<1>1. /\ online' = [online EXCEPT ![p] = FALSE] /\ queued' = [queued EXCEPT ![p] = FALSE]
      /\ pool' \subseteq pool
      /\ UNCHANGED <<intent, userMatch, matches, challengeVars>>
  BY DEF Disconnect, leave
<1>2. online' \in [Player -> BOOLEAN] /\ queued' \in [Player -> BOOLEAN]
  BY <1>1, FlagSet DEF LobbyInv, SessionTypes
<1>3. /\ ~online'[p] /\ ~queued'[p]
      /\ \A q \in Player \ {p} : online'[q] = online[q] /\ queued'[q] = queued[q]
  BY <1>1, FlagSet DEF LobbyInv, SessionTypes
<1>4. Matches' /\ Challenge' /\ Guarded'
  BY <1>1, StillGuarded DEF LobbyInv, Matches, Challenge, challengeVars
<1>5. CASE userMatch[p] # None /\ UNCHANGED <<present, sessionMatch, answers>>
  <2>1. SessionTypes' /\ Redis'
    BY <1>1, <1>2, <1>5 DEF LobbyInv, SessionTypes, Redis
  <2>2. Sockets'
    BY <1>3, <1>5 DEF LobbyInv, Sockets
  <2>3. SessionKnowsItsMatch'
    BY <1>1, <1>3, <1>5 DEF LobbyInv, SessionKnowsItsMatch
  <2> QED
    BY <1>4, <2>1, <2>2, <2>3 DEF LobbyInv
<1>6. CASE /\ userMatch[p] = None
           /\ present' = [present EXCEPT ![p] = FALSE]
           /\ sessionMatch' = [sessionMatch EXCEPT ![p] = None]
           /\ answers' = [i \in DOMAIN answers |->
                            [answers[i] EXCEPT !.orphan = @ \/ answers[i].by = p]]
  <2>1. present' \in [Player -> BOOLEAN] /\ ~present'[p]
    BY <1>6, FlagSet DEF LobbyInv, SessionTypes
  <2>2. \A q \in Player \ {p} : present'[q] = present[q]
    BY <1>6, FlagSet DEF LobbyInv, SessionTypes
  <2>3. /\ sessionMatch' \in [Player -> MatchId \cup {None}] /\ sessionMatch'[p] = None
        /\ \A q \in Player \ {p} : sessionMatch'[q] = sessionMatch[q]
    BY <1>6 DEF LobbyInv, SessionTypes
  <2>4. \A i \in DOMAIN answers' :
          /\ answers'[i] \in Answer
          /\ answers'[i].partner # answers'[i].by
    <3> SUFFICES ASSUME NEW i \in DOMAIN answers
                 PROVE  /\ [answers[i] EXCEPT !.orphan = @ \/ answers[i].by = p] \in Answer
                        /\ [answers[i] EXCEPT !.orphan = @ \/ answers[i].by = p].partner
                             # [answers[i] EXCEPT !.orphan = @ \/ answers[i].by = p].by
      BY <1>6
    <3>1. answers[i] \in Answer /\ answers[i].partner # answers[i].by
      BY DEF LobbyInv, Redis
    <3> QED
      BY <3>1 DEF Answer
  <2>5. answers' \in Seq(Answer)
    <3>1. DOMAIN answers' = 1..Len(answers) /\ Len(answers) \in Nat
      BY <1>6 DEF LobbyInv, Redis
    <3>2. answers' \in [1..Len(answers) -> Answer]
      BY <1>6, <2>4, <3>1
    <3> QED
      BY <3>1, <3>2, SeqDef
  <2>6. Redis'
    BY <1>1, <2>4, <2>5 DEF LobbyInv, Redis
  <2>7. SessionTypes'
    BY <1>1, <1>2, <2>1, <2>3 DEF LobbyInv, SessionTypes
  <2>8. Sockets'
    BY <1>3, <2>1, <2>2 DEF LobbyInv, Sockets
  <2>9. SessionKnowsItsMatch'
    BY <1>1, <1>3, <1>6, <2>1, <2>2, <2>3 DEF LobbyInv, SessionKnowsItsMatch
  <2> QED
    BY <1>4, <2>6, <2>7, <2>8, <2>9 DEF LobbyInv
<1> QED
  BY <1>5, <1>6 DEF Disconnect

\* An answer that leads to no match.
LEMMA AttemptKeeps ==
  ASSUME LobbyInv, AttemptTooLate \/ AttemptWaits \/ AttemptEvicts \/ AttemptAsksAgain
  PROVE  LobbyInv'
<1>1. /\ answers # <<>> /\ Redis
      /\ UNCHANGED <<sessionVars, userMatch, matches, challengeVars>>
  BY DEF AttemptTooLate, AttemptWaits, AttemptEvicts, AttemptAsksAgain, Answered, LobbyInv
<1>2. /\ Head(answers) \in Answer /\ Head(answers).partner # Head(answers).by
      /\ Tail(answers) \in Seq(Answer)
      /\ \A i \in DOMAIN Tail(answers) : Tail(answers)[i].partner # Tail(answers)[i].by
  BY <1>1, AnswerTaken
<1>3. pool' \subseteq Player
  <2>1. CASE AttemptAsksAgain
    <3>1. Head(answers).by \in Player
      BY <1>2 DEF Answer
    <3> QED
      BY <1>1, <2>1, <3>1 DEF AttemptAsksAgain, joinOrPair, Pair, Enqueue, Redis
  <2>2. CASE AttemptTooLate \/ AttemptWaits \/ AttemptEvicts
    BY <1>1, <2>2 DEF AttemptTooLate, AttemptWaits, AttemptEvicts, leave, Redis
  <2> QED
    BY <2>1, <2>2
<1>4. CASE AttemptEvicts
  <2> DEFINE answer == [Head(answers) EXCEPT !.op = "evict"]
  <2>1. answer \in Answer /\ answer.partner # answer.by
    BY <1>2 DEF Answer
  <2>2. answers' = Append(Tail(answers), answer)
    BY <1>4 DEF AttemptEvicts
  <2> HIDE DEF answer
  <2>3. answers' \in Seq(Answer) /\ \A i \in DOMAIN answers' : answers'[i].partner # answers'[i].by
    <3> DEFINE rest == Tail(answers)
    <3>1. /\ rest \in Seq(Answer) /\ answers' = Append(rest, answer)
          /\ \A i \in DOMAIN rest : rest[i].partner # rest[i].by
      BY <1>2, <2>2
    <3> HIDE DEF rest
    <3> QED
      BY <2>1, <3>1
  <2> QED
    BY <1>1, <1>3, <2>3, LobbyFrame, StillGuarded DEF LobbyInv, Redis, Challenge, challengeVars
<1>5. CASE AttemptTooLate \/ AttemptWaits \/ AttemptAsksAgain
  <2>1. answers' = Tail(answers)
    BY <1>5 DEF AttemptTooLate, AttemptWaits, AttemptAsksAgain
  <2>2. Redis'
    BY <1>2, <1>3, <2>1 DEF Redis
  <2> QED
    BY <1>1, <2>2, LobbyFrame, StillGuarded DEF LobbyInv, Challenge, challengeVars
<1> QED
  BY <1>4, <1>5

\* createMatch takes a free slot, which nobody takes for a match yet.
LEMMA BeginKeeps ==
  ASSUME LobbyInv, NEW p \in Player, NEW q \in Player, p # q,
         NEW via \in {"queue", "challenge"}, BeginMatch(p, q, via),
         IF via = "challenge" THEN ~challengeStarting /\ challengeStarting'
                              ELSE UNCHANGED challengeStarting,
         UNCHANGED <<present, online, intent, sessionMatch, userMatch>>, Redis', Challenge'
  PROVE  LobbyInv'
<1>1. PICK m \in MatchId :
        /\ matches[m] = NoMatch
        /\ matches' = [matches EXCEPT ![m] =
                         [stage |-> "creating", via |-> via, players |-> {p, q}]]
  BY DEF BeginMatch
<1> DEFINE new == [stage |-> "creating", via |-> via, players |-> {p, q}]
<1>2. /\ new \in Match /\ new.stage = "creating" /\ new.via = via /\ new.players = {p, q}
  BY DEF Match
<1>3. matches' = [matches EXCEPT ![m] = new]
  BY <1>1
<1> HIDE DEF new
<1>4. /\ matches' \in [MatchId -> Match \cup {NoMatch}] /\ matches'[m] = new
      /\ \A n \in MatchId \ {m} : matches'[n] = matches[n]
  BY <1>2, <1>3 DEF LobbyInv, Matches
<1>5. Matches'
  BY <1>2, <1>4 DEF LobbyInv, Matches
<1>9. Guarded'
  <2>1. \A n \in MatchId : n \in beingCreated("challenge")' <=>
                          IF n = m THEN via = "challenge" ELSE n \in beingCreated("challenge")
    BY <1>2, <1>4 DEF beingCreated
  <2>2. beingCreated("challenge")' \subseteq MatchId /\ m \notin beingCreated("challenge")
    BY <1>1 DEF beingCreated, NoMatch
  <2> QED
    BY <2>1, <2>2 DEF LobbyInv, Guarded
<1>6. /\ queued' \in [Player -> BOOLEAN]
      /\ \A r \in Player : queued'[r] => queued[r]
  BY DEF BeginMatch, LobbyInv, SessionTypes
<1>7. SessionTypes' /\ Sockets'
  BY <1>6 DEF LobbyInv, SessionTypes, Sockets
<1>8. SessionKnowsItsMatch'
  <2>1. \A n \in MatchId : matches[n].stage = "on" => matches'[n] = matches[n]
    BY <1>1, <1>4 DEF NoMatch
  <2>2. \A r \in Player : userMatch[r] # None => userMatch[r] \in MatchId
    BY DEF LobbyInv, SessionTypes
  <2> QED
    BY <1>6, <2>1, <2>2 DEF LobbyInv, SessionKnowsItsMatch
<1> QED
  BY <1>5, <1>7, <1>8, <1>9 DEF LobbyInv

\* The two a pairing names are two, and both are taken out of the queue.
LEMMA PairsKeeps ==
  ASSUME LobbyInv, AttemptPairs
  PROVE  LobbyInv'
<1>1. /\ answers # <<>> /\ Redis /\ answers' = Tail(answers)
      /\ UNCHANGED <<present, online, intent, sessionMatch, userMatch, challengeVars, pool>>
      /\ Head(answers).partner \in Player
      /\ BeginMatch(Head(answers).by, Head(answers).partner, "queue")
  BY DEF AttemptPairs, Answered, LobbyInv
<1>2. /\ Head(answers) \in Answer /\ Head(answers).partner # Head(answers).by
      /\ Tail(answers) \in Seq(Answer)
      /\ \A i \in DOMAIN Tail(answers) : Tail(answers)[i].partner # Tail(answers)[i].by
  BY <1>1, AnswerTaken
<1>3. Head(answers).by \in Player
  BY <1>2 DEF Answer
<1>4. Redis' /\ Challenge'
  BY <1>1, <1>2 DEF LobbyInv, Redis, Challenge, challengeVars
<1> QED
  BY <1>1, <1>2, <1>3, <1>4, BeginKeeps DEF challengeVars

\* A challenge starts only while its code is not in the set, and the code is taken out
\* of the set only when nothing is being created.
LEMMA ChallengeKeeps ==
  ASSUME LobbyInv,
         \/ \E p \in Player : ChallengeJoin(p) \/ ChallengeWaits(p) \/ ChallengeStarts(p)
         \/ ChallengeStarted
  PROVE  LobbyInv'
<1>1. Challenge'
  BY DEF LobbyInv, Challenge, ChallengeJoin, ChallengeWaits, ChallengeStarts, ChallengeStarted
<1>2. Redis'
  BY DEF LobbyInv, Redis, redisVars, ChallengeJoin, ChallengeWaits, ChallengeStarts,
         ChallengeStarted
<1>3. CASE \E p \in Player : ChallengeJoin(p) \/ ChallengeWaits(p)
  <2>1. UNCHANGED <<sessionVars, userMatch, matches, challengeStarting>>
    BY <1>3 DEF ChallengeJoin, ChallengeWaits
  <2> QED
    BY <1>1, <1>2, <2>1, LobbyFrame, StillGuarded DEF LobbyInv
<1>4. CASE \E p \in Player : ChallengeStarts(p)
  BY <1>1, <1>2, <1>4, BeginKeeps, LobbyAssumption DEF ChallengeStarts
<1>5. CASE ChallengeStarted
  <2>1. UNCHANGED <<sessionVars, userMatch, matches>>
    BY <1>5 DEF ChallengeStarted
  <2>2. Guarded'
    BY <1>5 DEF ChallengeStarted, Guarded, beingCreated
  <2> QED
    BY <1>1, <1>2, <2>1, <2>2, LobbyFrame
<1> QED
  BY <1>3, <1>4, <1>5

\* A slot that is emptied, or whose match is on.
LEMMA SlotKeeps ==
  ASSUME LobbyInv, NEW m \in MatchId, matches[m].stage \in {"creating", "on"},
         matches' = [matches EXCEPT ![m] = NoMatch] \/ matches' = [matches EXCEPT ![m].stage = "on"]
  PROVE  /\ Matches' /\ \A n \in MatchId \ {m} : matches'[n] = matches[n]
         /\ beingCreated("challenge")' = beingCreated("challenge") \ {m}
         /\ matches[m].players \subseteq Player
         /\ \/ matches'[m] = NoMatch
            \/ matches'[m].stage = "on" /\ matches'[m].players = matches[m].players
<1>1. matches[m] \in Match
  BY DEF LobbyInv, Matches, NoMatch
<1>2. CASE matches' = [matches EXCEPT ![m] = NoMatch]
  <2>1. /\ matches' \in [MatchId -> Match \cup {NoMatch}] /\ matches'[m] = NoMatch
        /\ \A n \in MatchId \ {m} : matches'[n] = matches[n]
    BY <1>2 DEF LobbyInv, Matches
  <2> QED
    BY <1>1, <2>1 DEF LobbyInv, Matches, NoMatch, Match, beingCreated
<1>3. CASE matches' = [matches EXCEPT ![m].stage = "on"]
  <2>1. /\ matches'[m] = [matches[m] EXCEPT !.stage = "on"]
        /\ \A n \in MatchId \ {m} : matches'[n] = matches[n]
        /\ DOMAIN matches' = MatchId
    BY <1>3 DEF LobbyInv, Matches
  <2>2. /\ matches'[m] \in Match /\ matches'[m].stage = "on"
        /\ matches'[m].players = matches[m].players
    BY <1>1, <2>1 DEF Match
  <2>3. matches' \in [MatchId -> Match \cup {NoMatch}]
    BY <1>3, <2>1, <2>2 DEF LobbyInv, Matches
  <2>4. \A n \in MatchId : matches'[n] # NoMatch =>
          \E r, q \in Player : r # q /\ matches'[n].players = {r, q}
    <3>1. \E r, q \in Player : r # q /\ matches[m].players = {r, q}
      BY DEF LobbyInv, Matches, NoMatch
    <3>2. \A n \in MatchId \ {m} : matches'[n] # NoMatch =>
            \E r, q \in Player : r # q /\ matches'[n].players = {r, q}
      BY <2>1 DEF LobbyInv, Matches
    <3> QED
      BY <2>2, <3>1, <3>2
  <2>5. beingCreated("challenge")' = beingCreated("challenge") \ {m}
    BY <2>1, <2>2 DEF beingCreated
  <2> QED
    BY <1>1, <2>1, <2>2, <2>3, <2>4, <2>5 DEF LobbyInv, Matches, Match
<1> QED
  BY <1>2, <1>3

\* Both players learn of the match when it is on, and forget it when it is over.
LEMMA MatchKeeps ==
  ASSUME LobbyInv, NEW m \in MatchId, CreateFails(m) \/ CreateMatch(m) \/ FinishMatch(m)
  PROVE  LobbyInv'
<1>1. /\ UNCHANGED <<present, online, inChallenge, asking, redisVars>>
      /\ matches[m].stage \in {"creating", "on"}
      /\ \/ matches' = [matches EXCEPT ![m] = NoMatch]
         \/ matches' = [matches EXCEPT ![m].stage = "on"]
  BY DEF CreateFails, CreateMatch, FinishMatch, sessionVars, challengeVars
<1>2. /\ Matches' /\ \A n \in MatchId \ {m} : matches'[n] = matches[n]
      /\ beingCreated("challenge")' = beingCreated("challenge") \ {m}
      /\ matches[m].players \subseteq Player
      /\ \/ matches'[m] = NoMatch
         \/ matches'[m].stage = "on" /\ matches'[m].players = matches[m].players
  BY <1>1, SlotKeeps
<1>3. Redis' /\ Challenge'
  BY <1>1 DEF LobbyInv, Redis, Challenge, redisVars
<1>8. Guarded'
  <2>1. CASE challengeStarting' = challengeStarting
    BY <1>2, <2>1 DEF LobbyInv, Guarded
  <2>2. CASE CreateFails(m) /\ matches[m].via = "challenge"
    <3>1. m \in beingCreated("challenge") /\ challengeStarting' = FALSE
      BY <2>2 DEF CreateFails, beingCreated
    <3>2. beingCreated("challenge")' = {}
      BY <1>2, <3>1 DEF LobbyInv, Guarded
    <3> QED
      BY <3>1, <3>2 DEF Guarded
  <2> QED
    BY <2>1, <2>2 DEF CreateFails, CreateMatch, FinishMatch, challengeVars, LobbyInv, Guarded
<1>4. \A r \in Player : userMatch[r] # None => userMatch[r] \in MatchId
  BY DEF LobbyInv, SessionTypes
<1>5. CASE CreateFails(m)
  <2>1. UNCHANGED <<sessionVars, userMatch>> /\ matches[m].stage = "creating"
    BY <1>5 DEF CreateFails
  <2>2. SessionTypes' /\ Sockets'
    BY <2>1 DEF LobbyInv, SessionTypes, Sockets, sessionVars
  <2>3. SessionKnowsItsMatch'
    BY <1>2, <1>4, <2>1 DEF LobbyInv, SessionKnowsItsMatch, sessionVars
  <2> QED
    BY <1>2, <1>3, <1>8, <2>2, <2>3 DEF LobbyInv
<1>6. CASE CreateMatch(m)
  <2> DEFINE both == matches[m].players
  <2>1. /\ matches[m].stage = "creating" /\ matches'[m].stage = "on" /\ matches'[m].players = both
        /\ userMatch' = [p \in Player |-> IF p \in both THEN m ELSE userMatch[p]]
        /\ intent' = [p \in Player |-> IF p \in both THEN FALSE ELSE intent[p]]
        /\ sessionMatch' = [p \in Player |->
                              IF p \in both /\ present[p] THEN m ELSE sessionMatch[p]]
        /\ queued' = [p \in Player |-> IF p \in both THEN FALSE ELSE queued[p]]
    <3>1. matches' = [matches EXCEPT ![m].stage = "on"]
      BY <1>6 DEF CreateMatch
    <3>2. matches'[m] # NoMatch
      BY <3>1 DEF LobbyInv, Matches, NoMatch
    <3> QED
      BY <1>2, <1>6, <3>2 DEF CreateMatch
  <2> HIDE DEF both
  <2>2. queued' \in [Player -> BOOLEAN] /\ intent' \in [Player -> BOOLEAN]
    BY <2>1 DEF LobbyInv, SessionTypes
  <2>3. /\ userMatch' \in [Player -> MatchId \cup {None}]
        /\ sessionMatch' \in [Player -> MatchId \cup {None}]
    BY <2>1 DEF LobbyInv, SessionTypes
  <2>4. SessionTypes'
    BY <1>1, <2>2, <2>3 DEF LobbyInv, SessionTypes
  <2>5. Sockets'
    BY <1>1, <2>1 DEF LobbyInv, Sockets
  <2>6. SessionKnowsItsMatch'
    <3> SUFFICES ASSUME NEW p \in Player
                 PROVE  /\ sessionMatch'[p] = IF present'[p] THEN userMatch'[p] ELSE None
                        /\ userMatch'[p] # None =>
                             /\ matches'[userMatch'[p]].stage = "on"
                             /\ p \in matches'[userMatch'[p]].players
                             /\ ~queued'[p] /\ ~intent'[p]
      BY DEF SessionKnowsItsMatch
    <3>1. CASE p \in both
      BY <1>1, <2>1, <3>1 DEF LobbyInv, SessionKnowsItsMatch
    <3>2. CASE p \notin both
      <4>1. /\ userMatch'[p] = userMatch[p] /\ sessionMatch'[p] = sessionMatch[p]
            /\ queued'[p] = queued[p] /\ intent'[p] = intent[p] /\ present'[p] = present[p]
        BY <1>1, <2>1, <3>2
      <4>2. userMatch[p] # m
        BY <2>1, <1>4 DEF LobbyInv, SessionKnowsItsMatch, MatchId, None
      <4> QED
        BY <1>2, <1>4, <4>1, <4>2 DEF LobbyInv, SessionKnowsItsMatch
    <3> QED
      BY <3>1, <3>2
  <2> QED
    BY <1>2, <1>3, <1>8, <2>4, <2>5, <2>6 DEF LobbyInv
<1>7. CASE FinishMatch(m)
  <2> DEFINE both == matches[m].players
  <2>1. /\ userMatch' = [p \in Player |-> IF p \in both THEN None ELSE userMatch[p]]
        /\ sessionMatch' = [p \in Player |-> IF p \in both THEN None ELSE sessionMatch[p]]
        /\ UNCHANGED <<queued, intent>>
    BY <1>7 DEF FinishMatch
  <2>2. SessionTypes' /\ Sockets'
    BY <1>1, <2>1 DEF LobbyInv, SessionTypes, Sockets
  <2>3. SessionKnowsItsMatch'
    <3> SUFFICES ASSUME NEW p \in Player
                 PROVE  /\ sessionMatch'[p] = IF present'[p] THEN userMatch'[p] ELSE None
                        /\ userMatch'[p] # None =>
                             /\ matches'[userMatch'[p]].stage = "on"
                             /\ p \in matches'[userMatch'[p]].players
                             /\ ~queued'[p] /\ ~intent'[p]
      BY DEF SessionKnowsItsMatch
    <3>1. CASE p \in both
      BY <1>1, <2>1, <3>1 DEF LobbyInv, SessionKnowsItsMatch
    <3>2. CASE p \notin both
      <4>1. userMatch'[p] = userMatch[p] /\ sessionMatch'[p] = sessionMatch[p]
        BY <2>1, <3>2
      <4>2. userMatch[p] # None => userMatch[p] # m
        BY <3>2 DEF LobbyInv, SessionKnowsItsMatch
      <4> QED
        BY <1>1, <1>2, <1>4, <2>1, <4>1, <4>2 DEF LobbyInv, SessionKnowsItsMatch
    <3> QED
      BY <3>1, <3>2
  <2> QED
    BY <1>2, <1>3, <1>8, <2>2, <2>3 DEF LobbyInv
<1> QED
  BY <1>5, <1>6, <1>7

\* Every step of the lobby keeps the invariant.
LEMMA LobbyStepKeeps ==
  ASSUME LobbyInv, [LobbyNext]_lobbyVars
  PROVE  LobbyInv'
<1>1. CASE UNCHANGED lobbyVars
  <2>1. Redis' /\ Challenge' /\ Guarded'
    BY <1>1, StillGuarded DEF LobbyInv, Redis, Challenge, lobbyVars, redisVars, challengeVars
  <2> QED
    BY <1>1, <2>1, LobbyFrame DEF lobbyVars
<1> QED
  BY <1>1, QueueKeeps, ConnectKeeps, DisconnectKeeps, AttemptKeeps, PairsKeeps, ChallengeKeeps,
     MatchKeeps DEF LobbyNext, Gateway

\* The invariant holds in every reachable state.
LEMMA AlwaysLobby == LobbySpec => []LobbyInv
BY InitFree, LobbyStepKeeps, PTL DEF LobbySpec
------------------------------------------------------------------------------
\* Every variable has its type, only a player with a socket is queued, and nobody is
\* matched with themselves, for any number of players and of matches being created
\* (matchmaking.ts:70-72).
THEOREM LobbyTypeCorrect == LobbySpec => []LobbyTypeOK
BY TypesFollow, AlwaysLobby, PTL

\* The session and userMatch tell of the same match, one the player is in and that is
\* on, and nobody whose match is on wants another, whoever came and went during
\* createMatch's awaits (index.ts:652-676, 867-905).
THEOREM SessionsKnowTheirMatch == LobbySpec => []SessionKnowsItsMatch
<1>1. LobbyInv => SessionKnowsItsMatch
  BY DEF LobbyInv
<1> QED
  BY <1>1, AlwaysLobby, PTL

\* However many matches are being created, fail and are on, and however often the two
\* members ask, one createMatch of the challenge runs at a time, and the code is in
\* challengeStarting all that time (index.ts:506-526).
THEOREM ChallengeStartsAtMostOnce == LobbySpec => []ChallengeStartsOnce
BY ChallengesFollow, AlwaysLobby, PTL

\* Whose socket, intent and queueing stay as they are is forgotten only if already so,
\* or when the match that was being created is not.
LEMMA Unmoved ==
  ASSUME NEW r \in Player, Forgotten(r)',
         online'[r] => online[r], intent'[r] => intent[r], queued[r] => queued'[r]
  PROVE  Forgotten(r) \/ BeingMatched(r)
BY DEF Forgotten

\* Whoever is taken out of the queue for a match is being matched.
LEMMA BeginSeeks ==
  ASSUME LobbyInv, NEW p \in Player, NEW q \in Player, NEW via, BeginMatch(p, q, via),
         UNCHANGED <<online, intent>>, NEW r \in Player, Forgotten(r)'
  PROVE  Forgotten(r) \/ BeingMatched(r)
<1>1. CASE r \in {p, q}
  <2>1. PICK m \in MatchId :
          matches' = [matches EXCEPT ![m] =
                        [stage |-> "creating", via |-> via, players |-> {p, q}]]
    BY DEF BeginMatch
  <2>2. matches'[m].stage = "creating" /\ r \in matches'[m].players
    BY <1>1, <2>1 DEF LobbyInv, Matches
  <2> QED
    BY <2>2 DEF Forgotten, BeingMatched
<1>2. CASE r \notin {p, q}
  <2>1. queued'[r] = queued[r]
    BY <1>2 DEF BeginMatch, LobbyInv, SessionTypes
  <2> QED
    BY <2>1, Unmoved
<1> QED
  BY <1>1, <1>2

\* Step by step: nobody is newly forgotten, but for a createMatch that fails.
LEMMA StepSeeks ==
  ASSUME LobbyInv, [LobbyNext]_lobbyVars, NEW r \in Player, Forgotten(r)'
  PROVE  Forgotten(r) \/ BeingMatched(r)
<1> USE DEF LobbyInv
<1>1. ASSUME NEW p \in Player, Connect(p)
      PROVE  Forgotten(r) \/ BeingMatched(r)
  <2>1. /\ online' = [online EXCEPT ![p] = TRUE]
        /\ sessionMatch' = IF present[p] THEN sessionMatch
                           ELSE [sessionMatch EXCEPT ![p] = userMatch[p]]
    BY <1>1 DEF Connect, OpenSocket
  <2>2. CASE r = p
    <3>1. CASE joinQueue(p)
      <4>1. queued'[p]
        BY <3>1, FlagSet DEF joinQueue, SessionTypes
      <4> QED
        BY <2>2, <4>1 DEF Forgotten
    <3>2. CASE UNCHANGED <<queued, intent>> /\
               ~(userMatch[p] = None /\ sessionMatch'[p] = None /\ intent[p] /\ ~queued[p])
      <4>1. sessionMatch'[p] = userMatch[p]
        BY <2>1 DEF SessionTypes, SessionKnowsItsMatch
      <4>2. ~intent[p] \/ queued[p]
        BY <3>2, <4>1 DEF SessionKnowsItsMatch
      <4> QED
        BY <2>2, <3>2, <4>2 DEF Forgotten
    <3> QED
      BY <1>1, <3>1, <3>2 DEF Connect
  <2>3. CASE r # p
    <3>1. online'[r] = online[r]
      BY <2>1, <2>3, FlagSet DEF SessionTypes
    <3>2. queued'[r] = queued[r] /\ intent'[r] = intent[r]
      BY <1>1, <2>3, FlagSet DEF Connect, joinQueue, SessionTypes
    <3> QED
      BY <3>1, <3>2, Unmoved
  <2> QED
    BY <2>2, <2>3
<1>2. ASSUME NEW p \in Player, Disconnect(p)
      PROVE  Forgotten(r) \/ BeingMatched(r)
  <2>1. /\ online' = [online EXCEPT ![p] = FALSE] /\ queued' = [queued EXCEPT ![p] = FALSE]
        /\ intent' = intent
    BY <1>2 DEF Disconnect
  <2>2. ~online'[p] /\ \A q \in Player \ {p} : online'[q] = online[q] /\ queued'[q] = queued[q]
    BY <2>1, FlagSet DEF SessionTypes
  <2>3. r # p
    BY <2>2 DEF Forgotten
  <2> QED
    BY <2>1, <2>2, <2>3, Unmoved
<1>3. ASSUME NEW p \in Player, QueueJoin(p)
      PROVE  Forgotten(r) \/ BeingMatched(r)
  <2>1. /\ queued' = [queued EXCEPT ![p] = TRUE] /\ intent' = [intent EXCEPT ![p] = TRUE]
        /\ online' = online
    BY <1>3 DEF QueueJoin, joinQueue
  <2>2. queued'[p] /\ \A q \in Player \ {p} : queued'[q] = queued[q] /\ intent'[q] = intent[q]
    BY <2>1, FlagSet DEF SessionTypes
  <2>3. r # p
    BY <2>2 DEF Forgotten
  <2> QED
    BY <2>1, <2>2, <2>3, Unmoved
<1>4. ASSUME NEW p \in Player, QueueLeave(p)
      PROVE  Forgotten(r) \/ BeingMatched(r)
  <2>1. /\ queued' = [queued EXCEPT ![p] = FALSE] /\ intent' = [intent EXCEPT ![p] = FALSE]
        /\ online' = online
    BY <1>4 DEF QueueLeave
  <2>2. ~intent'[p] /\ \A q \in Player \ {p} : queued'[q] = queued[q] /\ intent'[q] = intent[q]
    BY <2>1, FlagSet DEF SessionTypes
  <2>3. r # p
    BY <2>2 DEF Forgotten
  <2> QED
    BY <2>1, <2>2, <2>3, Unmoved
<1>5. CASE \/ \E p \in Player : Retry(p) \/ ChallengeJoin(p) \/ ChallengeWaits(p)
           \/ AttemptTooLate \/ AttemptWaits \/ AttemptEvicts \/ AttemptAsksAgain
           \/ ChallengeStarted
           \/ \E m \in MatchId : CreateFails(m) \/ FinishMatch(m)
           \/ UNCHANGED lobbyVars
  <2>1. UNCHANGED <<online, intent, queued>>
    BY <1>5 DEF Retry, ChallengeJoin, ChallengeWaits, AttemptTooLate, AttemptWaits, AttemptEvicts,
                AttemptAsksAgain, ChallengeStarted, CreateFails, FinishMatch, lobbyVars, sessionVars
  <2> QED
    BY <2>1, Unmoved
<1>6. CASE AttemptPairs
  <2>1. answers # <<>> /\ Redis
    BY <1>6 DEF AttemptPairs, Answered
  <2>2. Head(answers).by \in Player
    BY <2>1, AnswerTaken DEF Answer
  <2> QED
    BY <1>6, <2>2, BeginSeeks DEF AttemptPairs
<1>7. ASSUME NEW p \in Player, ChallengeStarts(p)
      PROVE  Forgotten(r) \/ BeingMatched(r)
  BY <1>7, BeginSeeks, LobbyAssumption DEF ChallengeStarts
<1>8. ASSUME NEW m \in MatchId, CreateMatch(m)
      PROVE  Forgotten(r) \/ BeingMatched(r)
  <2> DEFINE both == matches[m].players
  <2>1. /\ intent' = [p \in Player |-> IF p \in both THEN FALSE ELSE intent[p]]
        /\ queued' = [p \in Player |-> IF p \in both THEN FALSE ELSE queued[p]]
        /\ online' = online
    BY <1>8 DEF CreateMatch
  <2> HIDE DEF both
  <2>2. r \notin both
    BY <2>1 DEF Forgotten
  <2> QED
    BY <2>1, <2>2, Unmoved
<1> QED
  BY <1>1, <1>2, <1>3, <1>4, <1>5, <1>6, <1>7, <1>8 DEF LobbyNext, Gateway

\* A connected player who wants a match is waiting for one or about to be in one,
\* however often the socket was lost, unless a createMatch fails (index.ts:892-905).
THEOREM SeekersAreKept == LobbySpec => SeekerIsNotForgotten
<1>1. LobbyInv /\ [LobbyNext]_lobbyVars =>
        \A p \in Player : Forgotten(p)' => Forgotten(p) \/ BeingMatched(p)
  BY StepSeeks
<1> QED
  BY <1>1, AlwaysLobby, PTL DEF LobbySpec, SeekerIsNotForgotten
==============================================================================
