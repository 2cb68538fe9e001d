-------------------------------- MODULE Lobby --------------------------------
(***************************************************************************)
(* From a socket to a match: sessions, the matchmaking pool in Redis, the  *)
(* challenge link and createMatch (apps/gateway/src/index.ts and           *)
(* matchmaking.ts).                                                        *)
(*                                                                         *)
(* Redis runs the commands of the matchmaker's one connection in the order *)
(* they were sent and answers in that order, and nobody else touches the   *)
(* pool, so a command takes effect here when it is sent; its answer waits  *)
(* in "answers" while any other handler may run.  The database answers     *)
(* createMatch and joinChallenge in any order.  A match is seen from       *)
(* outside: it is on from open() until onFinished.                         *)
(***************************************************************************)
EXTENDS Integers, Sequences, FiniteSets

CONSTANTS
  Player,                \* user ids
  Host, Taker,           \* the two members of the one challenge, redeemed
  MaxMatches,            \* bound: matches being created or on at the same time
  MaxCalls               \* bound: calls unanswered when one more is made

Nobody == "nobody"       \* null, where a user id may be missing

ASSUME LobbyAssumption ==
  /\ Nobody \notin Player
  /\ Host \in Player /\ Taker \in Player /\ Host # Taker
  /\ MaxMatches \in Nat /\ MaxCalls \in Nat

VARIABLES
  present,               \* sessions has an entry for the player
  online,                \* that session has a socket
  queued,                \* session.queuedAt is set
  intent,                \* queueIntent, and session.wantsQueue with it
  sessionMatch,          \* session.matchId
  userMatch,             \* userMatch
  matches,               \* the matches being created and the matches map
  inChallenge,           \* challengeIntent
  asking,                \* players whose joinChallenge awaits the database
  challengeStarting,     \* challengeStarting has the code
  pool,                  \* the sorted set mm:queue
  answers                \* answers of Redis on their way to the handler that awaits them

sessionVars == <<present, online, queued, intent, sessionMatch>>
challengeVars == <<inChallenge, asking, challengeStarting>>
redisVars == <<pool, answers>>
lobbyVars == <<sessionVars, userMatch, matches, challengeVars, redisVars>>
------------------------------------------------------------------------------
MatchId == 1..MaxMatches
None == 0

NoMatch == [stage |-> "free", via |-> Nobody, players |-> {}]
Match == [stage : {"creating", "on"}, via : {"queue", "challenge"}, players : SUBSET Player]

\* The answer to the call "op" that the session of "by" made; an orphan's session
\* has been deleted since.
Answer == [op : {"join", "evict"}, by : Player, partner : Player \cup {Nobody},
           orphan : BOOLEAN]

\* Bound on the calls the players and the timers add.
RoomForACall == Len(answers) < MaxCalls

LobbyInit ==
  /\ present = [p \in Player |-> FALSE]
  /\ online = [p \in Player |-> FALSE]
  /\ queued = [p \in Player |-> FALSE]
  /\ intent = [p \in Player |-> FALSE]
  /\ sessionMatch = [p \in Player |-> None]
  /\ userMatch = [p \in Player |-> None]
  /\ matches = [m \in MatchId |-> NoMatch]
  /\ inChallenge = {}
  /\ asking = {}
  /\ challengeStarting = FALSE
  /\ pool = {}
  /\ answers = <<>>
------------------------------------------------------------------------------
(* The matchmaker.                                                         *)

\* Seeded fault: a player left in the pool by an earlier call may be the candidate.
PairWithSelf(p, partner) ==
  /\ partner \in pool
  /\ pool' = pool \ {p, partner}

\* The script takes the player and a candidate out of the pool.  Who is a candidate
\* depends on ratings, waiting times and cooldowns: anyone may be.
Pair(p, partner) ==
  /\ partner \in pool \ {p}
  /\ pool' = pool \ {p, partner}

\* With no candidate it puts the player into the pool.
Enqueue(p, partner) ==
  /\ partner = Nobody
  /\ pool' = pool \cup {p}

joinOrPair(p, partner) == Pair(p, partner) \/ Enqueue(p, partner)

\* attempt() up to its first await.
Attempt(p) ==
  \E partner \in Player \cup {Nobody} :
    /\ joinOrPair(p, partner)
    /\ answers' = Append(answers, [op |-> "join", by |-> p, partner |-> partner, orphan |-> FALSE])

leave(p) == pool' = pool \ {p}
------------------------------------------------------------------------------
(* Sockets and the messages of the players.                                *)

\* joinQueue up to its first await.
joinQueue(p) ==
  /\ queued' = [queued EXCEPT ![p] = TRUE]
  /\ intent' = [intent EXCEPT ![p] = TRUE]
  /\ Attempt(p)

QueueJoin(p) ==
  /\ online[p]
  /\ p \notin inChallenge
  /\ sessionMatch[p] = None
  /\ RoomForACall
  /\ joinQueue(p)
  /\ UNCHANGED <<present, online, sessionMatch, userMatch, matches, challengeVars>>

\* The interval of two seconds.
Retry(p) ==
  /\ queued[p]
  /\ sessionMatch[p] = None
  /\ RoomForACall
  /\ Attempt(p)
  /\ UNCHANGED <<sessionVars, userMatch, matches, challengeVars>>

QueueLeave(p) ==
  /\ online[p]
  /\ inChallenge' = inChallenge \ {p}
  /\ intent' = [intent EXCEPT ![p] = FALSE]
  /\ queued' = [queued EXCEPT ![p] = FALSE]
  /\ leave(p)
  /\ UNCHANGED <<present, online, sessionMatch, userMatch, matches, asking, challengeStarting,
                 answers>>

OpenSocket(p) ==
  /\ present' = [present EXCEPT ![p] = TRUE]
  /\ online' = [online EXCEPT ![p] = TRUE]
  /\ sessionMatch' = IF present[p] THEN sessionMatch
                     ELSE [sessionMatch EXCEPT ![p] = userMatch[p]]
  /\ UNCHANGED <<userMatch, matches, challengeVars>>

\* Seeded fault: a player who comes back is not put back into the pool.
ConnectForgettingQueue(p) == OpenSocket(p) /\ UNCHANGED <<queued, intent, redisVars>>

\* A socket: the session, new or not, takes up the match or the queue intent.
Connect(p) ==
  /\ RoomForACall
  /\ OpenSocket(p)
  /\ IF userMatch[p] = None /\ sessionMatch'[p] = None /\ intent[p] /\ ~queued[p]
     THEN joinQueue(p)
     ELSE UNCHANGED <<queued, intent, redisVars>>

\* The last socket closes: the player leaves the pool but not the queue intent, and
\* the session outlives the socket only during a match.
Disconnect(p) ==
  /\ online[p]
  /\ online' = [online EXCEPT ![p] = FALSE]
  /\ queued' = [queued EXCEPT ![p] = FALSE]
  /\ leave(p)
  /\ \/ /\ userMatch[p] # None
        /\ UNCHANGED <<present, sessionMatch, answers>>
     \/ /\ userMatch[p] = None
        /\ present' = [present EXCEPT ![p] = FALSE]
        /\ sessionMatch' = [sessionMatch EXCEPT ![p] = None]
        /\ answers' = [i \in DOMAIN answers |->
                         [answers[i] EXCEPT !.orphan = @ \/ answers[i].by = p]]
  /\ UNCHANGED <<intent, userMatch, matches, challengeVars>>
------------------------------------------------------------------------------
(* The rest of attempt(), once Redis has answered.                         *)

\* The first answer is to the call "op"; "seeking" is the check after the await:
\* the session is still there and still queued.
Answered(op) == answers # <<>> /\ Head(answers).op = op
seeking == ~Head(answers).orphan /\ queued[Head(answers).by]

\* Whatever the answer was, leave.
AttemptTooLate ==
  /\ Answered("join")
  /\ ~seeking
  /\ leave(Head(answers).by)
  /\ answers' = Tail(answers)
  /\ UNCHANGED <<sessionVars, userMatch, matches, challengeVars>>

AttemptWaits ==
  /\ Answered("join")
  /\ seeking
  /\ Head(answers).partner = Nobody
  /\ answers' = Tail(answers)
  /\ UNCHANGED <<sessionVars, userMatch, matches, challengeVars, pool>>

\* The partner has no session: take the partner out of the pool and ask again,
\* when that is done, ...
AttemptEvicts ==
  /\ Answered("join")
  /\ seeking
  /\ Head(answers).partner \in {p \in Player : ~present[p]}
  /\ leave(Head(answers).partner)
  /\ answers' = Append(Tail(answers), [Head(answers) EXCEPT !.op = "evict"])
  /\ UNCHANGED <<sessionVars, userMatch, matches, challengeVars>>

\* ... without another look at the session, or at the answer.
AttemptAsksAgain ==
  /\ Answered("evict")
  /\ \E partner \in Player \cup {Nobody} : joinOrPair(Head(answers).by, partner)
  /\ answers' = Tail(answers)
  /\ UNCHANGED <<sessionVars, userMatch, matches, challengeVars>>

\* createMatch up to its awaits; stopQueueTimers of both comes before it.
BeginMatch(p, q, via) ==
  /\ queued' = [queued EXCEPT ![p] = FALSE, ![q] = FALSE]
  /\ \E m \in MatchId :
       /\ matches[m] = NoMatch
       /\ \A n \in MatchId : n < m => matches[n] # NoMatch
       /\ matches' = [matches EXCEPT ![m] =
                        [stage |-> "creating", via |-> via, players |-> {p, q}]]

AttemptPairs ==
  /\ Answered("join")
  /\ seeking
  /\ Head(answers).partner \in {p \in Player : present[p]}
  /\ BeginMatch(Head(answers).by, Head(answers).partner, "queue")
  /\ answers' = Tail(answers)
  /\ UNCHANGED <<present, online, intent, sessionMatch, userMatch, challengeVars, pool>>
------------------------------------------------------------------------------
(* The challenge link, redeemed by its taker.                              *)

ChallengeJoin(p) ==
  /\ p \in {Host, Taker}
  /\ online[p]
  /\ sessionMatch[p] = None
  /\ asking' = asking \cup {p}
  /\ UNCHANGED <<sessionVars, userMatch, matches, inChallenge, challengeStarting, redisVars>>

bothFree ==
  \A p \in {Host, Taker} : present[p] /\ sessionMatch[p] = None

\* Whoever asks is noted as waiting before anything is looked at.
ChallengeWaits(p) ==
  /\ p \in asking
  /\ asking' = asking \ {p}
  /\ ~bothFree \/ challengeStarting
  /\ inChallenge' = inChallenge \cup {p}
  /\ UNCHANGED <<sessionVars, userMatch, matches, challengeStarting, redisVars>>

\* Seeded fault: createMatch is not awaited, and the code is deleted at once.
ChallengeStartsUnawaited(p) ==
  /\ p \in asking
  /\ asking' = asking \ {p}
  /\ bothFree /\ ~challengeStarting
  /\ inChallenge' = inChallenge \ {Host, Taker}
  /\ BeginMatch(Host, Taker, "challenge")
  /\ UNCHANGED <<present, online, intent, sessionMatch, userMatch, challengeStarting, redisVars>>

ChallengeStarts(p) ==
  /\ p \in asking
  /\ asking' = asking \ {p}
  /\ bothFree /\ ~challengeStarting
  /\ challengeStarting' = TRUE
  /\ inChallenge' = inChallenge \ {Host, Taker}
  /\ BeginMatch(Host, Taker, "challenge")
  /\ UNCHANGED <<present, online, intent, sessionMatch, userMatch, redisVars>>

beingCreated(via) == {m \in MatchId : matches[m].stage = "creating" /\ matches[m].via = via}

\* createMatch has returned, some time after its match was on: open() is its last await.
ChallengeStarted ==
  /\ challengeStarting /\ beingCreated("challenge") = {}
  /\ challengeStarting' = FALSE
  /\ UNCHANGED <<sessionVars, userMatch, matches, inChallenge, asking, redisVars>>
------------------------------------------------------------------------------
(* Matches.                                                                *)

\* No problem was found, or a query failed: both players are told, at most, and a
\* challenge may be started again.
CreateFails(m) ==
  /\ matches[m].stage = "creating"
  /\ matches' = [matches EXCEPT ![m] = NoMatch]
  /\ challengeStarting' = (challengeStarting /\ matches[m].via # "challenge")
  /\ UNCHANGED <<sessionVars, userMatch, inChallenge, asking, redisVars>>

\* Seeded fault: the queue, left before the awaits, is not left again.
CreateMatchTrustingBegin(m) ==
  /\ matches[m].stage = "creating"
  /\ matches' = [matches EXCEPT ![m].stage = "on"]
  /\ LET both == matches[m].players IN
       /\ userMatch' = [p \in Player |-> IF p \in both THEN m ELSE userMatch[p]]
       /\ intent' = [p \in Player |-> IF p \in both THEN FALSE ELSE intent[p]]
       /\ sessionMatch' = [p \in Player |->
                             IF p \in both /\ present[p] THEN m ELSE sessionMatch[p]]
  /\ UNCHANGED <<present, online, queued, challengeVars, redisVars>>

\* createMatch after its awaits: the match is on, whoever is still there, and who came
\* back meanwhile and was put into the pool is out of the queue again.
CreateMatch(m) ==
  /\ matches[m].stage = "creating"
  /\ matches' = [matches EXCEPT ![m].stage = "on"]
  /\ LET both == matches[m].players IN
       /\ userMatch' = [p \in Player |-> IF p \in both THEN m ELSE userMatch[p]]
       /\ intent' = [p \in Player |-> IF p \in both THEN FALSE ELSE intent[p]]
       /\ sessionMatch' = [p \in Player |->
                             IF p \in both /\ present[p] THEN m ELSE sessionMatch[p]]
       /\ queued' = [p \in Player |-> IF p \in both THEN FALSE ELSE queued[p]]
  /\ UNCHANGED <<present, online, challengeVars, redisVars>>

\* onFinished: both players are free again, whatever else they are in by now.
FinishMatch(m) ==
  /\ matches[m].stage = "on"
  /\ matches' = [matches EXCEPT ![m] = NoMatch]
  /\ LET both == matches[m].players IN
       /\ userMatch' = [p \in Player |-> IF p \in both THEN None ELSE userMatch[p]]
       /\ sessionMatch' = [p \in Player |-> IF p \in both THEN None ELSE sessionMatch[p]]
  /\ UNCHANGED <<present, online, queued, intent, challengeVars, redisVars>>
------------------------------------------------------------------------------
Gateway ==
  \/ AttemptTooLate \/ AttemptWaits \/ AttemptEvicts \/ AttemptAsksAgain \/ AttemptPairs

LobbyNext ==
  \/ \E p \in Player :
       \/ Connect(p) \/ Disconnect(p)
       \/ QueueJoin(p) \/ QueueLeave(p) \/ Retry(p)
       \/ ChallengeJoin(p) \/ ChallengeWaits(p) \/ ChallengeStarts(p)
  \/ Gateway \/ ChallengeStarted
  \/ \E m \in MatchId : CreateFails(m) \/ CreateMatch(m) \/ FinishMatch(m)

LobbySpec == LobbyInit /\ [][LobbyNext]_lobbyVars
------------------------------------------------------------------------------
(* Properties.                                                             *)

\* Every variable has its type, only a player with a socket is queued, only a player
\* with a session has a socket, and nobody is matched with themselves
\* (matchmaking.ts:70-72).
LobbyTypeOK ==
  /\ {present, online, queued, intent} \subseteq [Player -> BOOLEAN]
  /\ {sessionMatch, userMatch} \subseteq [Player -> MatchId \cup {None}]
  /\ matches \in [MatchId -> Match \cup {NoMatch}]
  /\ inChallenge \subseteq {Host, Taker} /\ asking \subseteq {Host, Taker}
  /\ challengeStarting \in BOOLEAN
  /\ pool \subseteq Player
  /\ \A i \in DOMAIN answers : answers[i] \in Answer
  /\ \A p \in Player : (queued[p] => online[p]) /\ (online[p] => present[p])
  /\ \A m \in MatchId : matches[m] # NoMatch => Cardinality(matches[m].players) = 2

\* session.matchId and userMatch are two records of one fact, kept by createMatch,
\* onFinished and the connection handler (index.ts:652-676, 867-876).  They agree for
\* everyone who has a session, whoever came and went during createMatch's awaits and
\* however many matches overlap, and what they name is a match the player is in that
\* is still on.  Nobody whose match is on is waiting for one or marked as wanting one,
\* which would put the player back in the pool at the next reconnection (892-905).
SessionKnowsItsMatch ==
  \A p \in Player :
    /\ sessionMatch[p] = IF present[p] THEN userMatch[p] ELSE None
    /\ userMatch[p] # None =>
         /\ matches[userMatch[p]].stage = "on" /\ p \in matches[userMatch[p]].players
         /\ ~queued[p] /\ ~intent[p]

BeingMatched(p) == \E m \in MatchId : matches[m].stage = "creating" /\ p \in matches[m].players

Forgotten(p) == online[p] /\ intent[p] /\ ~queued[p] /\ ~BeingMatched(p)

\* A connected player who wants a match is waiting for one or about to be in one,
\* however often the socket was lost (index.ts:892-905).  The one way to be forgotten
\* is a createMatch that fails.
SeekerIsNotForgotten ==
  [][\A p \in Player : Forgotten(p)' => Forgotten(p) \/ BeingMatched(p)]_lobbyVars

\* Both members may ask at the same moment, and the sessions learn of the match only
\* after createMatch's awaits.  Until then the code stays in challengeStarting, whichever
\* other matches fail or are on meanwhile and however often a member asks again, and no
\* other match of the challenge is being created (index.ts:506-526).
ChallengeStartsOnce ==
  /\ Cardinality(beingCreated("challenge")) <= 1
  /\ beingCreated("challenge") # {} => challengeStarting
==============================================================================
