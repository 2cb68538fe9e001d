------------------------------ MODULE Invitations ------------------------------
(***************************************************************************)
(* One challenge link, who takes it, the matches it starts, and the        *)
(* rematch that follows one.                                               *)
(*                                                                         *)
(* The web app answers every request on its own: it reads the challenge,   *)
(* finds out who is asking - making a guest of who is nobody - and takes   *)
(* the challenge, with a database call between each.  A response may be    *)
(* lost, and the guest's cookie with it; the visitor may then ask again.   *)
(* The gateway never writes to the row: it reads who may join from it.     *)
(*                                                                         *)
(* Users are numbered as they are made; the host is the first.  A visitor  *)
(* is a browser with no account, with one request at a time.  That a guest *)
(* is made in several attempts is left out.                                *)
(***************************************************************************)
EXTENDS Integers

CONSTANTS
  Visitor,
  MaxUsers,
  MaxLost,           \* responses that are lost
  MaxMatches         \* matches the link starts

ASSUME InvitationAssumption ==
  /\ "host" \notin Visitor
  /\ MaxUsers \in Nat \ {0} /\ MaxLost \in Nat /\ MaxMatches \in Nat

VARIABLES
  users,             \* accounts made so far
  allowGuest,
  expired,
  consumedBy,        \* consumedById, Nobody when consumedAt is null
  rematch,           \* the Challenge row with rematchOfId: its host, or Nobody
  cookie,            \* by browser: whose session it holds
  request,           \* by visitor: the POST that is being answered
  asking,            \* by member: the rematch POST that is being answered
  toldOk,            \* visitors told that the challenge is theirs
  toldRematch,       \* by member: whose challenge it was told of
  intent,            \* challengeIntent
  playing,           \* a match of this challenge is on
  started,           \* matches it has started
  lost

web == <<users, consumedBy, cookie, request, toldOk, lost>>
rematches == <<rematch, asking, toldRematch>>
play == <<intent, playing, started>>
vars == <<allowGuest, expired, web, rematches, play>>
------------------------------------------------------------------------------
Nobody == 0
Host == 1
Browser == Visitor \cup {"host"}
Person == 1 .. MaxUsers

\* With Nobody for the user until it is known.
Request(stage, user) == [stage |-> stage, user |-> user]
NoRequest == Request("none", Nobody)
Member == {Host, consumedBy} \ {Nobody}
connected(user) == \E b \in Browser : cookie[b] = user

Init ==
  /\ users = 1
  /\ allowGuest \in BOOLEAN
  /\ expired = FALSE
  /\ consumedBy = Nobody
  /\ rematch = Nobody
  /\ cookie = [b \in Browser |-> IF b = "host" THEN Host ELSE Nobody]
  /\ request = [v \in Visitor |-> NoRequest]
  /\ asking = [u \in Person |-> "none"]
  /\ toldOk = {}
  /\ toldRematch = [u \in Person |-> Nobody]
  /\ intent = {}
  /\ playing = FALSE
  /\ started = 0
  /\ lost = 0

\* 24 hours.
Expire == ~expired /\ expired' = TRUE /\ UNCHANGED <<allowGuest, web, rematches, play>>
------------------------------------------------------------------------------
(* POST /api/challenge/[code].                                             *)

Set(v, stage, user) == request' = [request EXCEPT ![v] = Request(stage, user)]

\* What is read here is not read again: a link may be taken after it expired.
Load(v) ==
  /\ request[v].stage = "none" /\ v \notin toldOk
  /\ ~expired \/ consumedBy # Nobody
  /\ Set(v, "loaded", Nobody)
  /\ UNCHANGED <<allowGuest, expired, users, consumedBy, cookie, toldOk, lost, rematches,
                 play>>

Identify(v) ==
  /\ request[v].stage = "loaded"
  /\ \/ /\ cookie[v] # Nobody
        /\ Set(v, "known", cookie[v])
        /\ UNCHANGED users
     \/ /\ cookie[v] = Nobody /\ allowGuest /\ users < MaxUsers
        /\ users' = users + 1
        /\ Set(v, "known", users + 1)
     \/ /\ cookie[v] = Nobody /\ ~allowGuest
        /\ request' = [request EXCEPT ![v] = NoRequest]
        /\ UNCHANGED users
  /\ UNCHANGED <<allowGuest, expired, consumedBy, cookie, toldOk, lost, rematches, play>>

\* Seeded fault: whether the challenge was taken is known from when it was read.
TakeAsLoaded(v) ==
  /\ request[v].stage = "known"
  /\ consumedBy' = request[v].user
  /\ Set(v, "won", request[v].user)
  /\ UNCHANGED <<allowGuest, expired, users, cookie, toldOk, lost, rematches, play>>

\* updateMany where consumedAt is null: one statement.
Take(v) ==
  /\ request[v].stage = "known"
  /\ \/ /\ consumedBy = Nobody
        /\ consumedBy' = request[v].user
        /\ Set(v, "won", request[v].user)
     \/ /\ consumedBy # Nobody
        /\ Set(v, "beaten", request[v].user)
        /\ UNCHANGED consumedBy
  /\ UNCHANGED <<allowGuest, expired, users, cookie, toldOk, lost, rematches, play>>

Answer(v) ==
  /\ request[v].stage \in {"won", "beaten"}
  /\ cookie' = [cookie EXCEPT ![v] = request[v].user]
  /\ toldOk' = IF request[v].stage = "won" THEN toldOk \cup {v} ELSE toldOk
  /\ request' = [request EXCEPT ![v] = NoRequest]
  /\ UNCHANGED <<allowGuest, expired, users, consumedBy, lost, rematches, play>>

LoseAnswer(v) ==
  /\ request[v].stage \in {"won", "beaten"}
  /\ lost < MaxLost
  /\ lost' = lost + 1
  /\ request' = [request EXCEPT ![v] = NoRequest]
  /\ UNCHANGED <<allowGuest, expired, users, consumedBy, cookie, toldOk, rematches, play>>
------------------------------------------------------------------------------
(* The gateway's joinChallenge.                                            *)

mayJoin(user) == user \in Member

\* Waits, or starts with the other member; nothing marks the challenge as used, and
\* the members may do so again when their match is over.
Join(b) ==
  LET me == cookie[b] IN
  /\ me # Nobody /\ ~playing
  /\ ~expired \/ consumedBy # Nobody
  /\ mayJoin(me)
  /\ IF consumedBy # Nobody /\ connected(Host) /\ connected(consumedBy)
     THEN /\ started < MaxMatches
          /\ playing' = TRUE
          /\ started' = started + 1
          /\ intent' = (intent \cup {me}) \ {Host, consumedBy}
     ELSE /\ intent' = intent \cup {me}
          /\ UNCHANGED <<playing, started>>
  /\ UNCHANGED <<allowGuest, expired, web, rematches>>

Finish == playing /\ playing' = FALSE /\ UNCHANGED <<allowGuest, expired, web, rematches,
                                                     intent, started>>
------------------------------------------------------------------------------
(* POST /api/rematch, for the last match this challenge started.           *)

Tell(u, host) ==
  /\ toldRematch' = [toldRematch EXCEPT ![u] = host]
  /\ asking' = [asking EXCEPT ![u] = "none"]

AskRematch(u) ==
  /\ started > 0 /\ u \in Member /\ connected(u) /\ asking[u] = "none"
  /\ IF rematch # Nobody
     THEN Tell(u, rematch)
     ELSE asking' = [asking EXCEPT ![u] = "creating"] /\ UNCHANGED toldRematch
  /\ UNCHANGED <<allowGuest, expired, web, play, rematch>>

\* Seeded fault: nothing but the lookup keeps a second row from being written.
CreateRematchAgain(u) ==
  /\ asking[u] = "creating"
  /\ rematch' = u
  /\ Tell(u, u)
  /\ UNCHANGED <<allowGuest, expired, web, play>>

\* The unique index decides, and who comes second takes what is there.
CreateRematch(u) ==
  /\ asking[u] = "creating"
  /\ rematch' = IF rematch = Nobody THEN u ELSE rematch
  /\ Tell(u, rematch')
  /\ UNCHANGED <<allowGuest, expired, web, play>>

Next ==
  \/ Expire \/ Finish
  \/ \E v \in Visitor : Load(v) \/ Identify(v) \/ Take(v) \/ Answer(v) \/ LoseAnswer(v)
  \/ \E b \in Browser : Join(b)
  \/ \E u \in Person : AskRematch(u) \/ CreateRematch(u)

Spec == Init /\ [][Next]_vars
------------------------------------------------------------------------------
TypeOK ==
  /\ users \in Person /\ consumedBy \in 0 .. users /\ rematch \in {Nobody} \cup Member
  /\ allowGuest \in BOOLEAN /\ expired \in BOOLEAN /\ playing \in BOOLEAN
  /\ cookie \in [Browser -> 0 .. users]
  /\ request \in [Visitor -> [stage : {"none", "loaded", "known", "won", "beaten"},
                              user : 0 .. users]]
  /\ asking \in [Person -> {"none", "creating"}]
  /\ toldOk \subseteq Visitor
  /\ toldRematch \in [Person -> 0 .. users]
  /\ intent \subseteq Member
  /\ started \in 0 .. MaxMatches /\ lost \in 0 .. MaxLost

\* Whoever was told that the challenge is theirs can join it: the row names the user
\* whose session the browser holds.  No two visitors are told so.
ToldOkIsMember ==
  /\ \A v \in toldOk : cookie[v] = consumedBy /\ consumedBy # Nobody
  /\ \A v, w \in toldOk : v = w

\* Both players of a match who ask for a rematch are sent to the same challenge.
OneRematch ==
  \A u, w \in Person :
    toldRematch[u] # Nobody /\ toldRematch[w] # Nobody => toldRematch[u] = toldRematch[w]
==============================================================================
