--------------------------- MODULE PlayClientProofs ---------------------------
(***************************************************************************)
(* The page keeps up with its player's match for any number of matches, of *)
(* breaks, reloads and restarts, and of messages on the way.               *)
(*                                                                         *)
(* What the page shows follows the gateway only when all has arrived, so   *)
(* the invariant speaks of what the page will show then: of the messages   *)
(* that move one part of the screen, the last one on the way says what is  *)
(* true now; or there is none, and the page shows it already.  PageInv     *)
(* says this of the phase, the match and the problem (ScreenInv), of the   *)
(* match the page remembers (RefInv), of the locks of the Submit button    *)
(* (LockInv) and of the ending on the screen (EndingInv).                  *)
(***************************************************************************)
EXTENDS PlayClient, SequenceTheorems, TLAPS

\* What the gateway says to a page, and a page to the gateway.
SentKind ==
  {"queue.status", "queue.left", "challenge.waiting", "match.found", "match.countdown",
   "match.start", "match.resync", "submission.ack", "submission.verdict", "match.judging",
   "match.end"}
Sent == [kind : SentKind, match : Id \cup {None}, state : Running \cup {"none"}]
AskedKind ==
  {"queue.join", "queue.leave", "code.submit", "match.rejoin", "challenge.join"}
Asked == [kind : AskedKind, match : Id \cup {None}, state : {"none"}]

\* What is on the way is of a match, where it has to be; and nothing waits for a page that
\* is not connected.
DownInv ==
  /\ down \in Seq(Sent)
  /\ \A i \in 1 .. Len(down) :
       down[i].kind \in {"match.found", "match.start", "match.resync", "match.end"} =>
         down[i].match \in Id
  /\ ~connected => down = <<>>
UpInv ==
  /\ up \in Seq(Asked)
  /\ \A i \in 1 .. Len(up) :
       up[i].kind \in {"match.rejoin", "code.submit"} => up[i].match \in Id
WireInv == DownInv /\ UpInv

\* Of the messages of these kinds, the last one in q is a good one; there is none.
Closes(q, kinds, good) ==
  \E i \in 1 .. Len(q) : q[i] \in good /\ \A j \in i + 1 .. Len(q) : q[j].kind \notin kinds
Unsaid(q, kinds) == \A j \in 1 .. Len(q) : q[j].kind \notin kinds

\* What the page will show when it has read all that is on the way.
phaseKinds ==
  {"queue.status", "queue.left", "challenge.waiting", "match.found", "match.countdown",
   "match.start", "match.resync", "match.end"}
rightPhase ==
  {e \in Sent : \/ e.kind = "match.found" /\ phaseOf(state) = "found"
                \/ e.kind = "match.countdown" /\ state = "COUNTDOWN"
                \/ e.kind = "match.start" /\ state = "LIVE"
                \/ e.kind = "match.resync" /\ phaseOf(e.state) = phaseOf(state)}
PhaseFollows ==
  \/ Closes(down, phaseKinds, rightPhase)
  \/ Unsaid(down, phaseKinds) /\ phase = phaseOf(state)

matchKinds == {"match.found", "match.resync", "match.end"}
rightMatch == {e \in Sent : e.kind \in {"match.found", "match.resync"} /\ e.match = match}
MatchFollows ==
  \/ Closes(down, matchKinds, rightMatch)
  \/ Unsaid(down, matchKinds) /\ shown = match /\ phase # "ended"

problemKinds == {"match.start", "match.resync"}
rightProblem ==
  {e \in Sent : \/ e.kind = "match.start" /\ e.match = match
                \/ e.kind = "match.resync" /\ e.match = match /\ e.state = "LIVE"}
ProblemFollows ==
  state = "LIVE" =>
    \/ Closes(down, problemKinds, rightProblem)
    \/ Unsaid(down, problemKinds) /\ problem = match

ScreenInv ==
  connected /\ match # None /\ state # "FOUND" /\ ~outOfTurn /\ ~strayed =>
    PhaseFollows /\ MatchFollows /\ ProblemFollows

\* A match the page may remember: it is on, or its page will be told of its end.
Answerable ==
  {m \in Id : \/ m = match \/ row[m] = "none" \/ m \in settling \/ m \in lookups
              \/ onItsWay(About("match.rejoin", m), up)}
refKinds == {"match.found", "match.end"}
rightRef ==
  {e \in Sent : e.kind = "match.end" \/ (e.kind = "match.found" /\ e.match \in Answerable)}
RefInv ==
  connected /\ entry # "challenge" =>
    \/ Closes(down, refKinds, rightRef)
    \/ Unsaid(down, refKinds) /\ matchRef \in Answerable \cup {None}

\* The locks of the Submit button are held for a submission that is judged, and for a match
\* that is on or whose end is to come.
flightKinds == {"submission.ack", "submission.verdict"}
rightFlight ==
  {e \in Sent : e.kind = "submission.verdict" \/ (e.kind = "submission.ack" /\ jobs # {})}
FlightInv ==
  \/ Closes(down, flightKinds, rightFlight)
  \/ Unsaid(down, flightKinds) /\ (inFlight => jobs # {})

holdKinds == {"match.judging", "match.end"}
Held == match \in jobs \/ settling # {}
rightHold ==
  {e \in Sent : e = HoldOver \/ e.kind = "match.end" \/ (e.kind = "match.judging" /\ Held)}
HoldInv ==
  \/ Closes(down, holdKinds, rightHold)
  \/ Unsaid(down, holdKinds) /\ (holding => Held)

LockInv == ~unanswered => FlightInv /\ HoldInv

\* The ending on the screen is gone, or may stay because a match.start was missed.  It
\* stays gone when a match that is live is shown: of the endings and starts on the way the
\* last is a start; or there is no ending, and the screen shows none.  So it is before
\* every resync into a live match as well.
Cleared == ending = None \/ startMissed
ClearAt(q, n, cleared) ==
  \/ \E i \in 1 .. n : /\ q[i].kind = "match.start"
                       /\ \A j \in i + 1 .. n : q[j].kind # "match.end"
  \/ cleared /\ \A j \in 1 .. n : q[j].kind # "match.end"
LiveResync(e) == e.kind = "match.resync" /\ e.state = "LIVE"
Tidy(q, cleared, live) ==
  /\ live => ClearAt(q, Len(q), cleared)
  /\ \A i \in 1 .. Len(q) : LiveResync(q[i]) => ClearAt(q, i - 1, cleared)
EndingInv ==
  ~outOfTurn => (phase = "live" => Cleared) /\ Tidy(down, Cleared, state = "LIVE")



LEMMA Add ==
  ASSUME NEW S, NEW q \in Seq(S), NEW e \in S, NEW kinds, NEW good
  PROVE  /\ q \o <<e>> \in Seq(S)
         /\ e \in good => Closes(q \o <<e>>, kinds, good)
         /\ e.kind \notin kinds /\ Closes(q, kinds, good) => Closes(q \o <<e>>, kinds, good)
         /\ e.kind \notin kinds /\ Unsaid(q, kinds) => Unsaid(q \o <<e>>, kinds)
<1> DEFINE r == q \o <<e>>
<1>1. /\ r \in Seq(S) /\ Len(r) = Len(q) + 1 /\ r[Len(q) + 1] = e
      /\ \A i \in 1 .. Len(q) : r[i] = q[i]
  OBVIOUS
<1>2. Len(q) \in Nat
  OBVIOUS
<1> HIDE DEF r
<1>3. e \in good => Closes(r, kinds, good)
  BY <1>1, <1>2 DEF Closes
<1>4. e.kind \notin kinds /\ Closes(q, kinds, good) => Closes(r, kinds, good)
  BY <1>1, <1>2 DEF Closes
<1>5. e.kind \notin kinds /\ Unsaid(q, kinds) => Unsaid(r, kinds)
  BY <1>1, <1>2 DEF Unsaid
<1> QED
  BY <1>1, <1>3, <1>4, <1>5 DEF r

\* One message is read.
LEMMA Drop ==
  ASSUME NEW S, NEW q \in Seq(S), q # <<>>, NEW kinds, NEW good
  PROVE  /\ Tail(q) \in Seq(S) /\ Head(q) \in S
         /\ Closes(q, kinds, good) => \/ Closes(Tail(q), kinds, good)
                                      \/ Head(q) \in good /\ Unsaid(Tail(q), kinds)
         /\ Unsaid(q, kinds) => Unsaid(Tail(q), kinds) /\ Head(q).kind \notin kinds
<1> DEFINE r == Tail(q)
<1>1. /\ r \in Seq(S) /\ Len(q) \in Nat /\ Len(q) >= 1 /\ Len(r) = Len(q) - 1
      /\ \A i \in 1 .. Len(r) : r[i] = q[i + 1]
      /\ Head(q) = q[1] /\ q[1] \in S
  BY HeadTailProperties, EmptySeq
<1> HIDE DEF r
<1>2. ASSUME Closes(q, kinds, good)
      PROVE  Closes(r, kinds, good) \/ (q[1] \in good /\ Unsaid(r, kinds))
  <2>1. PICK i \in 1 .. Len(q) :
          q[i] \in good /\ \A j \in i + 1 .. Len(q) : q[j].kind \notin kinds
    BY <1>2 DEF Closes
  <2>2. CASE i = 1
    BY <1>1, <2>1, <2>2 DEF Unsaid
  <2>3. CASE i # 1
    <3>1. i - 1 \in 1 .. Len(r) /\ r[i - 1] = q[i]
      BY <1>1, <2>1, <2>3
    <3>2. \A j \in (i - 1) + 1 .. Len(r) : r[j] = q[j + 1] /\ j + 1 \in i + 1 .. Len(q)
      BY <1>1, <2>1, <2>3
    <3> QED
      BY <2>1, <3>1, <3>2 DEF Closes
  <2> QED
    BY <2>2, <2>3
<1>3. Unsaid(q, kinds) => Unsaid(r, kinds) /\ q[1].kind \notin kinds
  BY <1>1 DEF Unsaid
<1> QED
  BY <1>1, <1>2, <1>3 DEF r

LEMMA Grow ==
  ASSUME NEW q, NEW kinds, NEW good, NEW better, Closes(q, kinds, good),
         \A i \in 1 .. Len(q) : q[i] \in good => q[i] \in better
  PROVE  Closes(q, kinds, better)
  BY DEF Closes

LEMMA Nothing ==
  ASSUME NEW kinds, NEW good
  PROVE  Unsaid(<<>>, kinds) /\ ~Closes(<<>>, kinds, good)
  BY DEF Unsaid, Closes
------------------------------------------------------------------------------
(* The messages: what is sent, heard and taken has its type.               *)

LEMMA EmitDown ==
  ASSUME DownInv, NEW e \in Sent, Emit(e), connected' = connected,
         e.kind \in {"match.found", "match.start", "match.resync", "match.end"} => e.match \in Id
  PROVE  DownInv'
<1>1. CASE connected
  <2>1. down' = down \o <<e>>
    BY <1>1 DEF Emit, EmitAll
  <2> QED
    BY <1>1, <2>1 DEF DownInv
<1>2. CASE ~connected
  BY <1>2 DEF DownInv, Emit, EmitAll
<1> QED
  BY <1>1, <1>2

LEMMA EmitTwo ==
  ASSUME DownInv, NEW e \in Sent, NEW f \in Sent, EmitAll(<<e, f>>), connected' = connected,
         \A g \in {e, f} :
           g.kind \notin {"match.found", "match.start", "match.resync", "match.end"}
  PROVE  DownInv'
<1>1. CASE connected
  <2>1. down' = down \o <<e, f>>
    BY <1>1 DEF EmitAll
  <2>2. down' \in Seq(Sent) /\ Len(down') = Len(down) + 2
    BY <2>1 DEF DownInv
  <2>3. \A i \in 1 .. Len(down') : down'[i] =
          IF i <= Len(down) THEN down[i] ELSE IF i = Len(down) + 1 THEN e ELSE f
    BY <2>1 DEF DownInv
  <2> QED
    BY <1>1, <2>2, <2>3 DEF DownInv
<1>2. CASE ~connected
  BY <1>2 DEF DownInv, EmitAll
<1> QED
  BY <1>1, <1>2

LEMMA HearDown ==
  ASSUME DownInv, NEW kind, Hear(kind)
  PROVE  DownInv' /\ Head(down) \in Sent /\ Head(down) = down[1] /\ 1 \in 1 .. Len(down)
<1>1. down # <<>> /\ down' = Tail(down) /\ connected' = connected
  BY DEF Hear
<1>2. /\ down' \in Seq(Sent) /\ Len(down) \in Nat /\ Len(down) >= 1 /\ Len(down') = Len(down) - 1
      /\ \A i \in 1 .. Len(down') : down'[i] = down[i + 1]
      /\ Head(down) = down[1] /\ down[1] \in Sent
  BY <1>1, HeadTailProperties, EmptySeq DEF DownInv
<1> QED
  BY <1>1, <1>2 DEF DownInv

LEMMA SendUp ==
  ASSUME UpInv, NEW e \in Asked, up' = Append(up, e),
         e.kind \in {"match.rejoin", "code.submit"} => e.match \in Id
  PROVE  UpInv'
  BY DEF UpInv

LEMMA TakeUp ==
  ASSUME UpInv, NEW kind, Take(kind)
  PROVE  UpInv' /\ Head(up) \in Asked /\ Head(up) = up[1] /\ 1 \in 1 .. Len(up)
<1>1. up # <<>> /\ up' = Tail(up)
  BY DEF Take
<1>2. /\ up' \in Seq(Asked) /\ Len(up) \in Nat /\ Len(up) >= 1 /\ Len(up') = Len(up) - 1
      /\ \A i \in 1 .. Len(up') : up'[i] = up[i + 1]
      /\ Head(up) = up[1] /\ up[1] \in Asked
  BY <1>1, HeadTailProperties, EmptySeq DEF UpInv
<1> QED
  BY <1>1, <1>2 DEF UpInv

LEMMA UpTyped ==
  UpInv <=> /\ up \in Seq(Asked)
            /\ \A message \in ToSet(up) :
                 message.kind \in {"match.rejoin", "code.submit"} => message.match \in Id
  BY DEF UpInv, ToSet
------------------------------------------------------------------------------
(* Type correctness.                                                       *)

\* TypeOK in two parts, of which the second holds the Boolean variables.
Fields ==
  /\ entry \in {"lobby", "hub", "challenge"} /\ phase \in Phase
  /\ shown \in Id \cup {None} /\ problem \in Id \cup {None} /\ matchRef \in Id \cup {None}
  /\ ending \in Id \cup {None} /\ match \in Id \cup {None}
  /\ state \in Running \cup {"none"} /\ (match = None <=> state = "none")
  /\ made \in 0 .. MaxMatches /\ mishaps \in 0 .. MaxMishaps
  /\ row \in [Id -> {"none", "LIVE", "over"}]
  /\ jobs \subseteq Id /\ settling \subseteq Id /\ lookups \subseteq Id
Flags ==
  /\ inFlight \in BOOLEAN /\ holding \in BOOLEAN /\ seeking \in BOOLEAN /\ waiting \in BOOLEAN
  /\ joining \in BOOLEAN /\ member \in BOOLEAN
  /\ outOfTurn \in BOOLEAN /\ unanswered \in BOOLEAN
  /\ startMissed \in BOOLEAN /\ strayed \in BOOLEAN
  /\ connected \in BOOLEAN /\ greeted \in BOOLEAN

LEMMA TypeIsFields == UpInv => (TypeOK <=> Fields /\ Flags)
  BY UpTyped DEF TypeOK, Fields, Flags

LEMMA Numbers == MaxMatches \in Nat \ {0} /\ None \notin Id /\ None = 0
  BY PlayAssumption DEF None, Id

LEMMA PageFields ==
  ASSUME Fields, phase' \in Phase, shown' \in Id \cup {None}, problem' \in Id \cup {None},
         matchRef' \in Id \cup {None}, ending' \in Id \cup {None},
         entry' \in {"lobby", "hub", "challenge"}, mishaps' \in 0 .. MaxMishaps,
         lookups' \subseteq Id,
         UNCHANGED <<match, state, made, row, settling, jobs>>
  PROVE  Fields'
  BY DEF Fields

LEMMA MishapType ==
  ASSUME Fields, Flags, WireInv, Break \/ Reload \/ Restart \/ LeaveChallenge
  PROVE  Fields' /\ Flags' /\ WireInv'
<1>0. lookups' = {} /\ lookups' \subseteq Id
  BY DEF Break, Reload, Restart, LeaveChallenge, Mishap
<1>1. down' = <<>> /\ up' = <<>> /\ connected' = FALSE
  BY DEF Break, Reload, Restart, LeaveChallenge, Mishap
<1>2. WireInv'
  BY <1>1 DEF WireInv, DownInv, UpInv
<1>3. mishaps' \in 0 .. MaxMishaps
  BY PlayAssumption DEF Break, Reload, Restart, LeaveChallenge, Mishap, Fields
<1>4. \A e : freshPhase(e) \in Phase
  BY DEF freshPhase, Phase
<1>5. unanswered' \in BOOLEAN
  BY DEF Break, Reload, Restart, LeaveChallenge, Flags, AnswerLost
<1>6. Flags'
  BY <1>1, <1>5 DEF Flags, Break, Reload, Restart, LeaveChallenge, Mishap, page, screen
<1>7. CASE Restart
  <2>1. UNCHANGED page /\ made' = made /\ match' = None /\ state' = "none" /\ settling' = {}
        /\ jobs' = {} /\ row' = [m \in Id |-> IF row[m] = "LIVE" THEN "over" ELSE row[m]]
    BY <1>7 DEF Restart
  <2> QED
    <3>1. row' \in [Id -> {"none", "LIVE", "over"}]
      BY <2>1 DEF Fields
    <3>2. UNCHANGED <<entry, phase, shown, problem, matchRef, ending>>
      BY <2>1 DEF page, screen
    <3> QED
      BY <1>0, <1>2, <1>3, <1>6, <2>1, <3>1, <3>2 DEF Fields
<1>8. CASE Break \/ Reload \/ LeaveChallenge
  <2>1. UNCHANGED <<match, state, made, row, settling, jobs>>
    BY <1>8 DEF Break, Reload, LeaveChallenge, course
  <2>2. /\ phase' \in Phase /\ shown' \in Id \cup {None} /\ problem' \in Id \cup {None}
        /\ matchRef' \in Id \cup {None} /\ ending' \in Id \cup {None}
        /\ entry' \in {"lobby", "hub", "challenge"}
    BY <1>4, <1>8 DEF Fields, Break, Reload, LeaveChallenge, page, screen, Phase
  <2> QED
    BY <1>0, <1>2, <1>3, <1>6, <2>1, <2>2, PageFields
<1> QED
  BY <1>7, <1>8

LEMMA ConnectType == ASSUME Fields, Flags, WireInv, Connect PROVE Fields' /\ Flags' /\ WireInv'
<1>1. Fields'
  BY DEF Fields, Connect, page, screen, gateway, course, questions, history
<1>0. Flags'
  BY DEF Flags, Connect, page, screen, gateway, course, questions, history, marks
<1>2. Message("match.resync", match, state) \in Sent
  BY DEF Fields, Sent, SentKind, Message
<1>3. greeting = <<>> \/ (greeting = <<Message("match.resync", match, state)>> /\ match \in Id)
  BY DEF greeting, Fields
<1>4. DownInv'
  <2>1. down' = greeting /\ connected' = TRUE
    BY DEF Connect
  <2>2. CASE greeting = <<>>
    BY <2>1, <2>2 DEF DownInv
  <2>3. CASE greeting # <<>>
    <3>1. PICK e \in Sent : down' = <<e>> /\ e.match \in Id
      BY <1>2, <1>3, <2>1, <2>3 DEF Message
    <3> QED
      BY <2>1, <3>1 DEF DownInv
  <2> QED
    BY <2>2, <2>3
<1>5. firstWords = <<>> \/ \E e \in Asked : /\ firstWords = <<e>>
                                            /\ e.kind = "match.rejoin" => e.match \in Id
                                            /\ e.kind # "code.submit"
  BY DEF firstWords, Word, About, Message, Asked, AskedKind, Fields
<1>6. UpInv'
  <2>1. up' = up \o firstWords /\ up \in Seq(Asked)
    BY DEF Connect, WireInv, UpInv
  <2>2. CASE firstWords = <<>>
    BY <2>1, <2>2 DEF WireInv, UpInv
  <2>3. CASE firstWords # <<>>
    <3>1. PICK e \in Asked : /\ up' = Append(up, e) /\ e.kind # "code.submit"
                             /\ e.kind = "match.rejoin" => e.match \in Id
      BY <1>5, <2>1, <2>3
    <3> QED
      BY <3>1, SendUp DEF WireInv
  <2> QED
    BY <2>2, <2>3
<1> QED
  BY <1>0, <1>1, <1>4, <1>6 DEF WireInv

LEMMA PressType ==
  ASSUME Fields, Flags, WireInv, Play \/ Cancel \/ Submit \/ Rematch \/ Hub \/ Poll
  PROVE  Fields' /\ Flags' /\ WireInv'
<1>1. UNCHANGED <<entry, connected, greeted, down, gateway, history>>
  BY DEF Play, Cancel, Submit, Rematch, Hub, CloseEnding, Stay, Poll, Press, wire
<1>2. Fields'
  BY <1>1 DEF Fields, Play, Cancel, Submit, Rematch, Hub, CloseEnding, Stay, Poll, screen,
       gateway, course,
       questions, history, Phase
<1>3. Flags' /\ DownInv'
  <2>1. UNCHANGED <<connected, greeted, down, seeking, waiting, joining, member, outOfTurn,
                    unanswered, startMissed, inFlight, holding>>
    BY <1>1 DEF Play, Cancel, Submit, Rematch, Hub, Poll, Press, Stay, CloseEnding, screen,
         gateway, questions, history
  <2>2. strayed' \in BOOLEAN
    BY DEF Flags, Play, Cancel, Submit, Rematch, Hub, Poll, Stay, CloseEnding
  <2> QED
    BY <2>1, <2>2 DEF Flags, WireInv, DownInv
<1>4. UpInv'
  <2>1. CASE Hub
    BY <2>1 DEF Hub, wire, WireInv, UpInv
  <2>2. CASE Submit
    <3>1. About("code.submit", shown) \in Asked /\ shown \in Id
      BY <2>2 DEF Submit, About, Message, Asked, AskedKind, Fields
    <3> QED
      BY <2>2, <3>1, SendUp DEF Submit, Press, Send, WireInv, About, Message
  <2>3. ASSUME NEW kind \in {"queue.join", "queue.leave", "challenge.join"}, Press(Word(kind))
        PROVE  UpInv'
    <3>1. Word(kind) \in Asked /\ Word(kind).kind = kind
      BY DEF Word, About, Message, Asked, AskedKind
    <3> QED
      BY <2>3, <3>1, SendUp DEF Press, Send, WireInv
  <2> QED
    BY <2>1, <2>2, <2>3 DEF Play, Cancel, Rematch, Poll
<1> QED
  BY <1>2, <1>3, <1>4 DEF WireInv

LEMMA HearType ==
  ASSUME Fields, Flags, WireInv,
         \/ HearStatus \/ HearPhase \/ HearFound \/ HearStart \/ HearResync
         \/ HearSubmission \/ HearJudging \/ HearEnd
  PROVE  Fields' /\ Flags' /\ WireInv'
<1>1. PICK kind : Hear(kind)
  BY DEF HearStatus, HearPhase, HearFound, HearStart, HearResync, HearSubmission, HearJudging,
       HearEnd
<1>2. DownInv' /\ Head(down) \in Sent /\ Head(down) = down[1] /\ 1 \in 1 .. Len(down)
  BY <1>1, HearDown DEF WireInv
<1>3. UpInv' /\ UNCHANGED <<entry, connected, greeted, up, gateway, history>>
  BY <1>1 DEF Hear, WireInv, UpInv
<1>4. Head(down).kind \in {"match.found", "match.start", "match.resync", "match.end"}
        => Head(down).match \in Id
  BY <1>2 DEF WireInv, DownInv
<1>5. \A s : phaseOf(s) \in Phase
  BY DEF phaseOf, Phase
<1>6. UNCHANGED <<entry, match, state, made, row, settling, jobs, lookups, mishaps>>
  BY <1>3 DEF gateway, course, questions, history
<1>7. Flags'
  <2>1. /\ UNCHANGED <<connected, greeted, seeking, waiting, joining, member, outOfTurn,
                       unanswered, strayed>>
        /\ startMissed' \in BOOLEAN
    BY <1>1, <1>3 DEF Hear, gateway, questions, history, Flags
  <2>2. inFlight' \in BOOLEAN /\ holding' \in BOOLEAN
    BY DEF Flags, HearStatus, HearPhase, HearFound, HearStart, HearResync, HearSubmission,
         HearJudging, HearEnd
  <2> QED
    BY <2>1, <2>2 DEF Flags
<1>8. /\ phase' \in Phase /\ shown' \in Id \cup {None} /\ problem' \in Id \cup {None}
      /\ matchRef' \in Id \cup {None} /\ ending' \in Id \cup {None}
  <2>0. /\ phase \in Phase /\ shown \in Id \cup {None} /\ problem \in Id \cup {None}
        /\ matchRef \in Id \cup {None} /\ ending \in Id \cup {None}
    BY DEF Fields
  <2>1. CASE HearStatus \/ HearPhase \/ HearSubmission \/ HearJudging
    BY <2>0, <2>1 DEF HearStatus, HearPhase, HearSubmission, HearJudging, Phase
  <2>2. CASE HearFound \/ HearStart
    BY <1>4, <2>0, <2>2 DEF HearFound, HearStart, Hear, Phase
  <2>3. CASE HearResync
    BY <1>4, <1>5, <2>0, <2>3 DEF HearResync, Hear
  <2>4. CASE HearEnd
    BY <1>4, <2>0, <2>4 DEF HearEnd, Hear, Phase
  <2> QED
    BY <2>1, <2>2, <2>3, <2>4
<1>9. Fields'
  BY <1>6, <1>8, PageFields DEF Fields
<1> QED
  BY <1>2, <1>3, <1>7, <1>9 DEF WireInv

LEMMA CourseFields ==
  ASSUME Fields, UNCHANGED <<page, mishaps>>, jobs' \subseteq Id, lookups' \subseteq Id,
         match' \in Id \cup {None}, state' \in Running \cup {"none"},
         match' = None <=> state' = "none", made' \in 0 .. MaxMatches,
         row' \in [Id -> {"none", "LIVE", "over"}], settling' \subseteq Id
  PROVE  Fields'
<1>1. UNCHANGED <<entry, phase, shown, problem, matchRef, ending>>
  BY DEF page, screen
<1> QED
  BY <1>1 DEF Fields

\* What does not touch a match.
LEMMA StillFields ==
  ASSUME Fields, UNCHANGED <<page, mishaps, course>>, jobs' \subseteq Id, lookups' \subseteq Id
  PROVE  Fields'
<1>1. UNCHANGED <<match, state, made, row, settling>>
  BY DEF course
<1> QED
  BY <1>1, CourseFields DEF Fields

LEMMA Words ==
  /\ \A k \in SentKind : \A m \in Id \cup {None} : \A s \in Running \cup {"none"} :
       Message(k, m, s) \in Sent
  /\ \A k, m, s : Message(k, m, s).kind = k /\ Message(k, m, s).match = m
                  /\ Message(k, m, s).state = s
  BY DEF Message, Sent

LEMMA HearsType == ASSUME Fields, Flags, WireInv, GatewayHears PROVE Fields' /\ Flags' /\ WireInv'
<1>1. PICK kind : Take(kind)
  BY DEF GatewayHears, TakeQueueJoin, TakeQueueLeave, TakeSubmit, TakeRejoin, TakeChallengeJoin
<1>2. UpInv' /\ Head(up) \in Asked /\ Head(up) = up[1] /\ 1 \in 1 .. Len(up)
  BY <1>1, TakeUp DEF WireInv
<1>3. Head(up).kind \in {"match.rejoin", "code.submit"} => Head(up).match \in Id
  BY <1>2 DEF WireInv, UpInv
<1>4. UNCHANGED <<page, connected, greeted, course, mishaps, member, unanswered, startMissed,
                  strayed>>
  BY <1>1 DEF Take, marks
<1>5. jobs' \subseteq Id /\ lookups' \subseteq Id
  <2>0. jobs \subseteq Id /\ lookups \subseteq Id
    BY DEF Fields
  <2>1. CASE TakeSubmit
    BY <1>3, <2>0, <2>1 DEF TakeSubmit, Take, questions
  <2>2. CASE TakeRejoin
    BY <1>3, <2>0, <2>2 DEF TakeRejoin, Take
  <2>3. CASE TakeQueueJoin \/ TakeQueueLeave \/ TakeChallengeJoin
    BY <2>0, <2>3 DEF TakeQueueJoin, TakeQueueLeave, TakeChallengeJoin, questions
  <2> QED
    BY <2>1, <2>2, <2>3 DEF GatewayHears
<1>6. Fields'
  BY <1>4, <1>5, StillFields
<1>7. Flags'
  <2>1. UNCHANGED <<inFlight, holding>>
    BY <1>4 DEF page, screen
  <2>2. /\ seeking' \in BOOLEAN /\ waiting' \in BOOLEAN /\ joining' \in BOOLEAN
        /\ outOfTurn' \in BOOLEAN
    BY DEF GatewayHears, TakeQueueJoin, TakeQueueLeave, TakeSubmit, TakeRejoin,
         TakeChallengeJoin, questions, Flags
  <2> QED
    BY <1>4, <2>1, <2>2 DEF Flags
<1>8. DownInv'
  <2>0. DownInv /\ connected' = connected
    BY <1>4 DEF WireInv
  <2>1. CASE TakeQueueLeave
    <3>1. Word("queue.left") \in Sent /\ Word("queue.left").kind = "queue.left"
      BY Words DEF Word, About, SentKind, Running
    <3> QED
      BY <2>0, <2>1, <3>1, EmitDown DEF TakeQueueLeave
  <2>2. CASE TakeSubmit
    <3>1. PICK m \in Id : \/ EmitAll(<<Hold(m), Word("submission.ack")>>)
                          \/ UNCHANGED down
      BY <1>3, <2>2 DEF TakeSubmit, Take
    <3>2. /\ Hold(m) \in Sent /\ Word("submission.ack") \in Sent
          /\ Hold(m).kind = "match.judging" /\ Word("submission.ack").kind = "submission.ack"
      BY Words DEF Hold, Word, About, SentKind, Running
    <3> QED
      BY <2>0, <3>1, <3>2, EmitTwo DEF DownInv
  <2>3. CASE TakeRejoin
    <3>1. CASE UNCHANGED down
      BY <2>0, <3>1 DEF DownInv
    <3>2. CASE down' # down
      <4>1. match \in Id /\ Emit(Message("match.resync", match, state))
        BY <1>3, <2>3, <3>2 DEF TakeRejoin, Take, Silent
      <4>2. Message("match.resync", match, state) \in Sent
        BY <4>1, Words DEF SentKind, Fields
      <4> QED
        BY <2>0, <4>1, <4>2, Words, EmitDown
    <3> QED
      BY <3>1, <3>2
  <2>4. CASE TakeQueueJoin \/ TakeChallengeJoin
    BY <2>0, <2>4 DEF TakeQueueJoin, TakeChallengeJoin, DownInv
  <2> QED
    BY <2>1, <2>2, <2>3, <2>4 DEF GatewayHears
<1> QED
  BY <1>2, <1>6, <1>7, <1>8 DEF WireInv

LEMMA NewMatch ==
  ASSUME Fields, CreateMatch
  PROVE  /\ match' \in Id /\ state' = "FOUND" /\ made' \in 0 .. MaxMatches
         /\ UNCHANGED <<row, settling>>
  BY PlayAssumption DEF Fields, CreateMatch, Id

LEMMA WorkType ==
  ASSUME Fields, Flags, WireInv, WhileAtWork, startMissed' \in BOOLEAN, DownInv',
         UNCHANGED questions \/ lookups' \subseteq Id, jobs' \subseteq Id,
         \/ UNCHANGED course
         \/ CreateMatch
         \/ /\ match' \in Id \cup {None} /\ state' \in Running \cup {"none"}
            /\ match' = None <=> state' = "none"
            /\ row' \in [Id -> {"none", "LIVE", "over"}] /\ settling' \subseteq Id
            /\ made' = made,
         seeking' \in BOOLEAN, waiting' \in BOOLEAN, joining' \in BOOLEAN,
         outOfTurn' \in BOOLEAN, unanswered' \in BOOLEAN
  PROVE  Fields' /\ Flags' /\ WireInv'
<1>1. UNCHANGED <<page, mishaps>> /\ UNCHANGED <<connected, greeted, member, up, strayed>>
  BY DEF WhileAtWork
<1>2. lookups' \subseteq Id
  BY DEF questions, Fields
<1>3. Fields'
  <2>1. CASE UNCHANGED course
    BY <1>1, <1>2, <2>1, StillFields
  <2>2. CASE CreateMatch
    BY <1>1, <1>2, <2>2, NewMatch, Numbers, CourseFields DEF Fields, Running
  <2>3. CASE ~UNCHANGED course /\ ~CreateMatch
    BY <1>1, <1>2, <2>3, CourseFields DEF Fields
  <2> QED
    BY <2>1, <2>2, <2>3
<1>4. Flags'
  BY <1>1 DEF Flags, page, screen
<1>5. UpInv'
  BY <1>1 DEF WireInv, UpInv
<1> QED
  BY <1>3, <1>4, <1>5 DEF WireInv

LEMMA AtWorkType == Flags /\ AtWork => WhileAtWork /\ startMissed' \in BOOLEAN
  BY DEF Flags, AtWork

LEMMA StillDown == DownInv /\ UNCHANGED <<down, connected>> => DownInv'
  BY DEF DownInv

LEMMA EmitSome ==
  ASSUME DownInv, connected' = connected, NEW k \in SentKind, NEW m \in Id \cup {None},
         Emit(About(k, m)),
         k \in {"match.found", "match.start", "match.resync", "match.end"} => m \in Id
  PROVE  DownInv'
<1>1. About(k, m) \in Sent /\ About(k, m).kind = k /\ About(k, m).match = m
  BY Words DEF About
<1> QED
  BY <1>1, EmitDown

LEMMA AnswersType ==
  ASSUME Fields, Flags, WireInv, GatewayAnswers PROVE Fields' /\ Flags' /\ WireInv'
<1>0. DownInv /\ lookups \subseteq Id /\ jobs \subseteq Id
  BY DEF WireInv, Fields
<1>1. ASSUME NEW m \in Id, AnswerRejoin(m) PROVE Fields' /\ Flags' /\ WireInv'
  <2>1. AtWork /\ UNCHANGED <<course, jobs, seeking, waiting, joining, unanswered>>
    BY <1>1 DEF AnswerRejoin
  <2>2. connected' = connected
    BY <2>1 DEF AtWork, WhileAtWork
  <2>3. DownInv'
    <3>1. CASE row[m] = "none"
      BY <1>0, <1>1, <2>2, <3>1, StillDown DEF AnswerRejoin, Silent
    <3>2. CASE row[m] # "none"
      BY <1>0, <1>1, <2>2, <3>2, EmitSome DEF AnswerRejoin, SentKind
    <3> QED
      BY <3>1, <3>2
  <2>4. lookups' \subseteq Id /\ outOfTurn' \in BOOLEAN
    BY <1>0, <1>1 DEF AnswerRejoin, Flags
  <2>5. jobs' \subseteq Id /\ UNCHANGED course
    BY <1>0, <2>1
  <2>6. seeking' \in BOOLEAN /\ waiting' \in BOOLEAN /\ joining' \in BOOLEAN
        /\ unanswered' \in BOOLEAN
    BY <2>1 DEF Flags
  <2> QED
    BY <2>1, <2>3, <2>4, <2>5, <2>6, AtWorkType, WorkType
<1>2. CASE AnswerChallengeJoin
  <2>1. AtWork /\ UNCHANGED <<jobs, lookups, unanswered>>
    BY <1>2 DEF AnswerChallengeJoin
  <2>2. connected' = connected
    BY <2>1 DEF AtWork, WhileAtWork
  <2>3. DownInv'
    <3>1. Emit(Word("challenge.waiting")) \/ UNCHANGED down
      BY <1>2 DEF AnswerChallengeJoin
    <3>2. CASE Emit(Word("challenge.waiting"))
      BY <1>0, <2>2, <3>2, EmitSome DEF Word, SentKind
    <3> QED
      BY <1>0, <2>2, <3>1, <3>2, StillDown
  <2>4. /\ seeking' \in BOOLEAN /\ waiting' \in BOOLEAN /\ joining' \in BOOLEAN
        /\ unanswered' \in BOOLEAN /\ outOfTurn' \in BOOLEAN
    BY <1>2 DEF AnswerChallengeJoin, Flags, CreateMatch
  <2>5. UNCHANGED course \/ CreateMatch
    BY <1>2 DEF AnswerChallengeJoin
  <2>6. jobs' \subseteq Id /\ lookups' \subseteq Id
    BY <1>0, <2>1
  <2> QED
    BY <2>1, <2>3, <2>4, <2>5, <2>6, AtWorkType, WorkType
<1> QED
  BY <1>1, <1>2 DEF GatewayAnswers

LEMMA PairingType ==
  ASSUME Fields, Flags, WireInv, Status \/ Pair \/ FriendJoins PROVE Fields' /\ Flags' /\ WireInv'
<1>0. DownInv /\ lookups \subseteq Id /\ jobs \subseteq Id
  BY DEF WireInv, Fields
<1>1. AtWork /\ UNCHANGED <<jobs, questions, outOfTurn, unanswered>>
  BY DEF Status, Pair, FriendJoins, gateway
<1>2. connected' = connected
  BY <1>1 DEF AtWork, WhileAtWork
<1>3. DownInv'
  <2>1. CASE Status
    BY <1>0, <1>2, <2>1, EmitSome DEF Status, Word, SentKind
  <2>2. CASE Pair \/ FriendJoins
    BY <1>0, <1>2, <2>2, StillDown DEF Pair, FriendJoins
  <2> QED
    BY <2>1, <2>2
<1>4. /\ seeking' \in BOOLEAN /\ waiting' \in BOOLEAN /\ joining' \in BOOLEAN
      /\ unanswered' \in BOOLEAN /\ outOfTurn' \in BOOLEAN
  BY <1>1 DEF Status, Pair, FriendJoins, CreateMatch, Flags, gateway, questions
<1>5. UNCHANGED course \/ CreateMatch
  BY DEF Status, Pair, FriendJoins, gateway
<1>6. jobs' \subseteq Id
  BY <1>0, <1>1
<1> QED
  BY <1>1, <1>3, <1>4, <1>5, <1>6, AtWorkType, WorkType

LEMMA ForwardType ==
  ASSUME Fields, Flags, WireInv, Open \/ CountDown \/ GoLive PROVE Fields' /\ Flags' /\ WireInv'
<1>0. DownInv /\ lookups \subseteq Id /\ jobs \subseteq Id
  BY DEF WireInv, Fields
<1>1. /\ WhileAtWork
      /\ UNCHANGED <<match, made, settling, jobs, seeking, waiting, questions, outOfTurn,
                     unanswered>>
  BY DEF Open, CountDown, GoLive, Advance
<1>2. connected' = connected
  BY <1>1 DEF WhileAtWork
<1>3. match \in Id /\ state' \in Running
  BY Numbers DEF Open, CountDown, GoLive, Advance, Fields, Running
<1>4. DownInv'
  <2>1. CASE Open
    BY <1>0, <1>2, <1>3, <2>1, EmitSome DEF Open, Advance, SentKind
  <2>2. CASE CountDown
    BY <1>0, <1>2, <2>2, EmitSome DEF CountDown, Advance, SentKind, Word
  <2>3. CASE GoLive
    BY <1>0, <1>2, <1>3, <2>3, EmitSome DEF GoLive, Advance, SentKind
  <2> QED
    BY <2>1, <2>2, <2>3
<1>5. row' \in [Id -> {"none", "LIVE", "over"}]
  BY DEF Open, CountDown, GoLive, Fields
<1>6. /\ seeking' \in BOOLEAN /\ waiting' \in BOOLEAN /\ joining' \in BOOLEAN
      /\ unanswered' \in BOOLEAN /\ outOfTurn' \in BOOLEAN /\ startMissed' \in BOOLEAN
  BY <1>1 DEF Flags, questions, Open, CountDown, GoLive
<1>7. /\ match' \in Id \cup {None} /\ state' \in Running \cup {"none"}
      /\ match' = None <=> state' = "none"
  BY <1>1, <1>3, Numbers DEF Running
<1>8. settling' \subseteq Id /\ made' = made /\ jobs' \subseteq Id
  BY <1>1 DEF Fields
<1> QED
  BY <1>1, <1>4, <1>5, <1>6, <1>7, <1>8, WorkType

LEMMA OverFields ==
  ASSUME Fields, Over, match # None
  PROVE  /\ match' \in Id \cup {None} /\ state' \in Running \cup {"none"}
         /\ match' = None <=> state' = "none"
         /\ row' \in [Id -> {"none", "LIVE", "over"}] /\ settling' \subseteq Id
         /\ made' = made
  BY DEF Over, Fields

LEMMA EndingType ==
  ASSUME Fields, Flags, WireInv, EndMatch \/ \E m \in Id : TellEnd(m) \/ Verdict(m) \/ Throw(m)
  PROVE  Fields' /\ Flags' /\ WireInv'
<1>0. DownInv /\ lookups \subseteq Id /\ jobs \subseteq Id
  BY DEF WireInv, Fields
<1>1. AtWork /\ UNCHANGED <<seeking, waiting, questions>>
  BY DEF EndMatch, TellEnd, Verdict, Throw
<1>2. connected' = connected
  BY <1>1 DEF AtWork, WhileAtWork
<1>3. /\ seeking' \in BOOLEAN /\ waiting' \in BOOLEAN /\ joining' \in BOOLEAN
      /\ unanswered' \in BOOLEAN /\ outOfTurn' \in BOOLEAN
  BY <1>1 DEF EndMatch, TellEnd, Verdict, Throw, Flags, questions
<1>4. jobs' \subseteq Id
  BY <1>0 DEF EndMatch, TellEnd, Verdict, Throw
<1>5. DownInv'
  <2>1. CASE EndMatch
    BY <1>0, <1>2, <2>1, StillDown DEF EndMatch
  <2>2. ASSUME NEW m \in Id, TellEnd(m) PROVE DownInv'
    BY <1>0, <1>2, <2>2, EmitSome DEF TellEnd, SentKind
  <2>3. ASSUME NEW m \in Id, Verdict(m) PROVE DownInv'
    <3>1. Word("submission.verdict") \in Sent /\ HoldOver \in Sent
          /\ Word("submission.verdict").kind = "submission.verdict"
          /\ HoldOver.kind = "match.judging"
      BY Words DEF Word, HoldOver, Hold, About, SentKind
    <3>2. CASE m = match
      BY <1>0, <1>2, <2>3, <3>1, <3>2, EmitTwo DEF Verdict
    <3>3. CASE m # match
      BY <1>0, <1>2, <2>3, <3>1, <3>3, EmitDown DEF Verdict, Emit
    <3> QED
      BY <3>2, <3>3
  <2>4. ASSUME NEW m \in Id, Throw(m) PROVE DownInv'
    BY <1>0, <1>2, <2>4, StillDown DEF Throw
  <2> QED
    BY <2>1, <2>2, <2>3, <2>4
<1>6. \/ UNCHANGED course
      \/ /\ match' \in Id \cup {None} /\ state' \in Running \cup {"none"}
         /\ match' = None <=> state' = "none"
         /\ row' \in [Id -> {"none", "LIVE", "over"}] /\ settling' \subseteq Id
         /\ made' = made
  <2>1. CASE EndMatch
    BY <2>1, OverFields DEF EndMatch
  <2>2. ASSUME NEW m \in Id, TellEnd(m)
        PROVE  /\ match' \in Id \cup {None} /\ state' \in Running \cup {"none"}
               /\ match' = None <=> state' = "none"
               /\ row' \in [Id -> {"none", "LIVE", "over"}] /\ settling' \subseteq Id
               /\ made' = made
    <3>1. row' = [row EXCEPT ![m] = IF @ = "LIVE" THEN "over" ELSE @]
          /\ settling' = settling \ {m} /\ UNCHANGED <<match, state, made>>
      BY <2>2 DEF TellEnd
    <3> QED
      BY <3>1 DEF Fields
  <2>3. ASSUME NEW m \in Id, Verdict(m) PROVE UNCHANGED course
    BY <2>3 DEF Verdict
  <2>4. ASSUME NEW m \in Id, Throw(m) PROVE UNCHANGED course \/ (Over /\ match # None)
    BY <2>4, Numbers DEF Throw
  <2> QED
    BY <2>1, <2>2, <2>3, <2>4, OverFields
<1> QED
  BY <1>1, <1>3, <1>4, <1>5, <1>6, AtWorkType, WorkType

LEMMA InitType == Init => Fields /\ Flags /\ WireInv
<1>1. Init => Fields
  BY Numbers, PlayAssumption DEF Init, Fields, freshPhase, Phase
<1>2. Init => Flags
  BY DEF Init, Flags
<1>3. Init => WireInv
  BY DEF Init, WireInv, DownInv, UpInv
<1> QED
  BY <1>1, <1>2, <1>3

LEMMA NextType == ASSUME Fields, Flags, WireInv, [Next]_vars PROVE Fields' /\ Flags' /\ WireInv'
<1>1. CASE UNCHANGED vars
  <2>1. UNCHANGED <<page, wire, gateway, history, marks>>
    BY <1>1 DEF vars
  <2>2. Fields'
    BY <2>1 DEF Fields, page, screen, gateway, course, questions, history
  <2>3. Flags'
    BY <2>1 DEF Flags, page, screen, wire, gateway, questions, history, marks
  <2>4. WireInv'
    BY <2>1 DEF WireInv, DownInv, UpInv, wire
  <2> QED
    BY <2>2, <2>3, <2>4
<1> QED
  BY <1>1, MishapType, ConnectType, PressType, HearType, HearsType, AnswersType, PairingType,
     ForwardType, EndingType DEF Next, PlayerNext, PageNext, MatchNext
------------------------------------------------------------------------------
(* What stays said when more is said, and the screen.                      *)

\* What was said last of other matters than these is still said last.
Spares(q, r, said) ==
  \A kinds, good : kinds \cap said = {} =>
    /\ Closes(q, kinds, good) => Closes(r, kinds, good)
    /\ Unsaid(q, kinds) => Unsaid(r, kinds)

LEMMA Quiet == \A q, said : Spares(q, q, said)
  BY DEF Spares

LEMMA EmitSpares ==
  ASSUME DownInv, NEW e \in Sent, Emit(e)
  PROVE  /\ Spares(down, down', {e.kind})
         /\ connected => \A kinds, good : e \in good => Closes(down', kinds, good)
<1>1. CASE connected
  <2>1. down' = down \o <<e>> /\ down \in Seq(Sent)
    BY <1>1 DEF Emit, EmitAll, DownInv
  <2>2. ASSUME NEW kinds, NEW good, kinds \cap {e.kind} = {}
        PROVE  /\ Closes(down, kinds, good) => Closes(down', kinds, good)
               /\ Unsaid(down, kinds) => Unsaid(down', kinds)
    <3>1. e.kind \notin kinds
      BY <2>2
    <3> QED
      BY <2>1, <3>1, Add
  <2>3. ASSUME NEW kinds, NEW good, e \in good PROVE Closes(down', kinds, good)
    BY <2>1, <2>3, Add
  <2> QED
    BY <2>2, <2>3 DEF Spares
<1>2. CASE ~connected
  BY <1>2, Quiet DEF Emit, EmitAll
<1> QED
  BY <1>1, <1>2

LEMMA OneByOne ==
  ASSUME NEW S, NEW q \in Seq(S), NEW e \in S, NEW f \in S
  PROVE  q \o <<e, f>> = (q \o <<e>>) \o <<f>> /\ q \o <<e>> \in Seq(S)
<1> DEFINE r == q \o <<e>>
<1>1. r \in Seq(S) /\ Len(r) = Len(q) + 1 /\ r[Len(q) + 1] = e
      /\ \A i \in 1 .. Len(q) : r[i] = q[i]
  OBVIOUS
<1>2. /\ q \o <<e, f>> \in Seq(S) /\ Len(q \o <<e, f>>) = Len(q) + 2
      /\ \A i \in 1 .. Len(q) + 2 : (q \o <<e, f>>)[i] =
            IF i <= Len(q) THEN q[i] ELSE IF i = Len(q) + 1 THEN e ELSE f
  OBVIOUS
<1> HIDE DEF r
<1>3. /\ r \o <<f>> \in Seq(S) /\ Len(r \o <<f>>) = Len(q) + 2
      /\ \A i \in 1 .. Len(q) + 2 : (r \o <<f>>)[i] =
            IF i <= Len(q) THEN q[i] ELSE IF i = Len(q) + 1 THEN e ELSE f
  BY <1>1
<1>4. q \o <<e, f>> = r \o <<f>>
  <2> DEFINE a == q \o <<e, f>>
             b == r \o <<f>>
  <2>1. a \in Seq(S) /\ b \in Seq(S) /\ Len(a) = Len(q) + 2 /\ Len(b) = Len(q) + 2
    BY <1>2, <1>3
  <2>2. \A i \in 1 .. Len(q) + 2 : a[i] = b[i]
    BY <1>2, <1>3
  <2> HIDE DEF a, b
  <2>3. Len(a) = Len(b) /\ \A i \in 1 .. Len(a) : a[i] = b[i]
    BY <2>1, <2>2
  <2>4. a = b
    BY <2>1, <2>3, SeqEqual
  <2> QED
    BY <2>4 DEF a, b
<1> QED
  BY <1>1, <1>4 DEF r

LEMMA EmitTwoSpares ==
  ASSUME DownInv, NEW e \in Sent, NEW f \in Sent, EmitAll(<<e, f>>)
  PROVE  /\ Spares(down, down', {e.kind, f.kind})
         /\ connected => \A kinds, good :
              f \in good \/ (e \in good /\ f.kind \notin kinds) => Closes(down', kinds, good)
<1>1. CASE connected
  <2> DEFINE r == down \o <<e>>
  <2>1. down' = r \o <<f>> /\ down \in Seq(Sent) /\ r \in Seq(Sent)
    BY <1>1, OneByOne DEF EmitAll, DownInv
  <2>2. ASSUME NEW kinds, NEW good, kinds \cap {e.kind, f.kind} = {}
        PROVE  /\ Closes(down, kinds, good) => Closes(down', kinds, good)
               /\ Unsaid(down, kinds) => Unsaid(down', kinds)
    <3>1. e.kind \notin kinds /\ f.kind \notin kinds
      BY <2>2
    <3>2. /\ Closes(down, kinds, good) => Closes(r, kinds, good)
          /\ Unsaid(down, kinds) => Unsaid(r, kinds)
      BY <2>1, <3>1, Add
    <3>3. /\ Closes(r, kinds, good) => Closes(r \o <<f>>, kinds, good)
          /\ Unsaid(r, kinds) => Unsaid(r \o <<f>>, kinds)
      <4> HIDE DEF r
      <4> QED
        BY <2>1, <3>1, Add
    <3> QED
      BY <2>1, <3>2, <3>3
  <2>3. ASSUME NEW kinds, NEW good, f \in good \/ (e \in good /\ f.kind \notin kinds)
        PROVE  Closes(down', kinds, good)
    <3>1. e \in good => Closes(r, kinds, good)
      BY <2>1, Add
    <3>2. /\ f \in good => Closes(r \o <<f>>, kinds, good)
          /\ f.kind \notin kinds /\ Closes(r, kinds, good) => Closes(r \o <<f>>, kinds, good)
      <4> HIDE DEF r
      <4> QED
        BY <2>1, Add
    <3> QED
      BY <2>1, <2>3, <3>1, <3>2
  <2> QED
    BY <2>2, <2>3 DEF Spares
<1>2. CASE ~connected
  BY <1>2, Quiet DEF EmitAll
<1> QED
  BY <1>1, <1>2

\* The page is to show the match there is.
Followed == connected /\ match # None /\ state # "FOUND" /\ ~outOfTurn /\ ~strayed

LEMMA PhaseOf ==
  /\ \A s : phaseOf(s) \in {"found", "countdown", "live"}
  /\ phaseOf("LIVE") = "live" /\ phaseOf("COUNTDOWN") = "countdown"
  /\ phaseOf("ACCEPTING") = "found"
  /\ \A s \in Running : /\ phaseOf(s) = "live" => s = "LIVE"
                        /\ phaseOf(s) = "countdown" => s = "COUNTDOWN"
  BY DEF phaseOf, Running

\* Nothing is said of the match or the phase.
LEMMA ScreenStays ==
  ASSUME ScreenInv, NEW said, Spares(down, down', said),
         (phaseKinds \cup matchKinds \cup problemKinds) \cap said = {},
         UNCHANGED <<connected, match, state, phase, shown, problem, strayed>>,
         ~outOfTurn' => ~outOfTurn
  PROVE  ScreenInv'
<1> SUFFICES ASSUME Followed' PROVE (PhaseFollows /\ MatchFollows /\ ProblemFollows)'
  BY DEF ScreenInv, Followed
<1>1. PhaseFollows /\ MatchFollows /\ ProblemFollows
  BY DEF ScreenInv, Followed
<1>2. /\ phaseKinds \cap said = {} /\ matchKinds \cap said = {} /\ problemKinds \cap said = {}
  OBVIOUS
<1>3. UNCHANGED <<rightPhase, rightMatch, rightProblem>>
  BY DEF rightPhase, rightMatch, rightProblem
<1>4. PhaseFollows'
  BY <1>1, <1>2, <1>3 DEF PhaseFollows, Spares
<1>5. MatchFollows'
  BY <1>1, <1>2, <1>3 DEF MatchFollows, Spares
<1>6. ProblemFollows'
  BY <1>1, <1>2, <1>3 DEF ProblemFollows, Spares
<1> QED
  BY <1>4, <1>5, <1>6

\* The whole match is told anew.
LEMMA ScreenTold ==
  ASSUME Fields', Followed', NEW e \in Sent, e.match = match',
         \/ e.kind = "match.resync" /\ e.state = state'
         \/ e.kind = "match.found" /\ state' = "ACCEPTING",
         \A kinds, good : e \in good => Closes(down', kinds, good)
  PROVE  (PhaseFollows /\ MatchFollows /\ ProblemFollows)'
<1>1. e \in rightPhase' /\ e \in rightMatch' /\ (state' = "LIVE" => e \in rightProblem')
  BY PhaseOf DEF rightPhase, rightMatch, rightProblem
<1> QED
  BY <1>1 DEF PhaseFollows, MatchFollows, ProblemFollows

Typed == Fields /\ Flags /\ WireInv

\* Nothing to show, or no telling what is shown.
LEMMA ScreenVoid == ~Followed' => ScreenInv'
  BY DEF ScreenInv, Followed

LEMMA ScreenConnect == ASSUME Typed, Connect PROVE ScreenInv'
<1> SUFFICES ASSUME Followed' PROVE (PhaseFollows /\ MatchFollows /\ ProblemFollows)'
  BY DEF ScreenInv, Followed
<1>1. match # None /\ UNCHANGED <<match, state>>
  BY DEF Connect, gateway, course, Followed
<1> DEFINE e == Message("match.resync", match, state)
<1>2. down' = <<e>>
  BY <1>1 DEF Connect, greeting
<1>3. e \in Sent /\ e.kind = "match.resync" /\ e.match = match' /\ e.state = state'
  BY <1>1, Words DEF SentKind, Typed, Fields
<1> HIDE DEF e
<1>4. Len(down') = 1 /\ down'[1] = e
  BY <1>2
<1>5. ASSUME NEW kinds, NEW good, e \in good PROVE Closes(down', kinds, good)
  BY <1>4, <1>5 DEF Closes
<1>6. Fields'
  BY ConnectType DEF Typed
<1> QED
  BY <1>3, <1>5, <1>6, ScreenTold

LEMMA ScreenPress ==
  ASSUME ScreenInv, Play \/ Cancel \/ Submit \/ Rematch \/ Hub \/ Poll
  PROVE  ScreenInv'
<1>1. UNCHANGED <<connected, down, match, state, problem, outOfTurn>>
  BY DEF Play, Cancel, Submit, Rematch, Hub, CloseEnding, Stay, Poll, Press, wire, gateway,
       course, history, screen
<1>2. CASE Play \/ Cancel \/ Submit \/ Poll
  <2>1. UNCHANGED <<phase, shown, strayed>>
    BY <1>2 DEF Play, Cancel, Submit, Poll, Stay, screen
  <2>2. Spares(down, down', {})
    BY <1>1, Quiet
  <2> QED
    BY <1>1, <2>1, <2>2, ScreenStays
<1>3. CASE Rematch \/ Hub
  <2> SUFFICES ASSUME Followed' PROVE (PhaseFollows /\ MatchFollows /\ ProblemFollows)'
    BY DEF ScreenInv, Followed
  <2>0. ~strayed /\ phase # "live"
    BY <1>3 DEF Rematch, Hub, CloseEnding, Followed
  <2>1. PhaseFollows /\ MatchFollows /\ ProblemFollows
    BY <1>1, <2>0 DEF ScreenInv, Followed
  <2>2. phase = "ended"
    BY <1>3, <2>0 DEF Rematch, Hub, CloseEnding
  <2>3. UNCHANGED <<rightPhase, rightMatch, rightProblem>>
    BY <1>1 DEF rightPhase, rightMatch, rightProblem
  <2>4. Closes(down, phaseKinds, rightPhase) /\ Closes(down, matchKinds, rightMatch)
    BY <2>1, <2>2, PhaseOf DEF PhaseFollows, MatchFollows
  <2> QED
    BY <1>1, <2>1, <2>3, <2>4 DEF PhaseFollows, MatchFollows, ProblemFollows
<1> QED
  BY <1>2, <1>3

LEMMA ScreenHear ==
  ASSUME Typed, ScreenInv,
         \/ HearStatus \/ HearPhase \/ HearFound \/ HearStart \/ HearResync
         \/ HearSubmission \/ HearJudging \/ HearEnd
  PROVE  ScreenInv'
<1> SUFFICES ASSUME Followed' PROVE (PhaseFollows /\ MatchFollows /\ ProblemFollows)'
  BY DEF ScreenInv, Followed
<1> DEFINE e == Head(down)
<1>1. PICK kind : Hear(kind)
  BY DEF HearStatus, HearPhase, HearFound, HearStart, HearResync, HearSubmission, HearJudging,
       HearEnd
<1>2. /\ down # <<>> /\ down' = Tail(down) /\ down \in Seq(Sent)
      /\ UNCHANGED <<connected, match, state, outOfTurn, strayed>>
  BY <1>1 DEF Hear, gateway, course, history, Typed, WireInv, DownInv
<1>3. PhaseFollows /\ MatchFollows /\ ProblemFollows
  BY <1>2 DEF ScreenInv, Followed
<1>4. /\ rightPhase' = rightPhase /\ rightMatch' = rightMatch /\ rightProblem' = rightProblem
  BY <1>2 DEF rightPhase, rightMatch, rightProblem
<1>5. ASSUME NEW kinds, NEW good
      PROVE  /\ Closes(down, kinds, good) =>
                  \/ Closes(down', kinds, good) \/ (e \in good /\ Unsaid(down', kinds))
             /\ Unsaid(down, kinds) => Unsaid(down', kinds) /\ e.kind \notin kinds
  BY <1>2, Drop
<1>6. state \in Running
  BY <1>2 DEF Typed, Fields, Followed
<1> HIDE DEF e
<1>7. PhaseFollows'
  <2>1. e \in rightPhase => phase' = phaseOf(state)
    BY PhaseOf DEF rightPhase, HearStatus, HearPhase, HearFound, HearStart, HearResync,
         HearSubmission, HearJudging, HearEnd, Hear, e
  <2>2. e.kind \notin phaseKinds => phase' = phase
    BY DEF phaseKinds, HearStatus, HearPhase, HearFound, HearStart, HearResync,
         HearSubmission, HearJudging, HearEnd, Hear, e
  <2> QED
    BY <1>2, <1>3, <1>4, <1>5, <2>1, <2>2 DEF PhaseFollows
<1>8. MatchFollows'
  <2>1. e \in rightMatch => shown' = match /\ phase' # "ended"
    BY PhaseOf DEF rightMatch, HearStatus, HearPhase, HearFound, HearStart, HearResync,
         HearSubmission, HearJudging, HearEnd, Hear, e
  <2>2. e.kind \notin matchKinds => shown' = shown /\ (phase' = phase \/ phase' # "ended")
    BY DEF matchKinds, HearStatus, HearPhase, HearFound, HearStart, HearResync,
         HearSubmission, HearJudging, HearEnd, Hear, e
  <2> QED
    BY <1>2, <1>3, <1>4, <1>5, <2>1, <2>2 DEF MatchFollows
<1>9. ProblemFollows'
  <2>1. e \in rightProblem => problem' = match
    BY DEF rightProblem, HearStatus, HearPhase, HearFound, HearStart, HearResync,
         HearSubmission, HearJudging, HearEnd, Hear, e
  <2>2. e.kind \notin problemKinds => problem' = problem
    BY DEF problemKinds, HearStatus, HearPhase, HearFound, HearStart, HearResync,
         HearSubmission, HearJudging, HearEnd, Hear, e
  <2> QED
    BY <1>2, <1>3, <1>4, <1>5, <2>1, <2>2 DEF ProblemFollows
<1> QED
  BY <1>7, <1>8, <1>9

LEMMA SmallTalk ==
  /\ (phaseKinds \cup matchKinds \cup problemKinds) \cap {} = {}
  /\ (phaseKinds \cup matchKinds \cup problemKinds) \cap {"submission.verdict"} = {}
  /\ (phaseKinds \cup matchKinds \cup problemKinds)
       \cap {"match.judging", "submission.ack"} = {}
  /\ (phaseKinds \cup matchKinds \cup problemKinds)
       \cap {"submission.verdict", "match.judging"} = {}
  BY DEF phaseKinds, matchKinds, problemKinds

LEMMA Phrases ==
  /\ \A m \in Id \cup {None} : Hold(m) \in Sent /\ Hold(m).kind = "match.judging"
                               /\ Hold(m).match = m
  /\ Word("submission.ack") \in Sent /\ Word("submission.ack").kind = "submission.ack"
  /\ Word("submission.verdict") \in Sent
  /\ Word("submission.verdict").kind = "submission.verdict"
  /\ HoldOver \in Sent /\ HoldOver.kind = "match.judging"
  BY Words DEF Word, HoldOver, Hold, About, SentKind

LEMMA ScreenHears == ASSUME Typed, ScreenInv, GatewayHears PROVE ScreenInv'
<1>0. DownInv
  BY DEF Typed, WireInv
<1>1. PICK kind : Take(kind)
  BY DEF GatewayHears, TakeQueueJoin, TakeQueueLeave, TakeSubmit, TakeRejoin, TakeChallengeJoin
<1>2. connected /\ UNCHANGED <<connected, match, state, phase, shown, problem, strayed>>
  BY <1>1 DEF Take, page, screen, course, marks
<1>3. CASE TakeQueueJoin \/ TakeChallengeJoin
  <2>1. Spares(down, down', {}) /\ UNCHANGED outOfTurn
    BY <1>3, Quiet DEF TakeQueueJoin, TakeChallengeJoin
  <2> QED
    BY <1>2, <2>1, ScreenStays, SmallTalk
<1>4. CASE TakeQueueLeave
  BY <1>2, <1>4, ScreenVoid DEF TakeQueueLeave, Followed
<1>5. CASE TakeSubmit
  <2>0. UNCHANGED outOfTurn
    BY <1>5 DEF TakeSubmit
  <2>1. CASE UNCHANGED down
    BY <1>2, <2>0, <2>1, Quiet, ScreenStays, SmallTalk
  <2>2. CASE ~UNCHANGED down
    <3>1. EmitAll(<<Hold(match), Word("submission.ack")>>)
      BY <1>5, <2>2 DEF TakeSubmit
    <3>2. match \in Id \cup {None}
      BY DEF Typed, Fields
    <3>3. Spares(down, down', {"match.judging", "submission.ack"})
      BY <1>0, <3>1, <3>2, Phrases, EmitTwoSpares
    <3> QED
      BY <1>2, <2>0, <3>3, ScreenStays, SmallTalk
  <2> QED
    BY <2>1, <2>2
<1>6. CASE TakeRejoin
  <2>0. UNCHANGED outOfTurn
    BY <1>6 DEF TakeRejoin
  <2>1. CASE UNCHANGED down
    BY <1>2, <2>0, <2>1, Quiet, ScreenStays, SmallTalk
  <2>2. CASE ~UNCHANGED down
    <3> DEFINE e == Message("match.resync", match, state)
    <3>1. Emit(e)
      BY <1>6, <2>2 DEF TakeRejoin, Silent
    <3>2. e \in Sent /\ e.kind = "match.resync" /\ e.match = match' /\ e.state = state'
      <4>1. match \in Id \cup {None} /\ state \in Running \cup {"none"}
        BY DEF Typed, Fields
      <4>2. match' = match /\ state' = state
        BY <1>2
      <4> QED
        BY <4>1, <4>2, Words DEF SentKind
    <3> HIDE DEF e
    <3>3. \A kinds, good : e \in good => Closes(down', kinds, good)
      BY <1>0, <1>2, <3>1, <3>2, EmitSpares
    <3>4. Fields'
      BY HearsType DEF Typed
    <3>5. Followed' => (PhaseFollows /\ MatchFollows /\ ProblemFollows)'
      BY <3>2, <3>3, <3>4, ScreenTold
    <3> QED
      BY <3>5 DEF ScreenInv, Followed
  <2> QED
    BY <2>1, <2>2
<1> QED
  BY <1>3, <1>4, <1>5, <1>6 DEF GatewayHears

LEMMA ScreenAnswers == ASSUME Typed, ScreenInv, GatewayAnswers PROVE ScreenInv'
<1>1. UNCHANGED <<connected, phase, shown, problem, strayed>>
  BY DEF GatewayAnswers, AnswerRejoin, AnswerChallengeJoin, AtWork, WhileAtWork, page, screen
<1>2. CASE match # None
  <2>1. outOfTurn' \/ state' = "FOUND"
    BY <1>2 DEF GatewayAnswers, AnswerRejoin, AnswerChallengeJoin, CreateMatch
  <2> QED
    BY <2>1, ScreenVoid DEF Followed
<1>3. CASE match = None
  <2>1. match' = None \/ state' = "FOUND"
    BY <1>3 DEF GatewayAnswers, AnswerRejoin, AnswerChallengeJoin, CreateMatch, course
  <2> QED
    BY <2>1, ScreenVoid DEF Followed
<1> QED
  BY <1>2, <1>3

LEMMA ScreenPairing == ASSUME Status \/ Pair \/ FriendJoins PROVE ScreenInv'
<1>1. match' = None \/ state' = "FOUND"
  BY DEF Status, Pair, FriendJoins, CreateMatch, gateway, course
<1> QED
  BY <1>1, ScreenVoid DEF Followed

LEMMA ScreenForward ==
  ASSUME Typed, ScreenInv, Open \/ CountDown \/ GoLive PROVE ScreenInv'
<1> SUFFICES ASSUME Followed' PROVE (PhaseFollows /\ MatchFollows /\ ProblemFollows)'
  BY DEF ScreenInv, Followed
<1>0. DownInv /\ match \in Id
  BY Numbers DEF Typed, WireInv, Fields, Open, CountDown, GoLive, Advance
<1>1. UNCHANGED <<connected, phase, shown, problem, match, outOfTurn, strayed>>
  BY DEF Open, CountDown, GoLive, Advance, AtWork, WhileAtWork, page, screen
<1>2. connected
  BY <1>1 DEF Followed
<1>3. CASE Open
  <2> DEFINE e == About("match.found", match)
  <2>1. Emit(e) /\ state' = "ACCEPTING"
    BY <1>3 DEF Open, Advance
  <2>2. e \in Sent /\ e.kind = "match.found" /\ e.match = match'
    BY <1>0, <1>1, Words DEF About, SentKind
  <2> HIDE DEF e
  <2>3. \A kinds, good : e \in good => Closes(down', kinds, good)
    BY <1>0, <1>2, <2>1, <2>2, EmitSpares
  <2>4. Fields'
    BY <1>3, ForwardType DEF Typed
  <2> QED
    BY <2>1, <2>2, <2>3, <2>4, ScreenTold
<1>4. CASE CountDown
  <2> DEFINE e == Word("match.countdown")
  <2>1. Emit(e) /\ state = "ACCEPTING" /\ state' = "COUNTDOWN"
    BY <1>4 DEF CountDown, Advance
  <2>2. e \in Sent /\ e.kind = "match.countdown"
    BY Words DEF Word, About, SentKind
  <2> HIDE DEF e
  <2>3. /\ Spares(down, down', {"match.countdown"})
        /\ \A kinds, good : e \in good => Closes(down', kinds, good)
    BY <1>0, <1>2, <2>1, <2>2, EmitSpares
  <2>4. e \in rightPhase'
    BY <2>1, <2>2 DEF rightPhase
  <2>5. MatchFollows
    BY <1>1, <2>1 DEF ScreenInv, Followed
  <2>6. matchKinds \cap {"match.countdown"} = {} /\ rightMatch' = rightMatch
    BY <1>1 DEF matchKinds, rightMatch
  <2>7. MatchFollows'
    BY <1>1, <2>3, <2>5, <2>6 DEF MatchFollows, Spares
  <2> QED
    BY <2>1, <2>3, <2>4, <2>7 DEF PhaseFollows, ProblemFollows
<1>5. CASE GoLive
  <2> DEFINE e == About("match.start", match)
  <2>1. Emit(e) /\ state = "COUNTDOWN" /\ state' = "LIVE"
    BY <1>5 DEF GoLive, Advance
  <2>2. e \in Sent /\ e.kind = "match.start" /\ e.match = match'
    BY <1>0, <1>1, Words DEF About, SentKind
  <2> HIDE DEF e
  <2>3. /\ Spares(down, down', {"match.start"})
        /\ \A kinds, good : e \in good => Closes(down', kinds, good)
    BY <1>0, <1>2, <2>1, <2>2, EmitSpares
  <2>4. e \in rightPhase' /\ e \in rightProblem'
    BY <2>1, <2>2 DEF rightPhase, rightProblem
  <2>5. MatchFollows
    BY <1>1, <2>1 DEF ScreenInv, Followed
  <2>6. matchKinds \cap {"match.start"} = {} /\ rightMatch' = rightMatch
    BY <1>1 DEF matchKinds, rightMatch
  <2>7. MatchFollows'
    BY <1>1, <2>3, <2>5, <2>6 DEF MatchFollows, Spares
  <2> QED
    BY <2>3, <2>4, <2>7 DEF PhaseFollows, ProblemFollows
<1> QED
  BY <1>3, <1>4, <1>5

LEMMA ScreenEnding ==
  ASSUME Typed, ScreenInv, EndMatch \/ \E m \in Id : TellEnd(m) \/ Verdict(m) \/ Throw(m)
  PROVE  ScreenInv'
<1>0. DownInv
  BY DEF Typed, WireInv
<1>1. UNCHANGED <<connected, phase, shown, problem, strayed>>
  BY DEF EndMatch, TellEnd, Verdict, Throw, AtWork, WhileAtWork, page, screen
<1>2. CASE EndMatch
  BY <1>2, ScreenVoid DEF EndMatch, Over, Followed
<1>3. ASSUME NEW m \in Id, TellEnd(m) PROVE ScreenInv'
  BY <1>3, ScreenVoid DEF TellEnd, Followed
<1>4. ASSUME NEW m \in Id, Verdict(m) PROVE ScreenInv'
  <2>1. UNCHANGED <<match, state, outOfTurn>>
    BY <1>4 DEF Verdict, course
  <2>2. CASE m = match
    <3>1. Spares(down, down', {"submission.verdict", "match.judging"})
      BY <1>0, <1>4, <2>2, Phrases, EmitTwoSpares DEF Verdict
    <3> QED
      BY <1>1, <2>1, <3>1, ScreenStays, SmallTalk
  <2>3. CASE m # match
    <3>1. Spares(down, down', {"submission.verdict"})
      BY <1>0, <1>4, <2>3, Phrases, EmitSpares DEF Verdict, Emit
    <3> QED
      BY <1>1, <2>1, <3>1, ScreenStays, SmallTalk
  <2> QED
    BY <2>2, <2>3
<1>5. ASSUME NEW m \in Id, Throw(m) PROVE ScreenInv'
  <2>1. CASE m = match
    BY <1>5, <2>1, ScreenVoid DEF Throw, Over, Followed
  <2>2. CASE m # match
    <3>1. UNCHANGED <<match, state, outOfTurn>> /\ Spares(down, down', {})
      BY <1>5, <2>2, Quiet DEF Throw, course
    <3> QED
      BY <1>1, <3>1, ScreenStays, SmallTalk
  <2> QED
    BY <2>1, <2>2
<1> QED
  BY <1>2, <1>3, <1>4, <1>5

LEMMA NextScreen == ASSUME Typed, ScreenInv, [Next]_vars PROVE ScreenInv'
<1>1. CASE UNCHANGED vars
  <2>1. UNCHANGED <<connected, phase, shown, problem, match, state, outOfTurn, down, strayed>>
    BY <1>1 DEF vars, page, screen, wire, gateway, course, history, marks
  <2>2. Spares(down, down', {})
    BY <2>1, Quiet
  <2> QED
    BY <2>1, <2>2, ScreenStays, SmallTalk
<1>2. CASE Break \/ Reload \/ Restart \/ LeaveChallenge
  BY <1>2, ScreenVoid DEF Break, Reload, Restart, LeaveChallenge, Mishap, Followed
<1> QED
  BY <1>1, <1>2, ScreenConnect, ScreenPress, ScreenHear, ScreenHears, ScreenAnswers,
     ScreenPairing, ScreenForward, ScreenEnding DEF Next, PlayerNext, PageNext, MatchNext
------------------------------------------------------------------------------
(* The match the page remembers.                                           *)

LEMMA OnItsWay == \A x, q : onItsWay(x, q) <=> \E i \in DOMAIN q : q[i] = x
  BY DEF onItsWay, ToSet

\* What the player asked is still asked when more is, and when something else is taken.
LEMMA StillAsked ==
  ASSUME UpInv, NEW x
  PROVE  /\ \A y : onItsWay(x, up) => onItsWay(x, Append(up, y))
         /\ up # <<>> /\ onItsWay(x, up) => onItsWay(x, Tail(up)) \/ x = Head(up)
<1>1. up \in Seq(Asked) /\ DOMAIN up = 1 .. Len(up) /\ Len(up) \in Nat
  BY DEF UpInv
<1>2. ASSUME NEW y, onItsWay(x, up) PROVE onItsWay(x, Append(up, y))
  <2>1. PICK i \in 1 .. Len(up) : up[i] = x
    BY <1>1, <1>2, OnItsWay
  <2> DEFINE r == Append(up, y)
  <2>2. DOMAIN r = 1 .. Len(up) + 1 /\ r[i] = up[i]
    BY <1>1, <2>1
  <2> HIDE DEF r
  <2>3. i \in DOMAIN r /\ r[i] = x
    BY <1>1, <2>1, <2>2
  <2>4. onItsWay(x, r)
    BY <2>3, OnItsWay
  <2> QED
    BY <2>4 DEF r
<1>3. ASSUME up # <<>>, onItsWay(x, up) PROVE onItsWay(x, Tail(up)) \/ x = Head(up)
  <2>1. PICK i \in 1 .. Len(up) : up[i] = x
    BY <1>1, <1>3, OnItsWay
  <2>2. CASE i = 1
    BY <1>1, <2>1, <2>2
  <2>3. CASE i # 1
    <3> DEFINE r == Tail(up)
    <3>1. DOMAIN r = 1 .. Len(up) - 1 /\ r[i - 1] = up[i]
      BY <1>1, <1>3, <2>1, <2>3, EmptySeq, HeadTailProperties
    <3> HIDE DEF r
    <3>2. i - 1 \in DOMAIN r
      BY <1>1, <2>1, <2>3, <3>1
    <3>3. onItsWay(x, r)
      BY <2>1, <3>1, <3>2, OnItsWay
    <3> QED
      BY <3>3 DEF r
  <2> QED
    BY <2>2, <2>3
<1> QED
  BY <1>2, <1>3

\* A page that asks for its match when it connects.
Asks == connected /\ entry # "challenge"

LEMMA RefVoid == ~Asks' => RefInv'
  BY DEF RefInv, Asks

LEMMA RefGrows == Answerable \subseteq Answerable' => rightRef \subseteq rightRef'
  BY DEF rightRef

LEMMA RefStays ==
  ASSUME RefInv, NEW said, Spares(down, down', said), refKinds \cap said = {},
         UNCHANGED <<connected, entry, matchRef>>, Answerable \subseteq Answerable'
  PROVE  RefInv'
<1> SUFFICES ASSUME Asks'
             PROVE  \/ Closes(down', refKinds, rightRef')
                    \/ Unsaid(down', refKinds) /\ matchRef' \in Answerable' \cup {None}
  BY DEF RefInv, Asks
<1>1. \/ Closes(down, refKinds, rightRef)
      \/ Unsaid(down, refKinds) /\ matchRef \in Answerable \cup {None}
  BY DEF RefInv, Asks
<1>2. /\ Closes(down, refKinds, rightRef) => Closes(down', refKinds, rightRef)
      /\ Unsaid(down, refKinds) => Unsaid(down', refKinds)
  BY DEF Spares
<1>3. Closes(down', refKinds, rightRef) => Closes(down', refKinds, rightRef')
  BY RefGrows, Grow
<1> QED
  BY <1>1, <1>2, <1>3

\* The page is told which match, or of the end.
LEMMA RefTold ==
  ASSUME DownInv, NEW e \in Sent, Emit(e), UNCHANGED connected, e \in rightRef'
  PROVE  RefInv'
<1> SUFFICES ASSUME Asks' PROVE Closes(down', refKinds, rightRef')
  BY DEF RefInv, Asks
<1> QED
  BY EmitSpares DEF Asks

LEMMA SameAnswerable ==
  ASSUME UNCHANGED <<match, row, settling, lookups, up>> PROVE Answerable' = Answerable
  BY DEF Answerable

LEMMA RefConnect == ASSUME Typed, Connect PROVE RefInv'
<1> SUFFICES ASSUME Asks' PROVE Unsaid(down', refKinds) /\ matchRef' \in Answerable' \cup {None}
  BY DEF RefInv, Asks
<1>1. UNCHANGED <<entry, matchRef>> /\ entry # "challenge"
  BY DEF Connect, page, screen, Asks
<1>2. Unsaid(down', refKinds)
  <2>1. down' = <<>> \/ down' = <<Message("match.resync", match, state)>>
    BY DEF Connect, greeting
  <2>2. CASE down' = <<>>
    BY <2>2, Nothing
  <2>3. CASE down' = <<Message("match.resync", match, state)>>
    <3> DEFINE e == Message("match.resync", match, state)
    <3>1. e.kind = "match.resync"
      BY Words
    <3> HIDE DEF e
    <3>2. Len(down') = 1 /\ down'[1] = e
      BY <2>3 DEF e
    <3> QED
      BY <3>1, <3>2 DEF Unsaid, refKinds
  <2> QED
    BY <2>1, <2>2, <2>3
<1>3. ASSUME matchRef # None PROVE matchRef \in Answerable'
  <2> DEFINE e == About("match.rejoin", matchRef)
  <2>1. up' = up \o <<e>> /\ up \in Seq(Asked)
    BY <1>1, <1>3 DEF Connect, firstWords, Typed, WireInv, UpInv
  <2> HIDE DEF e
  <2>2. Len(up) + 1 \in DOMAIN up' /\ up'[Len(up) + 1] = e
    BY <2>1
  <2>3. onItsWay(e, up')
    BY <2>2, OnItsWay
  <2>4. matchRef \in Id
    BY <1>3 DEF Typed, Fields
  <2> QED
    BY <2>3, <2>4 DEF Answerable, e
<1> QED
  BY <1>1, <1>2, <1>3

LEMMA RefPress ==
  ASSUME Typed, RefInv, Play \/ Cancel \/ Submit \/ Rematch \/ Hub \/ Poll
  PROVE  RefInv'
<1>1. UNCHANGED <<connected, entry, down, match, row, settling, lookups, matchRef>>
  BY DEF Play, Cancel, Submit, Rematch, Hub, CloseEnding, Stay, Poll, Press, wire, gateway,
       course, questions, screen
<1>2. up' = up \/ \E y : up' = Append(up, y)
  BY DEF Play, Cancel, Submit, Rematch, Hub, CloseEnding, Stay, Poll, Press, Send, wire
<1>3. \A x : onItsWay(x, up) => onItsWay(x, up')
  BY <1>2, StillAsked DEF Typed, WireInv
<1>4. Answerable \subseteq Answerable'
  BY <1>1, <1>3 DEF Answerable
<1>5. Spares(down, down', {}) /\ refKinds \cap {} = {}
  BY <1>1, Quiet
<1> QED
  BY <1>1, <1>4, <1>5, RefStays

LEMMA RefHear ==
  ASSUME Typed, RefInv,
         \/ HearStatus \/ HearPhase \/ HearFound \/ HearStart \/ HearResync
         \/ HearSubmission \/ HearJudging \/ HearEnd
  PROVE  RefInv'
<1> SUFFICES ASSUME Asks'
             PROVE  \/ Closes(down', refKinds, rightRef')
                    \/ Unsaid(down', refKinds) /\ matchRef' \in Answerable' \cup {None}
  BY DEF RefInv, Asks
<1> DEFINE e == Head(down)
<1>1. PICK kind : Hear(kind)
  BY DEF HearStatus, HearPhase, HearFound, HearStart, HearResync, HearSubmission, HearJudging,
       HearEnd
<1>2. /\ down # <<>> /\ down' = Tail(down) /\ down \in Seq(Sent)
      /\ UNCHANGED <<connected, entry, match, row, settling, lookups, up>>
  BY <1>1 DEF Hear, gateway, course, questions, Typed, WireInv, DownInv
<1>3. Answerable' = Answerable /\ rightRef' = rightRef
  BY <1>2, SameAnswerable DEF rightRef
<1>4. /\ Closes(down, refKinds, rightRef) =>
           \/ Closes(down', refKinds, rightRef) \/ (e \in rightRef /\ Unsaid(down', refKinds))
      /\ Unsaid(down, refKinds) => Unsaid(down', refKinds) /\ e.kind \notin refKinds
  BY <1>2, Drop
<1> HIDE DEF e
<1>5. e \in rightRef => matchRef' \in Answerable \cup {None}
  BY DEF rightRef, HearStatus, HearPhase, HearFound, HearStart, HearResync, HearSubmission,
       HearJudging, HearEnd, Hear, e
<1>6. e.kind \notin refKinds => matchRef' = matchRef
  BY DEF refKinds, HearStatus, HearPhase, HearFound, HearStart, HearResync, HearSubmission,
       HearJudging, HearEnd, Hear, e
<1>7. \/ Closes(down, refKinds, rightRef)
      \/ Unsaid(down, refKinds) /\ matchRef \in Answerable \cup {None}
  BY <1>2 DEF RefInv, Asks
<1> QED
  BY <1>3, <1>4, <1>5, <1>6, <1>7

LEMMA OtherNews ==
  /\ refKinds \cap {} = {} /\ refKinds \cap {"queue.left"} = {}
  /\ refKinds \cap {"match.judging", "submission.ack"} = {}
  /\ refKinds \cap {"match.resync"} = {} /\ refKinds \cap {"challenge.waiting"} = {}
  /\ refKinds \cap {"queue.status"} = {} /\ refKinds \cap {"match.countdown"} = {}
  /\ refKinds \cap {"match.start"} = {} /\ refKinds \cap {"submission.verdict"} = {}
  /\ refKinds \cap {"submission.verdict", "match.judging"} = {}
  BY DEF refKinds

LEMMA EmitWord ==
  ASSUME DownInv, NEW k \in SentKind, Emit(Word(k)) PROVE Spares(down, down', {k})
<1> DEFINE e == Word(k)
<1>1. e \in Sent /\ e.kind = k
  BY Words DEF Word, About
<1> HIDE DEF e
<1>2. Emit(e)
  BY DEF e
<1>3. Spares(down, down', {e.kind})
  BY <1>1, <1>2, EmitSpares
<1> QED
  BY <1>1, <1>3

LEMMA RefHears == ASSUME Typed, RefInv, GatewayHears PROVE RefInv'
<1>0. DownInv /\ UpInv /\ match \in Id \cup {None} /\ state \in Running \cup {"none"}
  BY DEF Typed, WireInv, Fields
<1>1. PICK kind : Take(kind)
  BY DEF GatewayHears, TakeQueueJoin, TakeQueueLeave, TakeSubmit, TakeRejoin, TakeChallengeJoin
<1>2. UNCHANGED <<connected, entry, matchRef, match, row, settling>>
  BY <1>1 DEF Take, page, screen, course
<1>3. Answerable \subseteq Answerable'
  <2> SUFFICES ASSUME NEW m \in Answerable PROVE m \in Answerable'
    OBVIOUS
  <2>1. lookups \subseteq lookups'
    BY DEF GatewayHears, TakeQueueJoin, TakeQueueLeave, TakeSubmit, TakeRejoin,
         TakeChallengeJoin, questions
  <2>2. m \in Id
    BY DEF Answerable
  <2>3. CASE onItsWay(About("match.rejoin", m), up)
    <3>1. onItsWay(About("match.rejoin", m), up') \/ About("match.rejoin", m) = Head(up)
      BY <1>0, <1>1, <2>3, StillAsked DEF Take
    <3>2. ASSUME About("match.rejoin", m) = Head(up) PROVE m = match \/ m \in lookups'
      <4>1. Head(up).kind = "match.rejoin" /\ Head(up).match = m
        BY <3>2, Words DEF About
      <4>2. TakeRejoin
        BY <4>1 DEF GatewayHears, TakeQueueJoin, TakeQueueLeave, TakeSubmit, TakeChallengeJoin,
             Take
      <4> QED
        BY <4>1, <4>2 DEF TakeRejoin
    <3> QED
      BY <1>2, <2>2, <3>1, <3>2 DEF Answerable
  <2>4. CASE ~onItsWay(About("match.rejoin", m), up)
    BY <1>2, <2>1, <2>2, <2>4 DEF Answerable
  <2> QED
    BY <2>3, <2>4
<1>4. PICK said : Spares(down, down', said) /\ refKinds \cap said = {}
  <2>1. CASE TakeQueueJoin \/ TakeChallengeJoin
    BY <2>1, Quiet, OtherNews DEF TakeQueueJoin, TakeChallengeJoin
  <2>2. CASE TakeQueueLeave
    BY <1>0, <2>2, EmitWord, OtherNews DEF TakeQueueLeave, SentKind
  <2>3. CASE TakeSubmit
    <3>1. UNCHANGED down \/ EmitAll(<<Hold(match), Word("submission.ack")>>)
      BY <2>3 DEF TakeSubmit
    <3>2. EmitAll(<<Hold(match), Word("submission.ack")>>) =>
            Spares(down, down', {"match.judging", "submission.ack"})
      BY <1>0, Phrases, EmitTwoSpares
    <3> QED
      BY <3>1, <3>2, Quiet, OtherNews
  <2>4. CASE TakeRejoin
    <3> DEFINE e == Message("match.resync", match, state)
    <3>1. UNCHANGED down \/ Emit(e)
      BY <2>4 DEF TakeRejoin, Silent
    <3>2. e \in Sent /\ e.kind = "match.resync"
      BY <1>0, Words DEF SentKind
    <3> HIDE DEF e
    <3>3. Emit(e) => Spares(down, down', {"match.resync"})
      BY <1>0, <3>2, EmitSpares
    <3> QED
      BY <3>1, <3>3, Quiet, OtherNews
  <2> QED
    BY <2>1, <2>2, <2>3, <2>4 DEF GatewayHears
<1> QED
  BY <1>2, <1>3, <1>4, RefStays

\* A new match is made for a player who has none.
LEMMA AnswerableGrows ==
  ASSUME Typed, UNCHANGED <<lookups, up>>,
         \/ UNCHANGED course
         \/ CreateMatch /\ match = None
         \/ Over
         \/ /\ UNCHANGED <<match, settling>>
            /\ UNCHANGED row \/ row' = [row EXCEPT ![match] = "LIVE"]
  PROVE  Answerable \subseteq Answerable'
<1> SUFFICES ASSUME NEW m \in Answerable PROVE m \in Answerable'
  OBVIOUS
<1>1. m \in Id /\ m # None /\ row \in [Id -> {"none", "LIVE", "over"}]
  BY Numbers DEF Answerable, Typed, Fields
<1>2. \/ m = match' \/ row'[m] = "none" \/ m \in settling' \/ m \in lookups'
      \/ onItsWay(About("match.rejoin", m), up')
  BY <1>1 DEF Answerable, course, CreateMatch, Over
<1> QED
  BY <1>1, <1>2 DEF Answerable

LEMMA RefAnswers == ASSUME Typed, RefInv, GatewayAnswers PROVE RefInv'
<1>0. DownInv
  BY DEF Typed, WireInv
<1>1. UNCHANGED <<connected, entry, matchRef, up>>
  BY DEF GatewayAnswers, AnswerRejoin, AnswerChallengeJoin, AtWork, WhileAtWork, page, screen
<1>2. ASSUME NEW m \in Id, AnswerRejoin(m) PROVE RefInv'
  <2>1. lookups' = lookups \ {m} /\ UNCHANGED <<match, row, settling>>
    BY <1>2 DEF AnswerRejoin, course
  <2>2. CASE row[m] = "none"
    <3>1. Answerable \subseteq Answerable'
      BY <1>1, <2>1, <2>2 DEF Answerable
    <3>2. Spares(down, down', {})
      BY <1>2, <2>2, Quiet DEF AnswerRejoin, Silent
    <3> QED
      BY <1>1, <3>1, <3>2, OtherNews, RefStays
  <2>3. CASE row[m] # "none"
    <3>1. Emit(About("match.end", m))
      BY <1>2, <2>3 DEF AnswerRejoin
    <3>2. About("match.end", m) \in Sent /\ About("match.end", m).kind = "match.end"
      BY Words DEF About, SentKind
    <3>3. About("match.end", m) \in rightRef'
      BY <3>2 DEF rightRef
    <3> QED
      BY <1>0, <1>1, <3>1, <3>2, <3>3, RefTold
  <2> QED
    BY <2>2, <2>3
<1>3. CASE AnswerChallengeJoin
  <2>1. UNCHANGED lookups /\ (UNCHANGED course \/ (CreateMatch /\ match = None))
    BY <1>3 DEF AnswerChallengeJoin
  <2>2. UNCHANGED down \/ Emit(Word("challenge.waiting"))
    BY <1>3 DEF AnswerChallengeJoin
  <2>3. Spares(down, down', {}) \/ Spares(down, down', {"challenge.waiting"})
    BY <1>0, <2>2, Quiet, EmitWord DEF SentKind
  <2>4. Answerable \subseteq Answerable'
    BY <1>1, <2>1, AnswerableGrows
  <2> QED
    BY <1>1, <2>3, <2>4, OtherNews, RefStays
<1> QED
  BY <1>2, <1>3 DEF GatewayAnswers

LEMMA RefMatch ==
  ASSUME Typed, RefInv, Status \/ Pair \/ FriendJoins \/ CountDown \/ GoLive \/ EndMatch
  PROVE  RefInv'
<1>0. DownInv
  BY DEF Typed, WireInv
<1>1. UNCHANGED <<connected, entry, matchRef, up>>
  BY DEF Status, Pair, FriendJoins, CountDown, GoLive, EndMatch, Advance, AtWork, WhileAtWork,
       page, screen
<1>2. UNCHANGED lookups
  BY DEF Status, Pair, FriendJoins, CountDown, GoLive, EndMatch, Advance, gateway, questions
<1>3. \/ UNCHANGED course
      \/ CreateMatch /\ match = None
      \/ Over
      \/ /\ UNCHANGED <<match, settling>>
         /\ UNCHANGED row \/ row' = [row EXCEPT ![match] = "LIVE"]
  BY DEF Status, Pair, FriendJoins, CountDown, GoLive, EndMatch, Advance, gateway
<1>4. Answerable \subseteq Answerable'
  BY <1>1, <1>2, <1>3, AnswerableGrows
<1>5. PICK said : Spares(down, down', said) /\ refKinds \cap said = {}
  <2>1. CASE Status \/ CountDown
    BY <1>0, <2>1, EmitWord, OtherNews DEF Status, CountDown, Advance, SentKind
  <2>2. CASE GoLive
    <3>1. About("match.start", match) \in Sent /\ About("match.start", match).kind = "match.start"
      BY Words DEF About, SentKind, Typed, Fields
    <3>2. Emit(About("match.start", match))
      BY <2>2 DEF GoLive, Advance
    <3>3. Spares(down, down', {"match.start"})
      BY <1>0, <3>1, <3>2, EmitSpares
    <3> QED
      BY <3>3, OtherNews
  <2>3. CASE Pair \/ FriendJoins \/ EndMatch
    BY <2>3, Quiet, OtherNews DEF Pair, FriendJoins, EndMatch
  <2> QED
    BY <2>1, <2>2, <2>3
<1> QED
  BY <1>1, <1>4, <1>5, RefStays

LEMMA RefOpen == ASSUME Typed, RefInv, Open PROVE RefInv'
<1> DEFINE e == About("match.found", match)
<1>0. DownInv /\ match \in Id
  BY Numbers DEF Typed, WireInv, Fields, Open, Advance
<1>1. UNCHANGED <<connected, match>> /\ Emit(e)
  BY DEF Open, Advance, AtWork, WhileAtWork
<1>2. e \in Sent /\ e.kind = "match.found" /\ e.match = match'
  BY <1>0, <1>1, Words DEF About, SentKind
<1> HIDE DEF e
<1>3. e \in rightRef'
  BY <1>0, <1>1, <1>2 DEF rightRef, Answerable
<1> QED
  BY <1>0, <1>1, <1>2, <1>3, RefTold

LEMMA RefEnding ==
  ASSUME Typed, RefInv, NEW m \in Id, TellEnd(m) \/ Verdict(m) \/ Throw(m) PROVE RefInv'
<1>0. DownInv
  BY DEF Typed, WireInv
<1>1. UNCHANGED <<connected, entry, matchRef, up, lookups>>
  BY DEF TellEnd, Verdict, Throw, AtWork, WhileAtWork, page, screen, questions
<1>2. CASE TellEnd(m)
  <2>1. Emit(About("match.end", m))
    BY <1>2 DEF TellEnd
  <2>2. About("match.end", m) \in Sent /\ About("match.end", m).kind = "match.end"
    BY Words DEF About, SentKind
  <2>3. About("match.end", m) \in rightRef'
    BY <2>2 DEF rightRef
  <2> QED
    BY <1>0, <1>1, <2>1, <2>2, <2>3, RefTold
<1>3. CASE Verdict(m) \/ Throw(m)
  <2>1. UNCHANGED course \/ Over
    BY <1>3 DEF Verdict, Throw
  <2>2. Answerable \subseteq Answerable'
    BY <1>1, <2>1, AnswerableGrows
  <2>3. PICK said : Spares(down, down', said) /\ refKinds \cap said = {}
    <3>1. CASE Throw(m)
      BY <3>1, Quiet, OtherNews DEF Throw
    <3>2. CASE Verdict(m) /\ m = match
      <4>1. Spares(down, down', {"submission.verdict", "match.judging"})
        BY <1>0, <3>2, Phrases, EmitTwoSpares DEF Verdict
      <4> QED
        BY <4>1, OtherNews
    <3>3. CASE Verdict(m) /\ m # match
      <4>1. Spares(down, down', {"submission.verdict"})
        BY <1>0, <3>3, Phrases, EmitSpares DEF Verdict, Emit
      <4> QED
        BY <4>1, OtherNews
    <3> QED
      BY <1>3, <3>1, <3>2, <3>3
  <2> QED
    BY <1>1, <2>2, <2>3, RefStays
<1> QED
  BY <1>2, <1>3

LEMMA NextRef == ASSUME Typed, RefInv, [Next]_vars PROVE RefInv'
<1>1. CASE UNCHANGED vars
  <2>1. UNCHANGED <<down, connected, entry, matchRef, match, row, settling, lookups, up>>
    BY <1>1 DEF vars, page, screen, wire, gateway, course, questions
  <2>2. Spares(down, down', {}) /\ Answerable' = Answerable
    BY <2>1, Quiet, SameAnswerable
  <2> QED
    BY <2>1, <2>2, OtherNews, RefStays
<1>2. CASE Break \/ Reload \/ Restart \/ LeaveChallenge
  BY <1>2, RefVoid DEF Break, Reload, Restart, LeaveChallenge, Mishap, Asks
<1> QED
  BY <1>1, <1>2, RefConnect, RefPress, RefHear, RefHears, RefAnswers, RefMatch, RefOpen,
     RefEnding DEF Next, PlayerNext, PageNext, MatchNext
------------------------------------------------------------------------------
(* The locks of the Submit button.                                         *)

LEMMA LockStays ==
  ASSUME LockInv, NEW said, Spares(down, down', said), flightKinds \cap said = {},
         holdKinds \cap said = {}, UNCHANGED <<inFlight, holding>>,
         ~unanswered' => ~unanswered, jobs # {} => jobs' # {}, Held => Held'
  PROVE  LockInv'
<1> SUFFICES ASSUME ~unanswered' PROVE FlightInv' /\ HoldInv'
  BY DEF LockInv
<1>1. FlightInv /\ HoldInv
  BY DEF LockInv
<1>2. rightFlight \subseteq rightFlight' /\ rightHold \subseteq rightHold'
  BY DEF rightFlight, rightHold
<1>3. FlightInv'
  <2>1. /\ Closes(down, flightKinds, rightFlight) => Closes(down', flightKinds, rightFlight)
        /\ Unsaid(down, flightKinds) => Unsaid(down', flightKinds)
    BY DEF Spares
  <2>2. Closes(down', flightKinds, rightFlight) => Closes(down', flightKinds, rightFlight')
    BY <1>2, Grow
  <2> QED
    BY <1>1, <2>1, <2>2 DEF FlightInv
<1>4. HoldInv'
  <2>1. /\ Closes(down, holdKinds, rightHold) => Closes(down', holdKinds, rightHold)
        /\ Unsaid(down, holdKinds) => Unsaid(down', holdKinds)
    BY DEF Spares
  <2>2. Closes(down', holdKinds, rightHold) => Closes(down', holdKinds, rightHold')
    BY <1>2, Grow
  <2> QED
    BY <1>1, <2>1, <2>2 DEF HoldInv
<1> QED
  BY <1>3, <1>4

LEMMA OtherWords ==
  \A k \in SentKind :
    k \notin {"submission.ack", "submission.verdict", "match.judging", "match.end"} =>
      flightKinds \cap {k} = {} /\ holdKinds \cap {k} = {}
  BY DEF flightKinds, holdKinds

\* What is lost in a break leaves no lock held in vain, unless an answer was among it.
LEMMA LockBroken ==
  ASSUME Typed, LockInv, ~unanswered, ~AnswerLost
  PROVE  (inFlight => jobs # {}) /\ (holding => Held)
<1>1. FlightInv /\ HoldInv
  BY DEF LockInv
<1>2. \A i \in 1 .. Len(down) : down[i] \in ToSet(down)
  BY DEF Typed, WireInv, DownInv, ToSet
<1>3. \A i \in 1 .. Len(down) :
        down[i] # HoldOver /\ down[i].kind \notin {"submission.verdict", "match.end"}
  BY <1>2 DEF AnswerLost
<1>4. inFlight => jobs # {}
  BY <1>1, <1>3 DEF FlightInv, Closes, rightFlight
<1>5. holding => Held
  BY <1>1, <1>3 DEF HoldInv, Closes, rightHold
<1> QED
  BY <1>4, <1>5

LEMMA LockMishap ==
  ASSUME Typed, LockInv, Break \/ Reload \/ Restart \/ LeaveChallenge PROVE LockInv'
<1> SUFFICES ASSUME ~unanswered' PROVE FlightInv' /\ HoldInv'
  BY DEF LockInv
<1>1. down' = <<>>
  BY DEF Break, Reload, Restart, LeaveChallenge, Mishap
<1>2. Unsaid(down', flightKinds) /\ Unsaid(down', holdKinds)
  BY <1>1, Nothing
<1>3. (inFlight' => jobs' # {}) /\ (holding' => Held')
  <2>1. CASE Reload
    BY <2>1 DEF Reload
  <2>2. CASE Break \/ LeaveChallenge
    <3>1. ~unanswered /\ ~AnswerLost
      BY <2>2 DEF Break, LeaveChallenge
    <3>2. UNCHANGED <<inFlight, holding, jobs, match, settling>>
      BY <2>2 DEF Break, LeaveChallenge, page, screen, course
    <3> QED
      BY <3>1, <3>2, LockBroken DEF Held
  <2>3. CASE Restart
    <3>1. ~unanswered /\ ~AnswerLost /\ jobs = {} /\ settling = {}
      BY <2>3 DEF Restart
    <3>2. UNCHANGED <<inFlight, holding>>
      BY <2>3 DEF Restart, page, screen
    <3> QED
      BY <3>1, <3>2, LockBroken DEF Held
  <2> QED
    BY <2>1, <2>2, <2>3
<1> QED
  BY <1>2, <1>3 DEF FlightInv, HoldInv

LEMMA LockPage ==
  ASSUME Typed, LockInv,
         Connect \/ Play \/ Cancel \/ Submit \/ Rematch \/ Hub \/ Poll
  PROVE  LockInv'
<1>1. UNCHANGED <<inFlight, holding, jobs, match, settling, unanswered>>
  BY DEF Connect, Play, Cancel, Submit, Rematch, Hub, CloseEnding, Stay, Poll, Press, page,
       screen, gateway, course,
       history
<1>2. PICK k \in SentKind : /\ Spares(down, down', {k})
                            /\ flightKinds \cap {k} = {} /\ holdKinds \cap {k} = {}
  <2>1. Spares(down, down', {"match.resync"})
    <3>1. CASE Connect
      <4>1. down = <<>> /\ down' = greeting
        BY <3>1 DEF Connect, Typed, WireInv, DownInv
      <4> DEFINE e == Message("match.resync", match, state)
      <4>2. CASE greeting = <<>>
        BY <4>1, <4>2, Quiet
      <4>3. CASE greeting # <<>>
        <5>1. down' = <<e>> /\ e.kind = "match.resync"
          BY <4>1, <4>3, Words DEF greeting
        <5> HIDE DEF e
        <5>2. Len(down') = 1 /\ down'[1] = e
          BY <5>1
        <5>3. \A kinds, good : kinds \cap {"match.resync"} = {} => Unsaid(down', kinds)
          BY <5>1, <5>2 DEF Unsaid
        <5> QED
          BY <4>1, <5>3, Nothing DEF Spares
      <4> QED
        BY <4>2, <4>3
    <3>2. CASE ~Connect
      <4>1. UNCHANGED down
        BY <3>2 DEF Play, Cancel, Submit, Rematch, Hub, CloseEnding, Stay, Poll, Press, wire
      <4> QED
        BY <4>1, Quiet
    <3> QED
      BY <3>1, <3>2
  <2> QED
    BY <2>1, OtherWords DEF SentKind
<1> QED
  BY <1>1, <1>2, LockStays DEF Held

LEMMA LockHear ==
  ASSUME Typed, LockInv,
         \/ HearStatus \/ HearPhase \/ HearFound \/ HearStart \/ HearResync
         \/ HearSubmission \/ HearJudging \/ HearEnd
  PROVE  LockInv'
<1> SUFFICES ASSUME ~unanswered' PROVE FlightInv' /\ HoldInv'
  BY DEF LockInv
<1> DEFINE e == Head(down)
<1>1. PICK kind : Hear(kind)
  BY DEF HearStatus, HearPhase, HearFound, HearStart, HearResync, HearSubmission, HearJudging,
       HearEnd
<1>2. /\ down # <<>> /\ down' = Tail(down) /\ down \in Seq(Sent)
      /\ UNCHANGED <<match, settling, jobs, unanswered>>
  BY <1>1 DEF Hear, gateway, course, history, Typed, WireInv, DownInv
<1>3. FlightInv /\ HoldInv
  BY <1>2 DEF LockInv
<1>4. (Held' <=> Held) /\ rightFlight' = rightFlight /\ rightHold' = rightHold
  BY <1>2 DEF rightFlight, rightHold, Held
<1>5. ASSUME NEW kinds, NEW good
      PROVE  /\ Closes(down, kinds, good) =>
                  \/ Closes(down', kinds, good) \/ (e \in good /\ Unsaid(down', kinds))
             /\ Unsaid(down, kinds) => Unsaid(down', kinds) /\ e.kind \notin kinds
  BY <1>2, Drop
<1> HIDE DEF e
<1>6. FlightInv'
  <2>1. e \in rightFlight => (inFlight' => jobs # {})
    BY DEF rightFlight, HearStatus, HearPhase, HearFound, HearStart, HearResync, HearSubmission,
         HearJudging, HearEnd, Hear, e
  <2>2. e.kind \notin flightKinds => inFlight' = inFlight
    BY DEF flightKinds, HearStatus, HearPhase, HearFound, HearStart, HearResync,
         HearSubmission, HearJudging, HearEnd, Hear, e
  <2> QED
    BY <1>2, <1>3, <1>4, <1>5, <2>1, <2>2 DEF FlightInv
<1>7. HoldInv'
  <2>0. HoldOver.match = None /\ HoldOver.kind = "match.judging"
    BY Words DEF HoldOver, Hold, About
  <2>1. e \in rightHold => (holding' => Held)
    BY <2>0 DEF rightHold, HearStatus, HearPhase, HearFound, HearStart, HearResync,
         HearSubmission, HearJudging, HearEnd, Hear, e
  <2>2. e.kind \notin holdKinds => (holding' => holding)
    BY DEF holdKinds, HearStatus, HearPhase, HearFound, HearStart, HearResync,
         HearSubmission, HearJudging, HearEnd, Hear, e
  <2> QED
    BY <1>2, <1>3, <1>4, <1>5, <2>1, <2>2 DEF HoldInv
<1> QED
  BY <1>6, <1>7

LEMMA LockHears == ASSUME Typed, LockInv, GatewayHears PROVE LockInv'
<1>0. DownInv /\ match \in Id \cup {None} /\ state \in Running \cup {"none"}
  BY DEF Typed, WireInv, Fields
<1>1. PICK kind : Take(kind)
  BY DEF GatewayHears, TakeQueueJoin, TakeQueueLeave, TakeSubmit, TakeRejoin, TakeChallengeJoin
<1>2. connected /\ UNCHANGED <<inFlight, holding, match, settling, unanswered>>
  BY <1>1 DEF Take, page, screen, course
<1>3. CASE TakeSubmit /\ ~UNCHANGED down
  <2> SUFFICES ASSUME ~unanswered' PROVE FlightInv' /\ HoldInv'
    BY DEF LockInv
  <2>1. /\ EmitAll(<<Hold(match), Word("submission.ack")>>)
        /\ match \in jobs'
    BY <1>3 DEF TakeSubmit
  <2>2. Held' /\ jobs' # {}
    BY <1>2, <2>1 DEF Held
  <2>3. \A kinds, good :
          \/ Word("submission.ack") \in good
          \/ Hold(match) \in good /\ Word("submission.ack").kind \notin kinds
          => Closes(down', kinds, good)
    BY <1>0, <1>2, <2>1, Phrases, EmitTwoSpares
  <2>4. Word("submission.ack") \in rightFlight' /\ Hold(match) \in rightHold'
    BY <1>0, <2>2, Phrases DEF rightFlight, rightHold
  <2>5. Word("submission.ack").kind \notin holdKinds
    BY Phrases DEF holdKinds
  <2> QED
    BY <2>3, <2>4, <2>5 DEF FlightInv, HoldInv
<1>4. CASE ~TakeSubmit \/ UNCHANGED down
  <2>1. (jobs # {} => jobs' # {}) /\ (Held => Held')
    BY <1>2 DEF GatewayHears, TakeQueueJoin, TakeQueueLeave, TakeSubmit, TakeRejoin,
         TakeChallengeJoin, Held
  <2>2. PICK k \in SentKind : /\ Spares(down, down', {k})
                              /\ flightKinds \cap {k} = {} /\ holdKinds \cap {k} = {}
    <3>1. CASE UNCHANGED down
      BY <3>1, Quiet, OtherWords DEF SentKind
    <3>2. CASE TakeQueueLeave
      <4>1. Spares(down, down', {"queue.left"})
        BY <1>0, <3>2, EmitWord DEF TakeQueueLeave, SentKind
      <4> QED
        BY <4>1, OtherWords DEF SentKind
    <3>3. CASE TakeRejoin /\ ~UNCHANGED down
      <4> DEFINE e == Message("match.resync", match, state)
      <4>1. Emit(e)
        BY <3>3 DEF TakeRejoin, Silent
      <4>2. e \in Sent /\ e.kind = "match.resync"
        BY <1>0, Words DEF SentKind
      <4> HIDE DEF e
      <4>3. Spares(down, down', {"match.resync"})
        BY <1>0, <4>1, <4>2, EmitSpares
      <4> QED
        BY <4>3, OtherWords DEF SentKind
    <3> QED
      BY <1>4, <3>1, <3>2, <3>3 DEF GatewayHears, TakeQueueJoin, TakeChallengeJoin
  <2> QED
    BY <1>2, <2>1, <2>2, LockStays
<1> QED
  BY <1>3, <1>4

LEMMA LockEndTold ==
  ASSUME Typed, LockInv, NEW m \in Id, Emit(About("match.end", m)), connected,
         UNCHANGED <<inFlight, holding, jobs>>, ~unanswered' => ~unanswered
  PROVE  LockInv'
<1> SUFFICES ASSUME ~unanswered' PROVE FlightInv' /\ HoldInv'
  BY DEF LockInv
<1> DEFINE e == About("match.end", m)
<1>1. e \in Sent /\ e.kind = "match.end"
  BY Words DEF About, SentKind
<1> HIDE DEF e
<1>2. Emit(e) /\ DownInv
  BY DEF e, Typed, WireInv
<1>3. /\ Spares(down, down', {"match.end"})
      /\ \A kinds, good : e \in good => Closes(down', kinds, good)
  BY <1>1, <1>2, EmitSpares
<1>4. FlightInv'
  <2>1. FlightInv
    BY DEF LockInv
  <2>2. flightKinds \cap {"match.end"} = {} /\ rightFlight' = rightFlight
    BY DEF flightKinds, rightFlight
  <2> QED
    BY <1>3, <2>1, <2>2 DEF FlightInv, Spares
<1>5. e \in rightHold'
  BY <1>1 DEF rightHold
<1> QED
  BY <1>3, <1>4, <1>5 DEF HoldInv

LEMMA LockNewMatch ==
  ASSUME Typed, match = None, settling' = settling, jobs' = jobs PROVE Held => Held'
  BY Numbers DEF Held, Typed, Fields

LEMMA LockAnswers == ASSUME Typed, LockInv, GatewayAnswers PROVE LockInv'
<1>0. DownInv
  BY DEF Typed, WireInv
<1>1. UNCHANGED <<connected, inFlight, holding, jobs, settling, unanswered>>
  BY DEF GatewayAnswers, AnswerRejoin, AnswerChallengeJoin, AtWork, WhileAtWork, page, screen,
       course,
       CreateMatch
<1>2. Held => Held'
  <2>1. UNCHANGED match \/ match = None
    BY DEF GatewayAnswers, AnswerRejoin, AnswerChallengeJoin, course
  <2> QED
    BY <1>1, <2>1, LockNewMatch DEF Held
<1>3. CASE UNCHANGED down
  <2>1. Spares(down, down', {}) /\ flightKinds \cap {} = {} /\ holdKinds \cap {} = {}
    BY <1>3, Quiet
  <2> QED
    BY <1>1, <1>2, <2>1, LockStays
<1>4. ASSUME NEW m \in Id, AnswerRejoin(m), ~UNCHANGED down PROVE LockInv'
  <2>1. Emit(About("match.end", m)) /\ connected
    BY <1>4 DEF AnswerRejoin, Silent, Emit, EmitAll
  <2> QED
    BY <1>1, <2>1, LockEndTold
<1>5. CASE AnswerChallengeJoin /\ ~UNCHANGED down
  <2>1. Spares(down, down', {"challenge.waiting"})
    BY <1>0, <1>5, EmitWord DEF AnswerChallengeJoin, SentKind
  <2>2. flightKinds \cap {"challenge.waiting"} = {} /\ holdKinds \cap {"challenge.waiting"} = {}
    BY OtherWords DEF SentKind
  <2> QED
    BY <1>1, <1>2, <2>1, <2>2, LockStays
<1> QED
  BY <1>3, <1>4, <1>5 DEF GatewayAnswers

LEMMA LockMatch ==
  ASSUME Typed, LockInv,
         Status \/ Pair \/ FriendJoins \/ Open \/ CountDown \/ GoLive \/ EndMatch
  PROVE  LockInv'
<1>0. DownInv /\ match \in Id \cup {None}
  BY DEF Typed, WireInv, Fields
<1>1. UNCHANGED <<inFlight, holding, jobs, unanswered>>
  BY DEF Status, Pair, FriendJoins, Open, CountDown, GoLive, EndMatch, Advance, AtWork,
       WhileAtWork, page,
       screen, gateway
<1>2. Held => Held'
  <2>1. \/ UNCHANGED <<match, settling>>
        \/ match = None /\ UNCHANGED settling
        \/ settling' # {}
    BY DEF Status, Pair, FriendJoins, Open, CountDown, GoLive, EndMatch, Advance, CreateMatch,
         Over, gateway, course
  <2> QED
    BY <1>1, <2>1, LockNewMatch DEF Held
<1>3. PICK k \in SentKind : /\ Spares(down, down', {k})
                            /\ flightKinds \cap {k} = {} /\ holdKinds \cap {k} = {}
  <2>1. CASE Status \/ CountDown
    <3>1. PICK k \in {"queue.status", "match.countdown"} : Emit(Word(k))
      BY <2>1 DEF Status, CountDown, Advance
    <3>2. k \in SentKind
      BY DEF SentKind
    <3> QED
      BY <1>0, <3>1, <3>2, EmitWord, OtherWords
  <2>2. CASE Open \/ GoLive
    <3>1. PICK k \in {"match.found", "match.start"} : Emit(About(k, match))
      BY <2>2 DEF Open, GoLive, Advance
    <3>2. k \in SentKind /\ About(k, match) \in Sent /\ About(k, match).kind = k
      BY <1>0, Words DEF SentKind, About
    <3>3. Spares(down, down', {k})
      BY <1>0, <3>1, <3>2, EmitSpares
    <3> QED
      BY <3>2, <3>3, OtherWords
  <2>3. CASE Pair \/ FriendJoins \/ EndMatch
    <3>1. Spares(down, down', {"queue.left"})
      BY <2>3, Quiet DEF Pair, FriendJoins, EndMatch
    <3> QED
      BY <3>1, OtherWords DEF SentKind
  <2> QED
    BY <2>1, <2>2, <2>3
<1> QED
  BY <1>1, <1>2, <1>3, LockStays

LEMMA LockEnding ==
  ASSUME Typed, LockInv, NEW m \in Id, TellEnd(m) \/ Verdict(m) \/ Throw(m) PROVE LockInv'
<1> SUFFICES ASSUME ~unanswered' PROVE LockInv'
  BY DEF LockInv
<1>0. DownInv
  BY DEF Typed, WireInv
<1>1. UNCHANGED <<inFlight, holding>> /\ connected /\ ~unanswered /\ ~Throw(m)
  BY DEF TellEnd, Verdict, Throw, AtWork, WhileAtWork, page, screen
<1>2. CASE TellEnd(m)
  BY <1>1, <1>2, LockEndTold DEF TellEnd
<1>3. CASE Verdict(m)
  <2> SUFFICES FlightInv' /\ HoldInv'
    BY DEF LockInv
  <2> DEFINE v == Word("submission.verdict")
  <2>0. v \in Sent /\ v.kind = "submission.verdict"
    BY Phrases
  <2> HIDE DEF v
  <2>1. v \in rightFlight'
    BY <2>0 DEF rightFlight
  <2>2. CASE m = match
    <3>1. EmitAll(<<v, HoldOver>>)
      BY <1>3, <2>2 DEF Verdict, v
    <3>2. \A kinds, good : \/ HoldOver \in good
                           \/ v \in good /\ HoldOver.kind \notin kinds
                           => Closes(down', kinds, good)
      BY <1>0, <1>1, <2>0, <3>1, Phrases, EmitTwoSpares
    <3>3. HoldOver \in rightHold' /\ HoldOver.kind \notin flightKinds
      BY Phrases DEF rightHold, flightKinds
    <3> QED
      BY <2>1, <3>2, <3>3 DEF FlightInv, HoldInv
  <2>3. CASE m # match
    <3>1. Emit(v) /\ jobs' = jobs \ {m} /\ UNCHANGED <<match, settling>>
      BY <1>3, <2>3 DEF Verdict, v, Emit, course
    <3>2. /\ Spares(down, down', {"submission.verdict"})
          /\ \A kinds, good : v \in good => Closes(down', kinds, good)
      BY <1>0, <1>1, <2>0, <3>1, EmitSpares
    <3>3. (Held' <=> Held) /\ HoldInv
      BY <1>1, <2>3, <3>1 DEF Held, LockInv
    <3>4. holdKinds \cap {"submission.verdict"} = {} /\ rightHold' = rightHold
      BY <3>3 DEF holdKinds, rightHold
    <3>5. HoldInv'
      BY <1>1, <3>2, <3>3, <3>4 DEF HoldInv, Spares
    <3> QED
      BY <2>1, <3>2, <3>5 DEF FlightInv
  <2> QED
    BY <2>2, <2>3
<1> QED
  BY <1>1, <1>2, <1>3

LEMMA NextLock == ASSUME Typed, LockInv, [Next]_vars PROVE LockInv'
<1>1. CASE UNCHANGED vars
  <2>1. UNCHANGED <<down, inFlight, holding, jobs, match, settling, unanswered>>
    BY <1>1 DEF vars, page, screen, wire, gateway, course, history
  <2>2. Spares(down, down', {}) /\ flightKinds \cap {} = {} /\ holdKinds \cap {} = {}
    BY <2>1, Quiet
  <2> QED
    BY <2>1, <2>2, LockStays DEF Held
<1> QED
  BY <1>1, LockMishap, LockPage, LockHear, LockHears, LockAnswers, LockMatch, LockEnding
     DEF Next, PlayerNext, PageNext, MatchNext

------------------------------------------------------------------------------
(* The ending on the screen.                                               *)

LEMMA TidyMore ==
  ASSUME NEW q, NEW c, NEW d, NEW l, NEW m, Tidy(q, c, l), c => d, m => l
  PROVE  Tidy(q, d, m)
  BY DEF Tidy, ClearAt

LEMMA TidySay ==
  ASSUME NEW q \in Seq(Sent), NEW e \in Sent, NEW c, NEW l, NEW m, Tidy(q, c, l),
         LiveResync(e) => l,
         m => e.kind = "match.start" \/ (l /\ e.kind # "match.end")
  PROVE  Tidy(q \o <<e>>, c, m) /\ q \o <<e>> \in Seq(Sent)
<1> DEFINE r == q \o <<e>>
<1>1. /\ r \in Seq(Sent) /\ Len(r) = Len(q) + 1 /\ r[Len(q) + 1] = e
      /\ \A i \in 1 .. Len(q) : r[i] = q[i]
  OBVIOUS
<1>2. Len(q) \in Nat
  OBVIOUS
<1> HIDE DEF r
<1>3. ASSUME NEW n \in 0 .. Len(q), ClearAt(q, n, c) PROVE ClearAt(r, n, c)
  BY <1>1, <1>2, <1>3 DEF ClearAt
<1>4. ASSUME m PROVE ClearAt(r, Len(r), c)
  <2>1. CASE e.kind = "match.start"
    BY <1>1, <1>2, <2>1 DEF ClearAt
  <2>2. CASE l /\ e.kind # "match.end"
    BY <1>1, <1>2, <2>2 DEF ClearAt, Tidy
  <2> QED
    BY <1>4, <2>1, <2>2
<1>5. ASSUME NEW i \in 1 .. Len(r), LiveResync(r[i]) PROVE ClearAt(r, i - 1, c)
  <2>1. CASE i \in 1 .. Len(q)
    <3>1. ClearAt(q, i - 1, c)
      BY <1>1, <1>5, <2>1 DEF Tidy
    <3> QED
      BY <1>2, <1>3, <2>1, <3>1
  <2>2. CASE i \notin 1 .. Len(q)
    <3>1. i - 1 = Len(q) /\ r[i] = e
      BY <1>1, <1>2, <2>2
    <3> QED
      BY <1>2, <1>3, <1>5, <3>1 DEF Tidy
  <2> QED
    BY <2>1, <2>2
<1> QED
  BY <1>1, <1>4, <1>5 DEF Tidy, r

LEMMA TidyHear ==
  ASSUME NEW q \in Seq(Sent), q # <<>>, NEW c, NEW d, NEW l, Tidy(q, c, l),
         \/ Head(q).kind = "match.end"
         \/ Head(q).kind = "match.start" /\ d
         \/ Head(q).kind # "match.start" /\ (c => d)
  PROVE  Tidy(Tail(q), d, l) /\ (LiveResync(Head(q)) => c)
<1> DEFINE r == Tail(q)
<1>1. /\ r \in Seq(Sent) /\ Len(q) \in Nat /\ Len(q) >= 1 /\ Len(r) = Len(q) - 1
      /\ \A i \in 1 .. Len(r) : r[i] = q[i + 1]
      /\ Head(q) = q[1]
  BY HeadTailProperties, EmptySeq
<1> HIDE DEF r
<1>2. ASSUME NEW n \in 1 .. Len(q), ClearAt(q, n, c) PROVE ClearAt(r, n - 1, d)
  <2>1. \A j \in 1 .. n - 1 : j \in 1 .. Len(r) /\ r[j] = q[j + 1] /\ j + 1 \in 1 .. n
    BY <1>1
  <2>2. CASE \E i \in 1 .. n : /\ q[i].kind = "match.start"
                               /\ \A j \in i + 1 .. n : q[j].kind # "match.end"
    <3>1. PICK i \in 1 .. n : /\ q[i].kind = "match.start"
                              /\ \A j \in i + 1 .. n : q[j].kind # "match.end"
      BY <2>2
    <3>2. CASE i = 1
      <4>1. d
        BY <1>1, <3>1, <3>2
      <4>2. \A j \in 1 .. n - 1 : r[j].kind # "match.end"
        BY <1>1, <2>1, <3>1, <3>2
      <4> QED
        BY <4>1, <4>2 DEF ClearAt
    <3>3. CASE i # 1
      <4>1. i - 1 \in 1 .. n - 1 /\ r[i - 1] = q[i]
        BY <1>1, <2>1, <3>1, <3>3
      <4>2. \A j \in (i - 1) + 1 .. n - 1 : r[j].kind # "match.end"
        BY <1>1, <2>1, <3>1, <3>3
      <4> QED
        BY <3>1, <4>1, <4>2 DEF ClearAt
    <3> QED
      BY <3>2, <3>3
  <2>3. CASE c /\ \A j \in 1 .. n : q[j].kind # "match.end"
    <3>1. q[1].kind # "match.end"
      BY <2>3
    <3>2. d
      BY <1>1, <2>3, <3>1
    <3>3. \A j \in 1 .. n - 1 : r[j].kind # "match.end"
      BY <2>1, <2>3
    <3> QED
      BY <3>2, <3>3 DEF ClearAt
  <2> QED
    BY <1>2, <2>2, <2>3 DEF ClearAt
<1>3. l => ClearAt(r, Len(r), d)
  BY <1>1, <1>2 DEF Tidy
<1>4. ASSUME NEW i \in 1 .. Len(r), LiveResync(r[i]) PROVE ClearAt(r, i - 1, d)
  <2>1. i + 1 \in 1 .. Len(q) /\ LiveResync(q[i + 1]) /\ i \in 1 .. Len(q)
    BY <1>1, <1>4
  <2>2. ClearAt(q, i, c)
    BY <1>1, <2>1 DEF Tidy
  <2> QED
    BY <1>2, <2>1, <2>2
<1>5. LiveResync(q[1]) => c
  <2>1. LiveResync(q[1]) => ClearAt(q, 0, c)
    BY <1>1 DEF Tidy
  <2> QED
    BY <2>1 DEF ClearAt
<1> QED
  BY <1>1, <1>3, <1>4, <1>5 DEF Tidy, r

LEMMA TidyEmpty ==
  ASSUME NEW c, NEW l, l => c PROVE Tidy(<<>>, c, l)
  BY DEF Tidy, ClearAt

\* One message is sent to the page, or two, of which none is an ending.
LEMMA EmitTidy ==
  ASSUME DownInv, NEW e \in Sent, Emit(e), NEW c, NEW l, NEW m, Tidy(down, c, l),
         LiveResync(e) => l, m => l /\ e.kind # "match.end"
  PROVE  Tidy(down', c, m)
<1>1. CASE connected
  BY <1>1, TidySay DEF Emit, EmitAll, DownInv
<1>2. CASE ~connected
  BY <1>2, TidyMore DEF Emit, EmitAll
<1> QED
  BY <1>1, <1>2

LEMMA EmitTwoTidy ==
  ASSUME DownInv, NEW e \in Sent, NEW f \in Sent, EmitAll(<<e, f>>), NEW c, NEW l,
         Tidy(down, c, l),
         \A g \in {e, f} : g.kind \notin {"match.start", "match.end", "match.resync"}
  PROVE  Tidy(down', c, l)
<1>1. CASE connected
  <2> DEFINE r == down \o <<e>>
  <2>1. down' = r \o <<f>> /\ down \in Seq(Sent)
    BY <1>1, OneByOne DEF EmitAll, DownInv
  <2>2. Tidy(r, c, l) /\ r \in Seq(Sent)
    BY <2>1, TidySay DEF LiveResync
  <2> HIDE DEF r
  <2> QED
    BY <2>1, <2>2, TidySay DEF LiveResync
<1>2. CASE ~connected
  BY <1>2 DEF EmitAll
<1> QED
  BY <1>1, <1>2

\* What is lost in a break with a match.start is a match.start missed.
LEMMA ClearBroken ==
  ASSUME Typed, ClearAt(down, Len(down), Cleared), ~StartLost PROVE Cleared
<1>1. \A i \in 1 .. Len(down) : down[i] \in ToSet(down)
  BY DEF Typed, WireInv, DownInv, ToSet
<1>2. \A i \in 1 .. Len(down) : down[i].kind # "match.start"
  BY <1>1 DEF StartLost
<1> QED
  BY <1>2 DEF ClearAt

LEMMA EndingMishap ==
  ASSUME Typed, EndingInv, Break \/ Reload \/ Restart \/ LeaveChallenge PROVE EndingInv'
<1> SUFFICES ASSUME ~outOfTurn'
             PROVE  /\ phase' = "live" => Cleared'
                    /\ Tidy(down', Cleared', state' = "LIVE")
  BY DEF EndingInv
<1>1. down' = <<>> /\ ~outOfTurn
  BY DEF Break, Reload, Restart, LeaveChallenge, Mishap
<1>2. (phase = "live" => Cleared) /\ (state = "LIVE" => ClearAt(down, Len(down), Cleared))
  BY <1>1 DEF EndingInv, Tidy
<1>3. (phase' = "live" => Cleared') /\ (state' = "LIVE" => Cleared')
  <2>1. CASE Reload
    BY <2>1 DEF Reload, Cleared
  <2>2. CASE Break \/ Restart \/ LeaveChallenge
    <3>1. /\ ending' = ending /\ startMissed' = (startMissed \/ StartLost)
          /\ phase' = "live" => phase = "live"
          /\ state' = "LIVE" => state = "LIVE"
      BY <2>2 DEF Break, Restart, LeaveChallenge, page, screen, course
    <3> QED
      BY <1>2, <3>1, ClearBroken DEF Cleared
  <2> QED
    BY <2>1, <2>2
<1> QED
  BY <1>1, <1>3, TidyEmpty

LEMMA EndingPage ==
  ASSUME Typed, EndingInv,
         Connect \/ Play \/ Cancel \/ Submit \/ Rematch \/ Hub \/ Poll
  PROVE  EndingInv'
<1> SUFFICES ASSUME ~outOfTurn'
             PROVE  /\ phase' = "live" => Cleared'
                    /\ Tidy(down', Cleared', state' = "LIVE")
  BY DEF EndingInv
<1>1. UNCHANGED <<state, outOfTurn, startMissed>>
  BY DEF Connect, Play, Cancel, Submit, Rematch, Hub, Poll, Press, gateway, course, history, marks
<1>2. (phase = "live" => Cleared) /\ Tidy(down, Cleared, state = "LIVE")
  BY <1>1 DEF EndingInv
<1>3. (phase' = "live" => phase = "live") /\ (Cleared => Cleared')
  BY <1>1 DEF Connect, Play, Cancel, Submit, Rematch, Hub, Poll, Stay, CloseEnding, page, screen,
       Cleared
<1>4. CASE Connect /\ down' # <<>>
  <2> DEFINE e == Message("match.resync", match, state)
  <2>1. down = <<>> /\ down' = <<e>>
    BY <1>4 DEF Connect, greeting, Typed, WireInv, DownInv
  <2>2. e \in Sent /\ e.kind = "match.resync" /\ e.state = state
    <3>1. match \in Id \cup {None} /\ state \in Running \cup {"none"}
      BY DEF Typed, Fields
    <3> QED
      BY <3>1, Words DEF SentKind
  <2> HIDE DEF e
  <2>3. down' = down \o <<e>> /\ down \in Seq(Sent)
    BY <2>1
  <2>4. Tidy(down', Cleared, state = "LIVE")
    BY <1>2, <2>2, <2>3, TidySay DEF LiveResync
  <2> QED
    BY <1>1, <1>2, <1>3, <2>4, TidyMore
<1>5. CASE Connect /\ down' = <<>>
  <2>1. down = <<>>
    BY <1>5 DEF Connect, Typed, WireInv, DownInv
  <2> QED
    BY <1>1, <1>2, <1>3, <1>5, <2>1, TidyMore
<1>6. CASE ~Connect
  <2>1. down' = down
    BY <1>6 DEF Play, Cancel, Submit, Rematch, Hub, Poll, Press, wire
  <2> QED
    BY <1>1, <1>2, <1>3, <2>1, TidyMore
<1> QED
  BY <1>4, <1>5, <1>6

LEMMA EndingHear ==
  ASSUME Typed, EndingInv,
         \/ HearStatus \/ HearPhase \/ HearFound \/ HearStart \/ HearResync
         \/ HearSubmission \/ HearJudging \/ HearEnd
  PROVE  EndingInv'
<1> SUFFICES ASSUME ~outOfTurn'
             PROVE  /\ phase' = "live" => Cleared'
                    /\ Tidy(down', Cleared', state' = "LIVE")
  BY DEF EndingInv
<1> DEFINE e == Head(down)
<1>1. PICK kind : Hear(kind)
  BY DEF HearStatus, HearPhase, HearFound, HearStart, HearResync, HearSubmission, HearJudging,
       HearEnd
<1>2. /\ down # <<>> /\ down' = Tail(down) /\ down \in Seq(Sent)
      /\ UNCHANGED <<state, outOfTurn>> /\ e.kind = kind
      /\ startMissed' = (startMissed /\ kind # "match.start")
  BY <1>1 DEF Hear, gateway, course, history, Typed, WireInv, DownInv
<1>3. (phase = "live" => Cleared) /\ Tidy(down, Cleared, state = "LIVE")
  BY <1>2 DEF EndingInv
<1>4. \/ e.kind = "match.end" /\ phase' # "live"
      \/ e.kind = "match.start" /\ Cleared'
      \/ /\ e.kind # "match.start" /\ (Cleared => Cleared')
         /\ phase' = "live" => phase = "live" \/ LiveResync(e)
  <2>1. CASE HearEnd
    BY <2>1 DEF HearEnd, Hear
  <2>2. CASE HearStart
    BY <2>2 DEF HearStart, Hear, Cleared
  <2>3. CASE ~HearEnd /\ ~HearStart
    <3>1. ending' = ending /\ e.kind # "match.start"
      BY <2>3 DEF HearStatus, HearPhase, HearFound, HearResync, HearSubmission, HearJudging, Hear
    <3>2. Cleared => Cleared'
      BY <1>2, <3>1 DEF Cleared
    <3>3. phase' = "live" => phase = "live" \/ LiveResync(e)
      BY <2>3 DEF HearStatus, HearPhase, HearFound, HearResync, HearSubmission, HearJudging, Hear,
           phaseOf, LiveResync
    <3> QED
      BY <3>1, <3>2, <3>3
  <2> QED
    BY <2>1, <2>2, <2>3
<1> HIDE DEF e
<1>5. Tidy(Tail(down), Cleared', state = "LIVE") /\ (LiveResync(e) => Cleared)
  BY <1>2, <1>3, <1>4, TidyHear DEF e
<1> QED
  BY <1>2, <1>3, <1>4, <1>5

\* The gateway speaks, and neither the page nor what it missed changes.
LEMMA EndingStays ==
  ASSUME EndingInv, UNCHANGED <<phase, ending, startMissed>>, ~outOfTurn' => ~outOfTurn,
         ASSUME ~outOfTurn', Tidy(down, Cleared, state = "LIVE")
         PROVE  Tidy(down', Cleared, state' = "LIVE")
  PROVE  EndingInv'
<1> SUFFICES ASSUME ~outOfTurn'
             PROVE  /\ phase' = "live" => Cleared'
                    /\ Tidy(down', Cleared', state' = "LIVE")
  BY DEF EndingInv
<1>1. (phase = "live" => Cleared) /\ Tidy(down, Cleared, state = "LIVE")
  BY DEF EndingInv
<1>2. Cleared' <=> Cleared
  BY DEF Cleared
<1>3. Tidy(down', Cleared, state' = "LIVE")
  BY <1>1
<1> QED
  BY <1>1, <1>2, <1>3, TidyMore

LEMMA EndingHears == ASSUME Typed, EndingInv, GatewayHears PROVE EndingInv'
<1>0. DownInv /\ match \in Id \cup {None} /\ state \in Running \cup {"none"}
  BY DEF Typed, WireInv, Fields
<1>1. PICK kind : Take(kind)
  BY DEF GatewayHears, TakeQueueJoin, TakeQueueLeave, TakeSubmit, TakeRejoin, TakeChallengeJoin
<1>2. UNCHANGED <<phase, ending, startMissed, state>>
  BY <1>1 DEF Take, page, screen, course, marks
<1>3. ~outOfTurn' => ~outOfTurn
  BY DEF GatewayHears, TakeQueueJoin, TakeQueueLeave, TakeSubmit, TakeRejoin, TakeChallengeJoin
<1>4. ASSUME Tidy(down, Cleared, state = "LIVE") PROVE Tidy(down', Cleared, state' = "LIVE")
  <2>1. CASE UNCHANGED down
    BY <1>2, <1>4, <2>1, TidyMore
  <2>2. CASE TakeQueueLeave
    <3> DEFINE e == Word("queue.left")
    <3>1. Emit(e) /\ e \in Sent /\ e.kind = "queue.left"
      BY <2>2, Words DEF TakeQueueLeave, Word, About, SentKind
    <3> HIDE DEF e
    <3> QED
      BY <1>0, <1>2, <1>4, <3>1, EmitTidy DEF LiveResync
  <2>3. CASE TakeSubmit /\ ~UNCHANGED down
    <3> DEFINE e == Hold(match)
               f == Word("submission.ack")
    <3>1. EmitAll(<<e, f>>)
      BY <2>3 DEF TakeSubmit
    <3>2. e \in Sent /\ f \in Sent /\ e.kind = "match.judging" /\ f.kind = "submission.ack"
      BY <1>0, Phrases
    <3> HIDE DEF e, f
    <3>3. Tidy(down', Cleared, state = "LIVE")
      BY <1>0, <1>4, <3>1, <3>2, EmitTwoTidy
    <3> QED
      BY <1>2, <3>3, TidyMore
  <2>4. CASE TakeRejoin /\ ~UNCHANGED down
    <3> DEFINE e == Message("match.resync", match, state)
    <3>1. Emit(e)
      BY <2>4 DEF TakeRejoin, Silent
    <3>2. e \in Sent /\ e.kind = "match.resync" /\ e.state = state
      <4>1. match \in Id \cup {None} /\ state \in Running \cup {"none"}
        BY <1>0
      <4> QED
        BY <4>1, Words DEF SentKind
    <3> HIDE DEF e
    <3> QED
      BY <1>0, <1>2, <1>4, <3>1, <3>2, EmitTidy DEF LiveResync
  <2> QED
    BY <2>1, <2>2, <2>3, <2>4 DEF GatewayHears, TakeQueueJoin, TakeChallengeJoin
<1> QED
  BY <1>2, <1>3, <1>4, EndingStays

\* An ending is sent, and there is no match.
LEMMA EndingTold ==
  ASSUME Typed, NEW m \in Id, Emit(About("match.end", m)), NEW c, NEW l, Tidy(down, c, l),
         state' = "none"
  PROVE  Tidy(down', c, state' = "LIVE")
<1> DEFINE e == About("match.end", m)
<1>1. Emit(e) /\ e \in Sent /\ e.kind = "match.end" /\ DownInv
  BY Words DEF About, SentKind, Typed, WireInv
<1> HIDE DEF e
<1> QED
  BY <1>1, EmitTidy DEF LiveResync

LEMMA NoMatchNoState == Typed => (match = None <=> state = "none")
  BY DEF Typed, Fields

LEMMA EndingAnswers == ASSUME Typed, EndingInv, GatewayAnswers PROVE EndingInv'
<1>0. DownInv
  BY DEF Typed, WireInv
<1>2. UNCHANGED <<phase, ending, startMissed>>
  BY DEF GatewayAnswers, AnswerRejoin, AnswerChallengeJoin, AtWork, WhileAtWork, page, screen
<1>3. ~outOfTurn' => ~outOfTurn
  BY DEF GatewayAnswers, AnswerRejoin, AnswerChallengeJoin
<1>4. ASSUME ~outOfTurn', Tidy(down, Cleared, state = "LIVE")
      PROVE  Tidy(down', Cleared, state' = "LIVE")
  <2>1. CASE UNCHANGED down
    <3>1. state' = "LIVE" => state = "LIVE"
      BY DEF GatewayAnswers, AnswerRejoin, AnswerChallengeJoin, CreateMatch, course
    <3> QED
      BY <1>4, <2>1, <3>1, TidyMore
  <2>2. ASSUME NEW m \in Id, AnswerRejoin(m), ~UNCHANGED down
        PROVE  Tidy(down', Cleared, state' = "LIVE")
    <3>1. Emit(About("match.end", m)) /\ match = None /\ state' = state
      BY <1>4, <2>2 DEF AnswerRejoin, Silent, course
    <3>2. state' = "none"
      BY <3>1, NoMatchNoState
    <3> QED
      BY <1>4, <3>1, <3>2, EndingTold
  <2>3. CASE AnswerChallengeJoin /\ ~UNCHANGED down
    <3> DEFINE e == Word("challenge.waiting")
    <3>1. Emit(e) /\ e \in Sent /\ e.kind = "challenge.waiting" /\ state' = state
      BY <2>3, Words DEF AnswerChallengeJoin, Word, About, SentKind, course
    <3> HIDE DEF e
    <3> QED
      BY <1>0, <1>4, <3>1, EmitTidy DEF LiveResync
  <2> QED
    BY <2>1, <2>2, <2>3 DEF GatewayAnswers
<1> QED
  BY <1>2, <1>3, <1>4, EndingStays

\* The page was not there to read the match.start, or it is on its way.
LEMMA EndingGoLive == ASSUME Typed, EndingInv, GoLive PROVE EndingInv'
<1> SUFFICES ASSUME ~outOfTurn'
             PROVE  /\ phase' = "live" => Cleared'
                    /\ Tidy(down', Cleared', state' = "LIVE")
  BY DEF EndingInv
<1>1. /\ UNCHANGED <<phase, ending, outOfTurn>> /\ Emit(About("match.start", match))
      /\ startMissed' = (startMissed \/ ~connected) /\ match \in Id
  BY Numbers DEF GoLive, Advance, WhileAtWork, page, screen, Typed, Fields
<1>2. (phase = "live" => Cleared) /\ Tidy(down, Cleared, state = "LIVE")
  BY <1>1 DEF EndingInv
<1>3. Cleared => Cleared'
  BY <1>1 DEF Cleared
<1>4. CASE connected
  <2> DEFINE e == About("match.start", match)
  <2>1. down' = down \o <<e>> /\ e \in Sent /\ e.kind = "match.start" /\ down \in Seq(Sent)
    BY <1>1, <1>4, Words DEF Emit, EmitAll, About, SentKind, Typed, WireInv, DownInv
  <2> HIDE DEF e
  <2>2. Tidy(down', Cleared, TRUE)
    BY <1>2, <2>1, TidySay DEF LiveResync
  <2> QED
    BY <1>1, <1>2, <1>3, <2>2, TidyMore
<1>5. CASE ~connected
  <2>1. down' = <<>>
    BY <1>1, <1>5 DEF Emit, EmitAll, Typed, WireInv, DownInv
  <2>2. Cleared'
    BY <1>1, <1>5 DEF Cleared
  <2> QED
    BY <2>1, <2>2, TidyEmpty
<1> QED
  BY <1>4, <1>5

LEMMA EndingMatch ==
  ASSUME Typed, EndingInv, Status \/ Pair \/ FriendJoins \/ Open \/ CountDown \/ EndMatch
  PROVE  EndingInv'
<1>0. DownInv /\ match \in Id \cup {None}
  BY DEF Typed, WireInv, Fields
<1>1. UNCHANGED <<phase, ending, startMissed, outOfTurn>>
  BY DEF Status, Pair, FriendJoins, Open, CountDown, EndMatch, Advance, AtWork, WhileAtWork, page,
       screen
<1>2. state' = "LIVE" => state = "LIVE"
  BY DEF Status, Pair, FriendJoins, Open, CountDown, EndMatch, Advance, CreateMatch, Over,
       gateway, course
<1>3. ASSUME Tidy(down, Cleared, state = "LIVE") PROVE Tidy(down', Cleared, state' = "LIVE")
  <2>1. CASE Pair \/ FriendJoins \/ EndMatch
    <3>1. down' = down
      BY <2>1 DEF Pair, FriendJoins, EndMatch
    <3> QED
      BY <1>2, <1>3, <3>1, TidyMore
  <2>2. CASE Status \/ Open \/ CountDown
    <3>1. PICK k \in {"queue.status", "match.found", "match.countdown"} : Emit(About(k, match))
                                                                       \/ Emit(Word(k))
      BY <2>2 DEF Status, Open, CountDown, Advance
    <3>2. PICK e \in Sent : Emit(e) /\ e.kind = k
      BY <1>0, <3>1, Words DEF Word, About, SentKind
    <3> QED
      BY <1>0, <1>2, <1>3, <3>2, EmitTidy DEF LiveResync
  <2> QED
    BY <2>1, <2>2
<1> QED
  BY <1>1, <1>3, EndingStays

LEMMA EndingEnding ==
  ASSUME Typed, EndingInv, NEW m \in Id, TellEnd(m) \/ Verdict(m) \/ Throw(m) PROVE EndingInv'
<1>0. DownInv
  BY DEF Typed, WireInv
<1>1. UNCHANGED <<phase, ending, startMissed>>
  BY DEF TellEnd, Verdict, Throw, AtWork, WhileAtWork, page, screen
<1>2. ~outOfTurn' => ~outOfTurn
  BY DEF TellEnd, Verdict, Throw
<1>3. ASSUME ~outOfTurn', Tidy(down, Cleared, state = "LIVE")
      PROVE  Tidy(down', Cleared, state' = "LIVE")
  <2>1. CASE TellEnd(m)
    <3>1. Emit(About("match.end", m)) /\ match = None /\ state' = state
      BY <1>3, <2>1 DEF TellEnd
    <3>2. state' = "none"
      BY <3>1, NoMatchNoState
    <3> QED
      BY <1>3, <3>1, <3>2, EndingTold
  <2>2. CASE Verdict(m)
    <3> DEFINE v == Word("submission.verdict")
               h == HoldOver
    <3>1. /\ EmitAll(<<v, h>>) \/ EmitAll(<<v>>)
          /\ state' = state
      BY <2>2 DEF Verdict, course
    <3>2. v \in Sent /\ h \in Sent /\ v.kind = "submission.verdict" /\ h.kind = "match.judging"
      BY Phrases
    <3> HIDE DEF v, h
    <3>3. CASE EmitAll(<<v, h>>)
      <4>1. Tidy(down', Cleared, state = "LIVE")
        BY <1>0, <1>3, <3>2, <3>3, EmitTwoTidy
      <4> QED
        BY <3>1, <4>1, TidyMore
    <3>4. CASE EmitAll(<<v>>)
      <4>1. Emit(v)
        BY <3>4 DEF Emit
      <4> QED
        BY <1>0, <1>3, <3>1, <3>2, <4>1, EmitTidy DEF LiveResync
    <3> QED
      BY <3>1, <3>3, <3>4
  <2>3. CASE Throw(m)
    <3>1. down' = down /\ (state' = "LIVE" => state = "LIVE")
      BY <2>3 DEF Throw, Over, course
    <3> QED
      BY <1>3, <3>1, TidyMore
  <2> QED
    BY <2>1, <2>2, <2>3
<1> QED
  BY <1>1, <1>2, <1>3, EndingStays

LEMMA NextEnding == ASSUME Typed, EndingInv, [Next]_vars PROVE EndingInv'
<1>1. CASE UNCHANGED vars
  <2>1. UNCHANGED <<down, phase, ending, startMissed, outOfTurn, state>>
    BY <1>1 DEF vars, page, screen, wire, gateway, course, history, marks
  <2> QED
    BY <2>1, TidyMore, EndingStays
<1> QED
  BY <1>1, EndingMishap, EndingPage, EndingHear, EndingHears, EndingAnswers, EndingGoLive,
     EndingMatch, EndingEnding DEF Next, PlayerNext, PageNext, MatchNext

\* The inductive invariant.
PageInv == Typed /\ ScreenInv /\ RefInv /\ LockInv /\ EndingInv

LEMMA InitPage == Init => PageInv
<1> SUFFICES ASSUME Init PROVE PageInv
  OBVIOUS
<1>1. Typed
  BY InitType DEF Typed
<1>2. match = None /\ ~connected /\ down = <<>> /\ inFlight = FALSE /\ holding = FALSE
  BY DEF Init
<1>3. ScreenInv /\ RefInv
  BY <1>2 DEF ScreenInv, RefInv
<1>4. LockInv
  BY <1>2, Nothing DEF LockInv, FlightInv, HoldInv
<1>5. EndingInv
  <2>1. phase # "live" /\ ending = None /\ down = <<>>
    BY DEF Init, freshPhase
  <2> QED
    BY <2>1, TidyEmpty DEF EndingInv, Cleared
<1> QED
  BY <1>1, <1>3, <1>4, <1>5 DEF PageInv

LEMMA NextPage == PageInv /\ [Next]_vars => PageInv'
  BY NextType, NextScreen, NextRef, NextLock, NextEnding DEF PageInv, Typed

LEMMA AlwaysPage == Spec => []PageInv
  BY InitPage, NextPage, PTL DEF Spec
------------------------------------------------------------------------------
\* Type correctness: the page and the gateway name matches that were made, whatever is lost
\* and however often the page is loaded again.
THEOREM PageTypeCorrect == Spec => []TypeOK
<1>1. PageInv => TypeOK
  BY TypeIsFields DEF PageInv, Typed, WireInv
<1> QED
  BY <1>1, AlwaysPage, PTL

\* When everything has arrived the page shows the match the gateway has for its player, in
\* its phase and with its problem, but for an answer overtaken by what it was about.
THEOREM PageFollowsTheMatch == Spec => []ScreenFollowsTheMatch
<1>1. PageInv => ScreenFollowsTheMatch
  <2> SUFFICES ASSUME PageInv, quiet, match # None, state # "FOUND", ~outOfTurn,
                      ~strayed
               PROVE  shown = match /\ phase = phaseOf(state) /\ (state = "LIVE" => problem = match)
    BY DEF ScreenFollowsTheMatch
  <2>1. PhaseFollows /\ MatchFollows /\ ProblemFollows /\ down = <<>>
    BY DEF PageInv, ScreenInv, quiet
  <2> QED
    BY <2>1, Nothing DEF PhaseFollows, MatchFollows, ProblemFollows
<1> QED
  BY <1>1, AlwaysPage, PTL

\* A page that remembers a match and asks for it is answered, through breaks and restarts
\* of the gateway, if the match got as far as having a row.
THEOREM AskedMatchIsAnswered == Spec => []RememberedMatchIsAnswered
<1>1. PageInv => RememberedMatchIsAnswered
  <2> SUFFICES ASSUME PageInv, quiet, matchRef # None, entry # "challenge"
               PROVE  matchRef = match \/ row[matchRef] = "none"
    BY DEF RememberedMatchIsAnswered
  <2>1. connected /\ up = <<>> /\ down = <<>> /\ lookups = {} /\ settling = {}
    BY DEF quiet
  <2>2. matchRef \in Answerable
    BY <2>1, Nothing DEF PageInv, RefInv
  <2>3. ~onItsWay(About("match.rejoin", matchRef), up)
    BY <2>1, OnItsWay
  <2> QED
    BY <2>1, <2>2, <2>3 DEF Answerable
<1> QED
  BY <1>1, AlwaysPage, PTL

\* The Submit button of a live match is locked by nothing but a submission being judged, a
\* match on hold, an answer that never reached the page - and the ending of an earlier match
\* where the page missed match.start, or was told of the ending out of turn.
THEOREM SubmitWorksAgain == Spec => []SubmitIsNotDead
<1>1. PageInv => SubmitIsNotDead
  <2> SUFFICES ASSUME PageInv, quiet, phase = "live", jobs = {}, ~unanswered
               PROVE  ~inFlight /\ ~holding /\ (ending = None \/ startMissed \/ outOfTurn)
    BY DEF SubmitIsNotDead
  <2>1. FlightInv /\ HoldInv /\ down = <<>> /\ ~Held
    BY DEF PageInv, LockInv, quiet, Held
  <2>2. ~inFlight /\ ~holding
    BY <2>1, Nothing DEF FlightInv, HoldInv
  <2>3. outOfTurn \/ Cleared
    BY DEF PageInv, EndingInv
  <2> QED
    BY <2>2, <2>3 DEF Cleared
<1> QED
  BY <1>1, AlwaysPage, PTL
==============================================================================
