------------------------------ MODULE PlayClient ------------------------------
(***************************************************************************)
(* The page of one player (play/page.tsx and the Submit button of          *)
(* MatchScreen.tsx) and what the gateway sends to it.                      *)
(*                                                                         *)
(* The page keeps a phase that only messages move.  The messages of one    *)
(* connection arrive in order; those under way when it breaks are lost,    *)
(* and what the player presses while the page is offline waits for the     *)
(* next connection.  Whoever was let in is let in again.                   *)
(*                                                                         *)
(* The gateway is what this player sees of it: how a match is won, judged  *)
(* and paired is the matter of LiveMatch, Judge and Lobby, and a match     *)
(* here may do at any time what it may do there.  JUDGING is LIVE to the   *)
(* page.  The player has one tab; his own challenge links are left out, a  *)
(* link he was sent is not.                                                *)
(***************************************************************************)
EXTENDS Integers, SequencesExt

CONSTANTS
  MaxMatches,
  MaxMishaps,      \* breaks, reloads, restarts of the gateway, challenges left
  MaxOnTheWay      \* messages to the page before the match goes on

ASSUME PlayAssumption ==
  MaxMatches \in Nat \ {0} /\ MaxMishaps \in Nat /\ MaxOnTheWay \in Nat \ {0}

VARIABLES          \* the page
  entry,           \* the address it was opened with: "lobby", "hub", "challenge"
  phase,
  shown,           \* match: the one the screen belongs to
  problem,         \* problem: of which match it is
  matchRef,        \* matchRef.current
  inFlight,
  holding,         \* holding.includes(you)
  ending           \* the match whose ending is on the screen

VARIABLES          \* the connection
  connected,
  greeted,         \* this page has been connected
  up,              \* messages to the gateway
  down             \* messages to the page

VARIABLES          \* the gateway
  match, state,    \* userMatch and the state of that match
  made,
  row,             \* the Match rows: "none", "LIVE", "over"
  settling,        \* matches whose match.end is not sent yet
  jobs,            \* matches with a submission of this player being judged
  seeking,         \* queueIntent
  waiting,         \* challengeIntent
  lookups,         \* match.rejoin that wait for a row
  joining          \* a challenge.join that waits for a row

VARIABLES          \* history
  mishaps,
  member,          \* the page was opened with a challenge
  outOfTurn,       \* the page was told of what had changed in the meantime
  unanswered,      \* a verdict, or the end of a match, was lost
  startMissed,     \* so was a match.start, since the page last read one
  strayed          \* the player has closed an ending that lay over a match

screen == <<phase, shown, problem, matchRef, inFlight, holding, ending>>
page == <<entry, screen>>
wire == <<connected, greeted, up, down>>
course == <<match, state, made, row, settling>>
questions == <<lookups, joining>>
gateway == <<course, jobs, seeking, waiting, questions>>
history == <<mishaps, member, outOfTurn, unanswered>>
marks == <<startMissed, strayed>>
vars == <<page, wire, gateway, history, marks>>
------------------------------------------------------------------------------
Id == 1 .. MaxMatches
None == 0
Phase == {"idle", "challenge", "queued", "found", "countdown", "live", "ended"}
Running == {"FOUND", "ACCEPTING", "COUNTDOWN", "LIVE"}

\* With None and "none" for what a message of that kind does not have.
Message(kind, m, s) == [kind |-> kind, match |-> m, state |-> s]
About(kind, m) == Message(kind, m, "none")
Word(kind) == About(kind, None)

EmitAll(messages) == down' = IF connected THEN down \o messages ELSE down
Emit(message) == EmitAll(<<message>>)
Silent == UNCHANGED down
Send(message) == up' = Append(up, message)
onItsWay(message, q) == message \in ToSet(q)

freshPhase(e) == IF e = "challenge" THEN "challenge" ELSE "idle"

Init ==
  /\ entry \in {"lobby", "hub", "challenge"}
  /\ phase = freshPhase(entry)
  /\ shown = None /\ problem = None /\ matchRef = None /\ ending = None
  /\ inFlight = FALSE /\ holding = FALSE
  /\ connected = FALSE /\ greeted = FALSE
  /\ up = <<>> /\ down = <<>>
  /\ match = None /\ state = "none" /\ made = 0
  /\ row = [m \in Id |-> "none"]
  /\ settling = {}
  /\ jobs = {}
  /\ seeking = FALSE /\ waiting = FALSE
  /\ lookups = {} /\ joining = FALSE
  /\ mishaps = 0
  /\ member = (entry = "challenge")
  /\ outOfTurn = FALSE /\ unanswered = FALSE
  /\ startMissed = FALSE /\ strayed = FALSE
------------------------------------------------------------------------------
(* The connection.                                                         *)

\* Seeded fault: a page asks for its match even when it has none.
firstWordsUnguarded ==
  IF entry = "challenge" THEN <<Word("challenge.join")>> ELSE
  IF entry = "hub" /\ matchRef = None THEN <<Word("queue.join")>> ELSE
  <<About("match.rejoin", matchRef)>>

\* What the page says when it is connected.  The handler keeps the address the page
\* was opened with, so a page that came to queue does so again.
firstWords ==
  IF entry = "challenge" THEN <<Word("challenge.join")>> ELSE
  IF matchRef # None THEN <<About("match.rejoin", matchRef)>> ELSE
  IF entry = "hub" THEN <<Word("queue.join")>> ELSE <<>>

\* What the gateway says when a socket of the player comes back.
greeting == IF match # None THEN <<Message("match.resync", match, state)>> ELSE <<>>

Connect ==
  /\ ~connected
  /\ connected' = TRUE /\ greeted' = TRUE
  /\ down' = greeting
  /\ up' = up \o firstWords
  /\ UNCHANGED <<page, gateway, history, marks>>

Mishap ==
  /\ mishaps < MaxMishaps
  /\ mishaps' = mishaps + 1
  /\ connected' = FALSE
  /\ up' = <<>> /\ down' = <<>>
  /\ lookups' = {}                \* they answer to the socket that asked
  /\ strayed' = FALSE             \* whoever comes back is told where he is
  /\ UNCHANGED <<member, outOfTurn>>

Hold(m) == About("match.judging", m)
HoldOver == Hold(None)
AnswerLost ==
  \E message \in ToSet(down) :
    message = HoldOver \/ message.kind \in {"submission.verdict", "match.end"}

StartLost == \E message \in ToSet(down) : message.kind = "match.start"

Break ==
  /\ connected
  /\ Mishap
  /\ unanswered' = (unanswered \/ AnswerLost)
  /\ startMissed' = (startMissed \/ StartLost)
  /\ UNCHANGED <<page, greeted, course, jobs, seeking, waiting, joining>>

\* The address has lost ?queue=1 if it was used.
Reload ==
  /\ Mishap
  /\ entry' = IF entry = "hub" /\ greeted THEN "lobby" ELSE entry
  /\ phase' = freshPhase(entry)
  /\ shown' = None /\ problem' = None /\ matchRef' = None /\ ending' = None
  /\ inFlight' = FALSE /\ holding' = FALSE
  /\ greeted' = FALSE
  /\ startMissed' = FALSE
  /\ UNCHANGED <<course, jobs, seeking, waiting, joining, unanswered>>

\* Memory is lost; LIVE rows are reconciled on the way up.
Restart ==
  /\ Mishap
  /\ match' = None /\ state' = "none" /\ settling' = {}
  /\ row' = [m \in Id |-> IF row[m] = "LIVE" THEN "over" ELSE row[m]]
  /\ jobs' = {}
  /\ seeking' = FALSE /\ waiting' = FALSE /\ joining' = FALSE
  /\ unanswered' = (unanswered \/ AnswerLost \/ jobs # {} \/ settling # {})
  /\ startMissed' = (startMissed \/ StartLost)
  /\ UNCHANGED <<page, greeted, made>>
------------------------------------------------------------------------------
(* The player.                                                             *)

\* One thing at a time.
Press(message) ==
  /\ up = <<>>
  /\ Len(down) < MaxOnTheWay
  /\ Send(message)
  /\ UNCHANGED <<entry, connected, greeted, down, gateway, history, startMissed>>
Stay == UNCHANGED <<screen, strayed>>

Play == phase = "idle" /\ connected /\ Press(Word("queue.join")) /\ Stay
Cancel == phase = "queued" /\ Press(Word("queue.leave")) /\ Stay

Submit ==
  /\ phase = "live" /\ shown # None /\ problem # None
  /\ ~inFlight /\ ~holding /\ ending = None
  /\ Press(About("code.submit", shown))
  /\ Stay

canShowEnding == shown # None /\ problem # None

\* The ending lies over the match screen, whichever match the screen is now of.
CloseEnding ==
  /\ phase \in {"live", "ended"} /\ canShowEnding /\ ending # None
  /\ phase' = "idle" /\ ending' = None /\ shown' = None
  /\ strayed' = (strayed \/ phase = "live")
  /\ UNCHANGED <<problem, matchRef, inFlight, holding>>

Rematch == CloseEnding /\ Press(Word("queue.join"))
Hub == CloseEnding /\ UNCHANGED <<entry, wire, gateway, history, startMissed>>

Poll ==
  /\ phase = "challenge" /\ entry = "challenge" /\ connected
  /\ Press(Word("challenge.join"))
  /\ Stay

\* The page forgets the code, and with it connects anew; the gateway is not told.
LeaveChallenge ==
  /\ phase = "challenge"
  /\ Mishap
  /\ entry' = "lobby"
  /\ phase' = "idle"
  /\ greeted' = FALSE
  /\ unanswered' = (unanswered \/ AnswerLost)
  /\ startMissed' = (startMissed \/ StartLost)
  /\ UNCHANGED <<shown, problem, matchRef, inFlight, holding, ending, course, jobs,
                 seeking, waiting, joining>>
------------------------------------------------------------------------------
(* The page hears.                                                         *)

Hear(kind) ==
  /\ down # <<>> /\ Head(down).kind = kind
  /\ down' = Tail(down)
  /\ startMissed' = (startMissed /\ kind # "match.start")
  /\ UNCHANGED <<entry, connected, greeted, up, gateway, history, strayed>>

HearStatus ==
  /\ Hear("queue.status")
  /\ phase' = IF phase = "challenge" THEN phase ELSE "queued"
  /\ UNCHANGED <<shown, problem, matchRef, inFlight, holding, ending>>

HearPhase ==
  /\ \/ Hear("queue.left") /\ phase' = "idle"
     \/ Hear("challenge.waiting") /\ phase' = "challenge"
     \/ Hear("match.countdown") /\ phase' = "countdown"
  /\ UNCHANGED <<shown, problem, matchRef, inFlight, holding, ending>>

HearFound ==
  /\ Hear("match.found")
  /\ shown' = Head(down).match
  /\ matchRef' = Head(down).match
  /\ phase' = "found"
  /\ UNCHANGED <<problem, inFlight, holding, ending>>

\* Seeded fault: the ending of the last match is left on the screen.
HearStartKeepsEnding ==
  /\ Hear("match.start")
  /\ phase' = "live"
  /\ problem' = Head(down).match
  /\ holding' = FALSE
  /\ UNCHANGED <<shown, matchRef, inFlight, ending>>

HearStart ==
  /\ Hear("match.start")
  /\ phase' = "live"
  /\ problem' = Head(down).match
  /\ ending' = None /\ holding' = FALSE
  /\ UNCHANGED <<shown, matchRef, inFlight>>

phaseOf(s) == IF s = "LIVE" THEN "live" ELSE IF s = "COUNTDOWN" THEN "countdown" ELSE "found"

\* Seeded fault: what comes back is the match without its problem.
HearResyncWithoutProblem ==
  /\ Hear("match.resync")
  /\ shown' = Head(down).match
  /\ phase' = phaseOf(Head(down).state)
  /\ UNCHANGED <<problem, matchRef, inFlight, holding, ending>>

HearResync ==
  /\ Hear("match.resync")
  /\ shown' = Head(down).match
  /\ problem' = IF Head(down).state = "LIVE" THEN Head(down).match ELSE problem
  /\ phase' = phaseOf(Head(down).state)
  /\ UNCHANGED <<matchRef, inFlight, holding, ending>>

HearSubmission ==
  /\ \/ Hear("submission.ack") /\ inFlight' = TRUE
     \/ Hear("submission.verdict") /\ inFlight' = FALSE
  /\ UNCHANGED <<phase, shown, problem, matchRef, holding, ending>>

HearJudging ==
  /\ Hear("match.judging")
  /\ holding' = (Head(down).match # None)
  /\ UNCHANGED <<phase, shown, problem, matchRef, inFlight, ending>>

\* Whichever match it is of.  An ending that cannot be shown is not.
HearEnd ==
  /\ Hear("match.end")
  /\ matchRef' = None
  /\ holding' = FALSE
  /\ IF canShowEnding
     THEN phase' = "ended" /\ ending' = Head(down).match /\ UNCHANGED shown
     ELSE phase' = "idle" /\ ending' = None /\ shown' = None
  /\ UNCHANGED <<problem, inFlight>>
------------------------------------------------------------------------------
(* The gateway hears.                                                      *)

Take(kind) ==
  /\ connected /\ up # <<>> /\ Head(up).kind = kind
  /\ up' = Tail(up)
  /\ UNCHANGED <<page, connected, greeted, course, mishaps, member, unanswered, marks>>

TakeQueueJoin ==
  /\ Take("queue.join")
  /\ seeking' = (seeking \/ (~waiting /\ match = None))
  /\ UNCHANGED <<down, jobs, waiting, questions, outOfTurn>>

\* A player who has just been paired is told that he left, and is in a match.
TakeQueueLeave ==
  /\ Take("queue.leave")
  /\ outOfTurn' = (outOfTurn \/ match # None)
  /\ seeking' = FALSE /\ waiting' = FALSE
  /\ Emit(Word("queue.left"))
  /\ UNCHANGED <<jobs, questions>>

\* The lock is taken, the row written and the page told; a write that fails is
\* EndMatch.
TakeSubmit ==
  /\ Take("code.submit")
  /\ LET m == Head(up).match IN
     \/ /\ m = match /\ state = "LIVE" /\ m \notin jobs
        /\ jobs' = jobs \cup {m}
        /\ EmitAll(<<Hold(m), Word("submission.ack")>>)
     \/ /\ m # match \/ state # "LIVE" \/ m \in jobs
        /\ UNCHANGED <<down, jobs>>
  /\ UNCHANGED <<seeking, waiting, questions, outOfTurn>>

TakeRejoin ==
  /\ Take("match.rejoin")
  /\ LET m == Head(up).match IN
     \/ /\ m = match
        /\ Emit(Message("match.resync", m, state))
        /\ UNCHANGED lookups
     \/ /\ m # match
        /\ lookups' = lookups \cup {m}
        /\ Silent
  /\ UNCHANGED <<jobs, seeking, waiting, joining, outOfTurn>>

TakeChallengeJoin ==
  /\ Take("challenge.join")
  /\ joining' = (joining \/ match = None)
  /\ UNCHANGED <<down, jobs, seeking, waiting, lookups, outOfTurn>>
------------------------------------------------------------------------------
(* The gateway at work.                                                    *)

WhileAtWork == UNCHANGED <<page, connected, greeted, up, mishaps, member, strayed>>
AtWork == WhileAtWork /\ UNCHANGED startMissed

\* Seeded fault: only a match that is still in memory is answered.
AnswerRejoinFromMemory(m) ==
  /\ m \in lookups
  /\ lookups' = lookups \ {m}
  /\ Silent
  /\ AtWork
  /\ UNCHANGED <<outOfTurn, course, jobs, seeking, waiting, joining, unanswered>>

\* The row's outcome, or CANCELED if it has none yet.  For a match without a row
\* there is an error, which the page notes and does nothing about.
AnswerRejoin(m) ==
  /\ m \in lookups
  /\ lookups' = lookups \ {m}
  /\ IF row[m] = "none" THEN Silent ELSE Emit(About("match.end", m))
  /\ outOfTurn' = (outOfTurn \/ m \in settling \/ match # None)
  /\ AtWork
  /\ UNCHANGED <<course, jobs, seeking, waiting, joining, unanswered>>

\* Every two seconds; one that tells the page nothing new is left out.
Status ==
  /\ seeking /\ match = None /\ connected
  /\ phase # "queued" /\ ~onItsWay(Word("queue.status"), down)
  /\ Emit(Word("queue.status"))
  /\ AtWork
  /\ UNCHANGED <<gateway, outOfTurn, unanswered>>

CreateMatch ==
  /\ made < MaxMatches
  /\ made' = made + 1
  /\ match' = made + 1 /\ state' = "FOUND"
  /\ seeking' = FALSE
  /\ UNCHANGED <<row, settling>>

Pair ==
  /\ seeking /\ match = None /\ connected
  /\ CreateMatch
  /\ AtWork
  /\ UNCHANGED <<down, jobs, waiting, questions, outOfTurn, unanswered>>

\* The friend joins; that this player is connected and in no match is all it takes.
FriendJoins ==
  /\ member /\ match = None /\ connected
  /\ CreateMatch
  /\ waiting' = FALSE
  /\ AtWork
  /\ UNCHANGED <<down, jobs, questions, outOfTurn, unanswered>>

\* The row is read, and only then who is in a match.
AnswerChallengeJoin ==
  /\ joining
  /\ joining' = FALSE
  /\ \/ /\ waiting' = TRUE
        /\ Emit(Word("challenge.waiting"))
        /\ outOfTurn' = (outOfTurn \/ match # None)
        /\ UNCHANGED <<course, seeking>>
     \/ /\ match = None /\ connected
        /\ CreateMatch
        /\ waiting' = FALSE
        /\ UNCHANGED <<down, outOfTurn>>
  /\ AtWork
  /\ UNCHANGED <<jobs, lookups, unanswered>>

Advance(from, to, message) ==
  /\ state = from
  /\ Len(down) < MaxOnTheWay
  /\ state' = to
  /\ Emit(message)
  /\ WhileAtWork
  /\ UNCHANGED <<match, made, settling, jobs, seeking, waiting, questions, outOfTurn,
                 unanswered>>

Open ==
  /\ Advance("FOUND", "ACCEPTING", About("match.found", match))
  /\ UNCHANGED <<row, startMissed>>
CountDown ==
  /\ Advance("ACCEPTING", "COUNTDOWN", Word("match.countdown"))
  /\ UNCHANGED <<row, startMissed>>
GoLive ==
  /\ Advance("COUNTDOWN", "LIVE", About("match.start", match))
  /\ row' = [row EXCEPT ![match] = "LIVE"]
  /\ startMissed' = (startMissed \/ ~connected)

Over ==
  /\ settling' = settling \cup {match}
  /\ match' = None /\ state' = "none"
  /\ UNCHANGED <<made, row>>

EndMatch ==
  /\ match # None /\ state # "FOUND"
  /\ Over
  /\ AtWork
  /\ UNCHANGED <<down, jobs, seeking, waiting, questions, outOfTurn, unanswered>>

\* By then the player may be in another match, and the page takes it for that one's.
TellEnd(m) ==
  /\ m \in settling
  /\ settling' = settling \ {m}
  /\ row' = [row EXCEPT ![m] = IF @ = "LIVE" THEN "over" ELSE @]
  /\ Emit(About("match.end", m))
  /\ outOfTurn' = (outOfTurn \/ match # None)
  /\ unanswered' = (unanswered \/ ~connected)
  /\ AtWork
  /\ UNCHANGED <<match, state, made, jobs, seeking, waiting, questions>>

Verdict(m) ==
  /\ m \in jobs
  /\ jobs' = jobs \ {m}
  /\ EmitAll(IF m = match THEN <<Word("submission.verdict"), HoldOver>>
             ELSE <<Word("submission.verdict")>>)
  /\ unanswered' = (unanswered \/ ~connected)
  /\ AtWork
  /\ UNCHANGED <<course, seeking, waiting, questions, outOfTurn>>

\* A submission that throws voids the match, and has no verdict.
Throw(m) ==
  /\ m \in jobs
  /\ jobs' = jobs \ {m}
  /\ IF m = match THEN Over ELSE UNCHANGED course
  /\ unanswered' = TRUE
  /\ AtWork
  /\ UNCHANGED <<down, seeking, waiting, questions, outOfTurn>>
------------------------------------------------------------------------------
PlayerNext ==
  Play \/ Cancel \/ Submit \/ Rematch \/ Hub \/ LeaveChallenge
PageNext ==
  \/ Connect \/ Poll
  \/ HearStatus \/ HearPhase \/ HearFound \/ HearStart \/ HearResync \/ HearSubmission
  \/ HearJudging \/ HearEnd
GatewayHears ==
  TakeQueueJoin \/ TakeQueueLeave \/ TakeSubmit \/ TakeRejoin \/ TakeChallengeJoin
GatewayAnswers == AnswerChallengeJoin \/ \E m \in Id : AnswerRejoin(m)
MatchNext ==
  \/ Status \/ Pair \/ FriendJoins \/ Open \/ CountDown \/ GoLive \/ EndMatch
  \/ \E m \in Id : TellEnd(m) \/ Verdict(m) \/ Throw(m)
Next ==
  \/ PlayerNext \/ PageNext \/ GatewayHears \/ GatewayAnswers \/ MatchNext
  \/ Break \/ Reload \/ Restart

Spec == Init /\ [][Next]_vars
------------------------------------------------------------------------------
TypeOK ==
  /\ entry \in {"lobby", "hub", "challenge"} /\ phase \in Phase
  /\ {shown, problem, matchRef, ending, match} \subseteq Id \cup {None}
  /\ inFlight \in BOOLEAN /\ holding \in BOOLEAN /\ seeking \in BOOLEAN /\ waiting \in BOOLEAN
  /\ joining \in BOOLEAN /\ member \in BOOLEAN
  /\ outOfTurn \in BOOLEAN /\ unanswered \in BOOLEAN
  /\ startMissed \in BOOLEAN /\ strayed \in BOOLEAN
  /\ connected \in BOOLEAN /\ greeted \in BOOLEAN
  /\ state \in Running \cup {"none"} /\ (match = None <=> state = "none")
  /\ made \in 0 .. MaxMatches /\ mishaps \in 0 .. MaxMishaps
  /\ row \in [Id -> {"none", "LIVE", "over"}]
  /\ jobs \subseteq Id /\ settling \subseteq Id /\ lookups \subseteq Id
  /\ \A message \in ToSet(up) :
       message.kind \in {"match.rejoin", "code.submit"} => message.match \in Id

\* Nothing is under way, and nothing is being worked on.
quiet ==
  connected /\ up = <<>> /\ down = <<>> /\ lookups = {} /\ ~joining /\ settling = {}

\* Once everything has arrived, a player in a match sees that match, with its problem
\* if it is live, in the phase it is in: through breaks, reloads and restarts.  The
\* exceptions are an answer that was overtaken by what it was about, and a player who
\* has closed an ending of another match over this one.
ScreenFollowsTheMatch ==
  quiet /\ match # None /\ state # "FOUND" /\ ~outOfTurn /\ ~strayed =>
    shown = match /\ phase = phaseOf(state) /\ (state = "LIVE" => problem = match)

\* A page that knows the match it is in, and asks, does not stay in a match that is
\* over - if the match got as far as having a row.  (A page that was loaded again
\* does not know, and one with a challenge does not ask.)
RememberedMatchIsAnswered ==
  quiet /\ matchRef # None /\ entry # "challenge" =>
    matchRef = match \/ row[matchRef] = "none"

\* The Submit button of a live match works again when the judge has answered.  Two things
\* lock it.  The submission, and the hold of the match, do so no longer, unless a verdict
\* or the end of a hold or of a match never reached the page.  The ending of an earlier
\* match does not, unless match.start, which alone takes it off the screen, was missed, or
\* the page was told of the ending out of turn.
SubmitIsNotDead ==
  quiet /\ phase = "live" /\ jobs = {} /\ ~unanswered =>
    ~inFlight /\ ~holding /\ (ending = None \/ startMissed \/ outOfTurn)
==============================================================================
