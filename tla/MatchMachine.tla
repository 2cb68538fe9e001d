----------------------------- MODULE MatchMachine -----------------------------
(***************************************************************************)
(* The match lifecycle, packages/core/src/match-machine.ts.                *)
(*                                                                         *)
(* The code is a pure function transition(context, event); here each field *)
(* of MatchContext is a variable and each event type an action.  An event  *)
(* the function rejects leaves the context as it was, so a rejected event  *)
(* is an action that is not enabled.                                       *)
(*                                                                         *)
(* A submission is identified by its side and its receipt stamp, as the    *)
(* only caller builds the id from these (index.ts, runSubmission).         *)
(***************************************************************************)
EXTENDS Integers, Sequences

CONSTANT MaxMs           \* the modelled clock stops here: bounds the stamps

ASSUME MaxMsAssumption == MaxMs \in Nat

VARIABLES
  state,                 \* MatchContext.state
  accepted,              \* MatchContext.accepted
  connected,             \* MatchContext.connected
  outstanding,           \* keys of MatchContext.outstanding
  solved,                \* MatchContext.solved, in the order of the verdicts
  clockExpired,          \* MatchContext.clockExpired
  forfeited,             \* MatchContext.forfeited, "NONE" for null
  outcome,               \* MatchContext.outcome, NoOutcome for null
  now                    \* the gateway's monotonic clock in whole milliseconds

context == <<state, accepted, connected, outstanding, solved, clockExpired,
             forfeited, outcome>>
machineVars == <<state, accepted, connected, outstanding, solved, clockExpired,
                 forfeited, outcome, now>>
------------------------------------------------------------------------------
Side == {"p1", "p2"}
Other(s) == IF s = "p1" THEN "p2" ELSE "p1"

Submission == [side : Side, receiptMs : 0..MaxMs]
Verdicts == {"ACCEPTED", "REJECTED", "INTERNAL_ERROR"}

MatchState == {"QUEUED", "MATCHED", "ACCEPTING", "COUNTDOWN", "LIVE", "JUDGING",
               "ENDED", "ABANDONED"}
isTerminal == state \in {"ENDED", "ABANDONED"}

NoOutcome == [kind |-> "NONE", winner |-> "NONE", reason |-> "NONE"]
Win(s, why) == [kind |-> "WIN", winner |-> s, reason |-> why]
Draw == [kind |-> "DRAW", winner |-> "NONE", reason |-> "NOBODY_SOLVED"]
Canceled(why) == [kind |-> "CANCELED", winner |-> "NONE", reason |-> why]
Void == [kind |-> "VOID", winner |-> "NONE", reason |-> "INTERNAL_ERROR"]

MatchOutcome ==
     {Win(s, why) : s \in Side, why \in {"SOLVED", "FORFEIT", "OPPONENT_ABANDONED"}}
\cup {Canceled(why) : why \in {"BOTH_ABANDONED", "NEVER_STARTED"}}
\cup {Draw, Void}

initialContext ==
  /\ state = "QUEUED"
  /\ accepted = [s \in Side |-> FALSE]
  /\ connected = [s \in Side |-> TRUE]
  /\ outstanding = {}
  /\ solved = <<>>
  /\ clockExpired = FALSE
  /\ forfeited = "NONE"
  /\ outcome = NoOutcome

Init == initialContext /\ now = 0
------------------------------------------------------------------------------
Playable == {"MATCHED", "ACCEPTING", "COUNTDOWN", "LIVE", "JUDGING"}

\* The table of the states each event is meaningful in.
LegalIn ==
  [MATCH_FOUND         |-> {"QUEUED"},
   ACCEPT_WINDOW_OPEN  |-> {"MATCHED"},
   PLAYER_ACCEPTED     |-> {"ACCEPTING"},
   ACCEPT_TIMEOUT      |-> {"ACCEPTING"},
   COUNTDOWN_COMPLETE  |-> {"COUNTDOWN"},
   SUBMISSION_RECEIVED |-> {"LIVE", "JUDGING"},
   VERDICT             |-> {"JUDGING"},
   CLOCK_EXPIRED       |-> {"LIVE", "JUDGING"},
   PLAYER_DISCONNECTED |-> Playable,
   PLAYER_RECONNECTED  |-> Playable,
   GRACE_EXPIRED       |-> Playable]

\* Seeded fault: the first correct verdict wins, whatever the receipts say.
FirstJudged(q) == q[1]

\* The first element after a stable sort of q by receiptMs: the smallest stamp
\* and, between equal stamps, the one whose verdict came first.
FirstReceived(q) ==
  q[CHOOSE i \in DOMAIN q :
      \A j \in DOMAIN q :
        \/ q[i].receiptMs < q[j].receiptMs
        \/ q[i].receiptMs = q[j].receiptMs /\ i <= j]

\* Seeded fault: a correct verdict ends the match without waiting for the rest.
ResolveAtFirstVerdict(waiting, right, expired) ==
  \/ /\ right # <<>>
     /\ state' = "ENDED"
     /\ outcome' = Win(FirstReceived(right).side, "SOLVED")
  \/ /\ right = <<>>
     /\ expired
     /\ state' = "ENDED"
     /\ outcome' = Draw
  \/ /\ right = <<>>
     /\ ~expired
     /\ state' = "LIVE"
     /\ UNCHANGED outcome

\* Seeded fault: back to play although the clock has run out.
ResolveForgettingClock(waiting, right, expired) ==
  \/ /\ waiting # {}
     /\ UNCHANGED <<state, outcome>>
  \/ /\ waiting = {}
     /\ right # <<>>
     /\ state' = "ENDED"
     /\ outcome' = Win(FirstReceived(right).side, "SOLVED")
  \/ /\ waiting = {}
     /\ right = <<>>
     /\ state' = "LIVE"
     /\ UNCHANGED outcome

\* Decide whether a match that has drained JUDGING is over, and how, from the
\* submissions still waiting, the correct ones and whether the clock ran out.
Resolve(waiting, right, expired) ==
  \/ /\ waiting # {}
     /\ UNCHANGED <<state, outcome>>
  \/ /\ waiting = {}
     /\ right # <<>>
     /\ state' = "ENDED"
     /\ outcome' = Win(FirstReceived(right).side, "SOLVED")
  \/ /\ waiting = {}
     /\ right = <<>>
     /\ expired
     /\ state' = "ENDED"
     /\ outcome' = Draw
  \/ /\ waiting = {}
     /\ right = <<>>
     /\ ~expired
     /\ state' = "LIVE"
     /\ UNCHANGED outcome
------------------------------------------------------------------------------
MatchFound ==
  /\ state \in LegalIn.MATCH_FOUND
  /\ state' = "MATCHED"
  /\ UNCHANGED <<accepted, connected, outstanding, solved, clockExpired,
                 forfeited, outcome>>

AcceptWindowOpen ==
  /\ state \in LegalIn.ACCEPT_WINDOW_OPEN
  /\ state' = "ACCEPTING"
  /\ UNCHANGED <<accepted, connected, outstanding, solved, clockExpired,
                 forfeited, outcome>>

\* A second accept from the same side changes nothing.
PlayerAccepted(s) ==
  /\ state \in LegalIn.PLAYER_ACCEPTED
  /\ ~accepted[s]
  /\ accepted' = [accepted EXCEPT ![s] = TRUE]
  /\ state' = IF accepted[Other(s)] THEN "COUNTDOWN" ELSE state
  /\ UNCHANGED <<connected, outstanding, solved, clockExpired, forfeited, outcome>>

\* The single player who accepted wins; with none the match never started.
AcceptTimeout ==
  /\ state \in LegalIn.ACCEPT_TIMEOUT
  /\ state' = "ABANDONED"
  /\ outcome' = IF accepted["p1"] /\ ~accepted["p2"] THEN Win("p1", "OPPONENT_ABANDONED")
                ELSE IF accepted["p2"] /\ ~accepted["p1"] THEN Win("p2", "OPPONENT_ABANDONED")
                ELSE Canceled("NEVER_STARTED")
  /\ UNCHANGED <<accepted, connected, outstanding, solved, clockExpired, forfeited>>

CountdownComplete ==
  /\ state \in LegalIn.COUNTDOWN_COMPLETE
  /\ state' = "LIVE"
  /\ UNCHANGED <<accepted, connected, outstanding, solved, clockExpired,
                 forfeited, outcome>>

\* Seeded fault: stamped when queued, a millisecond later, not when received.
StampedWhenQueued(s) == [side |-> s, receiptMs |-> now + 1]

\* The id of a submission of side s received now.
Stamped(s) == [side |-> s, receiptMs |-> now]

\* now < MaxMs only keeps the bounded clock from stopping the judge.
SubmissionReceived(s) ==
  /\ state \in LegalIn.SUBMISSION_RECEIVED
  /\ now < MaxMs
  /\ Stamped(s) \notin outstanding
  /\ outstanding' = outstanding \cup {Stamped(s)}
  /\ state' = "JUDGING"
  /\ UNCHANGED <<accepted, connected, solved, clockExpired, forfeited, outcome>>

\* No verdict is produced within the millisecond the submission was received
\* in, so an id is never reused after its verdict.  A verdict the judge failed
\* to produce ends the match at once.
Verdict(sub, verdict) ==
  /\ state \in LegalIn.VERDICT
  /\ sub \in outstanding
  /\ sub.receiptMs < now
  /\ outstanding' = outstanding \ {sub}
  /\ \/ /\ verdict = "INTERNAL_ERROR"
        /\ state' = "ENDED"
        /\ outcome' = Void
        /\ UNCHANGED solved
     \/ /\ verdict # "INTERNAL_ERROR"
        /\ solved' = IF verdict = "ACCEPTED" THEN Append(solved, sub) ELSE solved
        /\ Resolve(outstanding', solved', clockExpired)
  /\ UNCHANGED <<accepted, connected, clockExpired, forfeited>>

\* Seeded fault: the clock ends the match in JUDGING too.
ClockExpiredEndsJudging ==
  /\ state \in LegalIn.CLOCK_EXPIRED
  /\ clockExpired' = TRUE
  /\ state' = "ENDED"
  /\ outcome' = Draw
  /\ UNCHANGED <<accepted, connected, outstanding, solved, forfeited>>

ClockExpired ==
  /\ state \in LegalIn.CLOCK_EXPIRED
  /\ clockExpired' = TRUE
  /\ IF state = "LIVE" THEN Resolve(outstanding, solved, TRUE)
     ELSE UNCHANGED <<state, outcome>>
  /\ UNCHANGED <<accepted, connected, outstanding, solved, forfeited>>

PlayerDisconnected(s) ==
  /\ state \in LegalIn.PLAYER_DISCONNECTED
  /\ connected' = [connected EXCEPT ![s] = FALSE]
  /\ UNCHANGED <<state, accepted, outstanding, solved, clockExpired, forfeited, outcome>>

PlayerReconnected(s) ==
  /\ state \in LegalIn.PLAYER_RECONNECTED
  /\ connected' = [connected EXCEPT ![s] = TRUE]
  /\ UNCHANGED <<state, accepted, outstanding, solved, clockExpired, forfeited, outcome>>

\* Seeded fault: the opponent wins even if gone as well.
GraceExpiredAlwaysForfeit(s) ==
  /\ state \in LegalIn.GRACE_EXPIRED
  /\ connected' = [connected EXCEPT ![s] = FALSE]
  /\ forfeited' = s
  /\ state' = "ENDED"
  /\ outcome' = Win(Other(s), "FORFEIT")
  /\ UNCHANGED <<accepted, outstanding, solved, clockExpired>>

GraceExpired(s) ==
  /\ state \in LegalIn.GRACE_EXPIRED
  /\ connected' = [connected EXCEPT ![s] = FALSE]
  /\ forfeited' = s
  /\ \/ /\ ~connected[Other(s)]
        /\ state' = "ABANDONED"
        /\ outcome' = Canceled("BOTH_ABANDONED")
     \/ /\ connected[Other(s)]
        /\ state' = "ENDED"
        /\ outcome' = Win(Other(s), "FORFEIT")
  /\ UNCHANGED <<accepted, outstanding, solved, clockExpired>>

\* The millisecond changes.
Tick ==
  /\ now < MaxMs
  /\ now' = now + 1
  /\ UNCHANGED context
------------------------------------------------------------------------------
Event ==
  \/ MatchFound
  \/ AcceptWindowOpen
  \/ AcceptTimeout
  \/ CountdownComplete
  \/ ClockExpired
  \/ \E s \in Side :
       \/ PlayerAccepted(s)
       \/ SubmissionReceived(s)
       \/ PlayerDisconnected(s)
       \/ PlayerReconnected(s)
       \/ GraceExpired(s)
  \/ \E sub \in Submission, verdict \in Verdicts : Verdict(sub, verdict)

Next == (Event /\ UNCHANGED now) \/ Tick

Spec == Init /\ [][Next]_machineVars
------------------------------------------------------------------------------
Solved == {solved[i] : i \in DOMAIN solved}

\* Every field has its type, no stamp lies in the future, and the outcome is
\* set exactly when the match is at rest.
TypeOK ==
  /\ state \in MatchState
  /\ accepted \in [Side -> BOOLEAN]
  /\ connected \in [Side -> BOOLEAN]
  /\ outstanding \subseteq [side : Side, receiptMs : 0..now]
  /\ solved \in Seq([side : Side, receiptMs : 0..now])
  /\ clockExpired \in BOOLEAN
  /\ forfeited \in Side \cup {"NONE"}
  /\ outcome \in MatchOutcome \cup {NoOutcome}
  /\ isTerminal <=> outcome # NoOutcome
  /\ now \in 0..MaxMs

\* A match won by solving has heard every verdict it was owed, and no correct
\* submission was received before the winner's: neither the order of the
\* verdicts nor a slow judge decides it (match-machine.ts:145-158).
EarliestCorrectWins ==
  outcome.reason = "SOLVED" =>
    /\ outstanding = {}
    /\ \E sub \in Solved :
         /\ sub.side = outcome.winner
         /\ \A other \in Solved : sub.receiptMs <= other.receiptMs

\* Before the end, the match is in JUDGING exactly while a verdict is owed;
\* outside JUDGING it never sits on a correct submission, and it is never
\* playable once the clock has run out.
HoldIsExact ==
  /\ state = "JUDGING" => outstanding # {}
  /\ ~isTerminal /\ state # "JUDGING" =>
       outstanding = {} /\ solved = <<>> /\ ~clockExpired

\* A draw is called only on an expired clock, with every verdict heard and
\* none of them correct: an expired clock does not rob a submission that was
\* already being judged (match-machine.ts:266-271).
DrawIsEarned ==
  outcome.kind = "DRAW" => clockExpired /\ outstanding = {} /\ solved = <<>>

\* A walkover goes to the player who was there: the one who accepted, or the
\* one still connected when the other's grace ran out; with nobody there the
\* match is canceled (match-machine.ts:206-214, 281-293).
WalkoverGoesToThePresentPlayer ==
  /\ outcome.reason = "OPPONENT_ABANDONED" =>
       accepted[outcome.winner] /\ ~accepted[Other(outcome.winner)]
  /\ outcome.reason = "FORFEIT" =>
       /\ forfeited = Other(outcome.winner)
       /\ connected[outcome.winner] /\ ~connected[forfeited]
  /\ outcome.reason = "BOTH_ABANDONED" => \A s \in Side : ~connected[s]
  /\ outcome.reason = "NEVER_STARTED" => \A s \in Side : ~accepted[s]

\* A match at rest stays as it is, whatever timer or verdict comes late.
EndIsFinal == [][isTerminal => UNCHANGED context]_machineVars

\* The machine keeps the referee's promise, with the map of outstanding
\* submissions as the pending ones and the solved list as the correct ones.
R == INSTANCE Referee WITH pending <- outstanding, correct <- Solved, ruling <- outcome
KeepsThePromise == R!Spec
==============================================================================
