------------------------------ MODULE LiveMatch ------------------------------
(***************************************************************************)
(* A running match, apps/gateway/src/live-match.ts, with the parts of      *)
(* index.ts and submissions.ts that drive it: the submit handler, the      *)
(* database rows and the settlement.                                       *)
(*                                                                         *)
(* The gateway is one event loop.  A handler runs without interruption up  *)
(* to an await that really waits - for the log to flush, for an INSERT,    *)
(* for the log to close, for the judge - and everything else may run       *)
(* there.  A caller waiting at such a point is a record in flushes,        *)
(* inserting or closing; the action that takes it out is the rest of its   *)
(* code up to the next wait.  An await that only hands over to microtasks  *)
(* (log.record) is not a point where anything else can run.                *)
(***************************************************************************)
EXTENDS MatchMachine, FiniteSets

CONSTANT DbMayFail       \* TRUE: any INSERT may be refused

ASSUME DbMayFailAssumption == DbMayFail \in BOOLEAN

VARIABLES
  flushes,               \* callers awaiting log.checkpoint(), first in first out
  inserting,             \* callers awaiting onBeforeLive (persistMatch)
  closing,               \* callers awaiting log.close() in finish()
  timers,                \* each timer is off, armed, or due but not yet run
  clockRunning,          \* this.clock is set
  jobs,                  \* how far runSubmission has come with each submission
  inFlight,              \* the one-at-a-time lock of submissions.ts
  row,                   \* the Match row: none, or its state column
  journal,               \* what the replay log tells of the submissions
  logClosed,             \* log.close() was called: later records are lost
  settling,              \* settleMatch calls that have not finished
  wire                   \* match.start and match.end as sent to the players

liveVars == <<flushes, inserting, closing, timers, clockRunning, jobs, inFlight,
              row, journal, logClosed, settling, wire>>
vars == <<machineVars, liveVars>>
------------------------------------------------------------------------------
\* One grace timer per side, named after it.
Timer == {"accept", "countdown", "clock"} \cup Side

NoSubmission == [side |-> "NONE", receiptMs |-> 0]
Caller(by) == [by |-> by, sub |-> NoSubmission]
CallerFor(by, sub) == [by |-> by, sub |-> sub]
Callers ==
     {Caller(by) : by \in {"open", "window", "accept", "countdown", "timer"}}
\cup {CallerFor(by, sub) : by \in {"submit", "verdict"}, sub \in Submission}

Stage == {"none", "registering", "creating", "judging", "done"}
Fact == [of : {"received", "verdict"}, sub : Submission]
Received(sub) == [of |-> "received", sub |-> sub]
Heard(sub) == [of |-> "verdict", sub |-> sub]

LiveInit ==
  /\ Init
  /\ flushes = <<>>
  /\ inserting = {}
  /\ closing = {}
  /\ timers = [t \in Timer |-> "off"]
  /\ clockRunning = FALSE
  /\ jobs = [sub \in Submission |-> "none"]
  /\ inFlight = [s \in Side |-> FALSE]
  /\ row = "none"
  /\ journal = {}
  /\ logClosed = FALSE
  /\ settling = 0
  /\ wire = <<>>

Switch(t, to) == timers' = [timers EXCEPT ![t] = to]

\* apply(): after a transition that changed the state the caller waits for the
\* log to flush; any other event returns at once.
Checkpoint(caller) ==
  flushes' = IF state' # state THEN Append(flushes, caller) ELSE flushes

\* A record reaches the log unless the log was closed before it.
Record(fact) == journal' = IF logClosed THEN journal ELSE journal \cup {fact}
------------------------------------------------------------------------------
(* What a caller still does once its apply() returns.                      *)

\* runSubmission goes on to runner.run: the lock is taken only now.
StartJob(sub) ==
  /\ Record(Received(sub))
  /\ jobs' = [jobs EXCEPT ![sub] = "creating"]
  /\ inFlight' = [inFlight EXCEPT ![sub.side] = TRUE]

Resume(caller) ==
  \/ caller.by = "submit" /\ StartJob(caller.sub)
  \/ caller.by # "submit" /\ UNCHANGED <<journal, jobs, inFlight>>
------------------------------------------------------------------------------
(* open(), and the handlers of the players' own messages.                  *)

Open ==
  /\ MatchFound
  /\ Checkpoint(Caller("open"))
  /\ UNCHANGED <<now, inserting, closing, timers, clockRunning, jobs, inFlight, row,
                 journal, logClosed, settling, wire>>

\* match.accept: a refused or repeated accept leaves the machine alone.
Accept(s) ==
  /\ PlayerAccepted(s)
  /\ Checkpoint(Caller("accept"))
  /\ UNCHANGED <<now, inserting, closing, timers, clockRunning, jobs, inFlight, row,
                 journal, logClosed, settling, wire>>

\* code.submit in LIVE: the caller waits for the flush before it takes the lock.
SubmitWhileLive(s) ==
  /\ state = "LIVE"
  /\ ~inFlight[s]
  /\ SubmissionReceived(s)
  /\ Checkpoint(CallerFor("submit", Stamped(s)))
  /\ jobs' = [jobs EXCEPT ![Stamped(s)] = "registering"]
  /\ UNCHANGED <<now, inserting, closing, timers, clockRunning, inFlight, row, journal,
                 logClosed, settling, wire>>

\* code.submit in JUDGING: the state does not change, so nothing is awaited.
SubmitWhileJudging(s) ==
  /\ state = "JUDGING"
  /\ ~inFlight[s]
  /\ SubmissionReceived(s)
  /\ StartJob(Stamped(s))
  /\ UNCHANGED <<now, flushes, inserting, closing, timers, clockRunning, row, logClosed,
                 settling, wire>>

\* The last socket of a player closes while the match is on.
Disconnect(s) ==
  /\ ~isTerminal
  /\ connected[s]
  /\ PlayerDisconnected(s)
  /\ Switch(s, "armed")
  /\ UNCHANGED <<now, flushes, inserting, closing, clockRunning, jobs, inFlight, row,
                 journal, logClosed, settling, wire>>

\* Seeded fault: coming back does not stop the grace timer.
ReconnectKeepingTimer(s) ==
  /\ ~isTerminal
  /\ ~connected[s]
  /\ PlayerReconnected(s)
  /\ UNCHANGED <<now, flushes, inserting, closing, timers, clockRunning, jobs, inFlight,
                 row, journal, logClosed, settling, wire>>

Reconnect(s) ==
  /\ ~isTerminal
  /\ ~connected[s]
  /\ PlayerReconnected(s)
  /\ Switch(s, "off")
  /\ UNCHANGED <<now, flushes, inserting, closing, clockRunning, jobs, inFlight, row,
                 journal, logClosed, settling, wire>>
------------------------------------------------------------------------------
(* The flush of a transition completes and onEnter runs.  It looks at the  *)
(* state as it is NOW, which another event may have moved on since.        *)

Flushed(caller) ==
  /\ flushes # <<>>
  /\ caller = Head(flushes)

\* open() goes on to its second event, and waits again.
OpenAcceptWindow ==
  /\ Flushed(Caller("open"))
  /\ AcceptWindowOpen
  /\ flushes' = Append(Tail(flushes), Caller("window"))
  /\ UNCHANGED <<now, inserting, closing, timers, clockRunning, jobs, inFlight, row,
                 journal, logClosed, settling, wire>>

EnterAccepting(caller) ==
  /\ Flushed(caller)
  /\ state = "ACCEPTING"
  /\ flushes' = Tail(flushes)
  /\ Switch("accept", "armed")
  /\ Resume(caller)
  /\ UNCHANGED <<machineVars, inserting, closing, clockRunning, row, logClosed,
                 settling, wire>>

EnterCountdown(caller) ==
  /\ Flushed(caller)
  /\ state = "COUNTDOWN"
  /\ flushes' = Tail(flushes)
  /\ Switch("countdown", "armed")
  /\ Resume(caller)
  /\ UNCHANGED <<machineVars, inserting, closing, clockRunning, row, logClosed,
                 settling, wire>>

\* Seeded fault: the clock and match.start do not wait for the row.
EnterLiveWithoutWaiting(caller) ==
  /\ Flushed(caller)
  /\ state = "LIVE"
  /\ ~clockRunning
  /\ flushes' = Tail(flushes)
  /\ inserting' = inserting \cup {caller}
  /\ clockRunning' = TRUE
  /\ Switch("clock", "armed")
  /\ UNCHANGED <<machineVars, closing, jobs, inFlight, row, journal, logClosed,
                 settling, wire>>

\* The first entry into LIVE awaits the match row.
EnterLive(caller) ==
  /\ Flushed(caller)
  /\ state = "LIVE"
  /\ ~clockRunning
  /\ flushes' = Tail(flushes)
  /\ inserting' = inserting \cup {caller}
  /\ UNCHANGED <<machineVars, closing, timers, clockRunning, jobs, inFlight, row, journal,
                 logClosed, settling, wire>>

\* finish(): every timer of the match is cleared, except the countdown's own
\* sleep, which is none of this.timers; then the log is closed.
EnterOver(caller) ==
  /\ Flushed(caller)
  /\ isTerminal
  /\ flushes' = Tail(flushes)
  /\ timers' = [t \in Timer |-> IF t = "countdown" THEN timers[t] ELSE "off"]
  /\ logClosed' = TRUE
  /\ closing' = closing \cup {caller}
  /\ UNCHANGED <<machineVars, inserting, clockRunning, jobs, inFlight, row, journal,
                 settling, wire>>

\* JUDGING, or LIVE again with the clock running: nothing to set up.
EnterNothing(caller) ==
  /\ Flushed(caller)
  /\ state = "JUDGING" \/ (state = "LIVE" /\ clockRunning)
  /\ flushes' = Tail(flushes)
  /\ Resume(caller)
  /\ UNCHANGED <<machineVars, inserting, closing, timers, clockRunning, row, logClosed,
                 settling, wire>>

\* persistMatch returns, its error swallowed, and the clock starts - without
\* another look at the state.  The id is the primary key: a second row fails.
InsertDone(caller) ==
  /\ caller \in inserting
  /\ inserting' = inserting \ {caller}
  /\ \/ row' = IF row = "none" THEN "LIVE" ELSE row
     \/ DbMayFail /\ UNCHANGED row
  /\ clockRunning' = TRUE
  /\ Switch("clock", "armed")
  /\ wire' = Append(wire, "start")
  /\ Resume(caller)
  /\ UNCHANGED <<machineVars, flushes, closing, logClosed, settling>>

\* The log is closed: onFinished starts the settlement.
CloseDone(caller) ==
  /\ caller \in closing
  /\ closing' = closing \ {caller}
  /\ settling' = settling + 1
  /\ Resume(caller)
  /\ UNCHANGED <<machineVars, flushes, inserting, timers, clockRunning, row, logClosed,
                 wire>>

\* Seeded fault: whatever is not a win is filed as abandoned.
settledUnlessWon == IF outcome.kind = "WIN" THEN "FINISHED" ELSE "ABANDONED"

\* The state column settleMatch writes.
settledState == IF outcome.kind = "CANCELED" THEN "ABANDONED" ELSE "FINISHED"

\* Seeded fault: match.end is left to the rating update, which a canceled
\* match does not have.
SettleOnlyRated ==
  /\ settling > 0
  /\ settling' = settling - 1
  /\ row' = IF row = "none" THEN row ELSE settledState
  /\ wire' = IF outcome.kind = "CANCELED" THEN wire ELSE Append(wire, "end")
  /\ UNCHANGED <<machineVars, flushes, inserting, closing, timers, clockRunning, jobs,
                 inFlight, journal, logClosed>>

\* settleMatch: updateMany touches the row only if there is one; match.end is
\* sent in any case.
Settle ==
  /\ settling > 0
  /\ settling' = settling - 1
  /\ row' = IF row = "none" THEN row ELSE settledState
  /\ wire' = Append(wire, "end")
  /\ UNCHANGED <<machineVars, flushes, inserting, closing, timers, clockRunning, jobs,
                 inFlight, journal, logClosed>>
------------------------------------------------------------------------------
(* Timers.  The shortest lasts a second and a flush milliseconds, so a     *)
(* flush that was pending when a timer was armed is over when it is due;   *)
(* a due timer may then fire during any later flush.  The grace of 45      *)
(* seconds outlasts the accept window of 12 and the four beats of the      *)
(* countdown together.                                                     *)

Elapse(t) ==
  /\ timers[t] = "armed"
  /\ flushes = <<>>
  /\ t \in Side => state \notin {"MATCHED", "ACCEPTING", "COUNTDOWN"}
  /\ Switch(t, "due")
  /\ UNCHANGED <<machineVars, flushes, inserting, closing, clockRunning, jobs, inFlight,
                 row, journal, logClosed, settling, wire>>

AcceptTimeoutFires ==
  /\ timers["accept"] = "due"
  /\ AcceptTimeout
  /\ Switch("accept", "off")
  /\ Checkpoint(Caller("timer"))
  /\ UNCHANGED <<now, inserting, closing, clockRunning, jobs, inFlight, row, journal,
                 logClosed, settling, wire>>

CountdownFires ==
  /\ timers["countdown"] = "due"
  /\ CountdownComplete
  /\ Switch("countdown", "off")
  /\ Checkpoint(Caller("countdown"))
  /\ UNCHANGED <<now, inserting, closing, clockRunning, jobs, inFlight, row, journal,
                 logClosed, settling, wire>>

ClockFires ==
  /\ timers["clock"] = "due"
  /\ ClockExpired
  /\ Switch("clock", "off")
  /\ Checkpoint(Caller("timer"))
  /\ UNCHANGED <<now, inserting, closing, clockRunning, jobs, inFlight, row, journal,
                 logClosed, settling, wire>>

GraceFires(s) ==
  /\ timers[s] = "due"
  /\ GraceExpired(s)
  /\ Switch(s, "off")
  /\ Checkpoint(Caller("timer"))
  /\ UNCHANGED <<now, inserting, closing, clockRunning, jobs, inFlight, row, journal,
                 logClosed, settling, wire>>

EventOf(t) == IF t = "accept" THEN "ACCEPT_TIMEOUT"
              ELSE IF t = "countdown" THEN "COUNTDOWN_COMPLETE"
              ELSE IF t = "clock" THEN "CLOCK_EXPIRED"
              ELSE "GRACE_EXPIRED"

\* The machine refuses the event of a timer that comes too late.
TimerRefused(t) ==
  /\ timers[t] = "due"
  /\ state \notin LegalIn[EventOf(t)]
  /\ Switch(t, "off")
  /\ UNCHANGED <<machineVars, flushes, inserting, closing, clockRunning, jobs, inFlight,
                 row, journal, logClosed, settling, wire>>
------------------------------------------------------------------------------
(* runSubmission, from the database row to the verdict.                    *)

\* Submission.matchId is a foreign key.
CreateSubmission(sub) ==
  /\ jobs[sub] = "creating"
  /\ row # "none"
  /\ jobs' = [jobs EXCEPT ![sub] = "judging"]
  /\ UNCHANGED <<machineVars, flushes, inserting, closing, timers, clockRunning, inFlight,
                 row, journal, logClosed, settling, wire>>

\* Seeded fault: the verdict is recorded after it took effect.
ReportThenRecord(sub, verdict) ==
  /\ sub.receiptMs < now
  /\ jobs' = [jobs EXCEPT ![sub] = "done"]
  /\ inFlight' = [inFlight EXCEPT ![sub.side] = FALSE]
  /\ \/ /\ Verdict(sub, verdict)
        /\ Checkpoint(CallerFor("verdict", sub))
        /\ journal' = IF state' \in {"ENDED", "ABANDONED"} THEN journal
                      ELSE journal \cup {Heard(sub)}
     \/ /\ state \notin LegalIn.VERDICT
        /\ UNCHANGED <<context, flushes, journal>>
  /\ UNCHANGED <<now, inserting, closing, timers, clockRunning, row, logClosed, settling,
                 wire>>

\* The lock is released and verdictArrived records the verdict, then applies it.
Report(sub, verdict) ==
  /\ sub.receiptMs < now
  /\ jobs' = [jobs EXCEPT ![sub] = "done"]
  /\ inFlight' = [inFlight EXCEPT ![sub.side] = FALSE]
  /\ Record(Heard(sub))
  /\ \/ /\ Verdict(sub, verdict)
        /\ Checkpoint(CallerFor("verdict", sub))
     \/ /\ state \notin LegalIn.VERDICT
        /\ UNCHANGED <<context, flushes>>
  /\ UNCHANGED <<now, inserting, closing, timers, clockRunning, row, logClosed, settling,
                 wire>>

\* Seeded fault: a failed INSERT of the submission is only logged.
CreateFailsSilently(sub) ==
  /\ jobs[sub] = "creating"
  /\ row = "none" \/ DbMayFail
  /\ jobs' = [jobs EXCEPT ![sub] = "done"]
  /\ inFlight' = [inFlight EXCEPT ![sub.side] = FALSE]
  /\ UNCHANGED <<machineVars, flushes, inserting, closing, timers, clockRunning, row,
                 journal, logClosed, settling, wire>>

\* Without a match row, or without a database, the INSERT throws, and that is
\* reported as our failure.
CreateFails(sub) ==
  /\ jobs[sub] = "creating"
  /\ row = "none" \/ DbMayFail
  /\ Report(sub, "INTERNAL_ERROR")

\* The judge answers, or its 90 s ceiling does.
Judged(sub, verdict) ==
  /\ jobs[sub] = "judging"
  /\ Report(sub, verdict)
------------------------------------------------------------------------------
LiveTick == Tick /\ UNCHANGED liveVars

FlushDone ==
  \/ OpenAcceptWindow
  \/ \E caller \in Callers :
       \/ EnterAccepting(caller)
       \/ EnterCountdown(caller)
       \/ EnterLive(caller)
       \/ EnterOver(caller)
       \/ EnterNothing(caller)

TimerFires(t) ==
  \/ t = "accept" /\ AcceptTimeoutFires
  \/ t = "countdown" /\ CountdownFires
  \/ t = "clock" /\ ClockFires
  \/ t \in Side /\ GraceFires(t)
  \/ TimerRefused(t)

Player(s) ==
  \/ Accept(s)
  \/ SubmitWhileLive(s)
  \/ SubmitWhileJudging(s)
  \/ Disconnect(s)
  \/ Reconnect(s)

Job(sub) ==
  \/ CreateSubmission(sub)
  \/ CreateFails(sub)
  \/ \E verdict \in Verdicts : Judged(sub, verdict)

LiveNext ==
  \/ Open
  \/ \E s \in Side : Player(s)
  \/ FlushDone
  \/ \E caller \in Callers : InsertDone(caller) \/ CloseDone(caller)
  \/ Settle
  \/ \E t \in Timer : Elapse(t) \/ TimerFires(t)
  \/ \E sub \in Submission : Job(sub)
  \/ LiveTick

\* The event loop runs what is ready, timers elapse, and runner.run answers
\* every submission within its ceiling.  The players owe nothing.
Fairness ==
  /\ WF_vars(Open)
  /\ WF_vars(FlushDone)
  /\ \A caller \in Callers : WF_vars(InsertDone(caller)) /\ WF_vars(CloseDone(caller))
  /\ WF_vars(Settle)
  /\ \A t \in Timer : WF_vars(Elapse(t)) /\ WF_vars(TimerFires(t))
  /\ \A sub \in Submission : WF_vars(Job(sub))
  /\ WF_vars(LiveTick)

LiveSpec == LiveInit /\ [][LiveNext]_vars
------------------------------------------------------------------------------
Running == {"registering", "creating", "judging"}

\* Every variable has its type, and the parts agree on how far the match is:
\* the log is closed and a settlement under way only in a match at rest, and a
\* settled row says how the match ended.
LiveTypeOK ==
  /\ TypeOK
  /\ flushes \in Seq(Callers)
  /\ inserting \subseteq Callers /\ closing \subseteq Callers
  /\ timers \in [Timer -> {"off", "armed", "due"}]
  /\ clockRunning \in BOOLEAN
  /\ jobs \in [Submission -> Stage]
  /\ inFlight \in [Side -> BOOLEAN]
  /\ row \in {"none", "LIVE", "FINISHED", "ABANDONED"}
  /\ journal \subseteq Fact
  /\ logClosed \in BOOLEAN
  /\ settling \in Nat
  /\ wire \in Seq({"start", "end"})
  /\ logClosed \/ settling > 0 => isTerminal
  /\ row = "FINISHED" => outcome.kind \in {"WIN", "DRAW", "VOID"}
  /\ row = "ABANDONED" => outcome.kind = "CANCELED"

\* Before the end the machine owes a verdict exactly to the submissions whose
\* job is running: no verdict is waited for that nobody will report, and none
\* is on its way to a machine that would not know it (index.ts:169-177).
HoldHasAJob ==
  ~isTerminal => outstanding = {sub \in Submission : jobs[sub] \in Running}

\* The replay explains the result: the log holds the receipt and the verdict of
\* every correct submission, the decisive one included (live-match.ts:525-537).
ReplayExplainsTheResult ==
  \A sub \in Solved : {Received(sub), Heard(sub)} \subseteq journal

\* The match clock runs only once the INSERT of the match row has returned, and
\* match.start is sent at most once (live-match.ts:225-251).
ClockStartsOnceAfterRow ==
  /\ clockRunning => inserting = {}
  /\ \A i, j \in DOMAIN wire : wire[i] = "start" /\ wire[j] = "start" => i = j

\* While the match is on, a player is away exactly while the player's grace
\* timer is pending: an absence is never forgotten, and one that is over leaves
\* no timer behind (live-match.ts:392-421).
AbsenceIsTimed ==
  ~isTerminal => \A s \in Side : connected[s] <=> timers[s] = "off"

\* A grace timer ends a match only for a player who is away at that moment: one
\* who came back in time is safe, however close it was (live-match.ts:412-421).
ForfeitOnlyAfterAbsence ==
  [][\A s \in Side : forfeited' = s /\ forfeited # s => ~connected[s]]_vars

\* Once nothing is submitted any more, the match comes to rest - no verdict is waited
\* for without end - is settled, and its players are told, whatever else the players,
\* the database and the judge do (live-match.ts:207-263, 558-598, index.ts:265-267,
\* 546-588).
EventuallySettled ==
  <>[][outstanding' \subseteq outstanding]_vars =>
    <>(isTerminal /\ \E i \in DOMAIN wire : wire[i] = "end")
==============================================================================
