# A verification of 1v1.code

1v1.code pairs two programmers, gives both the same problem and a clock, and lets
the earliest correct submission win. This directory models the program that referees
that: TLA+ modules translated from the source, TLC configurations that check them on
small instances, and theorems that TLAPS proves for every value of the constants.
`PROJECT.json` ties each definition to the lines it models, each run to its question,
and each known hazard of the code to the properties that watch it.

    tlc -workers 2 -config MCLiveMatch.cfg MCLiveMatch     # one run
    tlapm LiveMatchProofs.tla                              # the proofs of one component

## The system

The program is a TypeScript monorepo. One **gateway** process
(`apps/gateway`) holds every session and every running match in memory and talks to
the browsers over sockets. It keeps the matchmaking pool in **Redis**, the rows of
matches, submissions, ratings and challenges in **Postgres**, and one append-only
**replay log** per match in a file. **Judge workers** (`apps/judge`) take jobs from a
Redis list, run them in containers and publish the verdicts. The **web app**
(`apps/web`) signs players in, redeems challenge links, and serves the pages;
the **play page** follows the gateway's messages.
`packages/core` has the pure rules: lifecycle, log format, replay, ratings, tiers.

| Component | State it keeps | Operations | What makes it correct | Module |
|---|---|---|---|---|
| Lifecycle (`core/match-machine.ts`) | the match context | eleven events, pure | receipt order decides, every verdict heard, one final outcome | `Referee`, `MatchMachine` |
| Running match (`gateway/live-match.ts`) | context, timers, grace timers, clock, log | accept, presence, submission, verdict, timers, finish | timers, jobs, log and row agree with the machine; the match ends and is settled | `LiveMatch` |
| Submission pipeline (`submissions.ts`, `index.ts`) | lock, submission row, ceiling timer | stamp, register, insert, judge, report | every hold is resolved | `LiveMatch`, `Judge` |
| Sessions, queue, challenges (`index.ts`) | sessions, queue intent, userMatch, matches | connect, disconnect, queue, retry, join, createMatch, onFinished | a seeker is served, a challenge starts once | `Lobby` |
| Pool (`matchmaking.ts`) | sorted set, cooldowns | JOIN_OR_PAIR, leave, clear, bandFor | pairing takes both out at once; the band widens | `Lobby`, `Restart`, `Ladder` |
| Problem selection (`index.ts`) | none | pickProblem | in the band, or the easiest | `ProblemChoice` |
| Judge (`apps/judge`, practice route) | job list, channels, slots, containers | ask, take, run, publish, time out, reap | one answer, a true one, in bounded time | `JudgePromise`, `Judge`, `RateLimit` |
| Settlement and ratings (`index.ts`, `rating.ts`) | match row, ratings, events | snapshot, settleMatch, applyOutcome | counted once, by right, and as announced | `Settlement` |
| Restart (`index.ts`) | what the database and Redis keep | crash, boot, reconcile, rejoin | old matches closed, results kept, no ghosts | `Restart` |
| Relay, log and replay (`relay.ts`, `replay-log.ts`, `core/event-log.ts`, `core/replay.ts`) | documents with numbers, spectators, records | apply, reset, resync, attach, record, rebuild | copies agree | `Relay`, `Splice`, `Playback` |
| Links and rematches (`api/challenge`, `api/rematch`) | challenge rows, guests | redeem, join, rematch | one taker, one rematch | `Invitations` |
| Play page (`play/page.tsx`, `MatchScreen.tsx`) | phase, match, problem, locks | what the player presses, what arrives | the screen shows the match the player is in | `PlayClient` |
| Ladder (`core/ladder.ts`) | none | rankOf, ladderChange | monotone, exact | `Ladder` |
| Tickets, accounts, wire schemas, problem bank, presentation, bot, probes | | | | not modelled |

They interact in four ways, and the hard behaviour is where these meet. Handlers of the
gateway share memory on **one event loop**, so they interleave only where an `await`
really waits. **Timers** fire against state that has moved on. **Answers** of Redis, the
database, the file and the judge come late, in their own order, or as errors. And
**players** connect, drop, reload and press buttons at any moment. Around all of it,
processes **stop** between any two writes.

## What is modelled

### `Referee`: the promise
Submissions come in, each is judged at most once, one ruling closes the match; among the
correct submissions an earliest *received* one wins, and not while one still waits.

### `MatchMachine`: the lifecycle
`packages/core/src/match-machine.ts`, one variable per field of `MatchContext`, one action
per event, the legality table as `LegalIn` and `resolve()` as `Resolve`. A rejected event
returns the context unchanged, so it is an action that is not enabled. A submission is its
side and its receipt stamp, because the gateway builds the id from these. `Tick` is the
gateway's monotonic clock in whole milliseconds. The verdict of a submission comes in a
later millisecond than its receipt. `KeepsThePromise` is the refinement to `Referee`, with
the outstanding map as what is pending and the solved list as what is correct.

### `LiveMatch`: the running match
`live-match.ts` with the handlers and the pipeline that drive it. It EXTENDS `MatchMachine`:
each of its actions takes a machine step or leaves the machine alone, so what is proved of
the machine under `Next` holds in the running match. Points where other code can run are
data: a caller awaiting the log's flush is in `flushes`, one awaiting the INSERT of the
match row in `inserting`, one awaiting the log's close in `closing`; the action that takes
it out is the rest of its code up to the next wait. `onEnter` looks at the state as it is
then, as the code does. Choices made:

- flushes complete in the order they were asked for (one stream);
- a timer is armed, then due, then run; it becomes due only with no flush pending, since
  timers last a second or more and flushes milliseconds, but once due it may run during
  any later flush; a grace timer (45 s) is not due before LIVE, since the accept window
  (12 s) and the countdown are shorter together;
- the four countdown beats are one timer, two sleeping countdowns or two match-clock
  timers are one (an effect of the same name twice), and the countdown is not among the
  timers `finish()` clears;
- `log.record` hands over to microtasks only and is not an interleaving point;
- the database may commit an INSERT or refuse it (`DbMayFail`); the commit and the answer
  are one step; settleMatch's update and `match.end` are one step;
- a player does not submit twice in one millisecond; the judge gives one answer per job,
  its 90 s ceiling included.

### `Lobby`: from a socket to a match
`index.ts` and `matchmaking.ts`: sessions, queue intent, `attempt()` with its re-check
after the await and its eviction of vanished partners, `joinChallenge`, `createMatch`
before and after its awaits, its failures, and `onFinished`. Redis executes the commands
of the one connection in the order they were sent and nothing else touches the pool, so a
command takes effect when it is sent and its *answer* waits in `answers`. Whom the script
picks is left open (ratings, widening band and cooldown are abstracted), so it may also
pick nobody. An answer to a session that was deleted meanwhile is marked an orphan: the code
compares the session object. A challenge is the redeemed one of `Host` and `Taker`; its
code is in `challengeStarting` from `ChallengeStarts` until createMatch has returned, which
is some time after the match is on (`ChallengeStarted`), or has failed (`CreateFails`).
A match is one record from the moment it is being created until `onFinished`, which comes
once here (the double call is `live_end_sent_once`'s subject, and `Settlement` has it).
`MCLobby` also checks `ProblemChoice`, the sets `pickProblem` chooses from.

### `Judge`: from a submission to its verdict
The asker (`submissions.ts`, or the practice route), the list `judge:jobs`, publish and
subscribe, the worker's slots, a container per job with `runner.py` in it, and the reaper.
A program is its *fate*: the first test it fails. `Take` is the BRPOP, after which the job
exists in the slot only; a crash of the worker frees the slots and leaves the containers.
`Publish` hands a message to whoever listens, or loses it. Ages and waits are counted in a
unit of time that passes for all at once (`Tick`), so a limit of one unit is reached
before a limit of two. The worker's wall clock is a timer that runs until it has *seen* the
container close, so the age of a container that has ended goes on while its slot waits
(`ageing`). `KeepsJudgePromise` is the refinement to `JudgePromise`: one answer
per request, for good, and praise or blame only as deserved. `RateLimit` is the limiter
in front of a practice run, checked in `MCJudge` over all histories of five calls.

### `Settlement`: what counts
The snapshots `createMatch` takes, the row, and the writes of `settleMatch` and
`applyOutcome` one at a time, of several matches at once and of one match twice. A rating
is the list of the matches in it, for that is what its number depends on: `afterMatch` is the
snapshot with the match appended, `RateEvent` needs the match row as the foreign key
does, and every write may throw. `MCSettlement` also checks `Ladder`, the ranks.

### `Restart`: what outlives the gateway
The rows of a match and its submission and the pool on one side, the memory of the
process on the other. `Crash` empties the memory between any two writes. `Boot` opens the
port, and `Collect`, `Close`, `Sweep`, `ClearPool` are the queries of
`reconcileOrphanedMatches`, with players joining and playing between them. `Rejoin` is the
answer of a process about a match that is not in its map: it never had it, or has finished
it, while the row is not settled yet. An answer changes nothing, so the model remembers any
one of them, and the property compares it with the row from then on.

### `Relay`: one editor and its copies
The page's text and batch, the wire to the gateway and back, `RelayDoc`, the log and a
spectator's page. `text` is what Monaco holds and `source` what the page takes it to hold
(`sourceRef`): a click on the language that is already active makes them differ, because the
page replaces the text and the editor, keyed by its language, is not mounted again. The
opponent's socket is left out: what it is sent is decided by one guard, `canSee`, on whether
the match is over. A text is the list of the changes it is made of. A broken connection loses what is under way and keeps what is
pressed while offline, as the socket library does. `MCRelay` also checks `Playback` (a log cut
off anywhere reads as a prefix; documents and marks are those of their definition) and
`Splice` (the changes of a batch applied in turn do what they do at once).

### `Invitations`: one link
A request of the web app is its steps between database calls: `Load`, `Identify` (which may
make a guest), `Take` (one UPDATE), `Answer` or a lost answer. `Join` is the gateway's
reading of the same row. `AskRematch` and `CreateRematch` are the two halves of the rematch
route, with the unique index deciding.

### `PlayClient`: the page
One variable per piece of the page's state that decides what it shows, one action per
message it hears and per button, the wire in both directions, and of the gateway what this
player sees of it: any match may go on or end at any time. `Break`, `Reload` and `Restart`
are the mishaps. The ending of a match lies over the match screen until match.start or one of
its own buttons (`CloseEnding`) takes it off, also when the screen is by then of another match.

Seeded faults stand next to the definition they corrupt, under a comment that says so;
no specification uses them. They are the mutants that show each property can fail.

## What the runs check

| Run | Bounds | Distinct states | Result |
|---|---|---|---|
| `match_machine` | `MaxMs = 3` | 110,332 | six properties hold, the refinement to `Referee` among them |
| `live_match` | `MaxMs = 2`, INSERTs may fail | 1,123,899 | five properties hold |
| `live_liveness` | `MaxMs = 1`, any number of submissions, INSERTs may fail | 214,088 | a match is settled once nobody submits |
| `lobby` | 3 players, 2 matches at a time, 1 unanswered call | 7,818,968 | four properties hold |
| `judge` | 2 jobs, 1 slot, 2 tests, limits 1, 2, 3, 1 fault | 452,609 | five properties hold, the refinement to `JudgePromise` and liveness among them |
| `settlement` | 3 players, one a guest, 2 matches | 2,885,257 | three properties hold |
| `restart` | 2 players, 2 matches, 2 crashes, an answer about one match | 1,691,825 | five properties hold, one of them liveness |
| `relay` | 3 edits, batches of 2, 2 breaks, 1 detachment | 1,424,830 | four properties hold, one of them liveness |
| `play_client` | 2 matches, 2 mishaps, 1 message on the way | 12,397,870 | four properties hold |
| `invitations` | 2 visitors, 2 lost responses, 2 matches, 5 users | 7,704 | two properties hold |
| `live_end_sent_once` | `MaxMs = 1`, no failures | | `match.end` twice |
| `lobby_two_matches` | as `lobby` | | a player in two matches |

**What the properties say.** *Lifecycle*: an earliest received correct submission wins; a
hold is exact; a draw and a walkover are earned. *Running match*: a hold has a job that
will end it, the log explains the result it was closed with, the clock starts once and after the
row, an absence is timed exactly while it lasts, and once nobody submits the match is settled. *Lobby*: sessions and matches agree, one
createMatch of a challenge runs at a time, a seeker is forgotten only when createMatch fails. *Judge*: a time
limit is told only of a program that had the time and had not failed, an earned verdict was also shown test by test, nobody waits and nothing
runs for ever. *Settlement*: no match counts twice, none counts without right, and deltas
that are shown are on record for both. *Restart*: results are kept, what a player is told
of a match that is over is never taken back, but for one whose settlement is under way, no verdict under way is annulled, no match of an old process
stays open. *Relay*: the gateway holds only text that was written, a replay ends in the document,
a spectator catches up, a gap is repaired - where no snapshot is lost and the page reports
its own text. *Play page*: once
everything has arrived the screen shows the match, a match that is over is left, and Submit
works, unless the one message that unlocks it was missed. *Invitations*: one visitor is told yes and is the taker; both players get one
rematch.

**Bounds.** `MaxMs` bounds the milliseconds in which a submission can be received: three
per side are two wrong attempts before a right one, ties between the sides, and a queue of
verdicts in any order. Two suffice for a retry ahead of the lock. The bounded clock would
stop the judge at its last millisecond, so nothing is received in it. For liveness the
number of submissions must not be bounded, since players who submit in turn after the
clock ran out can keep a match in JUDGING: `EndlessSpec` counts the stamps from 0 again
(`Restamp`, which keeps of the correct submissions the first, all that `resolve()` looks
for), so a millisecond bounds only what is under judgement at one time. The lobby has the
two members of a challenge and a stranger, which is what a stranger's pairing takes, and
two matches at a time, which is what being in two takes. `MaxCalls` bounds the calls in
flight when a player or a timer adds one; leaving and disconnecting are never held back,
so every race of an answer with a departure is there. Host and Taker are symmetric. The
judge's unit is half a minute, so its limits are the code's: reaper 30 s, wall clock 60 s, ceiling
90 s; the submission may have any fate, the practice run does not compile, and the one slot
makes them wait for each other. Two matches are what an overlap of settlements takes, and
one match of the old process beside one of the new; two crashes put the second into the
reconciliation of the first. `Remembered` is one match, since matches are alike. Three edits are two batches with a change between them, or
one batch that is too long; two breaks lose a message and its repair. Two matches let the
page take one for the other, and two mishaps are a break and what follows it; how long the
page's queue may grow is bounded only for what the player and the match add. All of these
may come to rest, so the deadlock check is off.

**Fairness.** `EndlessSpec`: what the event loop has ready it runs - each flush, INSERT,
close and settlement comes back (with an error, if it must), each armed timer becomes due
and runs, and `runner.run` answers every submission because its ceiling timer does, strongly fair because the millisecond the verdict must not
share with its receipt comes round again. Time passes. Nothing is assumed of the players: they
need not accept, submit or return. `EventuallySettled` has a premise instead: from some point
on nothing is submitted.
`Lobby` and `PlayClient` assume none. `Judge`: timers fire, Redis and the subscriber go on,
the worker's and the reaper's loops run for ever; a program and its container owe nobody a
step. `Restart`: a process that stopped is started (systemd), the reconciliation goes on, and a
session that searches asks again on its interval; that a query never fails is not assumed.
`Relay`: intervals fire, a connection is made again, messages get through; nobody need
type, watch or end the match.

**Disagreements the runs show.** The two violation runs each refute a comment in the code;
`findings` quotes it and says how the trace goes. `live_end_sent_once` comes from `apply()`
reading the state after the flush: p1 has left, and p1's grace runs out while the flush of
LIVE to JUDGING for a submission of p2 is pending, so that both callers see the match over
and both call `finish()`. (Its action constraint keeps to what the page lets players do: who is
away neither accepts nor submits.) `lobby_two_matches` comes from a check and its effect on
two sides of an await.

**Disagreements met while modelling**, reachable in the models (or read in the code, where
noted) and not runs of their own:

- A submission is accepted in JUDGING after the clock has run out (`match-machine.ts:122`;
  the comment at 270 says the outstanding ones were received before), and the page locks
  only the side that is in flight (`MatchScreen.tsx:322`). Two players who submit in turn keep
  something outstanding for ever, with every verdict answered, although "the hold must be
  bounded" (`index.ts:265-267`). `EndlessSpec` has these behaviours, and `clockExpired ~>
  isTerminal` fails on them; `EventuallySettled` says that nothing else keeps a match open.
- LIVE is visible before the match row is written, so a submission can fail on its foreign
  key and void the match (`live-match.ts:225`; the comment at 226 says the row comes first).
- Two submissions of one player can be outstanding, since the lock is taken after a flush
  (`index.ts:1003`; the comment at 1000 promises one at a time).
- A player who is in the pool and then waits on a challenge is paired with a stranger
  (`index.ts:490`; the comment at 931 refuses this for `queue.join` only). A member of a
  challenge whose session outlived its socket counts as connected (`index.ts:500`).
- A member of a challenge who asks again while createMatch is awaiting is put back among the
  waiting after the match has cleared them, and nothing but `queue.leave` takes the player out:
  `queue.join` is refused during and after the match (`index.ts:490, 518, 937`; the comment at
  532 says the set is cleared when the match starts). Reachable by `ChallengeWaits`.
- A player who asks about a match that has finished and is not yet settled is told it was
  canceled, because `onFinished` removes it from the map before the UPDATE is done
  (`index.ts:652, 1112`; the comment at 1077 promises the real outcome from the row).
  `RejoinForeseesTheRecord` names the case.
- A win before LIVE has no match row: the first player is rated, the rating event fails on its
  foreign key, the second player is not rated, and the screen shows no deltas
  (`rating.ts:123-180`). `DeltasAreOnRecord` holds because the error empties the deltas.
- Of two overlapping settlements of one player the first is overwritten (`rating.ts:90`).
- Read only: the waiting screen of a challenge says "This match is unrated" to everyone
  (`play/page.tsx:769`), but `isRated` knows guests and bots only, so a challenge or a rematch
  between two registered players is rated.
- The reaper kills containers older than 30 s as ones that "cannot be a live job", while the
  worker lets a container run for up to 60 s (`reaper.ts:23-25`, `sandbox.ts:37`): a slow program
  gets an internal error. And the worker's timer runs until it sees the container close
  (`sandbox.ts:161, 192`), so one that was reaped just before 60 s and is seen after it is told
  TIME_LIMIT, though nobody "killed it for exceeding the wall clock" (`sandbox.ts:118`).
  `TimeLimitIsSpent` says what remains: the time did pass, and the program had not failed.
- A crash between closing the orphaned matches and sweeping their submissions leaves those
  PENDING for good (`index.ts:1330-1380`; `deploy/systemd/README.md:39-42` says every start
  reconciles stranded submissions).
- After a lost snapshot a batch can fit by its number onto the wrong text (`relay.ts:101`;
  its comment says a non-contiguous delta is never applied). `OnlyWrittenText` names the case.
- A click on the language that is already active sends the starter as the whole document
  ("The whole document was replaced", `MatchScreen.tsx:356-364`) while the editor keeps its text.
  The copies go on from the starter, the next repair sends it again (279), and a
  submission without another keystroke submits it (382). `misreported` marks it in
  `OnlyWrittenText` and `GapIsRepaired`.
- A document at 256 KiB is cut in the gateway but not in the copies of a spectator or of
  a replay (`relay.ts:60`, `watch/[code]/page.tsx:48`, `replay.ts:237`); see `Splice`.
- The Leave button of a challenge tells the gateway nothing, so the player can still be put
  into the match (`play/page.tsx:774`; `queue.leave` at `index.ts:952` would clear the intent).
- A match that ends while its player already has another takes the screen of the new one
  (`play/page.tsx:496`): `ScreenFollowsTheMatch` names the exception. A verdict lost with a
  connection leaves Submit locked (`play/page.tsx:403`): so does `SubmitIsNotDead`.
- Submit is disabled by the ending of a match, too (`MatchScreen.tsx:384`), which match.start
  clears and match.resync does not (`play/page.tsx:336, 348`): a page that missed match.start and is
  resynced into the next match has a locked button labelled Submit (the comment at 386 wants
  it "legible rather than a silently dead button"). `startMissed` marks it in
  `SubmitIsNotDead`. Closing such an ending leaves the screen of the match that is on
  until the next reconnection (`strayed`, in `ScreenFollowsTheMatch`).
- Read only: a watcher's ticket is used once, and the socket reconnects with the same one, so an
  anonymous watcher is refused after a break (`watch/[code]/page.tsx:119`, `index.ts:831`);
  `sweepGuests` (`guest.ts:125`) is called by nothing.

## What is proved

Each `...Proofs` module proves an inductive invariant (`IInv`, or the one named below) as
`Init => IInv` and one lemma per action or group of actions, then each theorem from it.
Every invariant and every safety action property that a passing run checks is a theorem,
and so are both refinements. The theorems hold for every value of the constants that
satisfies the module's one assumption on them (`MaxMsAssumption`, `JudgeAssumption`, ...),
which every run evaluates. The assumptions give the bounds their types and keep special
values apart from ordinary ones, as `Nobody \notin Player` does in `Lobby`, where an answer
of Redis is a player's id or null. Otherwise TLAPS takes only the library's facts about
sequences, finite sets and well-founded sets.

| Module | Theorem | Establishes |
|---|---|---|
| `LiveMatchProofs`, the machine | `TypeCorrect` | `Spec => []TypeOK` |
| | `EarliestWins`, `HoldExact`, `DrawEarned`, `WalkoverFair` | the four invariants of the run |
| | `EndFinal` | no event changes a match that is over |
| | `ImplementsReferee` | `Spec => KeepsThePromise` |
| `LiveMatchProofs`, the running match | `RunsTheMachine` | `LiveSpec => Spec` |
| | `LiveTypeCorrect`, `HoldsHaveJobs`, `ReplayExplains`, `AbsencesAreTimed` | the type invariant and three invariants of the run |
| | `ClockStartsOnce` | the clock starts after the row, and match.start is sent once |
| | `ForfeitsAreAbsences` | only the absent forfeit |
| `LobbyProofs` | `LobbyTypeCorrect`, `SessionsKnowTheirMatch`, `ChallengeStartsAtMostOnce` | the three invariants of the run |
| | `SeekersAreKept` | its action property: a seeker is not forgotten |
| `PlayClientProofs` | `PageTypeCorrect`, `PageFollowsTheMatch`, `AskedMatchIsAnswered`, `SubmitWorksAgain` | the type invariant and the three of the run |
| `JudgeProofs` | `TypeCorrect`, `TimeLimitsAreSpent`, `StreamsAreWhole` | the three invariants of the run |
| | `JudgeKeepsItsPromise` | `Spec => KeepsJudgePromise` |
| `SettlementProofs` | `TypeCorrect`, `NoMatchCountsTwice`, `OnlyRatedMatchesCount`, `AnnouncedDeltasAreOnRecord` | the type invariant and the three of the run |
| | `RankIsMonotone`, `RankIsTotal`, `PointsToNextTierAreExact`, `ChangeFollowsTheRating`, `BandWidens` | facts of the pure functions of `Ladder`, for every rating and time |
| `RestartProofs` | `TypeCorrect`, `RejoinTellsTheTruth`, `NoGhosts` | the type invariant and two invariants of the run |
| | `ResultsAreKept`, `SweepSparesTheJudged` | its two safety action properties |
| `RelayProofs` | `TypeCorrect`, `ReplayIsFaithful`, `SpectatorCatchesUp`, `NothingIsMadeUp` | the type invariant and the three of the run |
| `InvitationsProofs` | `TypeCorrect`, `OneTaker`, `RematchesAgree` | the type invariant and both of the run |

**The machine.** `SafetyInv` is inductive. `EarliestCorrectWins` and `DrawIsEarned` speak of
the end only and are not inductive alone; `HoldIsExact` is what carries them there, since
it says that outside JUDGING nothing is owed and nothing correct is kept back, so the last
verdict sees all of them. `WindowInv` does the same for the walkover of the accept window:
two accepts close it at once. The sort in `resolve()` is a CHOOSE of a first index, so
`FirstReceivedIsEarliest` first shows that there is one, from `LeastNatural` (a set of
naturals has a least member).

**The running match.** It EXTENDS the machine, and its proofs are in one module with the
machine's, which they use at every step. `RunsTheMachine` carries every theorem about the
machine over to it, one case per action of `LiveNext`. `PresenceInv` adds to `AbsenceIsTimed`
that no grace timer exists before the match is found, so a grace timer the machine refuses is
one of a match that is over. Only `GraceFires` changes `forfeited`, and by `AbsenceIsTimed`
its player is away when it runs. The other properties need `LiveInv`, which has one part for
each of them, besides `SafetyInv` and the types (`ShapeInv`):

- `ClockInv`: match.start has one cause. Only the end of the countdown leads to the INSERT,
  it finds no flush under way, and until the clock runs the match cannot come back to
  LIVE, so `onEnter` meets LIVE once before the clock.
- `JobInv`: a caller that will take the lock for a submission waits at one of the three
  awaits of `flush()`, `onEnter()` and `finish()`, and only once. The
  induction needs it because two such callers would start two jobs for one submission, and the
  first verdict would release the hold that the second job relies on.
- `LogInv`: what a job has behind it is in the log as long as the log takes records.

**The lobby.** `LobbyInv` shows that the properties of the run are nearly inductive together: a
session is right about its match because nobody is entered into a match twice at one slot,
and a seeker is not forgotten because a session that takes up no match has none. `Guarded`
carries the challenge: every match of it that is being created is the same one, and the code
stays in `challengeStarting` until there is none. The invariant adds that Redis never answers a player with the player's own name (`Redis`).

**The play page.** The properties speak of a page that everything has reached. `PageInv`
says what such a page will show while messages are still on the way: of the messages that
move one part of the screen, the last one on the way says what is true now (`Closes`), or
there is none and the page shows it already (`Unsaid`). `ScreenInv` says this of the phase,
the match and the problem, `RefInv` of the match the page remembers, `LockInv` of the
submission and the hold that lock Submit, and `EndingInv` of the ending that does: on a live
screen it is gone, or a match.start was missed; and of the endings and starts on the way to a
live match the last is a start. Appending, taking the head and dropping the whole queue are one lemma each about
`Closes` and `Unsaid`; the rest is one case per action.

**The judge.** An answer comes from a message, a message from what a container printed,
and that from the fate of the program: one part of the invariant for each (`Truthful`, `Earned`),
and `Asked` and `Handed`, which say that nothing happens to a job nobody asked for. Asking
maps to `Ask`, the first terminal message or the ceiling to `Answer`, everything else to
a stutter. For `StreamsAreWhole`, `Once` says that a job is queued and taken once, so that no
second container prints on its channel; `Printed` what a container has printed at each point;
and `Stream` that what was shown, then what is on the wire, then what the container has still to
print follow one another without a gap, as long as nothing was lost. `NobodyFailed` follows an answer back to the container that is said
to have timed out: no terminal line had been printed there.

**Settlement.** A rating is overwritten with a snapshot and one match more, so what is to hold
of ratings must hold of snapshots too (`Snapped`), and a match is never in its own snapshot
since it was not over when that was taken. `Called` says what a settlement has rated by the
step it is at.

**Restart.** A row has one writer at a time (`Owned`): the INSERT, then the settlement of the
process that has the match, or the reconciliation for a match nobody has; and a recorded
outcome goes with a closed row (`Written`). What a player was told is of a match that is not
in play any more (`Answered`), so only the reconciliation can still write it, or the
settlement that was under way (`Unsettled`), which is the exception. `SweepInv`
says that nothing was swept before the sweep, and what was swept then was an orphan.

**Relay.** The one about the log is inductive as it stands, because the
document and the log are written in one step and the stage only moves forward. `FeedInv`
says that the batches on their way to a spectator are numbered without a gap from its view to
the document (`NoGap`), and that applying them all gives the document. `WrittenInv` says
that each message from the editor has a text the editor once held behind it (`Explained`: there is
a function from the places in the queue to the texts written), and that the gateway is where
the first message goes on, or behind it. It holds as long as the page reports the text it has
(`source = text`), which `NextSource` keeps until the page misreports it once. What applying a whole queue gives is the
recursive function `after`; the facts about it are proved by an induction over a set of
naturals (`UpTo`), which needs no operator for a parameter.

**Invitations.** One UPDATE decides who is the taker; that the browser that was told so
holds that very user takes `Owned` (no user belongs to two browsers) and `Taken` (a request
keeps its user).

**Only model-checked.** Liveness under fairness (`EventuallySettled`, `EverythingEnds`,
`StartMendsEverything`, `GapIsRepaired`) is out of the prover's reach, and with it whatever
rests on ENABLED. The pure functions `Playback`, `Splice`, `RateLimit` and `ProblemChoice` are
checked against a reference definition over all short inputs, and `Ladder` beyond the
five theorems: most are folds, whose value for every input is an induction over data.

## What is not modelled, and why

`PROJECT.json` lists every component with its status. The models cover the program's control;
most of the repository's *lines* are something else, which is why the mapped share of them is
small: the problem bank with its reference and wrong solutions and offline verifiers
(`packages/db`), layout, animation and sound (`packages/ui`, the pages), dev pages, and
probes. Also left out:

- Glicko's arithmetic, which is over the reals; ratings are the matches in them.
- Tickets, sign-in, passwords, claiming a guest: one statement over one row each, whose
  atomicity is the database's.
- The wire schemas: a message that does not parse is dropped by every handler alike.
- In `LiveMatch`: elapsed times, the paste profile, the redraw of the clock, `abandonNow`.
  In `Lobby`: whom the script picks, cooldowns. In `Invitations`: the minting of a link, the retry of
  a guest's handle. In `PlayClient`: statuses, pulses, animation, the player's own links.
  In `Relay`: pulses, the opponent's socket, and the size limit (which `Splice` has). In `Judge`: the limits given
  to docker.

The components are composed only where one EXTENDS another (`LiveMatch` of `MatchMachine`) or
is a refinement of an abstract one; `Lobby` with `LiveMatch`, whose product would be needed for a
player who drops while a match is being created, is past what TLC explores in minutes.

## What is left

1. A composition of `Lobby` and `LiveMatch` over an abstract running match, for the player who
   drops while the match is being created.
2. Theorems about the pure functions: that no window of `RateLimit` lets more than its limit
   through, by the induction of `UpTo`; that `ProblemChoice` chooses whenever there is a problem.
