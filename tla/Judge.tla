-------------------------------- MODULE Judge --------------------------------
(***************************************************************************)
(* From a submission to its verdict: the asker (submissions.ts of the      *)
(* gateway, or the practice route of the web app), the job list and the    *)
(* publish/subscribe channels of Redis, the slots of the judge worker, one *)
(* container per job with runner.py in it, and the reaper.                 *)
(*                                                                         *)
(* Redis hands a published message to whoever listens at that moment and   *)
(* forgets it.  The worker takes a job off the list before it runs it, so  *)
(* a worker that dies takes its jobs with it and leaves its containers     *)
(* behind.  What a program does is its fate: the first test it fails.      *)
(*                                                                         *)
(* Time is counted in units; an age of a means that a units have passed    *)
(* and a + 1 have not, and ages stop at their last limit.  Every cause of  *)
(* a lost container (no docker, no image, the host out of memory) is the   *)
(* one action BoxDies.  The worker's cap on the output of a container is   *)
(* left out: runner.py prints far less than it allows.                     *)
(***************************************************************************)
EXTENDS Integers, Sequences

CONSTANTS
  Job,
  Practice,              \* the jobs asked for by the practice route
  Slot,                  \* JUDGE_CONCURRENCY of them
  Tests,
  WallClock,             \* how long the worker lets a container run
  ReapAge,               \* MAX_AGE_MS of the reaper
  Ceiling,               \* JUDGE_CEILING_MS of the asker
  Programs,              \* the fates a job's program may have
  MaxFaults              \* crashes of the worker and messages lost by Redis

ASSUME JudgeAssumption ==
  /\ Practice \subseteq Job
  /\ Tests \in Nat \ {0}
  /\ WallClock \in Nat /\ ReapAge \in Nat /\ Ceiling \in Nat
  /\ Programs \in [Job -> SUBSET (0 .. Tests + 1)]
  /\ MaxFaults \in Nat
  /\ "idle" \notin Job

VARIABLES
  fate,                  \* what the program is worth, see JudgePromise
  answer,                \* what the asker was told, or "none": the settled flag
  request,               \* how far the asker has come
  waited,                \* time since the asker's ceiling timer was set
  shown,                 \* accepted tests the asker has passed on
  wire,                  \* events on their way to the asker
  queue,                 \* the list judge:jobs, oldest first
  slot,                  \* the job each slot works on
  box,                   \* the container of each job
  age,                   \* time since the container was started, see Tick
  passed,                \* accepted tests the container has printed
  verdict,               \* the terminal line the container has printed
  timedOut,              \* the worker killed it on the wall clock
  crashes,
  lost

vars == <<fate, answer, request, waited, shown, wire, queue, slot, box, age, passed,
          verdict, timedOut, crashes, lost>>
asker == <<fate, answer, request, waited, shown>>
container == <<box, age, passed, verdict, timedOut>>
faults == <<crashes, lost>>
------------------------------------------------------------------------------
\* runner.py and the worker tell these apart; REJECTED stands for every way of
\* failing a test, COMPILE_ERROR for every way of not compiling.
Promise == INSTANCE JudgePromise

Oldest == IF WallClock > ReapAge THEN WallClock ELSE ReapAge

Request == {"none", "asked", "listening", "queued"}
Box == {"none", "starting", "running", "exited"}
Event == [kind : {"test", "compile-failed", "done", "error"},
          verdict : Promise!Verdict]
Ev(kind, v) == [kind |-> kind, verdict |-> v]

Init ==
  /\ fate = [j \in Job |-> Promise!Unasked]
  /\ answer = [j \in Job |-> "none"]
  /\ request = [j \in Job |-> "none"]
  /\ waited = [j \in Job |-> 0]
  /\ shown = [j \in Job |-> 0]
  /\ wire = [j \in Job |-> <<>>]
  /\ queue = <<>>
  /\ slot = [s \in Slot |-> "idle"]
  /\ box = [j \in Job |-> "none"]
  /\ age = [j \in Job |-> 0]
  /\ passed = [j \in Job |-> 0]
  /\ verdict = [j \in Job |-> "none"]
  /\ timedOut = [j \in Job |-> FALSE]
  /\ crashes = 0
  /\ lost = 0

owned(j) == \E s \in Slot : slot[s] = j
listening(j) == request[j] \in {"listening", "queued"} /\ answer[j] = "none"
------------------------------------------------------------------------------
(* The asker.                                                              *)

Ask(j, f) ==
  /\ request[j] = "none"
  /\ request' = [request EXCEPT ![j] = "asked"]
  /\ fate' = [fate EXCEPT ![j] = f]
  /\ UNCHANGED <<answer, waited, shown, wire, queue, slot, container, faults>>

Subscribe(j) ==
  /\ request[j] = "asked"
  /\ request' = [request EXCEPT ![j] = "listening"]
  /\ UNCHANGED <<fate, answer, waited, shown, wire, queue, slot, container, faults>>

\* The ceiling may have passed while Redis was slow: the job is queued all the
\* same, and run for nobody.
Push(j) ==
  /\ request[j] = "listening"
  /\ request' = [request EXCEPT ![j] = "queued"]
  /\ queue' = Append(queue, j)
  /\ UNCHANGED <<fate, answer, waited, shown, wire, slot, container, faults>>

\* Seeded fault: the timer is cleared by the first test result.
timingUntilHeard(j) == answer[j] = "none" /\ request[j] = "queued" /\ shown[j] = 0

\* The gateway starts its ceiling timer before it subscribes, the practice
\* route after it has queued the job.
timing(j) ==
  /\ answer[j] = "none"
  /\ IF j \in Practice THEN request[j] = "queued" ELSE request[j] # "none"

\* finish(): only the first terminal event counts.
Told(j, v) == answer' = [answer EXCEPT ![j] = IF @ = "none" THEN v ELSE @]

CeilingFires(j) ==
  /\ timing(j)
  /\ waited[j] >= Ceiling
  /\ Told(j, "INTERNAL_ERROR")
  /\ UNCHANGED <<fate, request, waited, shown, wire, queue, slot, container, faults>>

\* A message that was on its way when the asker finished still arrives.  The
\* practice route lets compile-failed pass and waits for the done behind it.
Deliver(j) ==
  /\ wire[j] # <<>>
  /\ wire' = [wire EXCEPT ![j] = Tail(@)]
  /\ LET event == Head(wire[j]) IN
     \/ event.kind = "test"
        /\ shown' = [shown EXCEPT ![j] = IF event.verdict = "ACCEPTED" THEN @ + 1 ELSE @]
        /\ UNCHANGED answer
     \/ event.kind = "compile-failed" /\ j \in Practice
        /\ UNCHANGED <<answer, shown>>
     \/ event.kind = "compile-failed" /\ j \notin Practice
        /\ Told(j, event.verdict) /\ UNCHANGED shown
     \/ event.kind \in {"done", "error"}
        /\ Told(j, event.verdict) /\ UNCHANGED shown
  /\ UNCHANGED <<fate, request, waited, queue, slot, container, faults>>
------------------------------------------------------------------------------
(* The container: docker run, then runner.py.  Its lines reach the worker  *)
(* that owns it before it is seen to close; an orphan prints to nobody.    *)

alive(j) == box[j] \in {"starting", "running"}

Send(j, event) ==
  wire' = IF listening(j) THEN [wire EXCEPT ![j] = Append(@, event)] ELSE wire

Lose == crashes + lost < MaxFaults /\ lost' = lost + 1

\* publish(): handed over, or lost on the way.
Publish(j, event) ==
  \/ Send(j, event) /\ UNCHANGED lost
  \/ Lose /\ UNCHANGED wire

\* Seeded fault: the results are batched into the last event.
EmitBatched(j, event) == UNCHANGED <<wire, lost>>

Emit(j, event) ==
  \/ owned(j) /\ Publish(j, event)
  \/ ~owned(j) /\ UNCHANGED <<wire, lost>>

Compile(j) ==
  /\ box[j] = "starting"
  /\ fate[j] # 0
  /\ box' = [box EXCEPT ![j] = "running"]
  /\ UNCHANGED <<asker, wire, queue, slot, age, passed, verdict, timedOut, faults>>

CompileFails(j) ==
  /\ box[j] = "starting"
  /\ fate[j] = 0
  /\ box' = [box EXCEPT ![j] = "exited"]
  /\ verdict' = [verdict EXCEPT ![j] = "COMPILE_ERROR"]
  /\ Emit(j, Ev("compile-failed", "COMPILE_ERROR"))
  /\ UNCHANGED <<asker, queue, slot, age, passed, timedOut, crashes>>

PassTest(j) ==
  /\ box[j] = "running"
  /\ passed[j] < Tests
  /\ passed[j] + 1 # fate[j]
  /\ passed' = [passed EXCEPT ![j] = @ + 1]
  /\ Emit(j, Ev("test", "ACCEPTED"))
  /\ UNCHANGED <<asker, queue, slot, box, age, verdict, timedOut, crashes>>

\* The runner stops at the first failure.
FailTest(j) ==
  /\ box[j] = "running"
  /\ passed[j] + 1 = fate[j]
  /\ passed[j] < Tests
  /\ verdict' = [verdict EXCEPT ![j] = "REJECTED"]
  /\ box' = [box EXCEPT ![j] = "exited"]
  /\ Emit(j, Ev("test", "REJECTED"))
  /\ UNCHANGED <<asker, queue, slot, age, passed, timedOut, crashes>>

Exit(j) ==
  /\ box[j] = "running"
  /\ passed[j] = Tests
  /\ box' = [box EXCEPT ![j] = "exited"]
  /\ UNCHANGED <<asker, wire, queue, slot, age, passed, verdict, timedOut, faults>>

BoxDies(j) ==
  /\ alive(j)
  /\ box' = [box EXCEPT ![j] = "exited"]
  /\ UNCHANGED <<asker, wire, queue, slot, age, passed, verdict, timedOut, faults>>
------------------------------------------------------------------------------
(* The worker and the reaper.                                              *)

Take(s) ==
  /\ slot[s] = "idle"
  /\ queue # <<>>
  /\ slot' = [slot EXCEPT ![s] = Head(queue)]
  /\ queue' = Tail(queue)
  /\ box' = [box EXCEPT ![Head(queue)] = "starting"]
  /\ UNCHANGED <<asker, wire, age, passed, verdict, timedOut, faults>>

\* The timer runs until the container is seen to close, so it may fire for one that
\* ended within its time, or was reaped.
WallClockFires(s) ==
  /\ slot[s] # "idle"
  /\ age[slot[s]] >= WallClock
  /\ ~timedOut[slot[s]]
  /\ timedOut' = [timedOut EXCEPT ![slot[s]] = TRUE]
  /\ box' = [box EXCEPT ![slot[s]] = "exited"]
  /\ UNCHANGED <<asker, wire, queue, slot, age, passed, verdict, faults>>

\* Seeded fault: no failure seen is taken for success.
FinalWithoutCount(j) ==
  IF verdict[j] # "none" THEN verdict[j]
  ELSE IF timedOut[j] THEN "TIME_LIMIT" ELSE "ACCEPTED"

\* Seeded fault: there is no verdict to begin with.
FinalUnset(j) ==
  IF verdict[j] # "none" THEN verdict[j]
  ELSE IF timedOut[j] THEN "TIME_LIMIT"
  ELSE IF passed[j] = Tests THEN "ACCEPTED" ELSE "none"

Final(j) ==
  IF verdict[j] # "none" THEN verdict[j]
  ELSE IF timedOut[j] THEN "TIME_LIMIT"
  ELSE IF passed[j] = Tests THEN "ACCEPTED" ELSE "INTERNAL_ERROR"

\* The container is seen to close and the slot publishes what it makes of it.
\* When that throws the slot publishes an error instead.
Conclude(s) ==
  /\ slot[s] # "idle"
  /\ box[slot[s]] = "exited"
  /\ \/ Publish(slot[s], Ev("done", Final(slot[s])))
     \/ Lose /\ Send(slot[s], Ev("error", "INTERNAL_ERROR"))
  /\ slot' = [slot EXCEPT ![s] = "idle"]
  /\ UNCHANGED <<asker, queue, container, crashes>>

\* The worker dies and is started again.  Its containers are nobody's now.
WorkerCrash ==
  /\ crashes + lost < MaxFaults
  /\ \E s \in Slot : slot[s] # "idle"
  /\ crashes' = crashes + 1
  /\ slot' = [s \in Slot |-> "idle"]
  /\ UNCHANGED <<asker, wire, queue, container, lost>>

\* Seeded fault: a reaped container is taken for one out of time.
ReapAsTimeout(j) ==
  /\ alive(j)
  /\ age[j] >= ReapAge
  /\ box' = [box EXCEPT ![j] = "exited"]
  /\ timedOut' = [timedOut EXCEPT ![j] = TRUE]
  /\ UNCHANGED <<asker, wire, queue, slot, age, passed, verdict, faults>>

\* reapOnce() looks at the label and the age, never at who owns the container.
Reap(j) ==
  /\ alive(j)
  /\ age[j] >= ReapAge
  /\ box' = [box EXCEPT ![j] = "exited"]
  /\ UNCHANGED <<asker, wire, queue, slot, age, passed, verdict, timedOut, faults>>

------------------------------------------------------------------------------
\* docker ps shows the reaper how old a running container is; the worker's timer runs
\* on until it has seen the container close, however long that has ended.
ageing(j) == alive(j) \/ owned(j)

Tick ==
  /\ waited' = [j \in Job |->
                  IF timing(j) /\ waited[j] < Ceiling THEN waited[j] + 1 ELSE waited[j]]
  /\ age' = [j \in Job |-> IF ageing(j) /\ age[j] < Oldest THEN age[j] + 1 ELSE age[j]]
  /\ <<waited, age>>' # <<waited, age>>
  /\ UNCHANGED <<fate, answer, request, shown, wire, queue, slot, box, passed, verdict,
                 timedOut, faults>>

Next ==
  \/ \E j \in Job :
       \/ \E f \in Programs[j] : Ask(j, f)
       \/ Subscribe(j) \/ Push(j) \/ CeilingFires(j) \/ Deliver(j)
       \/ Compile(j) \/ CompileFails(j) \/ PassTest(j) \/ FailTest(j) \/ Exit(j)
       \/ BoxDies(j) \/ Reap(j)
  \/ \E s \in Slot : Take(s) \/ WallClockFires(s) \/ Conclude(s)
  \/ WorkerCrash
  \/ Tick

\* Timers fire, Redis and the subscriber keep going, the worker's loops and the
\* reaper's run for ever.  The program and its container owe nobody a step.
Fairness ==
  /\ WF_vars(Tick)
  /\ \A j \in Job :
       /\ WF_vars(Subscribe(j)) /\ WF_vars(Push(j)) /\ WF_vars(Deliver(j))
       /\ WF_vars(CeilingFires(j)) /\ WF_vars(Reap(j))
  /\ \A s \in Slot :
       WF_vars(Take(s)) /\ WF_vars(WallClockFires(s)) /\ WF_vars(Conclude(s))

Spec == Init /\ [][Next]_vars
FairSpec == Spec /\ Fairness
------------------------------------------------------------------------------
TypeOK ==
  /\ fate \in [Job -> Promise!Fate \cup {Promise!Unasked}]
  /\ answer \in [Job -> Promise!Verdict \cup {"none"}]
  /\ request \in [Job -> Request]
  /\ waited \in [Job -> 0 .. Ceiling]
  /\ shown \in [Job -> Nat]
  /\ wire \in [Job -> Seq(Event)]
  /\ queue \in Seq(Job)
  /\ slot \in [Slot -> Job \cup {"idle"}]
  /\ box \in [Job -> Box]
  /\ age \in [Job -> 0 .. Oldest]
  /\ passed \in [Job -> 0 .. Tests]
  /\ verdict \in [Job -> {"none", "COMPILE_ERROR", "REJECTED"}]
  /\ timedOut \in [Job -> BOOLEAN]
  /\ crashes \in 0 .. MaxFaults
  /\ lost \in 0 .. MaxFaults

\* Every request is answered once, and what the answer says of the program is
\* true, whatever is killed, lost or late.
KeepsJudgePromise == Promise!Spec

\* With no message lost, a verdict that was earned test by test was also shown
\* test by test: the asker listened before the job could start, and the last
\* event comes last.  (Practice sees the same events as it passes them on.)
StreamIsWhole ==
  \A j \in Job : lost = 0 =>
    /\ answer[j] = "ACCEPTED" => shown[j] = Tests
    /\ answer[j] = "REJECTED" => shown[j] = fate[j] - 1

\* A program is told that it ran out of time only if the whole wall clock passed
\* between its start and the worker's seeing it closed, and no line of it had said
\* that it failed: never for being lost, left waiting, or reaped and seen to close
\* early.  That the container itself ran so long is not so: the timer outlasts it.
TimeLimitIsSpent ==
  \A j \in Job : answer[j] = "TIME_LIMIT" => age[j] >= WallClock /\ verdict[j] = "none"

\* Nobody waits for ever: the ceiling answers when the judge does not.  No program
\* holds a slot, and no container outlives its worker, for ever.
EverythingEnds ==
  /\ \A j \in Job : request[j] # "none" ~> answer[j] # "none"
  /\ \A s \in Slot : slot[s] # "idle" ~> slot[s] = "idle"
  /\ \A j \in Job : alive(j) ~> ~alive(j)
==============================================================================
