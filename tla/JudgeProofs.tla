------------------------------ MODULE JudgeProofs ------------------------------
(***************************************************************************)
(* The judge keeps its promise for any number of jobs, slots, tests and    *)
(* faults, and for any limits of time.                                     *)
(*                                                                         *)
(* An answer comes from a message, a message from what a container had     *)
(* printed, and what it had printed from the fate of its program: the      *)
(* inductive invariant has one part for each of these, and two (Asked,     *)
(* Handed) which say that nothing happens to a job nobody has asked for.   *)
(*                                                                         *)
(* That a verdict was shown test by test takes three more (Once, Printed,  *)
(* Stream): one container for each job, what it has printed by then, and   *)
(* how much of it is on the way.                                           *)
(***************************************************************************)
EXTENDS Judge, SequenceTheorems, TLAPS

Asked ==
  \A j \in Job :
    /\ fate[j] = -1 <=> request[j] = "none"
    /\ fate[j] = -1 =>
         /\ answer[j] = "none" /\ wire[j] = <<>>
         /\ box[j] = "none" /\ passed[j] = 0 /\ verdict[j] = "none"

Handed ==
  /\ \A i \in 1 .. Len(queue) : fate[queue[i]] # -1
  /\ \A s \in Slot : slot[s] # "idle" => fate[slot[s]] # -1

\* What a container has printed, its program has done.
Earned ==
  \A j \in Job :
    /\ box[j] = "running" => fate[j] > 0
    /\ passed[j] > 0 => passed[j] < fate[j]
    /\ verdict[j] = "COMPILE_ERROR" => fate[j] = 0
    /\ verdict[j] = "REJECTED" => fate[j] \in 1 .. Tests
    /\ timedOut[j] => age[j] >= WallClock

True(j, event) ==
  event.kind # "test" =>
    /\ event.verdict \in Promise!NoFault \cup {Promise!Deserved(fate[j])}
    /\ event.verdict = "TIME_LIMIT" => age[j] >= WallClock

Spent == \A j \in Job : answer[j] = "TIME_LIMIT" => age[j] >= WallClock

Truthful ==
  /\ \A j \in Job : \A i \in 1 .. Len(wire[j]) : True(j, wire[j][i])
  /\ Spent

IInv == TypeOK /\ Asked /\ Handed /\ Earned /\ Truthful
------------------------------------------------------------------------------
(* Messages.                                                               *)

\* Publishing adds one message to one channel, or nothing.
Added(j, event) ==
  /\ wire' \in [Job -> Seq(Event)]
  /\ \A k \in Job : k # j => wire'[k] = wire[k]
  /\ \A i \in 1 .. Len(wire'[j]) :
       (i \in 1 .. Len(wire[j]) /\ wire'[j][i] = wire[j][i]) \/ wire'[j][i] = event

LEMMA SendAdds ==
  ASSUME wire \in [Job -> Seq(Event)], NEW j \in Job, NEW event \in Event,
         Send(j, event) \/ UNCHANGED wire
  PROVE  Added(j, event)
<1>1. CASE UNCHANGED wire
  BY <1>1 DEF Added
<1>2. CASE wire' = [wire EXCEPT ![j] = Append(@, event)]
  <2>1. wire[j] \in Seq(Event)
    OBVIOUS
  <2>2. wire'[j] = Append(wire[j], event) /\ \A k \in Job : k # j => wire'[k] = wire[k]
    BY <1>2
  <2>3. wire' \in [Job -> Seq(Event)]
    BY <1>2, <2>1
  <2>4. \A i \in 1 .. Len(wire'[j]) :
          (i \in 1 .. Len(wire[j]) /\ wire'[j][i] = wire[j][i]) \/ wire'[j][i] = event
    BY <2>1, <2>2
  <2> QED
    BY <2>2, <2>3, <2>4 DEF Added
<1> QED
  BY <1>1, <1>2 DEF Send

LEMMA EmitAdds ==
  ASSUME TypeOK, NEW j \in Job, NEW event \in Event,
         Emit(j, event) \/ Publish(j, event)
  PROVE  Added(j, event) /\ lost' \in 0 .. MaxFaults
<1>1. Send(j, event) \/ UNCHANGED wire
  BY DEF Emit, Publish
<1>2. lost' \in 0 .. MaxFaults
  BY JudgeAssumption DEF Emit, Publish, Lose, TypeOK
<1> QED
  BY <1>1, <1>2, SendAdds DEF TypeOK

LEMMA Events ==
  ASSUME NEW kind \in {"test", "compile-failed", "done", "error"},
         NEW v \in Promise!Verdict
  PROVE  /\ Ev(kind, v) \in Event
         /\ Ev(kind, v).kind = kind /\ Ev(kind, v).verdict = v
BY DEF Ev, Event

LEMMA Verdicts ==
  /\ {"COMPILE_ERROR", "REJECTED", "ACCEPTED", "TIME_LIMIT", "INTERNAL_ERROR"}
       = Promise!Verdict
  /\ Promise!NoFault = {"TIME_LIMIT", "INTERNAL_ERROR"}
  /\ Promise!Fate = 0 .. Tests + 1 /\ Promise!Unasked = -1
BY DEF Promise!Verdict, Promise!NoFault, Promise!Fate, Promise!Unasked

\* What is on its way stays true as containers get older, and so does an answer.
LEMMA StaysTrue ==
  ASSUME IInv, UNCHANGED <<fate, answer>>,
         \A j \in Job : age'[j] \in Nat /\ age'[j] >= age[j],
         NEW j \in Job, NEW event \in Event, Added(j, event), True(j, event)
  PROVE  Truthful'
<1> USE DEF IInv
<1>1. \A k \in Job : age[k] \in Nat /\ WallClock \in Nat
  BY JudgeAssumption DEF TypeOK
<1>2. ASSUME NEW k \in Job, NEW e \in Event, True(k, e)
      PROVE  True(k, e)'
  BY <1>1, <1>2 DEF True, Promise!NoFault, Promise!Deserved
<1>3. ASSUME NEW k \in Job, NEW i \in 1 .. Len(wire'[k])
      PROVE  True(k, wire[k][i])'
  <2>1. CASE i \in 1 .. Len(wire[k]) /\ wire'[k][i] = wire[k][i]
    <3>1. wire[k][i] \in Event /\ True(k, wire[k][i])
      BY <2>1 DEF TypeOK, Truthful
    <3> QED
      BY <1>2, <2>1, <3>1
  <2>2. CASE k = j /\ wire'[k][i] = event
    BY <1>2, <2>2
  <2> QED
    BY <1>3, <2>1, <2>2 DEF Added
<1>4. Spent'
  BY <1>1 DEF Truthful, Spent
<1> QED
  BY <1>3, <1>4 DEF Truthful
------------------------------------------------------------------------------
(* The invariant.                                                          *)

LEMMA InitInv == Init => IInv
<1> SUFFICES ASSUME Init PROVE IInv
  OBVIOUS
<1> USE JudgeAssumption
<1>1. Oldest \in Nat
  BY DEF Oldest
<1>2. TypeOK
  BY <1>1, Verdicts DEF Init, TypeOK, Request, Box
<1>3. Asked /\ Handed /\ Earned
  BY Verdicts DEF Init, Asked, Handed, Earned
<1>4. Truthful
  BY DEF Init, Truthful, Spent
<1> QED
  BY <1>2, <1>3, <1>4 DEF IInv

\* Only a job of which nothing is known is asked for.
LEMMA AskInv ==
  ASSUME IInv, NEW j \in Job, NEW f \in Programs[j], Ask(j, f)
  PROVE  IInv'
<1> USE DEF IInv, container, faults
<1>1. f \in 0 .. Tests + 1 /\ Tests \in Nat
  BY JudgeAssumption
<1>2. fate \in [Job -> Int] /\ queue \in Seq(Job) /\ slot \in [Slot -> Job \cup {"idle"}]
  BY Verdicts, JudgeAssumption DEF TypeOK
<1>3. fate[j] = -1 /\ fate' = [fate EXCEPT ![j] = f]
  BY DEF Asked, Ask
<1>4. TypeOK'
  BY <1>1, Verdicts DEF TypeOK, Ask, Request
<1>5. Asked'
  BY <1>1, <1>2 DEF TypeOK, Asked, Ask
<1>6. Handed'
  BY <1>1, <1>2, <1>3 DEF Handed, Ask
<1>7. Earned'
  BY <1>1, <1>2, <1>3 DEF TypeOK, Asked, Earned, Ask
<1>8. Truthful'
  <2>1. wire[j] = <<>>
    BY <1>3 DEF Asked
  <2>2. \A k \in Job : k # j => fate'[k] = fate[k]
    BY <1>2, <1>3
  <2> QED
    BY <2>1, <2>2 DEF Ask, Truthful, True, Spent, Promise!Deserved
<1> QED
  BY <1>4, <1>5, <1>6, <1>7, <1>8

LEMMA SubscribePushInv ==
  ASSUME IInv, NEW j \in Job, Subscribe(j) \/ Push(j)
  PROVE  IInv'
<1> USE DEF IInv, container, faults
<1>1. UNCHANGED <<fate, answer, waited, shown, wire, slot, box, age, passed, verdict,
                  timedOut, crashes, lost>>
  BY DEF Subscribe, Push
<1>2. /\ request[j] # "none" /\ request' \in [Job -> Request]
      /\ \A k \in Job : request'[k] = "none" <=> request[k] = "none"
  BY DEF Subscribe, Push, TypeOK, Request
<1>3. /\ queue \in Seq(Job) /\ queue' \in Seq(Job)
      /\ \A i \in 1 .. Len(queue') :
           (i \in 1 .. Len(queue) /\ queue'[i] = queue[i]) \/ queue'[i] = j
  <2>1. queue \in Seq(Job)
    BY DEF TypeOK
  <2>2. CASE queue' = queue
    BY <2>1, <2>2
  <2>3. CASE queue' = Append(queue, j)
    BY <2>1, <2>3
  <2> QED
    BY <2>1, <2>2, <2>3 DEF Subscribe, Push
<1>4. TypeOK'
  BY <1>1, <1>2, <1>3 DEF TypeOK
<1>5. Asked'
  BY <1>1, <1>2 DEF Asked
<1>6. Handed'
  <2>1. fate[j] # -1
    BY <1>2 DEF Asked
  <2> QED
    BY <1>1, <1>3, <2>1 DEF Handed
<1>7. Earned' /\ Truthful'
  BY <1>1 DEF Earned, Truthful, True, Spent
<1> QED
  BY <1>4, <1>5, <1>6, <1>7

LEMMA CeilingInv == ASSUME IInv, NEW j \in Job, CeilingFires(j) PROVE IInv'
<1> USE DEF IInv, CeilingFires, Told, container, faults
<1>1. request[j] # "none"
  BY DEF timing
<1>2. TypeOK'
  BY Verdicts DEF TypeOK
<1>3. Asked'
  BY <1>1 DEF TypeOK, Asked
<1>4. Handed' /\ Earned'
  BY DEF Handed, Earned
<1>5. Truthful'
  BY DEF TypeOK, Truthful, True, Spent
<1> QED
  BY <1>2, <1>3, <1>4, <1>5

\* What is delivered was on its way.
LEMMA DeliverInv == ASSUME IInv, NEW j \in Job, Deliver(j) PROVE IInv'
<1> USE DEF IInv, container, faults
<1> DEFINE event == Head(wire[j])
<1>1. /\ wire[j] \in Seq(Event) /\ wire[j] # <<>>
      /\ wire' = [wire EXCEPT ![j] = Tail(wire[j])]
      /\ UNCHANGED <<fate, request, waited, queue, slot, box, age, passed, verdict,
                     timedOut, crashes, lost>>
  BY DEF Deliver, TypeOK
<1>2. /\ event = wire[j][1] /\ 1 \in 1 .. Len(wire[j])
      /\ event \in Event /\ True(j, event)
  BY <1>1 DEF Truthful
<1> HIDE DEF event
<1>3. /\ \/ answer' = answer
         \/ event.kind # "test" /\ Told(j, event.verdict)
      /\ shown' \in [Job -> Nat]
  BY <1>1, <1>2 DEF Deliver, TypeOK, event
<1>4. event.verdict \in Promise!Verdict
  BY <1>2 DEF Event
<1>5. answer' \in [Job -> Promise!Verdict \cup {"none"}]
  BY <1>3, <1>4 DEF Told, TypeOK
<1>6. /\ wire' \in [Job -> Seq(Event)]
      /\ \A k \in Job : k # j => wire'[k] = wire[k]
      /\ \A i \in 1 .. Len(wire'[j]) :
           i + 1 \in 1 .. Len(wire[j]) /\ wire'[j][i] = wire[j][i + 1]
  BY <1>1 DEF TypeOK
<1>7. TypeOK'
  BY <1>1, <1>3, <1>5, <1>6 DEF TypeOK
<1>8. fate[j] # -1 /\ request[j] # "none"
  BY <1>1 DEF Asked
<1>9. Asked'
  BY <1>1, <1>3, <1>6, <1>8 DEF Asked, Told, TypeOK
<1>10. Handed' /\ Earned'
  BY <1>1 DEF Handed, Earned
<1>11. Truthful'
  <2>1. ASSUME NEW k \in Job, NEW i \in 1 .. Len(wire'[k])
        PROVE  True(k, wire'[k][i])
    <3>1. CASE k = j
      BY <1>6, <3>1 DEF Truthful
    <3>2. CASE k # j
      BY <1>6, <3>2 DEF Truthful
    <3> QED
      BY <3>1, <3>2
  <2>2. \A k \in Job : \A i \in 1 .. Len(wire'[k]) : True(k, wire[k][i])'
    BY <1>1, <2>1 DEF True, Promise!Deserved, Promise!NoFault
  <2>3. Spent'
    BY <1>1, <1>2, <1>3 DEF True, Told, Truthful, Spent, TypeOK
  <2> QED
    BY <2>2, <2>3 DEF Truthful
<1> QED
  BY <1>7, <1>9, <1>10, <1>11
------------------------------------------------------------------------------
(* The container.                                                          *)

\* The steps that print nothing: Compile, Exit, BoxDies, Reap.
LEMMA SilentBoxInv ==
  ASSUME IInv, NEW j \in Job, Compile(j) \/ Exit(j) \/ BoxDies(j) \/ Reap(j)
  PROVE  IInv'
<1> USE DEF IInv, asker, faults
<1>1. /\ UNCHANGED <<asker, wire, queue, slot, age, passed, verdict, timedOut, faults>>
      /\ box[j] # "none"
      /\ \/ box' = [box EXCEPT ![j] = "exited"]
         \/ box' = [box EXCEPT ![j] = "running"] /\ fate[j] # 0
  BY DEF Compile, Exit, BoxDies, Reap, alive
<1>2. fate[j] # -1 /\ fate[j] \in -1 .. Tests + 1
  BY <1>1, Verdicts, JudgeAssumption DEF Asked, TypeOK
<1>3. TypeOK'
  BY <1>1 DEF TypeOK, Box
<1>4. Asked'
  BY <1>1, <1>2 DEF Asked, TypeOK
<1>5. Handed' /\ Truthful'
  BY <1>1 DEF Handed, Truthful, True, Spent
<1>6. Earned'
  <2>1. box'[j] = "running" => fate[j] > 0
    <3>1. CASE box' = [box EXCEPT ![j] = "exited"]
      BY <3>1 DEF TypeOK
    <3>2. CASE fate[j] # 0
      BY <1>2, <3>2, JudgeAssumption
    <3> QED
      BY <1>1, <3>1, <3>2
  <2>2. \A k \in Job : k # j => box'[k] = box[k]
    BY <1>1 DEF TypeOK
  <2> QED
    BY <1>1, <2>1, <2>2 DEF Earned
<1> QED
  BY <1>3, <1>4, <1>5, <1>6

LEMMA CompileFailsInv == ASSUME IInv, NEW j \in Job, CompileFails(j) PROVE IInv'
<1> USE DEF IInv, CompileFails, asker
<1> DEFINE event == Ev("compile-failed", "COMPILE_ERROR")
<1>1. event \in Event /\ True(j, event)
  <2>1. event \in Event /\ event.verdict = "COMPILE_ERROR"
    BY Events, Verdicts
  <2>2. Promise!Deserved(fate[j]) = "COMPILE_ERROR"
    BY DEF Promise!Deserved
  <2> QED
    BY <2>1, <2>2 DEF True
<1>2. Added(j, event) /\ lost' \in 0 .. MaxFaults
  BY <1>1, EmitAdds
<1>3. Truthful'
  BY <1>1, <1>2, StaysTrue DEF TypeOK, Oldest
<1> HIDE DEF event
<1>4. fate[j] # -1
  BY DEF Asked
<1>5. TypeOK'
  BY <1>2 DEF TypeOK, Added, Box
<1>6. Asked'
  BY <1>2, <1>4 DEF Asked, Added, TypeOK
<1>7. Handed' /\ Earned'
  BY <1>4 DEF Handed, Earned, TypeOK
<1> QED
  BY <1>3, <1>5, <1>6, <1>7

LEMMA PassTestInv == ASSUME IInv, NEW j \in Job, PassTest(j) PROVE IInv'
<1> USE DEF IInv, PassTest, asker
<1> DEFINE event == Ev("test", "ACCEPTED")
<1>1. event \in Event /\ event.kind = "test"
  BY Events, Verdicts
<1>2. Added(j, event) /\ lost' \in 0 .. MaxFaults
  BY <1>1, EmitAdds
<1>3. True(j, event)
  BY <1>1 DEF True
<1>4. Truthful'
  BY <1>1, <1>2, <1>3, StaysTrue DEF TypeOK, Oldest
<1> HIDE DEF event
<1>5. /\ fate[j] > 0 /\ fate[j] \in Int /\ passed[j] \in 0 .. Tests
      /\ passed[j] > 0 => passed[j] < fate[j]
      /\ passed'[j] = passed[j] + 1
  BY Verdicts, JudgeAssumption DEF Earned, TypeOK
<1>6. TypeOK'
  <2>1. passed' \in [Job -> 0 .. Tests]
    BY <1>5, JudgeAssumption DEF TypeOK
  <2> QED
    BY <1>2, <2>1 DEF TypeOK, Added
<1>7. Asked'
  BY <1>2, <1>5 DEF Asked, Added, TypeOK
<1>8. Handed'
  BY DEF Handed
<1>9. Earned'
  <2>1. passed'[j] < fate[j]
    BY <1>5, JudgeAssumption
  <2>2. \A k \in Job : k # j => passed'[k] = passed[k]
    BY DEF TypeOK
  <2> QED
    BY <2>1, <2>2 DEF Earned
<1> QED
  BY <1>4, <1>6, <1>7, <1>8, <1>9

LEMMA FailTestInv == ASSUME IInv, NEW j \in Job, FailTest(j) PROVE IInv'
<1> USE DEF IInv, FailTest, asker
<1> DEFINE event == Ev("test", "REJECTED")
<1>1. event \in Event /\ event.kind = "test"
  BY Events, Verdicts
<1>2. Added(j, event) /\ lost' \in 0 .. MaxFaults
  BY <1>1, EmitAdds
<1>3. True(j, event)
  BY <1>1 DEF True
<1>4. Truthful'
  BY <1>1, <1>2, <1>3, StaysTrue DEF TypeOK, Oldest
<1> HIDE DEF event
<1>5. fate[j] \in 1 .. Tests
  BY JudgeAssumption DEF TypeOK
<1>6. TypeOK'
  BY <1>2 DEF TypeOK, Added, Box
<1>7. Asked'
  BY <1>2, <1>5 DEF Asked, Added, TypeOK
<1>8. Handed' /\ Earned'
  BY <1>5 DEF Handed, Earned, TypeOK
<1> QED
  BY <1>4, <1>6, <1>7, <1>8
------------------------------------------------------------------------------
(* The worker.                                                             *)

LEMMA TakeInv == ASSUME IInv, NEW s \in Slot, Take(s) PROVE IInv'
<1> USE DEF IInv, Take, asker, faults
<1> DEFINE j == Head(queue)
<1>1. /\ queue \in Seq(Job) /\ queue # <<>>
      /\ j \in Job /\ j = queue[1] /\ 1 \in 1 .. Len(queue)
  BY DEF TypeOK
<1>2. /\ queue' \in Seq(Job)
      /\ \A i \in 1 .. Len(queue') : i + 1 \in 1 .. Len(queue) /\ queue'[i] = queue[i + 1]
  BY <1>1
<1>3. fate[j] # -1
  BY <1>1 DEF Handed
<1>4. /\ slot' = [slot EXCEPT ![s] = j] /\ box' = [box EXCEPT ![j] = "starting"]
      /\ UNCHANGED <<asker, wire, age, passed, verdict, timedOut, faults>>
  OBVIOUS
<1> HIDE DEF j, Take
<1>5. TypeOK'
  BY <1>1, <1>2, <1>4 DEF TypeOK, Box
<1>6. Asked'
  BY <1>1, <1>3, <1>4 DEF Asked, TypeOK
<1>7. Handed'
  BY <1>2, <1>3, <1>4 DEF Handed, TypeOK
<1>8. Earned'
  BY <1>1, <1>4 DEF Earned, TypeOK
<1>9. Truthful'
  BY <1>4 DEF Truthful, True, Spent
<1> QED
  BY <1>5, <1>6, <1>7, <1>8, <1>9

LEMMA WallClockInv == ASSUME IInv, NEW s \in Slot, WallClockFires(s) PROVE IInv'
<1> USE DEF IInv, WallClockFires, asker, faults
<1>1. slot[s] \in Job /\ fate[slot[s]] # -1
  BY DEF TypeOK, Handed
<1>2. TypeOK'
  BY <1>1 DEF TypeOK, Box
<1>3. Asked'
  BY <1>1 DEF Asked, TypeOK
<1>4. Handed' /\ Earned'
  BY <1>1 DEF Handed, Earned, TypeOK
<1>5. Truthful'
  BY DEF Truthful, True, Spent
<1> QED
  BY <1>2, <1>3, <1>4, <1>5

\* What the worker makes of a container is true of its program.
LEMMA FinalIsTrue ==
  ASSUME IInv, NEW j \in Job, fate[j] # -1
  PROVE  /\ Ev("done", Final(j)) \in Event /\ True(j, Ev("done", Final(j)))
         /\ Ev("error", "INTERNAL_ERROR") \in Event
         /\ True(j, Ev("error", "INTERNAL_ERROR"))
<1> USE DEF IInv
<1>1. /\ fate[j] \in -1 .. Tests + 1 /\ passed[j] \in 0 .. Tests /\ Tests \in Nat \ {0}
      /\ verdict[j] \in {"none", "COMPILE_ERROR", "REJECTED"}
  BY Verdicts, JudgeAssumption DEF TypeOK
<1>2. /\ Final(j) \in {"COMPILE_ERROR", "REJECTED", "ACCEPTED"} =>
           Final(j) = Promise!Deserved(fate[j])
      /\ Final(j) \in {"COMPILE_ERROR", "REJECTED", "ACCEPTED", "TIME_LIMIT",
                       "INTERNAL_ERROR"}
      /\ Final(j) = "TIME_LIMIT" => age[j] >= WallClock
  <2>1. CASE verdict[j] # "none"
    BY <1>1, <2>1 DEF Final, Earned, Promise!Deserved
  <2>2. CASE verdict[j] = "none" /\ timedOut[j]
    BY <2>2 DEF Final, Earned
  <2>3. CASE verdict[j] = "none" /\ ~timedOut[j] /\ passed[j] = Tests
    BY <1>1, <2>3 DEF Final, Earned, Promise!Deserved
  <2>4. CASE verdict[j] = "none" /\ ~timedOut[j] /\ passed[j] # Tests
    BY <2>4 DEF Final
  <2> QED
    BY <2>1, <2>2, <2>3, <2>4
<1>3. Ev("done", Final(j)) \in Event /\ Ev("done", Final(j)).verdict = Final(j)
  BY <1>2, Events, Verdicts
<1>4. /\ Ev("error", "INTERNAL_ERROR") \in Event
      /\ Ev("error", "INTERNAL_ERROR").verdict = "INTERNAL_ERROR"
  BY Events, Verdicts
<1> QED
  BY <1>2, <1>3, <1>4, Verdicts DEF True

LEMMA ConcludeInv == ASSUME IInv, NEW s \in Slot, Conclude(s) PROVE IInv'
<1> USE DEF IInv, asker, container
<1> DEFINE j == slot[s]
<1>1. /\ j \in Job /\ fate[j] # -1
      /\ slot' = [slot EXCEPT ![s] = "idle"]
      /\ UNCHANGED <<asker, queue, container, crashes>>
  BY DEF TypeOK, Handed, Conclude
<1>2. PICK event \in Event :
        True(j, event) /\ Added(j, event) /\ lost' \in 0 .. MaxFaults
  <2>1. CASE Publish(j, Ev("done", Final(j)))
    BY <1>1, <2>1, FinalIsTrue, EmitAdds
  <2>2. CASE Lose /\ Send(j, Ev("error", "INTERNAL_ERROR"))
    BY <1>1, <2>2, FinalIsTrue, SendAdds, JudgeAssumption DEF Lose, TypeOK
  <2> QED
    BY <2>1, <2>2 DEF Conclude
<1> HIDE DEF j
<1>3. TypeOK'
  BY <1>1, <1>2 DEF TypeOK, Added
<1>4. Asked'
  BY <1>1, <1>2 DEF Asked, Added, TypeOK
<1>5. Handed' /\ Earned'
  BY <1>1 DEF Handed, Earned, TypeOK
<1>6. Truthful'
  BY <1>1, <1>2, StaysTrue DEF TypeOK, Oldest
<1> QED
  BY <1>3, <1>4, <1>5, <1>6

LEMMA CrashInv == ASSUME IInv, WorkerCrash PROVE IInv'
<1> USE DEF IInv, WorkerCrash, asker, container
<1>1. TypeOK'
  BY JudgeAssumption DEF TypeOK
<1>2. Asked' /\ Handed' /\ Earned' /\ Truthful'
  BY DEF Asked, Handed, Earned, Truthful, True, Spent
<1> QED
  BY <1>1, <1>2

LEMMA TickInv == ASSUME IInv, Tick PROVE IInv'
<1> USE JudgeAssumption DEF IInv, Tick
<1>1. Oldest \in Nat
  BY DEF Oldest
<1>2. \A j \in Job : age[j] \in Nat /\ age'[j] \in 0 .. Oldest /\ age'[j] >= age[j]
  BY <1>1 DEF TypeOK
<1>3. waited' \in [Job -> 0 .. Ceiling]
  BY DEF TypeOK
<1>4. age' \in [Job -> 0 .. Oldest]
  BY <1>1 DEF TypeOK
<1> HIDE DEF Tick
<1>5. UNCHANGED <<fate, answer, request, shown, wire, queue, slot, box, passed, verdict,
                  timedOut, crashes, lost>>
  BY DEF Tick, faults
<1>6. TypeOK'
  BY <1>3, <1>4, <1>5 DEF TypeOK
<1>7. Asked' /\ Handed'
  BY <1>5 DEF Asked, Handed
<1>8. Earned'
  BY <1>2, <1>5 DEF Earned
<1>9. Truthful'
  BY <1>2, <1>5 DEF Truthful, True, Spent, Promise!Deserved, Promise!NoFault
<1> QED
  BY <1>6, <1>7, <1>8, <1>9

LEMMA NextInv == IInv /\ [Next]_vars => IInv'
<1> SUFFICES ASSUME IInv, [Next]_vars PROVE IInv'
  OBVIOUS
<1>1. ASSUME NEW j \in Job, NEW f \in Programs[j], Ask(j, f) PROVE IInv'
  BY <1>1, AskInv
<1>2. ASSUME NEW j \in Job, Subscribe(j) \/ Push(j) \/ CeilingFires(j) \/ Deliver(j)
      PROVE  IInv'
  BY <1>2, SubscribePushInv, CeilingInv, DeliverInv
<1>3. ASSUME NEW j \in Job,
             \/ Compile(j) \/ CompileFails(j) \/ PassTest(j) \/ FailTest(j) \/ Exit(j)
             \/ BoxDies(j) \/ Reap(j)
      PROVE  IInv'
  BY <1>3, SilentBoxInv, CompileFailsInv, PassTestInv, FailTestInv
<1>4. ASSUME NEW s \in Slot, Take(s) \/ WallClockFires(s) \/ Conclude(s) PROVE IInv'
  BY <1>4, TakeInv, WallClockInv, ConcludeInv
<1>5. CASE WorkerCrash \/ Tick
  BY <1>5, CrashInv, TickInv
<1>6. CASE UNCHANGED vars
  BY <1>6 DEF IInv, TypeOK, Asked, Handed, Earned, Truthful, True, Spent, vars
<1> QED
  BY <1>1, <1>2, <1>3, <1>4, <1>5, <1>6 DEF Next

LEMMA InvHolds == Spec => []IInv
<1> QED
  BY InitInv, NextInv, PTL DEF Spec
------------------------------------------------------------------------------
\* Type correctness.
THEOREM TypeCorrect == Spec => []TypeOK
<1>1. IInv => TypeOK
  BY DEF IInv
<1> QED
  BY <1>1, InvHolds, PTL

\* Asking and answering are the steps of the promise.
LEMMA StepsOfThePromise ==
  IInv /\ [Next]_vars => [Promise!Next]_<<fate, answer>>
<1> SUFFICES ASSUME IInv, [Next]_vars PROVE [Promise!Next]_<<fate, answer>>
  OBVIOUS
<1> USE DEF IInv
<1>1. ASSUME NEW j \in Job, NEW f \in Programs[j], Ask(j, f)
      PROVE  Promise!Ask(j)
  <2>1. f \in Promise!Fate
    BY JudgeAssumption, Verdicts
  <2>2. fate[j] = -1
    BY <1>1 DEF Ask, Asked
  <2> QED
    BY <1>1, <2>1, <2>2, Verdicts DEF Ask, Promise!Ask
<1>2. ASSUME NEW j \in Job, NEW v, Told(j, v), UNCHANGED fate, fate[j] # -1,
             v \in Promise!NoFault \cup {Promise!Deserved(fate[j])}
      PROVE  Promise!Answer(j) \/ UNCHANGED <<fate, answer>>
  BY <1>2, Verdicts DEF Told, Promise!Answer, TypeOK
<1>3. ASSUME NEW j \in Job, CeilingFires(j)
      PROVE  Promise!Answer(j) \/ UNCHANGED <<fate, answer>>
  <2>1. fate[j] # -1
    BY <1>3 DEF CeilingFires, timing, Asked
  <2> QED
    BY <1>2, <1>3, <2>1, Verdicts DEF CeilingFires
<1>4. ASSUME NEW j \in Job, Deliver(j)
      PROVE  Promise!Answer(j) \/ UNCHANGED <<fate, answer>>
  <2> DEFINE event == Head(wire[j])
  <2>1. wire[j] \in Seq(Event) /\ wire[j] # <<>> /\ fate[j] # -1
    BY <1>4 DEF Deliver, TypeOK, Asked
  <2>2. True(j, event)
    BY <2>1 DEF Truthful
  <2>3. UNCHANGED <<fate, answer>> \/ (event.kind # "test" /\ Told(j, event.verdict))
    BY <1>4 DEF Deliver
  <2>4. UNCHANGED fate
    BY <1>4 DEF Deliver
  <2> HIDE DEF event
  <2> QED
    BY <1>2, <2>1, <2>2, <2>3, <2>4 DEF True
<1>5. ASSUME NEW j \in Job,
             \/ Subscribe(j) \/ Push(j)
             \/ Compile(j) \/ CompileFails(j) \/ PassTest(j) \/ FailTest(j) \/ Exit(j)
             \/ BoxDies(j) \/ Reap(j)
      PROVE  UNCHANGED <<fate, answer>>
  BY <1>5 DEF Subscribe, Push, Compile, CompileFails, PassTest, FailTest, Exit, BoxDies,
              Reap, asker
<1>6. ASSUME NEW s \in Slot, Take(s) \/ WallClockFires(s) \/ Conclude(s)
      PROVE  UNCHANGED <<fate, answer>>
  BY <1>6 DEF Take, WallClockFires, Conclude, asker
<1>7. CASE WorkerCrash \/ Tick \/ UNCHANGED vars
  BY <1>7 DEF WorkerCrash, Tick, vars, asker
<1> QED
  BY <1>1, <1>3, <1>4, <1>5, <1>6, <1>7 DEF Next, Promise!Next

\* The asker, the worker, the containers, the reaper and a Redis that forgets keep,
\* together, the promise of one answer that is true of the program.
THEOREM JudgeKeepsItsPromise == Spec => KeepsJudgePromise
<1>1. Init => Promise!Init
  BY DEF Init, Promise!Init
<1> QED
  BY <1>1, InvHolds, StepsOfThePromise, PTL DEF Spec, KeepsJudgePromise, Promise!Spec
------------------------------------------------------------------------------
\* A job is queued once, taken once, and has a container from then on.
Once ==
  /\ \A i, l \in 1 .. Len(queue) : queue[i] = queue[l] => i = l
  /\ \A i \in 1 .. Len(queue) : request[queue[i]] = "queued" /\ box[queue[i]] = "none"
  /\ \A s \in Slot : slot[s] # "idle" => request[slot[s]] = "queued" /\ box[slot[s]] # "none"
  /\ \A s, t \in Slot : slot[s] = slot[t] => slot[s] = "idle" \/ s = t
  /\ \A j \in Job : request[j] # "queued" => box[j] = "none"

\* What a container has printed when it has none, runs, and is at its end.
PrintedOf(j) ==
  /\ box[j] = "none" => wire[j] = <<>> /\ shown[j] = 0 /\ passed[j] = 0
  /\ verdict[j] # "none" => box[j] = "exited"
  /\ verdict[j] = "REJECTED" => passed[j] = fate[j] - 1
  /\ \A i \in 1 .. Len(wire[j]) :
       wire[j][i].kind = "compile-failed" => wire[j][i].verdict = "COMPILE_ERROR"

Printed == \A j \in Job : PrintedOf(j)

LEMMA InitOnce == Init => Once /\ Printed
<1> QED
  BY DEF Init, Once, Printed, PrintedOf

\* Steps that queue nothing and take nothing.
LEMMA FrameOnce ==
  ASSUME TypeOK, Once, UNCHANGED <<queue, slot>>,
         \A j \in Job : request'[j] = "queued" <=> request[j] = "queued",
         \A j \in Job : box'[j] = "none" <=> box[j] = "none"
  PROVE  Once'
<1>1. queue \in Seq(Job) /\ slot \in [Slot -> Job \cup {"idle"}]
  BY DEF TypeOK
<1>2. \A i \in 1 .. Len(queue) : queue[i] \in Job
  BY <1>1
<1> QED
  BY <1>1, <1>2 DEF Once

LEMMA PushOnce == ASSUME TypeOK, Once, NEW j \in Job, Push(j) PROVE Once'
<1> DEFINE n == Len(queue)
<1>1. /\ queue \in Seq(Job) /\ slot \in [Slot -> Job \cup {"idle"}] /\ request \in [Job -> Request]
      /\ n \in Nat /\ \A i \in 1 .. n : queue[i] \in Job
  BY LenProperties, ElementOfSeq DEF TypeOK
<1>2. /\ request[j] = "listening" /\ UNCHANGED <<slot, box>>
      /\ request'[j] = "queued" /\ \A k \in Job : k # j => request'[k] = request[k]
  BY <1>1 DEF Push, container
<1>3. /\ Len(queue') = n + 1 /\ queue'[n + 1] = j /\ \A i \in 1 .. n : queue'[i] = queue[i]
  BY <1>1, AppendProperties DEF Push
<1>4. box[j] = "none" /\ (\A i \in 1 .. n : queue[i] # j)
  BY <1>2 DEF Once
<1>5. \A i \in 1 .. n + 1 : i = n + 1 \/ i \in 1 .. n
  BY <1>1
<1>6. \A i, l \in 1 .. Len(queue') : queue'[i] = queue'[l] => i = l
  BY <1>3, <1>4, <1>5 DEF Once
<1>7. \A i \in 1 .. Len(queue') : request'[queue'[i]] = "queued" /\ box'[queue'[i]] = "none"
  BY <1>1, <1>2, <1>3, <1>4, <1>5 DEF Once
<1>8. \A s \in Slot : slot'[s] # "idle" =>
        request'[slot'[s]] = "queued" /\ box'[slot'[s]] # "none"
  BY <1>1, <1>2 DEF Once
<1>9. /\ \A s, t \in Slot : slot'[s] = slot'[t] => slot'[s] = "idle" \/ s = t
      /\ \A k \in Job : request'[k] # "queued" => box'[k] = "none"
  BY <1>2 DEF Once
<1> QED
  BY <1>6, <1>7, <1>8, <1>9 DEF Once

LEMMA TakeOnce == ASSUME TypeOK, Once, NEW s \in Slot, Take(s) PROVE Once'
<1> DEFINE n == Len(queue)
<1>1. /\ queue \in Seq(Job) /\ slot \in [Slot -> Job \cup {"idle"}] /\ box \in [Job -> Box]
      /\ n \in Nat \ {0} /\ \A i \in 1 .. n : queue[i] \in Job
  BY EmptySeq, LenProperties, ElementOfSeq DEF TypeOK, Take
<1>2. PICK j \in Job : j = Head(queue) /\ j = queue[1]
  BY <1>1
<1>3. /\ slot[s] = "idle" /\ UNCHANGED request
      /\ slot'[s] = j /\ \A t \in Slot : t # s => slot'[t] = slot[t]
      /\ box'[j] = "starting" /\ \A k \in Job : k # j => box'[k] = box[k]
  BY <1>1, <1>2 DEF Take, asker
<1>4. /\ Len(queue') = n - 1 /\ \A i \in 1 .. n - 1 : queue'[i] = queue[i + 1]
  BY <1>1, EmptySeq, HeadTailProperties DEF Take
<1>5. j # "idle"
  BY JudgeAssumption
<1>6. request[j] = "queued" /\ box[j] = "none"
  BY <1>1, <1>2 DEF Once
<1>7. \A i \in 1 .. n - 1 : i + 1 \in 1 .. n /\ queue[i + 1] \in Job /\ queue[i + 1] # j
  BY <1>1, <1>2 DEF Once
<1>8. \A i, l \in 1 .. Len(queue') : queue'[i] = queue'[l] => i = l
  <2>1. SUFFICES ASSUME NEW i \in 1 .. n - 1, NEW l \in 1 .. n - 1, queue[i + 1] = queue[l + 1]
                 PROVE  i = l
    BY <1>4
  <2>2. i + 1 = l + 1
    BY <1>7, <2>1 DEF Once
  <2> QED
    BY <1>1, <2>2
<1>9. \A i \in 1 .. Len(queue') : request'[queue'[i]] = "queued" /\ box'[queue'[i]] = "none"
  BY <1>3, <1>4, <1>7 DEF Once
<1>10. \A t \in Slot : slot'[t] # "idle" =>
         request'[slot'[t]] = "queued" /\ box'[slot'[t]] # "none"
  <2>1. SUFFICES ASSUME NEW t \in Slot, slot'[t] # "idle"
                 PROVE  request'[slot'[t]] = "queued" /\ box'[slot'[t]] # "none"
    OBVIOUS
  <2>2. CASE t = s
    BY <1>3, <1>6, <2>2
  <2>3. CASE t # s
    <3>1. slot[t] \in Job /\ slot[t] # j /\ slot'[t] = slot[t]
      BY <1>1, <1>3, <1>6, <2>1, <2>3 DEF Once
    <3> QED
      BY <1>3, <2>1, <3>1 DEF Once
  <2> QED
    BY <2>2, <2>3
<1>11. \A t, u \in Slot : slot'[t] = slot'[u] => slot'[t] = "idle" \/ t = u
  <2>1. \A t \in Slot : slot[t] # j
    BY <1>5, <1>6 DEF Once
  <2> QED
    BY <1>3, <2>1 DEF Once
<1>12. \A k \in Job : request'[k] # "queued" => box'[k] = "none"
  BY <1>3, <1>6 DEF Once
<1> QED
  BY <1>8, <1>9, <1>10, <1>11, <1>12 DEF Once

LEMMA ReleaseOnce ==
  ASSUME TypeOK, Once, UNCHANGED <<queue, request, box>>,
         \A s \in Slot : slot'[s] = slot[s] \/ slot'[s] = "idle"
  PROVE  Once'
<1> QED
  BY DEF Once

LEMMA NextOnce == ASSUME IInv, Once, [Next]_vars PROVE Once'
<1>0. TypeOK /\ request \in [Job -> Request] /\ box \in [Job -> Box]
  BY DEF IInv, TypeOK
<1>1. ASSUME NEW j \in Job, NEW f \in Programs[j], Ask(j, f) PROVE Once'
  <2>1. UNCHANGED <<queue, slot, box>>
    BY <1>1 DEF Ask, container
  <2>2. \A k \in Job : request'[k] = "queued" <=> request[k] = "queued"
    BY <1>0, <1>1 DEF Ask
  <2> QED
    BY <1>0, <2>1, <2>2, FrameOnce
<1>2. ASSUME NEW j \in Job, Subscribe(j) PROVE Once'
  <2>1. UNCHANGED <<queue, slot, box>>
    BY <1>2 DEF Subscribe, container
  <2>2. \A k \in Job : request'[k] = "queued" <=> request[k] = "queued"
    BY <1>0, <1>2 DEF Subscribe
  <2> QED
    BY <1>0, <2>1, <2>2, FrameOnce
<1>3. ASSUME NEW j \in Job, CeilingFires(j) \/ Deliver(j) PROVE Once'
  <2>1. UNCHANGED <<queue, slot, box, request>>
    BY <1>3 DEF CeilingFires, Deliver, container
  <2> QED
    BY <1>0, <2>1, FrameOnce
<1>4. ASSUME NEW j \in Job, Compile(j) \/ CompileFails(j) \/ PassTest(j) \/ FailTest(j) \/ Exit(j)
                              \/ BoxDies(j) \/ Reap(j)
      PROVE  Once'
  <2>1. UNCHANGED <<queue, slot, request>>
    BY <1>4 DEF Compile, CompileFails, PassTest, FailTest, Exit, BoxDies, Reap, asker
  <2>2. \A k \in Job : box'[k] = "none" <=> box[k] = "none"
    BY <1>0, <1>4 DEF Compile, CompileFails, PassTest, FailTest, Exit, BoxDies, Reap, alive
  <2> QED
    BY <1>0, <2>1, <2>2, FrameOnce
<1>5. ASSUME NEW s \in Slot, WallClockFires(s) PROVE Once'
  <2>1. UNCHANGED <<queue, slot, request>>
    BY <1>5 DEF WallClockFires, asker
  <2>2. slot[s] \in Job /\ box[slot[s]] # "none" /\ box' = [box EXCEPT ![slot[s]] = "exited"]
    BY <1>0, <1>5 DEF WallClockFires, Once, TypeOK
  <2>3. \A k \in Job : box'[k] = "none" <=> box[k] = "none"
    BY <1>0, <2>2
  <2> QED
    BY <1>0, <2>1, <2>3, FrameOnce
<1>6. CASE Tick \/ UNCHANGED vars
  <2>1. UNCHANGED <<queue, slot, request, box>>
    BY <1>6 DEF Tick, vars
  <2> QED
    BY <1>0, <2>1, FrameOnce
<1>7. ASSUME NEW s \in Slot, Conclude(s) PROVE Once'
  <2>1. UNCHANGED <<queue, request, box>> /\ \A t \in Slot : slot'[t] = slot[t] \/ slot'[t] = "idle"
    BY <1>0, <1>7 DEF Conclude, asker, container, TypeOK
  <2> QED
    BY <1>0, <2>1, ReleaseOnce
<1>8. CASE WorkerCrash
  <2>1. UNCHANGED <<queue, request, box>> /\ \A t \in Slot : slot'[t] = slot[t] \/ slot'[t] = "idle"
    BY <1>8 DEF WorkerCrash, asker, container
  <2> QED
    BY <1>0, <2>1, ReleaseOnce
<1> QED
  BY <1>0, <1>1, <1>2, <1>3, <1>4, <1>5, <1>6, <1>7, <1>8, PushOnce, TakeOnce DEF Next

LEMMA FramePrinted ==
  ASSUME NEW j \in Job, PrintedOf(j), fate'[j] = fate[j], shown'[j] = shown[j],
         wire'[j] = wire[j], passed'[j] = passed[j], verdict'[j] = verdict[j],
         box'[j] = "none" => box[j] = "none",
         verdict[j] # "none" => box'[j] = "exited"
  PROVE  PrintedOf(j)'
<1> QED
  BY DEF PrintedOf

LEMMA AskPrinted ==
  ASSUME IInv, Printed, NEW j \in Job, NEW f \in Programs[j], Ask(j, f) PROVE Printed'
<1>1. UNCHANGED <<shown, wire, passed, verdict, box>>
  BY DEF Ask, container
<1>2. fate \in [Job -> Int] /\ fate[j] = -1 /\ verdict[j] = "none"
  BY Verdicts, JudgeAssumption DEF IInv, TypeOK, Asked, Ask
<1>3. \A k \in Job : k # j => fate'[k] = fate[k]
  BY <1>2 DEF Ask
<1> QED
  BY <1>1, <1>2, <1>3 DEF Printed, PrintedOf

\* The asker's steps, which print nothing, and the ageing of a container.
LEMMA SilentPrinted ==
  ASSUME IInv, Printed, UNCHANGED <<fate, shown, wire, passed, verdict>>,
         \A j \in Job : \/ box'[j] = box[j]
                        \/ box[j] # "none" /\ box'[j] = "exited"
                        \/ verdict[j] = "none" /\ box'[j] # "none"
  PROVE  Printed'
<1> QED
  BY DEF Printed, PrintedOf

LEMMA DeliverPrinted == ASSUME IInv, Printed, NEW j \in Job, Deliver(j) PROVE Printed'
<1>1. /\ wire \in [Job -> Seq(Event)] /\ shown \in [Job -> Nat] /\ wire[j] # <<>>
      /\ wire' = [wire EXCEPT ![j] = Tail(wire[j])]
      /\ UNCHANGED <<fate, box, passed, verdict>>
  BY DEF Deliver, container, IInv, TypeOK
<1>2. \A k \in Job : k # j => wire'[k] = wire[k] /\ shown'[k] = shown[k]
  BY <1>1 DEF Deliver
<1>3. box[j] # "none"
  BY <1>1 DEF Printed, PrintedOf
<1>4. /\ Len(wire'[j]) = Len(wire[j]) - 1 /\ Len(wire[j]) \in Nat
      /\ \A i \in 1 .. Len(wire'[j]) : wire'[j][i] = wire[j][i + 1]
  BY <1>1, HeadTailProperties, LenProperties
<1>5. \A i \in 1 .. Len(wire'[j]) : i + 1 \in 1 .. Len(wire[j])
  BY <1>4
<1>6. PrintedOf(j)'
  BY <1>1, <1>3, <1>4, <1>5 DEF Printed, PrintedOf
<1>7. ASSUME NEW k \in Job, k # j PROVE PrintedOf(k)'
  BY <1>1, <1>2, <1>7, FramePrinted DEF Printed, PrintedOf
<1> QED
  BY <1>6, <1>7 DEF Printed

\* A line that a container prints, and what the slot makes of the container at its end.
LEMMA EmitPrinted ==
  ASSUME IInv, Printed, NEW j \in Job, NEW event \in Event, Added(j, event),
         event.kind = "compile-failed" => event.verdict = "COMPILE_ERROR",
         UNCHANGED <<fate, shown>>, box[j] # "none", box'[j] # "none",
         \A k \in Job : k # j => /\ box'[k] = box[k] /\ passed'[k] = passed[k]
                                 /\ verdict'[k] = verdict[k],
         verdict'[j] # "none" => box'[j] = "exited",
         verdict'[j] = "REJECTED" => passed'[j] = fate[j] - 1
  PROVE  Printed'
<1>1. PrintedOf(j)'
  BY DEF Printed, PrintedOf, Added
<1>2. ASSUME NEW k \in Job, k # j PROVE PrintedOf(k)'
  BY <1>2, FramePrinted DEF Printed, PrintedOf, Added
<1> QED
  BY <1>1, <1>2 DEF Printed

LEMMA BoxPrinted ==
  ASSUME IInv, Printed, NEW j \in Job, CompileFails(j) \/ PassTest(j) \/ FailTest(j)
  PROVE  Printed'
<1>0. TypeOK /\ box \in [Job -> Box] /\ passed \in [Job -> 0 .. Tests] /\ Tests \in Nat
      /\ verdict \in [Job -> {"none", "COMPILE_ERROR", "REJECTED"}]
      /\ fate \in [Job -> Int]
  BY Verdicts, JudgeAssumption DEF IInv, TypeOK
<1>1. UNCHANGED <<fate, shown>> /\ box[j] \in {"starting", "running"}
  BY DEF CompileFails, PassTest, FailTest, asker
<1>2. verdict[j] = "none"
  BY <1>1 DEF Printed, PrintedOf
<1>3. CASE CompileFails(j)
  <2> DEFINE event == Ev("compile-failed", "COMPILE_ERROR")
  <2>1. event \in Event /\ event.verdict = "COMPILE_ERROR"
    BY Events, Verdicts
  <2>2. Added(j, event)
    BY <1>0, <1>3, <2>1, EmitAdds DEF CompileFails
  <2>3. /\ box'[j] = "exited" /\ verdict'[j] = "COMPILE_ERROR"
        /\ \A k \in Job : k # j => /\ box'[k] = box[k] /\ passed'[k] = passed[k]
                                   /\ verdict'[k] = verdict[k]
    BY <1>0, <1>3 DEF CompileFails
  <2> QED
    BY <1>1, <2>1, <2>2, <2>3, EmitPrinted
<1>4. CASE PassTest(j)
  <2> DEFINE event == Ev("test", "ACCEPTED")
  <2>1. event \in Event /\ event.kind = "test"
    BY Events, Verdicts
  <2>2. Added(j, event)
    BY <1>0, <1>4, <2>1, EmitAdds DEF PassTest
  <2>3. /\ box' = box /\ verdict' = verdict
        /\ \A k \in Job : k # j => passed'[k] = passed[k]
    BY <1>0, <1>4 DEF PassTest
  <2> QED
    BY <1>1, <1>2, <2>1, <2>2, <2>3, EmitPrinted
<1>5. CASE FailTest(j)
  <2> DEFINE event == Ev("test", "REJECTED")
  <2>1. event \in Event /\ event.kind = "test"
    BY Events, Verdicts
  <2>2. Added(j, event)
    BY <1>0, <1>5, <2>1, EmitAdds DEF FailTest
  <2>3. /\ box'[j] = "exited" /\ verdict'[j] = "REJECTED" /\ passed' = passed
        /\ \A k \in Job : k # j => box'[k] = box[k] /\ verdict'[k] = verdict[k]
    BY <1>0, <1>5 DEF FailTest
  <2>4. passed[j] = fate[j] - 1
    BY <1>0, <1>5 DEF FailTest
  <2> QED
    BY <1>1, <2>1, <2>2, <2>3, <2>4, EmitPrinted
<1> QED
  BY <1>3, <1>4, <1>5

LEMMA ConcludePrinted == ASSUME IInv, Printed, NEW s \in Slot, Conclude(s) PROVE Printed'
<1>1. PICK j \in Job : slot[s] = j
  BY DEF IInv, TypeOK, Conclude
<1>2. TypeOK /\ fate[j] # -1 /\ UNCHANGED <<fate, shown, box, passed, verdict>> /\ box[j] = "exited"
  BY <1>1 DEF IInv, Handed, Conclude, asker, container
<1>3. CASE Publish(j, Ev("done", Final(j)))
  <2>1. Ev("done", Final(j)) \in Event /\ Ev("done", Final(j)).kind = "done"
    BY <1>2, FinalIsTrue DEF Ev
  <2>2. Added(j, Ev("done", Final(j)))
    BY <1>2, <1>3, <2>1, EmitAdds
  <2> QED
    BY <1>2, <2>1, <2>2, EmitPrinted DEF Printed, PrintedOf
<1>4. CASE Send(j, Ev("error", "INTERNAL_ERROR"))
  <2>1. /\ Ev("error", "INTERNAL_ERROR") \in Event
        /\ Ev("error", "INTERNAL_ERROR").kind = "error"
    BY <1>2, FinalIsTrue DEF Ev
  <2>2. Added(j, Ev("error", "INTERNAL_ERROR"))
    BY <1>2, <1>4, <2>1, SendAdds DEF TypeOK
  <2> QED
    BY <1>2, <2>1, <2>2, EmitPrinted DEF Printed, PrintedOf
<1> QED
  BY <1>1, <1>3, <1>4 DEF Conclude

LEMMA NextPrinted == ASSUME IInv, Once, Printed, [Next]_vars PROVE Printed'
<1>0. box \in [Job -> Box]
  BY DEF IInv, TypeOK
<1>1. ASSUME NEW j \in Job, Subscribe(j) \/ Push(j) \/ CeilingFires(j) PROVE Printed'
  <2>1. UNCHANGED <<fate, shown, wire, passed, verdict, box>>
    BY <1>1 DEF Subscribe, Push, CeilingFires, container
  <2> QED
    BY <2>1, SilentPrinted
<1>2. ASSUME NEW j \in Job, Compile(j) \/ Exit(j) \/ BoxDies(j) \/ Reap(j) PROVE Printed'
  <2>1. UNCHANGED <<fate, shown, wire, passed, verdict>>
    BY <1>2 DEF Compile, Exit, BoxDies, Reap, asker
  <2>2. /\ box[j] \in {"starting", "running"} /\ box'[j] # "none"
        /\ \A k \in Job : k # j => box'[k] = box[k]
    BY <1>0, <1>2 DEF Compile, Exit, BoxDies, Reap, alive
  <2>3. verdict[j] = "none"
    BY <2>2 DEF Printed, PrintedOf
  <2> QED
    BY <2>1, <2>2, <2>3, SilentPrinted
<1>3. ASSUME NEW s \in Slot, Take(s) PROVE Printed'
  <2>1. UNCHANGED <<fate, shown, wire, passed, verdict>>
    BY <1>3 DEF Take, asker
  <2>2. Head(queue) \in Job /\ Head(queue) = queue[1] /\ 1 \in 1 .. Len(queue)
    BY <1>3, EmptySeq, HeadTailProperties DEF IInv, TypeOK, Take
  <2>3. box[Head(queue)] = "none"
    BY <2>2 DEF Once
  <2>4. verdict[Head(queue)] = "none"
    BY <2>2, <2>3 DEF Printed, PrintedOf
  <2>5. box' = [box EXCEPT ![Head(queue)] = "starting"]
    BY <1>3 DEF Take
  <2>6. \A k \in Job : box'[k] = box[k] \/ (verdict[k] = "none" /\ box'[k] # "none")
    BY <1>0, <2>2, <2>4, <2>5
  <2> QED
    BY <2>1, <2>6, SilentPrinted
<1>4. ASSUME NEW s \in Slot, WallClockFires(s) PROVE Printed'
  <2>1. UNCHANGED <<fate, shown, wire, passed, verdict>>
    BY <1>4 DEF WallClockFires, asker
  <2>2. slot[s] \in Job /\ box[slot[s]] # "none" /\ box' = [box EXCEPT ![slot[s]] = "exited"]
    BY <1>4 DEF WallClockFires, Once, IInv, TypeOK
  <2>3. \A k \in Job : box'[k] = box[k] \/ (box[k] # "none" /\ box'[k] = "exited")
    BY <1>0, <2>2
  <2> QED
    BY <2>1, <2>3, SilentPrinted
<1>5. CASE WorkerCrash \/ Tick \/ UNCHANGED vars
  <2>1. UNCHANGED <<fate, shown, wire, passed, verdict, box>>
    BY <1>5 DEF WorkerCrash, Tick, vars, asker, container
  <2> QED
    BY <2>1, SilentPrinted
<1> QED
  BY <1>1, <1>2, <1>3, <1>4, <1>5, AskPrinted, DeliverPrinted, BoxPrinted, ConcludePrinted
     DEF Next

isAccepted(event) == event.kind = "test" /\ event.verdict = "ACCEPTED"
isLast(event) == event.kind \in {"done", "error"}

\* So many accepted tests go with such a verdict.
Whole(j, n, v) == (v = "ACCEPTED" => n = Tests) /\ (v = "REJECTED" => n = fate[j] - 1)

\* On the way: k accepted tests, then what is no accepted test, then the last event.
Ordered(j, k) ==
  /\ \A i \in 1 .. Len(wire[j]) : i <= k <=> isAccepted(wire[j][i])
  /\ owned(j) => shown[j] + k = passed[j] /\ (alive(j) => k = Len(wire[j]))
  /\ \A i \in 1 .. Len(wire[j]) : isLast(wire[j][i]) =>
       i = Len(wire[j]) /\ ~owned(j) /\ Whole(j, shown[j] + k, wire[j][i].verdict)

StreamOf(j) ==
  /\ answer[j] \in {"ACCEPTED", "REJECTED"} => wire[j] = <<>> /\ Whole(j, shown[j], answer[j])
  /\ answer[j] = "none" => \E k \in 0 .. Len(wire[j]) : Ordered(j, k)

Stream == lost = 0 => \A j \in Job : StreamOf(j)

\* A job that nobody has taken: nothing was sent and nothing was shown.
LEMMA Unopened ==
  ASSUME NEW j \in Job, wire[j] = <<>>, answer[j] = "none",
         owned(j) => shown[j] = 0 /\ passed[j] = 0
  PROVE  StreamOf(j)
<1>1. Len(wire[j]) = 0 /\ 0 \in 0 .. Len(wire[j])
  OBVIOUS
<1>2. Ordered(j, 0)
  BY <1>1 DEF Ordered
<1> QED
  BY <1>1, <1>2 DEF StreamOf

LEMMA InitStream == Init => Stream
<1> SUFFICES ASSUME Init PROVE \A j \in Job : StreamOf(j)
  BY DEF Stream
<1>1. \A j \in Job : wire[j] = <<>> /\ answer[j] = "none" /\ shown[j] = 0 /\ passed[j] = 0
  BY DEF Init
<1> QED
  BY <1>1, Unopened

LEMMA FrameStream ==
  ASSUME NEW j \in Job, StreamOf(j), fate'[j] = fate[j], answer'[j] = answer[j],
         shown'[j] = shown[j], wire'[j] = wire[j], owned(j)' => owned(j),
         owned(j)' => passed'[j] = passed[j] /\ (alive(j)' => alive(j))
  PROVE  StreamOf(j)'
<1>1. answer'[j] \in {"ACCEPTED", "REJECTED"} => wire'[j] = <<>> /\ Whole(j, shown[j], answer[j])'
  BY DEF StreamOf, Whole
<1>2. ASSUME answer'[j] = "none" PROVE \E k \in 0 .. Len(wire'[j]) : Ordered(j, k)'
  <2>1. PICK k \in 0 .. Len(wire[j]) : Ordered(j, k)
    BY <1>2 DEF StreamOf
  <2>2. Ordered(j, k)'
    BY <2>1 DEF Ordered, Whole
  <2> QED
    BY <2>2
<1> QED
  BY <1>1, <1>2 DEF StreamOf

\* One more event on its way from the slot that has the job.
LEMMA OrderedAppend ==
  ASSUME NEW j \in Job, wire[j] \in Seq(Event), shown[j] \in Nat,
         NEW k \in 0 .. Len(wire[j]), Ordered(j, k), owned(j),
         NEW event \in Event, wire'[j] = Append(wire[j], event),
         shown'[j] = shown[j], fate'[j] = fate[j],
         NEW c \in {0, 1}, isAccepted(event) <=> c = 1, c = 1 => k = Len(wire[j]),
         owned(j)' => passed'[j] = passed[j] + c /\ (alive(j)' => c = 1),
         isLast(event) => ~owned(j)' /\ Whole(j, shown[j] + k, event.verdict)
  PROVE  \E m \in 0 .. Len(wire'[j]) : Ordered(j, m)'
<1> DEFINE n == Len(wire[j])
<1>1. /\ n \in Nat /\ Len(wire'[j]) = n + 1 /\ wire'[j][n + 1] = event
      /\ \A i \in 1 .. n : wire'[j][i] = wire[j][i]
  BY LenProperties, AppendProperties
<1>2. PICK m \in 0 .. n + 1 : m = k + c
  BY <1>1
<1>3. \A i \in 1 .. n + 1 : i = n + 1 \/ (i \in 1 .. n /\ i # n + 1)
  BY <1>1
<1>4. \A i \in 1 .. n + 1 : i <= m <=> isAccepted(wire'[j][i])
  <2>1. \A i \in 1 .. n : i <= k <=> isAccepted(wire'[j][i])
    BY <1>1 DEF Ordered
  <2>2. n + 1 <= m <=> c = 1
    BY <1>1, <1>2
  <2>3. \A i \in 1 .. n : i <= m <=> i <= k
    BY <1>1, <1>2
  <2> QED
    BY <1>1, <1>3, <2>1, <2>2, <2>3
<1>5. owned(j)' => shown'[j] + m = passed'[j] /\ (alive(j)' => m = n + 1)
  <2>1. shown[j] + k = passed[j]
    BY DEF Ordered
  <2>2. shown[j] + m = passed[j] + c
    BY <1>1, <1>2, <2>1
  <2>3. c = 1 => m = n + 1
    BY <1>1, <1>2
  <2> QED
    BY <2>2, <2>3
<1>6. ASSUME NEW i \in 1 .. n + 1, isLast(wire'[j][i])
      PROVE  i = n + 1 /\ ~owned(j)' /\ Whole(j, shown[j] + m, wire[j][i].verdict)'
  <2>1. i = n + 1
    BY <1>1, <1>3, <1>6 DEF Ordered
  <2>2. c = 0 /\ m = k
    BY <1>1, <1>2, <1>6, <2>1 DEF isLast, isAccepted
  <2> QED
    BY <1>1, <1>6, <2>1, <2>2 DEF Whole
<1>7. Ordered(j, m)'
  BY <1>1, <1>4, <1>5, <1>6 DEF Ordered
<1> QED
  BY <1>1, <1>7

LEMMA OneSlot ==
  ASSUME Once, NEW j \in Job, owned(j)
  PROVE  /\ request[j] = "queued" /\ box[j] # "none"
         /\ \A s, t \in Slot : slot[s] = j /\ slot[t] = j => s = t
<1>1. j # "idle"
  BY JudgeAssumption
<1> QED
  BY <1>1 DEF Once, owned

\* Without a message lost, what a container prints is on its way if anyone waits for it.
LEMMA SendIsHeard ==
  ASSUME TypeOK, Once, NEW j \in Job, NEW event \in Event, owned(j), Send(j, event)
  PROVE  /\ wire'[j] = IF answer[j] = "none" THEN Append(wire[j], event) ELSE wire[j]
         /\ \A k \in Job : k # j => wire'[k] = wire[k]
<1>1. request[j] = "queued" /\ wire \in [Job -> Seq(Event)]
  BY OneSlot DEF TypeOK
<1> QED
  BY <1>1 DEF Send, listening

LEMMA NothingLost ==
  ASSUME TypeOK, lost' = 0, NEW j \in Job, NEW event
  PROVE  /\ Lose => FALSE
         /\ Publish(j, event) => Send(j, event) /\ lost = 0
         /\ Emit(j, event) =>
              lost = 0 /\ ((owned(j) /\ Send(j, event)) \/ (~owned(j) /\ UNCHANGED wire))
<1> QED
  BY DEF TypeOK, Lose, Publish, Emit

\* The end of a container, as the slot has it.
LEMMA FinalIsWhole ==
  ASSUME TypeOK, NEW j \in Job, PrintedOf(j)
  PROVE  Whole(j, passed[j], Final(j))
<1>1. verdict[j] \in {"none", "COMPILE_ERROR", "REJECTED"}
  BY DEF TypeOK
<1> QED
  BY <1>1 DEF PrintedOf, Whole, Final

LEMMA AskStream ==
  ASSUME IInv, Once, Stream, NEW j \in Job, NEW f \in Programs[j], Ask(j, f) PROVE Stream'
<1>1. /\ UNCHANGED <<answer, shown, wire, slot, passed, box, lost>>
      /\ \A k \in Job : k # j => fate'[k] = fate[k]
  BY DEF Ask, container, faults, IInv, TypeOK
<1>2. answer[j] = "none" /\ wire[j] = <<>> /\ request[j] = "none"
  BY DEF IInv, Asked, Ask
<1>3. ~owned(j)' /\ \A k \in Job : owned(k)' <=> owned(k)
  BY <1>1, <1>2, OneSlot DEF owned
<1>4. SUFFICES ASSUME lost = 0, NEW k \in Job PROVE StreamOf(k)'
  BY <1>1 DEF Stream
<1>5. CASE k = j
  <2>1. answer'[j] = "none" /\ wire'[j] = <<>>
    BY <1>1, <1>2
  <2>2. StreamOf(j)'
    <3>1. /\ Len(wire'[j]) = 0 /\ 0 \in 0 .. Len(wire'[j])
      BY <2>1
    <3>2. Ordered(j, 0)'
      BY <1>3, <3>1 DEF Ordered
    <3> QED
      BY <2>1, <3>1, <3>2 DEF StreamOf
  <2> QED
    BY <1>5, <2>2
<1>6. CASE k # j
  BY <1>1, <1>3, <1>4, <1>6, FrameStream DEF Stream, alive
<1> QED
  BY <1>5, <1>6

\* The steps that send nothing, deliver nothing and take nothing.
LEMMA SilentStream ==
  ASSUME Stream, UNCHANGED <<fate, answer, shown, wire, passed, lost>>,
         \A j \in Job : (owned(j)' => owned(j)) /\ (alive(j)' => alive(j))
  PROVE  Stream'
<1> SUFFICES ASSUME lost = 0, NEW j \in Job PROVE StreamOf(j)'
  BY DEF Stream
<1> QED
  BY FrameStream DEF Stream

LEMMA CeilingStream == ASSUME IInv, Stream, NEW j \in Job, CeilingFires(j) PROVE Stream'
<1>1. UNCHANGED <<fate, shown, wire, slot, box, passed, lost>>
  BY DEF CeilingFires, container, faults
<1>2. answer'[j] = "INTERNAL_ERROR" /\ \A k \in Job : k # j => answer'[k] = answer[k]
  BY DEF CeilingFires, timing, Told, IInv, TypeOK
<1>3. \A k \in Job : (owned(k)' => owned(k)) /\ (alive(k)' => alive(k))
  BY <1>1 DEF owned, alive
<1> SUFFICES ASSUME lost = 0, NEW k \in Job PROVE StreamOf(k)'
  BY <1>1 DEF Stream
<1>4. CASE k = j
  BY <1>2, <1>4 DEF StreamOf
<1>5. CASE k # j
  BY <1>1, <1>2, <1>3, <1>5, FrameStream DEF Stream
<1> QED
  BY <1>4, <1>5

\* The first event is taken off: the count goes from the channel to what was shown.
LEMMA OrderedTail ==
  ASSUME NEW j \in Job, wire[j] \in Seq(Event), wire[j] # <<>>, shown[j] \in Nat,
         NEW k \in 0 .. Len(wire[j]), Ordered(j, k), ~isLast(wire[j][1]),
         wire'[j] = Tail(wire[j]), NEW c \in {0, 1}, isAccepted(wire[j][1]) <=> c = 1,
         shown'[j] = shown[j] + c, fate'[j] = fate[j], passed'[j] = passed[j],
         owned(j)' => owned(j), alive(j)' => alive(j)
  PROVE  \E m \in 0 .. Len(wire'[j]) : Ordered(j, m)'
<1> DEFINE n == Len(wire[j])
<1>1. /\ n \in Nat \ {0} /\ Len(wire'[j]) = n - 1
      /\ \A i \in 1 .. n - 1 : wire'[j][i] = wire[j][i + 1]
  BY EmptySeq, LenProperties, HeadTailProperties
<1>2. c = 1 <=> 1 <= k
  BY <1>1 DEF Ordered
<1>3. PICK m \in 0 .. n - 1 : m = k - c
  BY <1>1, <1>2
<1>4. \A i \in 1 .. n - 1 : i + 1 \in 1 .. n
  BY <1>1
<1>5. ASSUME NEW i \in 1 .. n - 1 PROVE i <= m <=> isAccepted(wire'[j][i])
  <2>1. i + 1 <= k <=> isAccepted(wire'[j][i])
    BY <1>1, <1>4 DEF Ordered
  <2>2. i <= m <=> i + 1 <= k
    BY <1>1, <1>2, <1>3
  <2> QED
    BY <2>1, <2>2
<1>6. owned(j)' => shown'[j] + m = passed'[j] /\ (alive(j)' => m = n - 1)
  <2>1. shown[j] + c + m = shown[j] + k
    BY <1>1, <1>3
  <2>2. k = n => m = n - 1
    BY <1>1, <1>2, <1>3
  <2> QED
    BY <2>1, <2>2 DEF Ordered
<1>7. ASSUME NEW i \in 1 .. n - 1, isLast(wire'[j][i])
      PROVE  i = n - 1 /\ ~owned(j)' /\ Whole(j, shown[j] + m, wire[j][i].verdict)'
  <2>1. /\ i + 1 = n /\ ~owned(j) /\ wire'[j][i] = wire[j][i + 1]
        /\ Whole(j, shown[j] + k, wire[j][i + 1].verdict)
    BY <1>1, <1>4, <1>7 DEF Ordered
  <2>2. shown'[j] + m = shown[j] + k
    BY <1>1, <1>3
  <2>3. i = n - 1
    BY <1>1, <2>1
  <2> QED
    BY <2>1, <2>2, <2>3 DEF Whole
<1>8. Ordered(j, m)'
  BY <1>1, <1>5, <1>6, <1>7 DEF Ordered
<1> QED
  BY <1>1, <1>8

LEMMA DeliverStream ==
  ASSUME IInv, Printed, Stream, NEW j \in Job, Deliver(j) PROVE Stream'
<1> DEFINE event == Head(wire[j])
<1>0. answer \in [Job -> Promise!Verdict \cup {"none"}] /\ shown \in [Job -> Nat]
  BY DEF IInv, TypeOK
<1>1. /\ wire \in [Job -> Seq(Event)] /\ wire[j] \in Seq(Event) /\ wire[j] # <<>>
      /\ wire'[j] = Tail(wire[j]) /\ \A k \in Job : k # j => wire'[k] = wire[k]
      /\ UNCHANGED <<fate, slot, box, passed, lost>>
  BY DEF Deliver, container, faults, IInv, TypeOK
<1>2. /\ event \in Event /\ event = wire[j][1] /\ Len(wire[j]) \in Nat \ {0}
      /\ Len(wire'[j]) = Len(wire[j]) - 1
  BY <1>1, EmptySeq, LenProperties, HeadTailProperties
<1>3. \A k \in Job : k # j => answer'[k] = answer[k] /\ shown'[k] = shown[k]
  BY <1>0 DEF Deliver, Told
<1>4. \A k \in Job : (owned(k)' => owned(k)) /\ (alive(k)' => alive(k))
  BY <1>1 DEF owned, alive
<1>5. answer'[j] \in {answer[j], event.verdict} /\ (answer[j] # "none" => answer'[j] = answer[j])
  BY <1>0 DEF Deliver, Told
<1> SUFFICES ASSUME lost = 0, NEW k \in Job PROVE StreamOf(k)'
  BY <1>1 DEF Stream
<1>6. CASE k # j
  BY <1>1, <1>3, <1>4, <1>6, FrameStream DEF Stream
<1>7. CASE k = j /\ answer[j] # "none"
  <2>1. answer[j] \notin {"ACCEPTED", "REJECTED"}
    BY <1>1 DEF Stream, StreamOf
  <2> QED
    BY <1>5, <1>7, <2>1 DEF StreamOf
<1>8. CASE k = j /\ answer[j] = "none"
  <2>1. PICK n \in 0 .. Len(wire[j]) : Ordered(j, n)
    BY <1>8 DEF Stream, StreamOf
  <2>2. 1 \in 1 .. Len(wire[j])
    BY <1>2
  <2>3. CASE isLast(event)
    <3>1. Len(wire[j]) = 1 /\ Whole(j, shown[j] + n, event.verdict)
      BY <1>2, <2>1, <2>2, <2>3 DEF Ordered
    <3>2. n = 0
      BY <1>2, <2>1, <2>2, <2>3, <3>1 DEF Ordered, isLast, isAccepted
    <3>3. /\ answer'[j] = event.verdict /\ shown' = shown
      BY <1>0, <1>8, <2>3 DEF Deliver, Told, isLast
    <3>4. wire'[j] = <<>>
      <4>1. wire'[j] \in Seq(Event) /\ Len(wire'[j]) = 0
        BY <1>1, <1>2, <3>1, HeadTailProperties
      <4> QED
        BY <4>1, EmptySeq
    <3>5. event.verdict \in Promise!Verdict /\ shown[j] + n = shown[j]
      BY <1>0, <1>2, <3>2 DEF Event
    <3>6. event.verdict # "none"
      BY <3>5, Verdicts
    <3>7. Whole(j, shown[j], answer[j])'
      BY <1>1, <3>1, <3>3, <3>5 DEF Whole
    <3> QED
      BY <1>8, <3>3, <3>4, <3>6, <3>7 DEF StreamOf
  <2>4. CASE ~isLast(event) /\ answer'[j] = "none"
    <3>1. PICK c \in {0, 1} : isAccepted(event) <=> c = 1
      OBVIOUS
    <3>2. shown'[j] = shown[j] + c
      BY <1>0, <2>4, <3>1 DEF Deliver, isAccepted, isLast
    <3>3. \E m \in 0 .. Len(wire'[j]) : Ordered(j, m)'
      BY <1>0, <1>1, <1>2, <1>4, <2>1, <2>4, <3>1, <3>2, OrderedTail
    <3> QED
      BY <1>8, <2>4, <3>3 DEF StreamOf
  <2>5. CASE ~isLast(event) /\ answer'[j] # "none"
    <3>1. event.kind = "compile-failed" /\ answer'[j] = event.verdict
      BY <1>0, <1>8, <2>5 DEF Deliver, Told, isLast
    <3>2. event.verdict = "COMPILE_ERROR"
      BY <1>2, <2>2, <3>1 DEF Printed, PrintedOf
    <3> QED
      BY <1>8, <3>1, <3>2 DEF StreamOf
  <2> QED
    BY <2>3, <2>4, <2>5
<1> QED
  BY <1>6, <1>7, <1>8

\* A line printed by the container of j, or the last event about it.
LEMMA SentStream ==
  ASSUME IInv, Once, Stream, lost = 0, lost' = 0, NEW j \in Job, owned(j), NEW event \in Event,
         Send(j, event), UNCHANGED <<fate, answer, shown>>,
         \A k \in Job : k # j => /\ owned(k)' => owned(k)
                                 /\ passed'[k] = passed[k] /\ (alive(k)' => alive(k)),
         NEW c \in {0, 1}, isAccepted(event) <=> c = 1, c = 1 => alive(j),
         owned(j)' => passed'[j] = passed[j] + c /\ (alive(j)' => c = 1),
         isLast(event) => ~owned(j)' /\ Whole(j, passed[j], event.verdict)
  PROVE  Stream'
<1>0. /\ wire[j] \in Seq(Event) /\ shown[j] \in Nat /\ TypeOK
      /\ answer[j] \in Promise!Verdict \cup {"none"}
  BY DEF IInv, TypeOK
<1>1. /\ wire'[j] = IF answer[j] = "none" THEN Append(wire[j], event) ELSE wire[j]
      /\ \A k \in Job : k # j => wire'[k] = wire[k]
  BY <1>0, SendIsHeard
<1> SUFFICES ASSUME NEW k \in Job PROVE StreamOf(k)'
  BY DEF Stream
<1>2. CASE k # j
  BY <1>1, <1>2, FrameStream DEF Stream
<1>3. CASE k = j /\ answer[j] # "none"
  BY <1>1, <1>3 DEF Stream, StreamOf, Whole
<1>4. CASE k = j /\ answer[j] = "none"
  <2>1. PICK n \in 0 .. Len(wire[j]) : Ordered(j, n)
    BY <1>4 DEF Stream, StreamOf
  <2>2. shown[j] + n = passed[j] /\ (c = 1 => n = Len(wire[j]))
    BY <2>1 DEF Ordered
  <2>3. isLast(event) => ~owned(j)' /\ Whole(j, shown[j] + n, event.verdict)
    BY <2>2
  <2>4. wire'[j] = Append(wire[j], event) /\ shown'[j] = shown[j] /\ fate'[j] = fate[j]
    BY <1>1, <1>4
  <2>5. \E m \in 0 .. Len(wire'[j]) : Ordered(j, m)'
    BY <1>0, <2>1, <2>2, <2>3, <2>4, OrderedAppend
  <2> QED
    BY <1>4, <2>5 DEF StreamOf
<1> QED
  BY <1>2, <1>3, <1>4

\* An orphan prints to nobody.
LEMMA OrphanStream ==
  ASSUME Stream, lost = 0, UNCHANGED <<fate, answer, shown, wire, slot>>,
         NEW j \in Job, ~owned(j),
         \A k \in Job : k # j => passed'[k] = passed[k] /\ (alive(k)' => alive(k))
  PROVE  Stream'
<1>1. \A k \in Job : owned(k)' => owned(k)
  BY DEF owned
<1> SUFFICES ASSUME NEW k \in Job PROVE StreamOf(k)'
  BY DEF Stream
<1>2. k # j \/ ~owned(k)'
  BY <1>1
<1> QED
  BY <1>1, <1>2, FrameStream DEF Stream

LEMMA EmitStream ==
  ASSUME IInv, Once, Stream, lost' = 0, NEW j \in Job, NEW event \in Event, Emit(j, event),
         UNCHANGED <<fate, answer, shown, slot>>,
         \A k \in Job : k # j => passed'[k] = passed[k] /\ (alive(k)' => alive(k)),
         alive(j), ~isLast(event),
         NEW c \in {0, 1}, isAccepted(event) <=> c = 1,
         passed'[j] = passed[j] + c, alive(j)' => c = 1
  PROVE  Stream'
<1>1. lost = 0 /\ ((owned(j) /\ Send(j, event)) \/ (~owned(j) /\ UNCHANGED wire))
  BY NothingLost DEF IInv
<1>2. \A k \in Job : owned(k)' => owned(k)
  BY DEF owned
<1>3. CASE owned(j) /\ Send(j, event)
  BY <1>1, <1>2, <1>3, SentStream
<1>4. CASE ~owned(j) /\ UNCHANGED wire
  BY <1>1, <1>4, OrphanStream
<1> QED
  BY <1>1, <1>3, <1>4

LEMMA BoxStream ==
  ASSUME IInv, Once, Stream, NEW j \in Job, CompileFails(j) \/ PassTest(j) \/ FailTest(j)
  PROVE  Stream'
<1> SUFFICES ASSUME lost' = 0 PROVE Stream'
  BY DEF Stream
<1>0. /\ box \in [Job -> Box] /\ passed \in [Job -> 0 .. Tests] /\ Tests \in Nat
      /\ UNCHANGED <<fate, answer, shown, slot>> /\ alive(j)
  BY JudgeAssumption DEF IInv, TypeOK, CompileFails, PassTest, FailTest, asker, alive
<1>1. CASE PassTest(j)
  <2>1. /\ passed'[j] = passed[j] + 1 /\ UNCHANGED box
        /\ \A k \in Job : k # j => passed'[k] = passed[k]
    BY <1>0, <1>1 DEF PassTest
  <2>2. \A k \in Job : alive(k)' => alive(k)
    BY <2>1 DEF alive
  <2> DEFINE event == Ev("test", "ACCEPTED")
  <2>3. event \in Event /\ isAccepted(event) /\ ~isLast(event)
    BY Events, Verdicts DEF isAccepted, isLast
  <2>4. Emit(j, event)
    BY <1>1 DEF PassTest
  <2> HIDE DEF event
  <2>5. 1 \in {0, 1} /\ (isAccepted(event) <=> 1 = 1)
    BY <2>3
  <2> QED
    BY <1>0, <2>1, <2>2, <2>3, <2>4, <2>5, EmitStream
<1>2. CASE CompileFails(j) \/ FailTest(j)
  <2>1. PICK event \in Event : Emit(j, event) /\ ~isAccepted(event) /\ ~isLast(event)
    <3>1. /\ Ev("compile-failed", "COMPILE_ERROR") \in Event
          /\ ~isAccepted(Ev("compile-failed", "COMPILE_ERROR"))
          /\ ~isLast(Ev("compile-failed", "COMPILE_ERROR"))
      BY Events, Verdicts DEF isAccepted, isLast
    <3>2. /\ Ev("test", "REJECTED") \in Event
          /\ ~isAccepted(Ev("test", "REJECTED")) /\ ~isLast(Ev("test", "REJECTED"))
      BY Events, Verdicts DEF isAccepted, isLast
    <3> QED
      BY <1>2, <3>1, <3>2 DEF CompileFails, FailTest
  <2>2. UNCHANGED passed /\ box' = [box EXCEPT ![j] = "exited"]
    BY <1>2 DEF CompileFails, FailTest
  <2>3. ~alive(j)' /\ \A k \in Job : k # j => (alive(k)' => alive(k))
    BY <1>0, <2>2 DEF alive
  <2>4. 0 \in {0, 1} /\ (isAccepted(event) <=> 0 = 1) /\ passed'[j] = passed[j] + 0
    BY <1>0, <2>1, <2>2
  <2> QED
    BY <1>0, <2>1, <2>2, <2>3, <2>4, EmitStream
<1> QED
  BY <1>1, <1>2

LEMMA TakeStream ==
  ASSUME IInv, Once, Printed, Stream, NEW s \in Slot, Take(s) PROVE Stream'
<1>1. UNCHANGED <<fate, answer, shown, wire, passed, lost>>
  BY DEF Take, asker, faults
<1>2. PICK j \in Job : j = Head(queue) /\ j = queue[1] /\ 1 \in 1 .. Len(queue)
  BY EmptySeq, HeadTailProperties DEF IInv, TypeOK, Take
<1>3. /\ box' = [box EXCEPT ![j] = "starting"] /\ slot' = [slot EXCEPT ![s] = j]
      /\ box \in [Job -> Box] /\ slot \in [Slot -> Job \cup {"idle"}]
  BY <1>2 DEF Take, IInv, TypeOK
<1>4. wire[j] = <<>> /\ shown[j] = 0 /\ passed[j] = 0
  BY <1>2 DEF Once, Printed, PrintedOf
<1>5. \A k \in Job : k # j => (owned(k)' => owned(k)) /\ (alive(k)' => alive(k))
  BY <1>3 DEF owned, alive
<1> SUFFICES ASSUME lost = 0, NEW k \in Job PROVE StreamOf(k)'
  BY <1>1 DEF Stream
<1>6. CASE k # j
  BY <1>1, <1>5, <1>6, FrameStream DEF Stream
<1>7. CASE k = j /\ answer[j] # "none"
  BY <1>1, <1>7 DEF Stream, StreamOf, Whole
<1>8. CASE k = j /\ answer[j] = "none"
  <2>1. Len(wire'[j]) = 0 /\ 0 \in 0 .. Len(wire'[j])
    BY <1>1, <1>4
  <2>2. Ordered(j, 0)'
    BY <1>1, <1>4, <2>1 DEF Ordered
  <2> QED
    BY <1>1, <1>8, <2>1, <2>2 DEF StreamOf
<1> QED
  BY <1>6, <1>7, <1>8

LEMMA ConcludeStream ==
  ASSUME IInv, Once, Printed, Stream, NEW s \in Slot, Conclude(s) PROVE Stream'
<1> SUFFICES ASSUME lost' = 0 PROVE Stream'
  BY DEF Stream
<1>1. PICK j \in Job : slot[s] = j
  BY DEF IInv, TypeOK, Conclude
<1>2. /\ TypeOK /\ fate[j] # -1 /\ UNCHANGED <<fate, answer, shown, passed, box>>
      /\ slot' = [slot EXCEPT ![s] = "idle"] /\ slot \in [Slot -> Job \cup {"idle"}]
  BY <1>1 DEF IInv, TypeOK, Handed, Conclude, asker, container
<1> DEFINE event == Ev("done", Final(j))
<1>3. event \in Event /\ event.kind = "done" /\ event.verdict = Final(j)
  BY <1>2, FinalIsTrue DEF Ev
<1>4. lost = 0 /\ Send(j, event)
  BY <1>1, <1>2, NothingLost DEF Conclude
<1> HIDE DEF event
<1>5. owned(j) /\ ~owned(j)' /\ \A k \in Job : owned(k)' => owned(k)
  <2>1. owned(j) /\ j # "idle"
    BY <1>1, JudgeAssumption DEF owned
  <2>2. \A t \in Slot : slot[t] = j => t = s
    BY <1>1, <2>1, OneSlot
  <2>3. \A t \in Slot : slot'[t] = IF t = s THEN "idle" ELSE slot[t]
    BY <1>2
  <2>4. \A k \in Job : k # "idle"
    BY JudgeAssumption
  <2> QED
    BY <2>1, <2>2, <2>3, <2>4 DEF owned
<1>6. Whole(j, passed[j], event.verdict)
  BY <1>2, <1>3, FinalIsWhole DEF Printed
<1>7. 0 \in {0, 1} /\ (isAccepted(event) <=> 0 = 1)
  BY <1>3 DEF isAccepted
<1>8. \A k \in Job : alive(k)' => alive(k)
  BY <1>2 DEF alive
<1> QED
  BY <1>2, <1>3, <1>4, <1>5, <1>6, <1>7, <1>8, SentStream

LEMMA NextStream == ASSUME IInv, Once, Printed, Stream, [Next]_vars PROVE Stream'
<1>0. box \in [Job -> Box] /\ slot \in [Slot -> Job \cup {"idle"}]
  BY DEF IInv, TypeOK
<1>1. ASSUME NEW j \in Job, Subscribe(j) \/ Push(j) PROVE Stream'
  <2>1. UNCHANGED <<fate, answer, shown, wire, passed, lost, slot, box>>
    BY <1>1 DEF Subscribe, Push, container, faults
  <2> QED
    BY <2>1, SilentStream DEF owned, alive
<1>2. ASSUME NEW j \in Job, Compile(j) \/ Exit(j) \/ BoxDies(j) \/ Reap(j) PROVE Stream'
  <2>1. UNCHANGED <<fate, answer, shown, wire, passed, lost, slot>> /\ alive(j)
    BY <1>2 DEF Compile, Exit, BoxDies, Reap, asker, faults, alive
  <2>2. \A k \in Job : k # j => box'[k] = box[k]
    BY <1>0, <1>2 DEF Compile, Exit, BoxDies, Reap
  <2>3. \A k \in Job : (owned(k)' => owned(k)) /\ (alive(k)' => alive(k))
    BY <2>1, <2>2 DEF owned, alive
  <2> QED
    BY <2>1, <2>3, SilentStream
<1>3. ASSUME NEW s \in Slot, WallClockFires(s) PROVE Stream'
  <2>1. UNCHANGED <<fate, answer, shown, wire, passed, lost, slot>>
    BY <1>3 DEF WallClockFires, asker, faults
  <2>2. \A k \in Job : box'[k] = box[k] \/ box'[k] = "exited"
    BY <1>0, <1>3 DEF WallClockFires
  <2>3. \A k \in Job : (owned(k)' => owned(k)) /\ (alive(k)' => alive(k))
    BY <2>1, <2>2 DEF owned, alive
  <2> QED
    BY <2>1, <2>3, SilentStream
<1>4. CASE WorkerCrash
  <2>1. UNCHANGED <<fate, answer, shown, wire, passed, lost, box>>
    BY <1>4 DEF WorkerCrash, asker, container
  <2>2. slot' = [t \in Slot |-> "idle"] /\ \A k \in Job : k # "idle"
    BY <1>4, JudgeAssumption DEF WorkerCrash
  <2>3. \A k \in Job : (owned(k)' => owned(k)) /\ (alive(k)' => alive(k))
    BY <2>1, <2>2 DEF owned, alive
  <2> QED
    BY <2>1, <2>3, SilentStream
<1>5. CASE Tick \/ UNCHANGED vars
  <2>1. UNCHANGED <<fate, answer, shown, wire, passed, lost, slot, box>>
    BY <1>5 DEF Tick, vars, faults
  <2> QED
    BY <2>1, SilentStream DEF owned, alive
<1> QED
  BY <1>1, <1>2, <1>3, <1>4, <1>5, AskStream, CeilingStream, DeliverStream, BoxStream,
     TakeStream, ConcludeStream DEF Next
------------------------------------------------------------------------------
\* A container that has ended says nothing more and never starts again.
LEMMA EndedForGood ==
  ASSUME IInv, Once, [Next]_vars, NEW j \in Job, box[j] = "exited"
  PROVE  box'[j] = "exited" /\ verdict'[j] = verdict[j]
<1> USE DEF IInv, TypeOK
<1>0. box \in [Job -> Box] /\ verdict \in [Job -> {"none", "COMPILE_ERROR", "REJECTED"}]
  OBVIOUS
<1>1. ASSUME NEW k \in Job,
             \/ \E f \in Programs[k] : Ask(k, f)
             \/ Subscribe(k) \/ Push(k) \/ CeilingFires(k) \/ Deliver(k)
      PROVE  UNCHANGED <<box, verdict>>
  BY <1>1 DEF Ask, Subscribe, Push, CeilingFires, Deliver, container
<1>2. ASSUME NEW k \in Job,
             \/ Compile(k) \/ CompileFails(k) \/ PassTest(k) \/ FailTest(k) \/ Exit(k)
             \/ BoxDies(k) \/ Reap(k)
      PROVE  box'[j] = "exited" /\ verdict'[j] = verdict[j]
  <2>1. alive(k) /\ k # j
    BY <1>2 DEF Compile, CompileFails, PassTest, FailTest, Exit, BoxDies, Reap, alive
  <2>2. box'[j] = box[j] /\ verdict'[j] = verdict[j]
    BY <1>0, <1>2, <2>1 DEF Compile, CompileFails, PassTest, FailTest, Exit, BoxDies, Reap
  <2> QED
    BY <2>2
<1>3. ASSUME NEW s \in Slot, Take(s)
      PROVE  box'[j] = "exited" /\ verdict'[j] = verdict[j]
  <2>1. PICK k \in Job : k = Head(queue) /\ k = queue[1] /\ 1 \in 1 .. Len(queue)
    <3>1. queue \in Seq(Job) /\ queue # <<>>
      BY <1>3 DEF Take
    <3> QED
      BY <3>1
  <2>2. k # j /\ box' = [box EXCEPT ![k] = "starting"] /\ UNCHANGED verdict
    BY <1>3, <2>1 DEF Take, Once
  <2> QED
    BY <1>0, <2>2
<1>4. ASSUME NEW s \in Slot, WallClockFires(s) \/ Conclude(s)
      PROVE  box'[j] = "exited" /\ verdict'[j] = verdict[j]
  BY <1>0, <1>4 DEF WallClockFires, Conclude, container
<1>5. CASE WorkerCrash \/ Tick \/ UNCHANGED vars
  BY <1>5 DEF WorkerCrash, Tick, vars, container
<1> QED
  BY <1>1, <1>2, <1>3, <1>4, <1>5 DEF Next

\* Whoever is told of the wall clock, or is about to be, has not been seen to fail.
Unfailed(j) == box[j] = "exited" /\ verdict[j] = "none"

TimeLimited(j) ==
  /\ answer[j] = "TIME_LIMIT" => Unfailed(j)
  /\ \A i \in 1 .. Len(wire[j]) : wire[j][i].verdict = "TIME_LIMIT" => Unfailed(j)

NobodyFailed == \A j \in Job : TimeLimited(j)

\* Every message but the last says something else than TIME_LIMIT.
LEMMA FrameLimited ==
  ASSUME NobodyFailed, NEW j \in Job, NEW event, Added(j, event), UNCHANGED answer,
         \A k \in Job : Unfailed(k) => Unfailed(k)',
         event.verdict = "TIME_LIMIT" => Unfailed(j)
  PROVE  NobodyFailed'
<1> SUFFICES ASSUME NEW k \in Job PROVE TimeLimited(k)'
  BY DEF NobodyFailed
<1>1. TimeLimited(k) /\ TimeLimited(j)
  BY DEF NobodyFailed
<1>2. CASE k = j
  BY <1>1, <1>2 DEF TimeLimited, Added
<1>3. CASE k # j
  BY <1>1, <1>3 DEF TimeLimited, Added
<1> QED
  BY <1>2, <1>3

LEMMA DeliverLimited ==
  ASSUME IInv, NobodyFailed, NEW j \in Job, Deliver(j) PROVE NobodyFailed'
<1> DEFINE event == Head(wire[j])
<1>1. /\ wire \in [Job -> Seq(Event)] /\ wire[j] \in Seq(Event) /\ wire[j] # <<>>
      /\ wire' = [wire EXCEPT ![j] = Tail(wire[j])] /\ UNCHANGED <<box, verdict>>
      /\ answer \in [Job -> Promise!Verdict \cup {"none"}]
  BY DEF Deliver, IInv, TypeOK, container
<1>2. /\ event = wire[j][1] /\ 1 \in 1 .. Len(wire[j])
      /\ \A i \in 1 .. Len(wire'[j]) : i + 1 \in 1 .. Len(wire[j]) /\ wire'[j][i] = wire[j][i + 1]
      /\ \A k \in Job : k # j => wire'[k] = wire[k]
  BY <1>1
<1>3. answer' = answer \/ Told(j, event.verdict)
  BY DEF Deliver
<1> HIDE DEF event
<1> SUFFICES ASSUME NEW k \in Job PROVE TimeLimited(k)'
  BY DEF NobodyFailed
<1>4. TimeLimited(k) /\ TimeLimited(j)
  BY DEF NobodyFailed
<1>5. answer'[k] = answer[k] \/ (k = j /\ answer'[k] = event.verdict)
  BY <1>1, <1>3 DEF Told
<1>6. CASE k = j
  BY <1>1, <1>2, <1>4, <1>5, <1>6 DEF TimeLimited, Unfailed
<1>7. CASE k # j
  BY <1>1, <1>2, <1>4, <1>5, <1>7 DEF TimeLimited, Unfailed
<1> QED
  BY <1>6, <1>7

LEMMA NextLimited == ASSUME IInv, Once, NobodyFailed, [Next]_vars PROVE NobodyFailed'
<1> USE DEF IInv
<1>0. \A k \in Job : Unfailed(k) => Unfailed(k)'
  BY EndedForGood DEF Unfailed
<1>1. ASSUME UNCHANGED <<answer, wire>> PROVE NobodyFailed'
  BY <1>0, <1>1 DEF NobodyFailed, TimeLimited
<1>2. ASSUME NEW j \in Job,
             \/ \E f \in Programs[j] : Ask(j, f)
             \/ Subscribe(j) \/ Push(j) \/ Compile(j) \/ Exit(j) \/ BoxDies(j) \/ Reap(j)
      PROVE  NobodyFailed'
  BY <1>1, <1>2 DEF Ask, Subscribe, Push, Compile, Exit, BoxDies, Reap, asker
<1>3. ASSUME NEW j \in Job, CeilingFires(j) PROVE NobodyFailed'
  <2>1. UNCHANGED wire /\ \A k \in Job : answer'[k] \in {answer[k], "INTERNAL_ERROR"}
    BY <1>3 DEF CeilingFires, Told, TypeOK
  <2> QED
    BY <1>0, <2>1 DEF NobodyFailed, TimeLimited
<1>4. ASSUME NEW j \in Job, CompileFails(j) \/ PassTest(j) \/ FailTest(j)
      PROVE  NobodyFailed'
  <2>1. PICK event \in Event : Emit(j, event) /\ event.verdict # "TIME_LIMIT"
    <3>1. /\ Ev("compile-failed", "COMPILE_ERROR") \in Event
          /\ Ev("compile-failed", "COMPILE_ERROR").verdict = "COMPILE_ERROR"
          /\ Ev("test", "ACCEPTED") \in Event /\ Ev("test", "ACCEPTED").verdict = "ACCEPTED"
          /\ Ev("test", "REJECTED") \in Event /\ Ev("test", "REJECTED").verdict = "REJECTED"
      BY Events, Verdicts
    <3> QED
      BY <1>4, <3>1 DEF CompileFails, PassTest, FailTest
  <2>2. Added(j, event) /\ UNCHANGED answer
    BY <1>4, <2>1, EmitAdds DEF CompileFails, PassTest, FailTest, asker
  <2> QED
    BY <1>0, <2>1, <2>2, FrameLimited
<1>5. ASSUME NEW s \in Slot, Conclude(s) PROVE NobodyFailed'
  <2>1. PICK j \in Job : j = slot[s]
    BY <1>5 DEF TypeOK, Conclude
  <2>2. box[j] = "exited" /\ fate[j] # -1 /\ UNCHANGED answer
    BY <1>5, <2>1 DEF Conclude, Handed, asker
  <2>3. PICK event \in Event :
          Added(j, event) /\ (event.verdict = "TIME_LIMIT" => Unfailed(j))
    <3>1. /\ Ev("done", Final(j)).verdict = Final(j)
          /\ Ev("error", "INTERNAL_ERROR").verdict = "INTERNAL_ERROR"
      BY DEF Ev
    <3>2. Final(j) = "TIME_LIMIT" => verdict[j] = "none"
      BY DEF Final, TypeOK
    <3>3. CASE Publish(j, Ev("done", Final(j)))
      BY <2>2, <3>1, <3>2, <3>3, FinalIsTrue, EmitAdds DEF Unfailed
    <3>4. CASE Send(j, Ev("error", "INTERNAL_ERROR"))
      BY <2>2, <3>1, <3>4, FinalIsTrue, SendAdds DEF TypeOK
    <3> QED
      BY <1>5, <2>1, <3>3, <3>4 DEF Conclude
  <2> QED
    BY <1>0, <2>2, <2>3, FrameLimited
<1>6. ASSUME NEW s \in Slot, Take(s) \/ WallClockFires(s) PROVE NobodyFailed'
  BY <1>1, <1>6 DEF Take, WallClockFires, asker
<1>7. CASE WorkerCrash \/ Tick \/ UNCHANGED vars
  BY <1>1, <1>7 DEF WorkerCrash, Tick, vars, asker
<1> QED
  BY <1>2, <1>3, <1>4, <1>5, <1>6, <1>7, DeliverLimited DEF Next

\* A program is told that it ran out of time only if the whole wall clock passed between
\* its start and its being seen to close, and no line of it had said that it failed:
\* however containers are killed, and whoever kills them (sandbox.ts, reaper.ts).
THEOREM TimeLimitsAreSpent == Spec => []TimeLimitIsSpent
<1>1. Init => NobodyFailed
  <2> SUFFICES ASSUME Init, NEW j \in Job PROVE TimeLimited(j)
    BY DEF NobodyFailed
  <2>1. answer[j] = "none" /\ wire[j] = <<>>
    BY DEF Init
  <2> QED
    BY <2>1 DEF TimeLimited
<1>2. IInv /\ Once /\ NobodyFailed /\ [Next]_vars => Once' /\ NobodyFailed'
  BY NextOnce, NextLimited
<1>3. IInv /\ NobodyFailed => TimeLimitIsSpent
  BY DEF IInv, Truthful, Spent, NobodyFailed, TimeLimited, Unfailed, TimeLimitIsSpent
<1> QED
  BY <1>1, <1>2, <1>3, InitOnce, InvHolds, PTL DEF Spec
------------------------------------------------------------------------------
\* A verdict that was earned test by test was shown test by test, as long as Redis loses
\* no message: whatever crashes, and whenever the asker gives up.
THEOREM StreamsAreWhole == Spec => []StreamIsWhole
<1>1. IInv /\ Once /\ Printed /\ Stream /\ [Next]_vars => Once' /\ Printed' /\ Stream'
  BY NextOnce, NextPrinted, NextStream
<1>2. Stream => StreamIsWhole
  BY DEF Stream, StreamOf, Whole, StreamIsWhole
<1> QED
  BY <1>1, <1>2, InitOnce, InitStream, InvHolds, PTL DEF Spec
==============================================================================
