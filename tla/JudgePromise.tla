----------------------------- MODULE JudgePromise -----------------------------
(***************************************************************************)
(* What the judge promises whoever asks for a verdict: each request gets   *)
(* one answer, for good, and an answer that praises or blames the program  *)
(* is the one the program deserves.  Time running out and trouble of the   *)
(* judge's own may be answered for any program.                            *)
(***************************************************************************)
EXTENDS Integers

CONSTANTS
  Job,                   \* requests for a verdict
  Tests                  \* how many tests a program has to pass

VARIABLES
  fate,                  \* the first test the program fails; 0: does not compile
  answer                 \* the verdict given, or "none"

Fate == 0 .. Tests + 1
Unasked == -1

Deserved(f) ==
  IF f = 0 THEN "COMPILE_ERROR" ELSE IF f <= Tests THEN "REJECTED" ELSE "ACCEPTED"

NoFault == {"TIME_LIMIT", "INTERNAL_ERROR"}
Verdict == {"COMPILE_ERROR", "REJECTED", "ACCEPTED"} \cup NoFault

Init ==
  /\ fate = [j \in Job |-> Unasked]
  /\ answer = [j \in Job |-> "none"]

Ask(j) ==
  /\ fate[j] = Unasked
  /\ \E f \in Fate : fate' = [fate EXCEPT ![j] = f]
  /\ UNCHANGED answer

Answer(j) ==
  /\ fate[j] # Unasked
  /\ answer[j] = "none"
  /\ \E v \in {Deserved(fate[j])} \cup NoFault : answer' = [answer EXCEPT ![j] = v]
  /\ UNCHANGED fate

Next == \E j \in Job : Ask(j) \/ Answer(j)

Spec == Init /\ [][Next]_<<fate, answer>>
==============================================================================
