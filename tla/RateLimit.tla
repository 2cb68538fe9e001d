------------------------------- MODULE RateLimit -------------------------------
(***************************************************************************)
(* The limiter of the practice judge: counters of calls in fixed windows,  *)
(* asked one after the other.  A call that one window refuses is counted   *)
(* there and in no later one.                                              *)
(*                                                                         *)
(* The calls of one identity are given by their times in seconds, in the   *)
(* order of their INCRs.  A counter outlives its window by a second and is *)
(* not used again.                                                         *)
(***************************************************************************)
EXTENDS Integers, Sequences, FiniteSets

Window == [seconds : Nat \ {0}, max : Nat]

SUBMIT_LIMITS == <<[seconds |-> 10, max |-> 3], [seconds |-> 300, max |-> 30]>>

bucket(time, window) == time \div window.seconds

\* INCR: how many calls, this one included, have come to the window in its bucket.
count(call, calls, times, window) ==
  Cardinality({c \in calls : c <= call /\ bucket(times[c], window) = bucket(times[call], window)})

\* The calls that have passed the first k windows, for each k.
passed(times, windows) ==
  LET past[k \in 0 .. Len(windows)] ==
        IF k = 0 THEN DOMAIN times
        ELSE {call \in past[k - 1] :
                count(call, past[k - 1], times, windows[k]) <= windows[k].max}
  IN  past

allowed(times, windows) == passed(times, windows)[Len(windows)]

\* The windows are asked up to the first that refuses, whose wait is the answer.
refusedBy(call, times, windows) ==
  CHOOSE k \in 1 .. Len(windows) :
    call \in passed(times, windows)[k - 1] \ passed(times, windows)[k]

retryAfter(time, window) == window.seconds - (time % window.seconds)
==============================================================================
