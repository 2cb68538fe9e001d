------------------------------- MODULE MCJudge -------------------------------
(***************************************************************************)
(* Checking Judge with one slot, a submission of a match and a practice    *)
(* run, two tests each.  The unit of time is half a minute, which makes    *)
(* the limits of the code 1 (reaper), 2 (wall clock) and 3 (ceiling).      *)
(*                                                                         *)
(* RateLimit, which stands before a practice run, has no steps; what it is *)
(* to compute is checked here over all short histories of calls.           *)
(***************************************************************************)
EXTENDS Judge, FiniteSets, TLC

CONSTANTS sub, practice

\* The submission may be worth anything; the practice run does not compile.
MCPrograms == sub :> 0 .. Tests + 1 @@ practice :> {0}

R == INSTANCE RateLimit

\* Five calls within nine seconds, limited to one in two and to two in six.
Windows == <<[seconds |-> 2, max |-> 1], [seconds |-> 6, max |-> 2]>>
Histories == {times \in [1 .. 5 -> 0 .. 8] : \A i \in 1 .. 4 : times[i] <= times[i + 1]}

\* A burst across a boundary lets through at most twice the limit of a window in any
\* stretch of its length, and a call after the wait it was told meets a fresh counter.
ASSUME LimitsHold ==
  \A times \in Histories :
    LET allowed == R!allowed(times, Windows) IN
    /\ \A k \in DOMAIN Windows, start \in 0 .. 8 :
         Cardinality({c \in allowed : times[c] \in start .. start + Windows[k].seconds - 1})
           <= 2 * Windows[k].max
    /\ \A c \in DOMAIN times \ allowed :
         LET window == Windows[R!refusedBy(c, times, Windows)]
             later == times[c] + R!retryAfter(times[c], window)
         IN  R!bucket(later, window) = R!bucket(times[c], window) + 1
=============================================================================
