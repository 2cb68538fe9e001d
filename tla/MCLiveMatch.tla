----------------------------- MODULE MCLiveMatch -----------------------------
(***************************************************************************)
(* Checking LiveMatch with two milliseconds in which a submission can be   *)
(* received (MaxMs = 2), so that a side can try again after a wrong answer *)
(* or ahead of the lock.  For liveness there is one (MaxMs = 1), received  *)
(* again and again: EndlessSpec bounds the submissions under judgement at  *)
(* a time and not their number.  A settled match stops, so the cfg files   *)
(* turn the deadlock check off.                                            *)
(***************************************************************************)
EXTENDS LiveMatch

\* Stamps are counted from 0 again.  Of the correct submissions the first stays, which
\* is all that resolve() looks for.
Restamp ==
  /\ now = MaxMs
  /\ now' = 0
  /\ solved' = IF solved = <<>> THEN solved ELSE <<FirstReceived(solved)>>
  /\ UNCHANGED <<state, accepted, connected, outstanding, clockExpired, forfeited, outcome,
                 liveVars>>

EndlessNext == LiveNext \/ Restamp

\* The millisecond changes back and forth, and no answer is put off by that for ever.
EndlessSpec ==
  LiveInit /\ [][EndlessNext]_vars /\ Fairness /\ \A sub \in Submission : SF_vars(Job(sub))

\* What a comment of the code says and the code does not do.

\* "Settlement owns the ending": the players are sent one match.end.
EndSentOnce == Len(SelectSeq(wire, LAMBDA m : m = "end")) <= 1

\* Only who is there accepts or submits, and nobody submits before match.start.
PlayedFromThePage ==
  /\ \A s \in Side : accepted'[s] # accepted[s] => connected[s]
  /\ \A sub \in outstanding' \ outstanding : connected[sub.side] /\ clockRunning
=============================================================================
