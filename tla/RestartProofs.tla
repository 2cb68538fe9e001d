----------------------------- MODULE RestartProofs -----------------------------
(***************************************************************************)
(* What survives the gateway, for any number of players, matches and       *)
(* crashes.                                                                *)
(*                                                                         *)
(* The argument is that a row has one writer at a time.  While a process   *)
(* has the match in memory that is its INSERT, then its settlement (Owned) *)
(* - and the reconciliation, which only ever touches rows that are LIVE.   *)
(* A match of an old process has no writer but the reconciliation, since   *)
(* what the old process had under way died with it.                        *)
(***************************************************************************)
EXTENDS Restart, TLAPS

Owned ==
  \A m \in Match :
    /\ players[m] = {} => stage[m] = "none" /\ row[m] = "none"
    /\ m \in inserting => stage[m] \in {"live", "over"} /\ row[m] = "none"
    /\ m \in settling => stage[m] = "over"
    /\ stage[m] = "over" <=> outcome[m] # "none"
    /\ stage[m] = "open" => row[m] = "none"
    /\ row[m] = "FINISHED" => m \notin settling /\ stage[m] \in {"none", "over"}

Written ==
  \A m \in Match :
    /\ recorded[m] = "none" <=> row[m] \in {"none", "LIVE"}
    /\ row[m] = "ABANDONED" => recorded[m] = "CANCELED"

\* The row answers only for a match that is not in the maps, and after the settlement
\* nobody writes its outcome any more.
Answered ==
  \A t \in told :
    /\ stage[t.match] \in {"none", "over"}
    /\ row[t.match] # "none" /\ players[t.match] # {}
    /\ t.match \in settling => t.unsettled

Unsettled == \A t \in told : t.unsettled => t.outcome = "CANCELED"

\* A process that is started has everything before it.
Afresh == ~up => reconciling = "collect"

IInv ==
  /\ TypeOK /\ Owned /\ Written /\ Answered /\ Unsettled /\ Afresh
  /\ RejoinForeseesTheRecord /\ NoGhostsInThePool
------------------------------------------------------------------------------
LEMMA InitInv == Init => IInv
<1> USE RestartAssumption
<1>1. Init => TypeOK
  BY DEF Init, TypeOK
<1>2. Init => Owned /\ Written /\ Answered /\ Unsettled /\ Afresh /\ RejoinForeseesTheRecord
               /\ NoGhostsInThePool
  BY DEF Init, Owned, Written, Answered, Unsettled, Afresh, RejoinForeseesTheRecord,
         NoGhostsInThePool
<1> QED
  BY <1>1, <1>2 DEF IInv

\* The steps that write no match row keep what is said of rows.
LEMMA PoolInv ==
  ASSUME IInv, NEW p \in Player, JoinPool(p)
  PROVE  IInv'
<1>1. TypeOK'
  BY DEF IInv, TypeOK, JoinPool, working, history
<1>2. NoGhostsInThePool' /\ Afresh'
  BY DEF IInv, NoGhostsInThePool, Afresh, JoinPool
<1>3. Owned' /\ Written' /\ Answered' /\ Unsettled' /\ RejoinForeseesTheRecord'
  BY DEF IInv, Owned, Written, Answered, Unsettled, RejoinForeseesTheRecord, JoinPool,
         working, history
<1> QED
  BY <1>1, <1>2, <1>3 DEF IInv

LEMMA BeginInv ==
  ASSUME IInv, NEW m \in Match, NEW a \in Player, NEW b \in Player, Begin(m, {a, b})
  PROVE  IInv'
<1> USE DEF IInv, Begin, working
<1>1. TypeOK'
  BY DEF TypeOK
<1>2. \A n \in Match : n # m => stage'[n] = stage[n] /\ players'[n] = players[n]
  BY DEF TypeOK
<1>3. /\ stage[m] = "none" /\ stage'[m] = "open" /\ players'[m] # {} /\ row[m] = "none"
      /\ outcome[m] = "none" /\ m \notin inserting /\ m \notin settling
  BY DEF TypeOK, Owned
<1>4. Owned'
  BY <1>2, <1>3 DEF Owned
<1>5. Written' /\ RejoinForeseesTheRecord'
  BY DEF Written, RejoinForeseesTheRecord
<1>6. Answered' /\ Unsettled'
  BY <1>2, <1>3 DEF TypeOK, Answered, Unsettled
<1>7. NoGhostsInThePool' /\ Afresh'
  BY DEF NoGhostsInThePool, Afresh
<1> QED
  BY <1>1, <1>4, <1>5, <1>6, <1>7

LEMMA GoLiveInv == ASSUME IInv, NEW m \in Match, GoLive(m) PROVE IInv'
<1> USE DEF IInv, GoLive, durable, history
<1>1. TypeOK'
  BY DEF TypeOK
<1>2. Owned'
  BY DEF TypeOK, Owned
<1>3. Written' /\ RejoinForeseesTheRecord' /\ NoGhostsInThePool' /\ Afresh'
  BY DEF Written, RejoinForeseesTheRecord, NoGhostsInThePool, Afresh
<1>4. Answered' /\ Unsettled'
  BY DEF TypeOK, Answered, Unsettled
<1> QED
  BY <1>1, <1>2, <1>3, <1>4

LEMMA InsertedInv == ASSUME IInv, NEW m \in Match, Inserted(m) PROVE IInv'
<1> USE DEF IInv, Inserted, history
<1>1. stage[m] \in {"live", "over"} /\ row[m] = "none" /\ players[m] # {}
  BY DEF Owned
<1>2. \A t \in told : t.match # m
  BY <1>1 DEF Answered, Unsettled
<1>3. row' \in [Match -> {"none", "LIVE", "FINISHED", "ABANDONED"}]
  BY DEF TypeOK
<1>4. row'[m] \in {"none", "LIVE"} /\ \A n \in Match : n # m => row'[n] = row[n]
  BY <1>1 DEF TypeOK
<1>5. TypeOK'
  BY <1>3 DEF TypeOK
<1> HIDE DEF Inserted
<1>6. /\ inserting' = inserting \ {m}
      /\ UNCHANGED <<recorded, submission, pool, up, searching, stage, outcome, judging,
                     settling, reconciling, orphans, players, told, crashes>>
  BY DEF Inserted, history
<1>7. Owned'
  BY <1>1, <1>4, <1>6 DEF Owned
<1>8. Written' /\ NoGhostsInThePool' /\ Afresh'
  BY <1>1, <1>4, <1>6 DEF Written, NoGhostsInThePool, Afresh
<1>9. Answered' /\ Unsettled' /\ RejoinForeseesTheRecord'
  BY <1>2, <1>4, <1>6 DEF TypeOK, Answered, Unsettled, RejoinForeseesTheRecord
<1> QED
  BY <1>5, <1>7, <1>8, <1>9

LEMMA SubmissionInv ==
  ASSUME IInv, NEW m \in Match, Submit(m) \/ Judged(m)
  PROVE  IInv'
<1>1. /\ UNCHANGED <<row, recorded, pool, up, searching, stage, outcome, inserting,
                     settling, reconciling, orphans, players, told, crashes>>
      /\ submission' \in [Match -> {"none", "PENDING", "JUDGED", "INTERNAL_ERROR"}]
      /\ judging' \subseteq Match
  BY DEF IInv, TypeOK, Submit, Judged, history
<1> QED
  BY <1>1 DEF IInv, TypeOK, Owned, Written, Answered, Unsettled, RejoinForeseesTheRecord,
              NoGhostsInThePool, Afresh

LEMMA FinishInv ==
  ASSUME IInv, NEW m \in Match, NEW o \in Outcome, Finish(m, o)
  PROVE  IInv'
<1> USE DEF IInv, Finish, durable, history
<1>1. o # "none" /\ stage[m] # "none"
  BY DEF Outcome
<1>2. TypeOK'
  BY DEF TypeOK
<1>3. Owned'
  BY <1>1 DEF TypeOK, Owned
<1>4. Written' /\ RejoinForeseesTheRecord' /\ NoGhostsInThePool' /\ Afresh'
  BY DEF Written, RejoinForeseesTheRecord, NoGhostsInThePool, Afresh
<1>5. Answered' /\ Unsettled'
  BY <1>1 DEF TypeOK, Answered, Unsettled
<1> QED
  BY <1>2, <1>3, <1>4, <1>5

LEMMA SettleInv == ASSUME IInv, NEW m \in Match, Settle(m) PROVE IInv'
<1> USE DEF IInv
<1>1. /\ stage[m] = "over" /\ outcome[m] # "none" /\ outcome[m] \in Outcome
  BY DEF Settle, Owned, TypeOK
<1>2. \A t \in told : t.match # m \/ (t.unsettled /\ t.outcome = "CANCELED")
  BY DEF Settle, Answered, Unsettled
<1>3. /\ settling' = settling \ {m}
      /\ UNCHANGED <<submission, pool, up, searching, stage, outcome, inserting, judging,
                     reconciling, orphans, players, told, crashes>>
      /\ \A n \in Match : n # m => row'[n] = row[n] /\ recorded'[n] = recorded[n]
      /\ \/ row'[m] = row[m] /\ recorded'[m] = recorded[m]
         \/ /\ row[m] # "none" /\ recorded'[m] = outcome[m]
            /\ row'[m] = IF outcome[m] = "CANCELED" THEN "ABANDONED" ELSE "FINISHED"
      /\ row' \in [Match -> {"none", "LIVE", "FINISHED", "ABANDONED"}]
      /\ recorded' \in [Match -> Outcome \cup {"none"}]
  BY DEF Settle, TypeOK, history
<1>4. TypeOK'
  BY <1>3 DEF TypeOK
<1>5. Owned'
  BY <1>1, <1>3 DEF Owned
<1>6. Written' /\ NoGhostsInThePool' /\ Afresh'
  BY <1>1, <1>3 DEF Written, NoGhostsInThePool, Afresh
<1>7. Answered' /\ Unsettled' /\ RejoinForeseesTheRecord'
  BY <1>2, <1>3 DEF TypeOK, Answered, Unsettled, RejoinForeseesTheRecord
<1> QED
  BY <1>4, <1>5, <1>6, <1>7

LEMMA CrashInv == ASSUME IInv, Crash \/ Boot PROVE IInv'
<1> USE DEF IInv, Crash, Boot, durable, history, working
<1>1. TypeOK'
  <2>1. CASE Crash
    <3>1. crashes' \in 0 .. MaxCrashes
      BY <2>1, RestartAssumption DEF TypeOK
    <3> QED
      BY <2>1, <3>1 DEF TypeOK
  <2>2. CASE Boot
    BY <2>2 DEF TypeOK
  <2> QED
    BY <2>1, <2>2
<1>2. Owned'
  BY DEF TypeOK, Owned
<1>3. Written' /\ RejoinForeseesTheRecord'
  BY DEF Written, RejoinForeseesTheRecord
<1>4. Answered' /\ Unsettled'
  BY DEF TypeOK, Answered, Unsettled
<1>5. NoGhostsInThePool' /\ Afresh'
  BY DEF NoGhostsInThePool, Afresh
<1> QED
  BY <1>1, <1>2, <1>3, <1>4, <1>5

\* It closes what is LIVE, whoever plays it.
LEMMA CloseInv == ASSUME IInv, Close PROVE IInv'
<1> USE DEF IInv
<1>1. /\ UNCHANGED <<submission, pool, orphans, up, searching, stage, outcome, inserting,
                     judging, settling, players, told, crashes>>
      /\ reconciling' = "sweep" /\ up
      /\ \A n \in Match :
           IF row[n] = "LIVE" THEN row'[n] = "ABANDONED" /\ recorded'[n] = "CANCELED"
           ELSE row'[n] = row[n] /\ recorded'[n] = recorded[n]
      /\ row' \in [Match -> {"none", "LIVE", "FINISHED", "ABANDONED"}]
      /\ recorded' \in [Match -> Outcome \cup {"none"}]
  BY DEF Close, Reconcile, WriteOff, isOpen, TypeOK, Outcome, working, history
<1>2. TypeOK'
  BY <1>1 DEF TypeOK
<1>3. Owned' /\ Written' /\ NoGhostsInThePool' /\ Afresh'
  BY <1>1 DEF Owned, Written, NoGhostsInThePool, Afresh
<1>4. \A t \in told : t.match \in Match
  BY DEF TypeOK
<1>5. Answered' /\ Unsettled'
  <2> HIDE DEF IInv
  <2>1. Answered /\ Unsettled
    BY DEF IInv
  <2> QED
    BY <1>1, <1>4, <2>1 DEF Answered, Unsettled
<1>6. RejoinForeseesTheRecord'
  <2>1. SUFFICES ASSUME NEW t \in told
                 PROVE  \/ recorded'[t.match] = t.outcome
                        \/ row'[t.match] = "LIVE" /\ t.outcome = "CANCELED"
                        \/ t.unsettled /\ t.outcome = "CANCELED"
    BY <1>1 DEF RejoinForeseesTheRecord
  <2>2. t.match \in Match /\ t.outcome # "none"
    BY DEF TypeOK, Outcome
  <2>3. CASE row[t.match] = "LIVE"
    <3>1. t.outcome = "CANCELED"
      BY <2>2, <2>3 DEF Written, RejoinForeseesTheRecord
    <3> QED
      BY <1>1, <2>2, <2>3, <3>1
  <2>4. CASE row[t.match] # "LIVE"
    BY <1>1, <2>2, <2>4 DEF RejoinForeseesTheRecord
  <2> QED
    BY <2>3, <2>4
<1> QED
  BY <1>2, <1>3, <1>5, <1>6

LEMMA FailInv == ASSUME IInv, ReconcileFails PROVE IInv'
<1>1. crashes' \in 0 .. MaxCrashes
  BY RestartAssumption DEF IInv, TypeOK, ReconcileFails
<1> QED
  BY <1>1 DEF IInv, TypeOK, Owned, Written, Answered, Unsettled, RejoinForeseesTheRecord,
              NoGhostsInThePool, Afresh, ReconcileFails, durable, working

LEMMA ReconcileInv == ASSUME IInv, Collect \/ Sweep \/ ClearPool PROVE IInv'
<1>1. /\ UNCHANGED <<row, recorded, up, searching, stage, outcome, inserting, judging,
                     settling, players, told, crashes>>
      /\ submission' \in [Match -> {"none", "PENDING", "JUDGED", "INTERNAL_ERROR"}]
      /\ orphans' \subseteq Match /\ pool' \subseteq Player
      /\ reconciling' \in {"close", "pool", "done"}
      /\ reconciling' = "done" => pool' = {}
      /\ up
  BY DEF IInv, TypeOK, Collect, Sweep, ClearPool, Reconcile, durable, working, history
<1> QED
  BY <1>1 DEF IInv, TypeOK, Owned, Written, Answered, Unsettled, RejoinForeseesTheRecord,
              NoGhostsInThePool, Afresh

\* What it is told is the record, or what the reconciliation will record.
LEMMA RejoinInv == ASSUME IInv, NEW m \in Match, Rejoin(m) PROVE IInv'
<1> USE DEF IInv
<1>1. /\ UNCHANGED <<row, recorded, submission, pool, up, searching, stage, outcome, inserting,
                     judging, settling, reconciling, orphans, players, crashes>>
      /\ stage[m] \in {"none", "over"} /\ row[m] # "none"
  BY DEF Rejoin, durable, working
<1> DEFINE o == IF recorded[m] = "none" THEN "CANCELED" ELSE recorded[m]
           u == m \in settling
           t == [match |-> m, outcome |-> o, unsettled |-> u]
<1>2. told' = {t}
  BY DEF Rejoin
<1>3. /\ o \in Outcome /\ u \in BOOLEAN
      /\ o = recorded[m] \/ (o = "CANCELED" /\ row[m] = "LIVE")
      /\ u => o = "CANCELED"
  <2>1. recorded[m] = "none" => row[m] = "LIVE"
    BY <1>1 DEF TypeOK, Written
  <2>2. recorded[m] \in Outcome \cup {"none"} /\ "CANCELED" \in Outcome
    BY DEF TypeOK, Outcome
  <2>3. u => row[m] # "FINISHED"
    BY DEF Owned
  <2>4. u => recorded[m] \in {"none", "CANCELED"}
    BY <1>1, <2>3 DEF TypeOK, Written
  <2> QED
    BY <2>1, <2>2, <2>4
<1>4. t.match = m /\ t.outcome = o /\ t.unsettled = u
  OBVIOUS
<1>5. t \in [match : Match, outcome : Outcome, unsettled : BOOLEAN]
  BY <1>3
<1>6. players[m] # {}
  BY <1>1 DEF Owned
<1> HIDE DEF o, u, t
<1>7. TypeOK'
  BY <1>1, <1>2, <1>5 DEF TypeOK
<1>8. Owned' /\ Written' /\ NoGhostsInThePool' /\ Afresh'
  BY <1>1 DEF Owned, Written, NoGhostsInThePool, Afresh
<1>9. Answered' /\ Unsettled'
  <2>1. (m \in settling => u) /\ (u => o = "CANCELED")
    BY <1>3 DEF u
  <2> QED
    BY <1>1, <1>2, <1>4, <1>6, <2>1 DEF Answered, Unsettled
<1>10. RejoinForeseesTheRecord'
  BY <1>1, <1>2, <1>3, <1>4 DEF RejoinForeseesTheRecord
<1> QED
  BY <1>7, <1>8, <1>9, <1>10

LEMMA NextInv == IInv /\ [Next]_vars => IInv'
<1> SUFFICES ASSUME IInv, [Next]_vars PROVE IInv'
  OBVIOUS
<1>1. ASSUME NEW p \in Player, JoinPool(p) PROVE IInv'
  BY <1>1, PoolInv
<1>2. ASSUME NEW m \in Match, NEW a \in Player, NEW b \in Player, Begin(m, {a, b})
      PROVE  IInv'
  BY <1>2, BeginInv
<1>3. ASSUME NEW m \in Match, GoLive(m) \/ Inserted(m) \/ Submit(m) \/ Judged(m)
      PROVE  IInv'
  BY <1>3, GoLiveInv, InsertedInv, SubmissionInv
<1>4. ASSUME NEW m \in Match, NEW o \in Outcome, Finish(m, o) PROVE IInv'
  BY <1>4, FinishInv
<1>5. ASSUME NEW m \in Match, Settle(m) \/ Rejoin(m) PROVE IInv'
  BY <1>5, SettleInv, RejoinInv
<1>6. CASE Crash \/ Boot \/ Collect \/ Close \/ Sweep \/ ClearPool \/ ReconcileFails
  BY <1>6, CrashInv, CloseInv, ReconcileInv, FailInv
<1>7. CASE UNCHANGED vars
  BY <1>7 DEF IInv, TypeOK, Owned, Written, Answered, Unsettled, RejoinForeseesTheRecord,
              NoGhostsInThePool, Afresh, vars, durable, working, history
<1> QED
  BY <1>1, <1>2, <1>3, <1>4, <1>5, <1>6, <1>7 DEF Next

LEMMA InvHolds == Spec => []IInv
<1> QED
  BY InitInv, NextInv, PTL DEF Spec
------------------------------------------------------------------------------
\* Type correctness.
THEOREM TypeCorrect == Spec => []TypeOK
<1>1. IInv => TypeOK
  BY DEF IInv
<1> QED
  BY <1>1, InvHolds, PTL

\* What match.rejoin says of a match that is over is never taken back, except that a
\* match whose settlement is under way is said to be canceled.
THEOREM RejoinTellsTheTruth == Spec => []RejoinForeseesTheRecord
<1>1. IInv => RejoinForeseesTheRecord
  BY DEF IInv
<1> QED
  BY <1>1, InvHolds, PTL

\* After a reconciliation nobody is paired with a player of an old process.
THEOREM NoGhosts == Spec => []NoGhostsInThePool
<1>1. IInv => NoGhostsInThePool
  BY DEF IInv
<1> QED
  BY <1>1, InvHolds, PTL

LEMMA ResultIsKeptByStep ==
  ASSUME IInv, [Next]_vars, NEW m \in Match, row[m] = "FINISHED"
  PROVE  row'[m] = "FINISHED" /\ recorded'[m] = recorded[m]
<1> USE DEF IInv
<1>1. m \notin inserting /\ m \notin settling
  BY DEF Owned
<1>2. ASSUME NEW n \in Match, Inserted(n) PROVE row'[m] = row[m] /\ recorded' = recorded
  BY <1>1, <1>2 DEF Inserted, TypeOK
<1>3. ASSUME NEW n \in Match, Settle(n)
      PROVE  row'[m] = row[m] /\ recorded'[m] = recorded[m]
  BY <1>1, <1>3 DEF Settle, TypeOK
<1>4. CASE Close
  BY <1>4 DEF Close, WriteOff, isOpen
<1>5. ASSUME NEW n \in Match, NEW o \in Outcome,
             GoLive(n) \/ Submit(n) \/ Judged(n) \/ Finish(n, o) \/ Rejoin(n)
      PROVE  UNCHANGED <<row, recorded>>
  BY <1>5 DEF GoLive, Submit, Judged, Finish, Rejoin, durable
<1>6. ASSUME NEW p \in Player, JoinPool(p) PROVE UNCHANGED <<row, recorded>>
  BY <1>6 DEF JoinPool
<1>7. ASSUME NEW n \in Match, NEW pair, Begin(n, pair) PROVE UNCHANGED <<row, recorded>>
  BY <1>7 DEF Begin
<1>8. CASE Crash \/ Boot \/ Collect \/ Sweep \/ ClearPool \/ ReconcileFails \/ UNCHANGED vars
  BY <1>8 DEF Crash, Boot, Collect, Sweep, ClearPool, ReconcileFails, vars, durable
<1>9. ASSUME NEW n \in Match, GoLive(n) \/ Submit(n) \/ Judged(n) \/ Rejoin(n)
      PROVE  UNCHANGED <<row, recorded>>
  BY <1>9 DEF GoLive, Submit, Judged, Rejoin, durable
<1> QED
  BY <1>2, <1>3, <1>4, <1>5, <1>6, <1>7, <1>8, <1>9 DEF Next

\* A result that was recorded as played is never rewritten, whoever crashes and whatever
\* is reconciled.
THEOREM ResultsAreKept == Spec => ResultIsKept
<1>1. ASSUME IInv, [Next]_vars
      PROVE  [\A m \in Match : row[m] = "FINISHED" =>
                row'[m] = "FINISHED" /\ recorded'[m] = recorded[m]]_vars
  BY <1>1, ResultIsKeptByStep
<1> QED
  BY <1>1, InvHolds, PTL DEF Spec, ResultIsKept
------------------------------------------------------------------------------
(* The sweep.  It runs once in the life of a process, and it touches only    *)
(* what Collect found open: before it, no submission that is being judged    *)
(* can have been resolved.                                                   *)

NoneSweptYet ==
  reconciling \in {"collect", "close", "sweep"} =>
    \A m \in judging : submission[m] # "INTERNAL_ERROR"

SweptWereOrphans ==
  \A m \in judging : submission[m] = "INTERNAL_ERROR" => m \in orphans

SweepInv == NoneSweptYet /\ SweptWereOrphans

LEMMA InitSweep == Init => SweepInv
<1> QED
  BY DEF Init, SweepInv, NoneSweptYet, SweptWereOrphans

LEMMA SubmissionSweep ==
  ASSUME IInv, SweepInv, NEW m \in Match, Submit(m) \/ Judged(m)
  PROVE  SweepInv' /\ \A n \in judging : submission'[n] = "INTERNAL_ERROR" => n \in orphans
<1>1. UNCHANGED <<reconciling, orphans>> /\ judging' \subseteq judging \cup {m}
  BY DEF Submit, Judged, history
<1>2. submission'[m] # "INTERNAL_ERROR" /\ \A n \in Match : n # m => submission'[n] = submission[n]
  BY DEF Submit, Judged, IInv, TypeOK
<1>3. judging \subseteq Match
  BY DEF IInv, TypeOK
<1> QED
  BY <1>1, <1>2, <1>3 DEF SweepInv, NoneSweptYet, SweptWereOrphans

\* Collect chooses the orphans, and Sweep resolves theirs and no others.
LEMMA ReconcileSweep ==
  ASSUME IInv, SweepInv, Collect \/ Close \/ Sweep \/ ClearPool \/ ReconcileFails
  PROVE  SweepInv' /\ \A n \in judging : submission'[n] = "INTERNAL_ERROR" => n \in orphans
<1>1. judging' = judging /\ judging \subseteq Match
  BY DEF Collect, Close, Sweep, ClearPool, ReconcileFails, Reconcile, working, IInv, TypeOK
<1>2. CASE Collect
  BY <1>1, <1>2 DEF Collect, Reconcile, durable, SweepInv, NoneSweptYet, SweptWereOrphans
<1>3. CASE Close \/ ClearPool \/ ReconcileFails
  BY <1>1, <1>3 DEF Close, ClearPool, ReconcileFails, Reconcile, durable, SweepInv,
                    NoneSweptYet, SweptWereOrphans
<1>4. CASE Sweep
  <2>1. /\ orphans' = orphans /\ reconciling = "sweep" /\ reconciling' = "pool"
        /\ \A n \in Match : submission'[n] = "INTERNAL_ERROR" =>
             n \in orphans \/ submission[n] = "INTERNAL_ERROR"
    BY <1>4 DEF Sweep, Reconcile
  <2> QED
    BY <1>1, <2>1 DEF SweepInv, NoneSweptYet, SweptWereOrphans
<1> QED
  BY <1>2, <1>3, <1>4

\* No other step touches a submission, and a crash forgets who was judged.
LEMMA OtherSweep ==
  ASSUME SweepInv, submission' = submission,
         \/ UNCHANGED <<judging, orphans, reconciling>>
         \/ judging' = {}
  PROVE  SweepInv' /\ \A n \in judging : submission'[n] = "INTERNAL_ERROR" => n \in orphans
<1> QED
  BY DEF SweepInv, NoneSweptYet, SweptWereOrphans

LEMMA NextSweep ==
  ASSUME IInv, SweepInv, [Next]_vars
  PROVE  SweepInv' /\ \A n \in judging : submission'[n] = "INTERNAL_ERROR" => n \in orphans
<1> DEFINE Same == submission' = submission /\ UNCHANGED <<judging, orphans, reconciling>>
<1>1. ASSUME NEW p \in Player, JoinPool(p) PROVE Same
  BY <1>1 DEF JoinPool, working
<1>2. ASSUME NEW m \in Match, NEW pair, Begin(m, pair) PROVE Same
  BY <1>2 DEF Begin, working
<1>3. ASSUME NEW m \in Match, GoLive(m) \/ Inserted(m) \/ Settle(m) \/ Rejoin(m) PROVE Same
  BY <1>3 DEF GoLive, Inserted, Settle, Rejoin, durable, working
<1>4. ASSUME NEW m \in Match, NEW o \in Outcome, Finish(m, o) PROVE Same
  BY <1>4 DEF Finish, durable
<1>5. ASSUME Boot \/ UNCHANGED vars PROVE Same
  BY <1>5 DEF Boot, vars, durable, working
<1>6. CASE Crash
  BY <1>6, OtherSweep DEF Crash, durable
<1>7. ASSUME Same
      PROVE  SweepInv' /\ \A n \in judging : submission'[n] = "INTERNAL_ERROR" => n \in orphans
  BY <1>7, OtherSweep
<1> HIDE DEF Same
<1> QED
  BY <1>1, <1>2, <1>3, <1>4, <1>5, <1>6, <1>7, SubmissionSweep, ReconcileSweep DEF Next

\* The reconciliation resolves no submission whose verdict this process still waits for,
\* unless its match was open when the reconciliation began.
THEOREM SweepSparesTheJudged == Spec => VerdictsAreNotAnnulled
<1>1. IInv /\ SweepInv /\ [Next]_vars => SweepInv'
  BY NextSweep
<1>2. IInv /\ SweepInv /\ [Next]_vars =>
        [\A m \in judging : submission'[m] = "INTERNAL_ERROR" => m \in orphans]_vars
  BY NextSweep
<1> QED
  BY <1>1, <1>2, InitSweep, InvHolds, PTL DEF Spec, VerdictsAreNotAnnulled
==============================================================================
