------------------------------- MODULE Restart -------------------------------
(***************************************************************************)
(* What outlives the gateway - the rows of a match and of its submission   *)
(* in Postgres, the pool in Redis - and what it keeps in memory, when it   *)
(* may stop between any two writes.  A new process opens its port and then *)
(* goes through what the old one left open (reconcileOrphanedMatches),     *)
(* while new players arrive; and match.rejoin tells a player who comes     *)
(* back what became of a match this process does not have, or no longer.    *)
(*                                                                         *)
(* A match is reduced to what it writes; LiveMatch, Settlement and Lobby   *)
(* have the rest.  A match has one submission here.  A crash and an        *)
(* orderly shutdown are the same to the database.                          *)
(***************************************************************************)
EXTENDS Integers, FiniteSets

CONSTANTS
  Player, Match, MaxCrashes,
  Remembered             \* matches whose answers of match.rejoin the properties look at

ASSUME RestartAssumption == MaxCrashes \in Nat /\ Remembered \subseteq Match

VARIABLES                \* durable
  row,                   \* Match.state, or "none"
  recorded,              \* Match.outcomeKind, or "none"
  submission,            \* Submission.verdict, or "none"
  pool                   \* the matchmaking pool

VARIABLES                \* the memory of the gateway
  up,
  searching,             \* players in the pool, as the sessions have it
  stage,                 \* how far a match has come
  outcome,
  inserting,             \* matches whose row is being written
  judging,               \* matches whose submission is being judged
  settling,              \* matches whose settlement is under way
  reconciling,           \* the next step of reconcileOrphanedMatches
  orphans                \* the open matches it has collected

VARIABLES
  players,               \* who plays a match, or nobody yet
  told,                  \* an answer of match.rejoin, remembered for the properties
  crashes                \* and reconciliations that failed

durable == <<row, recorded, submission, pool>>
working == <<inserting, judging, settling>>
history == <<players, told, crashes>>
vars == <<durable, up, searching, stage, outcome, working, reconciling, orphans, history>>
------------------------------------------------------------------------------
\* A draw is kept as a win is.
Outcome == {"WIN", "CANCELED", "VOID"}

inMatch(p) == \E m \in Match : stage[m] \in {"open", "live"} /\ p \in players[m]

Init ==
  /\ row = [m \in Match |-> "none"]
  /\ recorded = [m \in Match |-> "none"]
  /\ submission = [m \in Match |-> "none"]
  /\ pool = {}
  /\ up = TRUE
  /\ searching = {}
  /\ stage = [m \in Match |-> "none"]
  /\ outcome = [m \in Match |-> "none"]
  /\ inserting = {} /\ judging = {} /\ settling = {}
  /\ reconciling = "collect"
  /\ orphans = {}
  /\ players = [m \in Match |-> {}]
  /\ told = {}
  /\ crashes = 0
------------------------------------------------------------------------------
(* Playing.                                                                *)

\* joinQueue, and its retry while the player goes on searching.
JoinPool(p) ==
  /\ up
  /\ p \notin pool
  /\ ~inMatch(p)
  /\ pool' = pool \cup {p}
  /\ searching' = searching \cup {p}
  /\ UNCHANGED <<row, recorded, submission, up, stage, outcome, working, reconciling,
                 orphans, history>>

\* createMatch.  An id is used once.
Begin(m, pair) ==
  /\ up
  /\ players[m] = {}
  /\ \A p \in pair : ~inMatch(p)
  /\ stage' = [stage EXCEPT ![m] = "open"]
  /\ players' = [players EXCEPT ![m] = pair]
  /\ pool' = pool \ pair
  /\ searching' = searching \ pair
  /\ UNCHANGED <<row, recorded, submission, up, outcome, working, reconciling, orphans,
                 told, crashes>>

\* The first entry into LIVE writes the row.
GoLive(m) ==
  /\ stage[m] = "open"
  /\ stage' = [stage EXCEPT ![m] = "live"]
  /\ inserting' = inserting \cup {m}
  /\ UNCHANGED <<durable, up, searching, outcome, judging, settling, reconciling, orphans,
                 history>>

\* The INSERT may be refused, and it may come after the match is over.
Inserted(m) ==
  /\ m \in inserting
  /\ inserting' = inserting \ {m}
  /\ row' \in {row, [row EXCEPT ![m] = "LIVE"]}
  /\ UNCHANGED <<recorded, submission, pool, up, searching, stage, outcome, judging,
                 settling, reconciling, orphans, history>>

\* Without a match row the submission's INSERT fails and the match is voided.
Submit(m) ==
  /\ stage[m] = "live"
  /\ submission[m] = "none"
  /\ row[m] # "none"
  /\ submission' = [submission EXCEPT ![m] = "PENDING"]
  /\ judging' = judging \cup {m}
  /\ UNCHANGED <<row, recorded, pool, up, searching, stage, outcome, inserting, settling,
                 reconciling, orphans, history>>

\* The verdict is written whether or not the match still waits for it.
Judged(m) ==
  /\ m \in judging
  /\ judging' = judging \ {m}
  /\ submission' = [submission EXCEPT ![m] = "JUDGED"]
  /\ UNCHANGED <<row, recorded, pool, up, searching, stage, outcome, inserting, settling,
                 reconciling, orphans, history>>

\* onFinished: the match leaves the maps; settleMatch is started, not awaited.
Finish(m, o) ==
  /\ \/ stage[m] = "live"
     \/ stage[m] = "open" /\ o \in {"WIN", "CANCELED"}
  /\ stage' = [stage EXCEPT ![m] = "over"]
  /\ outcome' = [outcome EXCEPT ![m] = o]
  /\ settling' = settling \cup {m}
  /\ UNCHANGED <<durable, up, searching, inserting, judging, reconciling, orphans, history>>

\* settleMatch: the UPDATE touches the row if there is one; an error is logged.
Settle(m) ==
  /\ m \in settling
  /\ settling' = settling \ {m}
  /\ \/ /\ row[m] # "none"
        /\ row' = [row EXCEPT ![m] =
                     IF outcome[m] = "CANCELED" THEN "ABANDONED" ELSE "FINISHED"]
        /\ recorded' = [recorded EXCEPT ![m] = outcome[m]]
     \/ UNCHANGED <<row, recorded>>
  /\ UNCHANGED <<submission, pool, up, searching, stage, outcome, inserting, judging,
                 reconciling, orphans, history>>
------------------------------------------------------------------------------
(* Stopping and starting.                                                  *)

Crash ==
  /\ up
  /\ crashes < MaxCrashes
  /\ crashes' = crashes + 1
  /\ up' = FALSE
  /\ searching' = {}
  /\ stage' = [m \in Match |-> "none"]
  /\ outcome' = [m \in Match |-> "none"]
  /\ inserting' = {} /\ judging' = {} /\ settling' = {} /\ orphans' = {}
  /\ reconciling' = "collect"
  /\ UNCHANGED <<durable, players, told>>

\* The port is open before the reconciliation has done anything.
Boot ==
  /\ ~up
  /\ up' = TRUE
  /\ UNCHANGED <<durable, searching, stage, outcome, working, reconciling, orphans, history>>

Reconcile(now, next) ==
  /\ up
  /\ reconciling = now
  /\ reconciling' = next
  /\ UNCHANGED <<up, searching, stage, outcome, working, history>>

isOpen(m) == row[m] = "LIVE"

Collect ==
  /\ Reconcile("collect", "close")
  /\ orphans' = {m \in Match : isOpen(m)}
  /\ UNCHANGED durable

WriteOff(gone, state, kind) ==
  /\ row' = [m \in Match |-> IF m \in gone THEN state ELSE row[m]]
  /\ recorded' = [m \in Match |-> IF m \in gone THEN kind ELSE recorded[m]]

\* Seeded fault: every match that no one plays is written off.
CloseForgotten ==
  /\ Reconcile("close", "sweep")
  /\ WriteOff({m \in Match : row[m] # "none" /\ stage[m] = "none"}, "ABANDONED", "CANCELED")
  /\ UNCHANGED <<submission, pool, orphans>>

\* Seeded fault: a restart is recorded as a no-contest.
CloseAsVoid ==
  /\ Reconcile("close", "sweep")
  /\ WriteOff({m \in Match : isOpen(m)}, "FINISHED", "VOID")
  /\ UNCHANGED <<submission, pool, orphans>>

\* Seeded fault: a match is closed only when its submission is not being judged.
CloseIdle ==
  /\ Reconcile("close", "sweep")
  /\ WriteOff({m \in orphans : submission[m] # "PENDING"}, "ABANDONED", "CANCELED")
  /\ UNCHANGED <<submission, pool, orphans>>

\* The UPDATE looks for the open matches again.
Close ==
  /\ Reconcile("close", "sweep")
  /\ WriteOff({m \in Match : isOpen(m)}, "ABANDONED", "CANCELED")
  /\ UNCHANGED <<submission, pool, orphans>>

\* Seeded fault: every pending submission is swept.
SweepAll ==
  /\ Reconcile("sweep", "pool")
  /\ submission' = [m \in Match |->
       IF submission[m] = "PENDING" THEN "INTERNAL_ERROR" ELSE submission[m]]
  /\ UNCHANGED <<row, recorded, pool, orphans>>

Sweep ==
  /\ Reconcile("sweep", "pool")
  /\ submission' = [m \in Match |->
       IF m \in orphans /\ submission[m] = "PENDING" THEN "INTERNAL_ERROR"
       ELSE submission[m]]
  /\ UNCHANGED <<row, recorded, pool, orphans>>

\* Seeded fault: it removes those who have just joined, and only them.
ClearOwn ==
  /\ Reconcile("pool", "done")
  /\ pool' = pool \ searching
  /\ UNCHANGED <<row, recorded, submission, orphans>>

\* clearStalePool deletes the whole pool, and with it who has just joined.
ClearPool ==
  /\ Reconcile("pool", "done")
  /\ pool' = {}
  /\ UNCHANGED <<row, recorded, submission, orphans>>

\* A query fails: the rest of the reconciliation is not done.
ReconcileFails ==
  /\ up
  /\ reconciling \notin {"done", "failed"}
  /\ crashes < MaxCrashes
  /\ crashes' = crashes + 1
  /\ reconciling' = "failed"
  /\ UNCHANGED <<durable, up, searching, stage, outcome, working, orphans, players, told>>

\* match.rejoin for a match that is not in the maps, because an old process had it or
\* this one has finished it: the answer is the row's, settled or not, and a row without
\* an outcome reads as canceled.  It changes nothing, so of all answers any one is
\* remembered.
Rejoin(m) ==
  /\ up
  /\ stage[m] \in {"none", "over"}
  /\ row[m] # "none"
  /\ m \in Remembered /\ told = {}
  /\ told' =
       {[match |-> m, outcome |-> IF recorded[m] = "none" THEN "CANCELED" ELSE recorded[m],
         unsettled |-> m \in settling]}
  /\ UNCHANGED <<durable, up, searching, stage, outcome, working, reconciling, orphans,
                 players, crashes>>

Next ==
  \/ \E p \in Player : JoinPool(p)
  \/ \E m \in Match :
       \/ \E a, b \in Player : a # b /\ Begin(m, {a, b})
       \/ GoLive(m) \/ Inserted(m) \/ Submit(m) \/ Judged(m)
       \/ \E o \in Outcome : Finish(m, o)
       \/ Settle(m) \/ Rejoin(m)
  \/ Crash \/ Boot
  \/ Collect \/ Close \/ Sweep \/ ClearPool \/ ReconcileFails

\* A process that stopped is started again, a reconciliation goes on, and the
\* session of a player who searches asks again every few seconds.
Fairness ==
  /\ WF_vars(Boot) /\ WF_vars(Collect) /\ WF_vars(Close)
  /\ WF_vars(Sweep) /\ WF_vars(ClearPool)
  /\ \A p \in Player : WF_vars(p \in searching /\ JoinPool(p))

Spec == Init /\ [][Next]_vars
FairSpec == Spec /\ Fairness
------------------------------------------------------------------------------
TypeOK ==
  /\ row \in [Match -> {"none", "LIVE", "FINISHED", "ABANDONED"}]
  /\ recorded \in [Match -> Outcome \cup {"none"}]
  /\ submission \in [Match -> {"none", "PENDING", "JUDGED", "INTERNAL_ERROR"}]
  /\ pool \subseteq Player
  /\ up \in BOOLEAN
  /\ searching \subseteq Player
  /\ stage \in [Match -> {"none", "open", "live", "over"}]
  /\ outcome \in [Match -> Outcome \cup {"none"}]
  /\ inserting \subseteq Match /\ judging \subseteq Match /\ settling \subseteq Match
  /\ reconciling \in {"collect", "close", "sweep", "pool", "done", "failed"}
  /\ orphans \subseteq Match
  /\ players \in [Match -> SUBSET Player]
  /\ told \subseteq [match : Match, outcome : Outcome, unsettled : BOOLEAN]
  /\ crashes \in 0 .. MaxCrashes

\* A result that was recorded as played is never rewritten, by whatever process:
\* settlement, reconciliation and crashes in any order.
ResultIsKept ==
  [][\A m \in Match : row[m] = "FINISHED" =>
       row'[m] = "FINISHED" /\ recorded'[m] = recorded[m]]_vars

\* What a player who comes back is told of a match that is over is what the record says
\* from then on, or will say when the reconciliation gets to it.  The exception is a
\* match this process has just finished and not yet settled: it is said to be canceled,
\* whatever the outcome is (onFinished comes before the UPDATE).  So a result, once told,
\* is never taken back.
RejoinForeseesTheRecord ==
  \A t \in told :
    \/ recorded[t.match] = t.outcome
    \/ row[t.match] = "LIVE" /\ t.outcome = "CANCELED"
    \/ t.unsettled /\ t.outcome = "CANCELED"

\* The sweep resolves no submission whose verdict this process still waits for,
\* unless the match was open when the reconciliation began.
VerdictsAreNotAnnulled ==
  [][\A m \in judging : submission'[m] = "INTERNAL_ERROR" => m \in orphans]_vars

\* After the reconciliation the pool holds no one who joined an earlier process.
NoGhostsInThePool == up /\ reconciling = "done" => pool \subseteq searching

\* A match of an old process does not stay open, unless the database fails the one
\* attempt to close it, and a player who searches while the pool is cleared is put back.
StartMendsEverything ==
  /\ \A m \in Match :
       row[m] = "LIVE" /\ stage[m] = "none" ~> row[m] # "LIVE" \/ reconciling = "failed"
  /\ \A p \in Player : p \in searching ~> p \in pool \/ p \notin searching
==============================================================================
