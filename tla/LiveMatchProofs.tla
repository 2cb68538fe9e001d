--------------------------- MODULE LiveMatchProofs ---------------------------
(***************************************************************************)
(* The machine and the match that runs it, for every length of the clock   *)
(* and of the other timers.                                                *)
(*                                                                         *)
(* First the machine alone: the safety invariants, that the end is final,  *)
(* and that the machine implements Referee.                                *)
(*                                                                         *)
(* Then the running match.  It drives the machine and nothing else does:   *)
(* every step of LiveMatch is a step of MatchMachine or leaves it alone,   *)
(* so what is proved of the machine holds of the running match, whatever   *)
(* the timers, the database and the log do.  On top of that, the presence  *)
(* timers, and how the row, the clock, the jobs and the log keep up with   *)
(* the machine.                                                            *)
(***************************************************************************)
EXTENDS LiveMatch, FiniteSetTheorems, SequenceTheorems, WellFoundedInduction, TLAPS

(***************************************************************************)
(* The winner is chosen with CHOOSE, so there must be something to choose: *)
(* a least receipt stamp, and a first index that has it.                   *)
(***************************************************************************)

\* Every set of naturals with a member has a least one.
LEMMA LeastNatural ==
  ASSUME NEW T \in SUBSET Nat, T # {}
  PROVE  \E m \in T : \A k \in T : m <= k
<1> DEFINE Below == {0..k : k \in T}
<1>1. Below \subseteq FiniteSubsetsOf(Nat)
  <2> SUFFICES ASSUME NEW k \in T
               PROVE  0..k \in FiniteSubsetsOf(Nat)
    BY Zenon
  <2>1. k \in Nat /\ k \in Int /\ 0 \in Int
    BY SMT
  <2>2. IsFiniteSet(0..k)
    BY <2>1, FS_Interval
  <2>3. 0..k \in SUBSET Nat
    BY <2>1, SMT
  <2> QED
    BY <2>2, <2>3, Zenon DEF FiniteSubsetsOf
<1>2. Below # {}
  BY Zenon
<1>3. IsWellFoundedOn(StrictSubsetOrdering(Nat), FiniteSubsetsOf(Nat))
  BY FS_StrictSubsetOrderingWellFounded, Zenon
<1> HIDE DEF Below
<1>4. PICK low \in Below : \A other \in Below : <<other, low>> \notin StrictSubsetOrdering(Nat)
  BY <1>1, <1>2, <1>3, WFMin, Zenon
<1>5. PICK m \in T : low = 0..m
  BY Zenon DEF Below
<1>6. ASSUME NEW k \in T, ~(m <= k)
      PROVE  FALSE
  <2>1. 0..k \in Below
    BY Zenon DEF Below
  <2>2. k < m /\ k \in Nat /\ m \in Nat
    BY <1>6, SMT
  <2>3. 0..k \subseteq 0..m /\ 0..k \in SUBSET Nat /\ 0..m \in SUBSET Nat
    BY <2>2, SMT
  <2>4. 0..k # 0..m
    <3>1. m \in 0..m /\ m \notin 0..k
      BY <2>2, SMT
    <3> QED
      BY <3>1, Zenon
  <2>5. <<0..k, 0..m>> \in StrictSubsetOrdering(Nat)
    BY <2>3, <2>4, SMT DEF StrictSubsetOrdering
  <2> QED
    BY <1>4, <1>5, <2>1, <2>5, Zenon
<1> QED
  BY <1>6, Zenon

\* The order on which the sort of resolve() decides is total, so the first
\* element after the sort exists: it is in the list and nobody is earlier.
LEMMA FirstReceivedIsEarliest ==
  ASSUME NEW S, NEW q \in Seq([side : S, receiptMs : Nat]), q # <<>>
  PROVE  \E i \in DOMAIN q :
           /\ FirstReceived(q) = q[i]
           /\ \A j \in DOMAIN q : q[i].receiptMs <= q[j].receiptMs
<1> DEFINE Ahead(i) == \A j \in DOMAIN q :
                         \/ q[i].receiptMs < q[j].receiptMs
                         \/ q[i].receiptMs = q[j].receiptMs /\ i <= j
<1>1. /\ DOMAIN q = 1..Len(q)
      /\ DOMAIN q # {}
      /\ \A i \in DOMAIN q : i \in Nat /\ q[i].receiptMs \in Nat
  <2>1. Len(q) \in Nat \ {0} /\ DOMAIN q = 1..Len(q)
    BY EmptySeq, LenProperties
  <2>2. \A i \in 1..Len(q) : q[i] \in [side : S, receiptMs : Nat]
    BY ElementOfSeq
  <2> QED
    BY <2>1, <2>2, SMT
<1>2. PICK early \in {q[i].receiptMs : i \in DOMAIN q} :
        \A k \in {q[i].receiptMs : i \in DOMAIN q} : early <= k
  <2> DEFINE T == {q[i].receiptMs : i \in DOMAIN q}
  <2>1. T \in SUBSET Nat /\ T # {}
    BY <1>1, Zenon
  <2> HIDE DEF T
  <2> QED
    BY <2>1, LeastNatural DEF T
<1>3. PICK i \in {j \in DOMAIN q : q[j].receiptMs = early} :
        \A k \in {j \in DOMAIN q : q[j].receiptMs = early} : i <= k
  <2> DEFINE T == {j \in DOMAIN q : q[j].receiptMs = early}
  <2>1. T \in SUBSET Nat /\ T # {}
    BY <1>1, <1>2, Zenon
  <2> HIDE DEF T
  <2> QED
    BY <2>1, LeastNatural DEF T
<1>4. i \in DOMAIN q /\ Ahead(i)
  <2> SUFFICES ASSUME NEW j \in DOMAIN q
               PROVE  \/ q[i].receiptMs < q[j].receiptMs
                      \/ q[i].receiptMs = q[j].receiptMs /\ i <= j
    BY <1>3, Zenon
  <2>1. early <= q[j].receiptMs /\ q[i].receiptMs = early
    BY <1>2, <1>3, Zenon
  <2>2. CASE q[j].receiptMs = early
    BY <1>3, <2>1, <2>2, Zenon
  <2>3. CASE q[j].receiptMs # early
    BY <1>1, <1>3, <2>1, <2>3, SMT
  <2> QED
    BY <2>2, <2>3, Zenon
<1> DEFINE first == CHOOSE k \in DOMAIN q : Ahead(k)
<1>5. first \in DOMAIN q /\ Ahead(first)
  BY <1>4, Zenon
<1>6. FirstReceived(q) = q[first]
  BY Zenon DEF FirstReceived
<1>7. \A j \in DOMAIN q : q[first].receiptMs <= q[j].receiptMs
  <2> HIDE DEF first
  <2> QED
    BY <1>1, <1>5, SMT
<1> QED
  BY <1>5, <1>6, <1>7, Zenon
------------------------------------------------------------------------------
\* The values an outcome can take, apart, so that a proof need not open them.
LEMMA Outcomes ==
  /\ \A s \in Side, why \in {"SOLVED", "FORFEIT", "OPPONENT_ABANDONED"} :
       /\ Win(s, why) \in MatchOutcome
       /\ Win(s, why).kind = "WIN" /\ Win(s, why).winner = s /\ Win(s, why).reason = why
  /\ \A why \in {"BOTH_ABANDONED", "NEVER_STARTED"} :
       /\ Canceled(why) \in MatchOutcome
       /\ Canceled(why).kind = "CANCELED" /\ Canceled(why).reason = why
  /\ Draw \in MatchOutcome /\ Draw.kind = "DRAW" /\ Draw.reason = "NOBODY_SOLVED"
  /\ Void \in MatchOutcome /\ Void.kind = "VOID" /\ Void.reason = "INTERNAL_ERROR"
  /\ NoOutcome.kind = "NONE" /\ NoOutcome.reason = "NONE"
BY DEF MatchOutcome, Win, Canceled, Draw, Void, NoOutcome, Side

\* What resolve() decides, with the winner named instead of chosen.
LEMMA ResolveDecides ==
  ASSUME NEW waiting, NEW right \in Seq([side : Side, receiptMs : Nat]), NEW expired,
         Resolve(waiting, right, expired)
  PROVE  \/ waiting # {} /\ state' = state /\ outcome' = outcome
         \/ /\ waiting = {} /\ right # <<>>
            /\ state' = "ENDED"
            /\ \E i \in DOMAIN right :
                 /\ outcome' = Win(right[i].side, "SOLVED")
                 /\ \A j \in DOMAIN right : right[i].receiptMs <= right[j].receiptMs
         \/ waiting = {} /\ right = <<>> /\ expired /\ state' = "ENDED" /\ outcome' = Draw
         \/ waiting = {} /\ right = <<>> /\ ~expired /\ state' = "LIVE" /\ outcome' = outcome
<1>1. CASE waiting # {}
  BY <1>1, Zenon DEF Resolve
<1>2. CASE waiting = {} /\ right # <<>>
  <2>1. state' = "ENDED" /\ outcome' = Win(FirstReceived(right).side, "SOLVED")
    BY <1>2, Zenon DEF Resolve
  <2>2. PICK i \in DOMAIN right :
          /\ FirstReceived(right) = right[i]
          /\ \A j \in DOMAIN right : right[i].receiptMs <= right[j].receiptMs
    BY <1>2, FirstReceivedIsEarliest
  <2> QED
    BY <1>2, <2>1, <2>2, Zenon
<1>3. CASE waiting = {} /\ right = <<>>
  BY <1>3, Zenon DEF Resolve
<1> QED
  BY <1>1, <1>2, <1>3, Zenon

\* The stamps of a set of submissions are naturals, so they can be compared.
LEMMA StampsAreNatural ==
  ASSUME NEW t \in Nat, NEW q \in Seq([side : Side, receiptMs : 0..t])
  PROVE  q \in Seq([side : Side, receiptMs : Nat])
<1> DEFINE A == [side : Side, receiptMs : 0..t]
           B == [side : Side, receiptMs : Nat]
<1>1. A \subseteq B /\ q \in Seq(A)
  OBVIOUS
<1> HIDE DEF A, B
<1>2. q \in Seq(B)
  BY <1>1, SeqMonotonic
<1> QED
  BY <1>2 DEF B

\* Only a side submits.
LEMMA SidesOfSolved ==
  ASSUME NEW q \in Seq([side : Side, receiptMs : Nat]), NEW i \in DOMAIN q
  PROVE  q[i].side \in Side
<1>1. q[i] \in [side : Side, receiptMs : Nat]
  BY ElementOfSeq, LenProperties
<1> QED
  BY <1>1

\* A solved list one verdict longer.
LEMMA SolvedGrows ==
  ASSUME NEW q \in Seq([side : Side, receiptMs : 0..now]),
         NEW sub \in [side : Side, receiptMs : 0..now]
  PROVE  /\ Append(q, sub) \in Seq([side : Side, receiptMs : 0..now])
         /\ Append(q, sub) # <<>>
         /\ {Append(q, sub)[i] : i \in DOMAIN Append(q, sub)}
              = {q[i] : i \in DOMAIN q} \cup {sub}
<1> DEFINE longer == Append(q, sub)
<1>1. /\ longer \in Seq([side : Side, receiptMs : 0..now])
      /\ longer # <<>>
      /\ Len(longer) = Len(q) + 1
      /\ \A i \in 1..Len(q) : longer[i] = q[i]
      /\ longer[Len(q) + 1] = sub
  BY AppendProperties
<1>2. Len(q) \in Nat /\ DOMAIN q = 1..Len(q) /\ DOMAIN longer = 1..Len(longer)
  BY <1>1, LenProperties
<1> HIDE DEF longer
<1>3. DOMAIN longer = DOMAIN q \cup {Len(q) + 1}
  BY <1>1, <1>2
<1>4. {longer[i] : i \in DOMAIN longer} \subseteq {q[i] : i \in DOMAIN q} \cup {sub}
  <2> SUFFICES ASSUME NEW i \in DOMAIN longer
               PROVE  longer[i] \in {q[j] : j \in DOMAIN q} \cup {sub}
    BY Zenon
  <2>1. CASE i \in DOMAIN q
    BY <1>1, <1>2, <2>1, Zenon
  <2>2. CASE i = Len(q) + 1
    BY <1>1, <2>2, Zenon
  <2> QED
    BY <1>3, <2>1, <2>2, Zenon
<1>5. {q[i] : i \in DOMAIN q} \cup {sub} \subseteq {longer[i] : i \in DOMAIN longer}
  <2>1. \A i \in DOMAIN q : i \in DOMAIN longer /\ longer[i] = q[i]
    BY <1>1, <1>2, <1>3, Zenon
  <2>2. Len(q) + 1 \in DOMAIN longer
    BY <1>3, Zenon
  <2> QED
    BY <1>1, <2>1, <2>2, Zenon
<1> QED
  BY <1>1, <1>4, <1>5, Zenon DEF longer
------------------------------------------------------------------------------
\* Two accepts close the window at once, so it never times out on two.
WindowInv ==
  /\ state \in {"QUEUED", "MATCHED"} => \A s \in Side : ~accepted[s]
  /\ state = "ACCEPTING" => \E s \in Side : ~accepted[s]

\* The inductive invariant.  EarliestCorrectWins and DrawIsEarned look at the
\* match at its end only; what makes them inductive is HoldIsExact, which says
\* what the machine may still owe before it, and WindowInv does the same for
\* the walkover of the accept window.
SafetyInv ==
  /\ TypeOK
  /\ WindowInv
  /\ HoldIsExact
  /\ EarliestCorrectWins
  /\ DrawIsEarned
  /\ WalkoverGoesToThePresentPlayer

\* The three conjuncts that speak of the outcome.
EndInv == EarliestCorrectWins /\ DrawIsEarned /\ WalkoverGoesToThePresentPlayer

\* The initial context is safe: nothing is owed and nobody has won.
LEMMA InitSafe == Init => SafetyInv
<1> SUFFICES ASSUME Init PROVE SafetyInv
  OBVIOUS
<1> USE DEF Init, initialContext
<1>1. TypeOK
  <2>1. solved \in Seq([side : Side, receiptMs : 0..now])
    BY EmptySeq, Zenon
  <2>2. now \in 0..MaxMs
    BY MaxMsAssumption
  <2> QED
    BY <2>1, <2>2 DEF TypeOK, MatchState, isTerminal
<1>2. HoldIsExact
  BY DEF HoldIsExact
<1>3. EarliestCorrectWins /\ DrawIsEarned /\ WalkoverGoesToThePresentPlayer
  BY Outcomes, Zenon DEF EarliestCorrectWins, DrawIsEarned, WalkoverGoesToThePresentPlayer
<1>4. WindowInv
  BY Zenon DEF WindowInv
<1> QED
  BY <1>1, <1>2, <1>3, <1>4 DEF SafetyInv

\* An event is refused in a match that is over.
LEMMA EventsNeedPlay ==
  ASSUME TypeOK, NEW event \in DOMAIN LegalIn, state \in LegalIn[event]
  PROVE  ~isTerminal /\ outcome = NoOutcome
BY DEF TypeOK, LegalIn, Playable, isTerminal

\* What is said of an outcome says nothing while there is none.
LEMMA OpenEnd ==
  ASSUME outcome' = NoOutcome
  PROVE  EndInv'
BY Outcomes, Zenon DEF EndInv, EarliestCorrectWins, DrawIsEarned, WalkoverGoesToThePresentPlayer

\* The lobby: the match is found, the window opens, the countdown ends.
LEMMA LobbyStep ==
  ASSUME SafetyInv, UNCHANGED now,
         MatchFound \/ AcceptWindowOpen \/ CountdownComplete \/ \E s \in Side : PlayerAccepted(s)
  PROVE  SafetyInv'
<1> USE DEF MatchFound, AcceptWindowOpen, CountdownComplete, PlayerAccepted
<1>1. /\ state \in {"QUEUED", "MATCHED", "ACCEPTING", "COUNTDOWN"}
      /\ state' \in {"MATCHED", "ACCEPTING", "COUNTDOWN", "LIVE"}
      /\ accepted' \in [Side -> BOOLEAN]
      /\ UNCHANGED <<connected, outstanding, solved, clockExpired, forfeited, outcome>>
  BY DEF SafetyInv, TypeOK, LegalIn, Side
<1>2. ~isTerminal /\ outcome = NoOutcome /\ state # "JUDGING"
  BY <1>1 DEF SafetyInv, TypeOK, isTerminal
<1>3. TypeOK'
  BY <1>1, <1>2 DEF SafetyInv, TypeOK, isTerminal, MatchState
<1>4. HoldIsExact'
  BY <1>1, <1>2 DEF SafetyInv, HoldIsExact, isTerminal
<1>5. EndInv'
  BY <1>1, <1>2, OpenEnd
<1>6. WindowInv'
  BY DEF SafetyInv, TypeOK, WindowInv, LegalIn, Side, Other
<1> QED
  BY <1>3, <1>4, <1>5, <1>6 DEF SafetyInv, EndInv

\* A presence change disturbs a match only in its connected field.
LEMMA PresenceStep ==
  ASSUME SafetyInv, UNCHANGED now, NEW s \in Side,
         PlayerDisconnected(s) \/ PlayerReconnected(s)
  PROVE  SafetyInv'
<1> USE DEF PlayerDisconnected, PlayerReconnected
<1>1. /\ ~isTerminal /\ outcome = NoOutcome
      /\ connected' \in [Side -> BOOLEAN]
      /\ UNCHANGED <<state, accepted, outstanding, solved, clockExpired, forfeited, outcome>>
  BY EventsNeedPlay DEF SafetyInv, TypeOK, LegalIn
<1>2. TypeOK'
  BY <1>1 DEF SafetyInv, TypeOK, isTerminal
<1>3. HoldIsExact'
  BY <1>1 DEF SafetyInv, HoldIsExact, isTerminal
<1>4. EndInv'
  BY <1>1, OpenEnd
<1>5. WindowInv'
  BY <1>1 DEF SafetyInv, WindowInv
<1> QED
  BY <1>2, <1>3, <1>4, <1>5 DEF SafetyInv, EndInv

\* A submission opens the hold, or joins it.
LEMMA SubmissionStep ==
  ASSUME SafetyInv, UNCHANGED now, NEW s \in Side, SubmissionReceived(s)
  PROVE  SafetyInv'
<1>1. /\ ~isTerminal /\ outcome = NoOutcome
      /\ state' = "JUDGING"
      /\ outstanding' = outstanding \cup {Stamped(s)}
      /\ UNCHANGED <<accepted, connected, solved, clockExpired, forfeited, outcome>>
  BY EventsNeedPlay DEF SafetyInv, LegalIn, SubmissionReceived
<1>2. Stamped(s) \in [side : Side, receiptMs : 0..now]
  BY MaxMsAssumption DEF Stamped, SafetyInv, TypeOK
<1>3. TypeOK'
  BY <1>1, <1>2 DEF SafetyInv, TypeOK, isTerminal, MatchState
<1>4. HoldIsExact'
  BY <1>1 DEF HoldIsExact
<1>5. EndInv'
  BY <1>1, OpenEnd
<1>6. WindowInv'
  BY <1>1 DEF WindowInv
<1> QED
  BY <1>3, <1>4, <1>5, <1>6 DEF SafetyInv, EndInv

\* The clock ends an idle match in a draw and leaves a held one to its verdicts.
LEMMA ClockStep ==
  ASSUME SafetyInv, UNCHANGED now, ClockExpired
  PROVE  SafetyInv'
<1>1. /\ ~isTerminal /\ outcome = NoOutcome /\ state \in {"LIVE", "JUDGING"}
      /\ clockExpired' = TRUE
      /\ UNCHANGED <<accepted, connected, outstanding, solved, forfeited>>
  BY EventsNeedPlay DEF SafetyInv, LegalIn, ClockExpired
<1>2. CASE state = "JUDGING"
  <2>1. UNCHANGED <<state, outcome>>
    BY <1>2 DEF ClockExpired
  <2>2. TypeOK'
    BY <1>1, <2>1 DEF SafetyInv, TypeOK, isTerminal
  <2>3. HoldIsExact'
    BY <1>1, <1>2, <2>1 DEF SafetyInv, HoldIsExact
  <2>4. EndInv'
    BY <1>1, <2>1, OpenEnd
  <2>5. WindowInv'
    BY <1>2, <2>1 DEF WindowInv
  <2> QED
    BY <2>2, <2>3, <2>4, <2>5 DEF SafetyInv, EndInv
<1>3. CASE state = "LIVE"
  <2>1. outstanding = {} /\ solved = <<>>
    BY <1>1, <1>3 DEF SafetyInv, HoldIsExact
  <2>2. state' = "ENDED" /\ outcome' = Draw
    BY <1>3, <2>1, Zenon DEF ClockExpired, Resolve
  <2>3. TypeOK'
    BY <1>1, <2>2, Outcomes DEF SafetyInv, TypeOK, isTerminal, MatchState
  <2>4. HoldIsExact'
    BY <2>2 DEF HoldIsExact, isTerminal
  <2>5. EndInv'
    BY <1>1, <2>1, <2>2, Outcomes
    DEF EndInv, EarliestCorrectWins, DrawIsEarned, WalkoverGoesToThePresentPlayer
  <2>6. WindowInv'
    BY <2>2 DEF WindowInv
  <2> QED
    BY <2>3, <2>4, <2>5, <2>6 DEF SafetyInv, EndInv
<1> QED
  BY <1>1, <1>2, <1>3

\* The window closes: who accepted alone wins, and with none the match is off.
LEMMA AcceptTimeoutStep ==
  ASSUME SafetyInv, UNCHANGED now, AcceptTimeout
  PROVE  SafetyInv'
<1>1. /\ state' = "ABANDONED"
      /\ UNCHANGED <<accepted, connected, outstanding, solved, clockExpired, forfeited>>
  BY DEF AcceptTimeout
<1>2. \/ \E s \in Side : /\ accepted[s] /\ ~accepted[Other(s)]
                         /\ outcome' = Win(s, "OPPONENT_ABANDONED")
      \/ /\ \A s \in Side : ~accepted[s]
         /\ outcome' = Canceled("NEVER_STARTED")
  BY DEF AcceptTimeout, LegalIn, SafetyInv, WindowInv, Side, Other
<1>3. TypeOK'
  <2>1. outcome' \in MatchOutcome /\ outcome' # NoOutcome
    BY <1>2, Outcomes
  <2> QED
    BY <1>1, <2>1 DEF SafetyInv, TypeOK, isTerminal, MatchState
<1>4. HoldIsExact' /\ WindowInv'
  BY <1>1 DEF HoldIsExact, WindowInv, isTerminal
<1>5. EndInv'
  BY <1>1, <1>2, Outcomes
  DEF EndInv, EarliestCorrectWins, DrawIsEarned, WalkoverGoesToThePresentPlayer
<1> QED
  BY <1>3, <1>4, <1>5 DEF SafetyInv, EndInv

\* A grace timer runs out: the opponent wins if there, else the match is off.
LEMMA GraceStep ==
  ASSUME SafetyInv, UNCHANGED now, NEW s \in Side, GraceExpired(s)
  PROVE  SafetyInv'
<1>1. /\ state' \in {"ENDED", "ABANDONED"}
      /\ connected' = [connected EXCEPT ![s] = FALSE]
      /\ forfeited' = s
      /\ UNCHANGED <<accepted, outstanding, solved, clockExpired>>
  BY DEF GraceExpired
<1>2. connected' \in [Side -> BOOLEAN] /\ ~connected'[s]
      /\ connected'[Other(s)] = connected[Other(s)]
      /\ Side = {s, Other(s)} /\ Other(Other(s)) = s /\ Other(s) \in Side
  BY <1>1 DEF SafetyInv, TypeOK, Side, Other
<1>3. \/ ~connected[Other(s)] /\ outcome' = Canceled("BOTH_ABANDONED")
      \/ connected[Other(s)] /\ outcome' = Win(Other(s), "FORFEIT")
  BY DEF GraceExpired
<1>4. TypeOK'
  <2>1. outcome' \in MatchOutcome /\ outcome' # NoOutcome
    BY <1>2, <1>3, Outcomes
  <2> QED
    BY <1>1, <1>2, <2>1 DEF SafetyInv, TypeOK, isTerminal, MatchState
<1>5. HoldIsExact' /\ WindowInv'
  BY <1>1 DEF HoldIsExact, WindowInv, isTerminal
<1>6. EndInv'
  <2>1. CASE ~connected[Other(s)]
    <3>1. outcome'.kind = "CANCELED" /\ outcome'.reason = "BOTH_ABANDONED"
      BY <1>3, <2>1, Outcomes
    <3>2. \A t \in Side : ~connected'[t]
      BY <1>2, <2>1, Zenon
    <3> QED
      BY <3>1, <3>2
      DEF EndInv, EarliestCorrectWins, DrawIsEarned, WalkoverGoesToThePresentPlayer
  <2>2. CASE connected[Other(s)]
    <3>1. /\ outcome'.kind = "WIN" /\ outcome'.reason = "FORFEIT"
          /\ outcome'.winner = Other(s)
      BY <1>2, <1>3, <2>2, Outcomes
    <3>2. /\ forfeited' = Other(outcome'.winner)
          /\ connected'[outcome'.winner] /\ ~connected'[forfeited']
      BY <1>1, <1>2, <2>2, <3>1, Zenon
    <3> QED
      BY <3>1, <3>2
      DEF EndInv, EarliestCorrectWins, DrawIsEarned, WalkoverGoesToThePresentPlayer
  <2> QED
    BY <2>1, <2>2
<1> QED
  BY <1>4, <1>5, <1>6 DEF SafetyInv, EndInv

\* The verdict of a submission the machine knows: a no-contest, the end of the
\* hold, or one verdict fewer to wait for.
LEMMA VerdictStep ==
  ASSUME SafetyInv, UNCHANGED now,
         NEW sub \in Submission, NEW verdict \in Verdicts, Verdict(sub, verdict)
  PROVE  SafetyInv'
<1>1. /\ state = "JUDGING" /\ ~isTerminal /\ outcome = NoOutcome
      /\ sub \in outstanding
      /\ outstanding' = outstanding \ {sub}
      /\ UNCHANGED <<accepted, connected, clockExpired, forfeited>>
  BY EventsNeedPlay DEF SafetyInv, LegalIn, Verdict
<1>2. CASE verdict = "INTERNAL_ERROR"
  <2>1. state' = "ENDED" /\ outcome' = Void /\ solved' = solved
    BY <1>2 DEF Verdict
  <2>2. TypeOK'
    BY <1>1, <2>1, Outcomes DEF SafetyInv, TypeOK, isTerminal, MatchState
  <2>3. HoldIsExact' /\ WindowInv'
    BY <2>1 DEF HoldIsExact, WindowInv, isTerminal
  <2>4. EndInv'
    BY <2>1, Outcomes
    DEF EndInv, EarliestCorrectWins, DrawIsEarned, WalkoverGoesToThePresentPlayer
  <2> QED
    BY <2>2, <2>3, <2>4 DEF SafetyInv, EndInv
<1>3. CASE verdict # "INTERNAL_ERROR"
  <2>1. /\ solved' = IF verdict = "ACCEPTED" THEN Append(solved, sub) ELSE solved
        /\ Resolve(outstanding', solved', clockExpired)
    BY <1>3 DEF Verdict
  <2>2. solved' \in Seq([side : Side, receiptMs : 0..now])
    <3>1. /\ solved \in Seq([side : Side, receiptMs : 0..now])
          /\ sub \in [side : Side, receiptMs : 0..now] /\ now' = now
      BY <1>1, Zenon DEF SafetyInv, TypeOK
    <3>2. Append(solved, sub) \in Seq([side : Side, receiptMs : 0..now])
      BY <3>1, SolvedGrows
    <3> QED
      BY <2>1, <3>1, <3>2, Zenon
  <2>3. /\ [side : Side, receiptMs : 0..now] \subseteq [side : Side, receiptMs : Nat]
        /\ outstanding' \subseteq [side : Side, receiptMs : 0..now]
    BY <1>1 DEF SafetyInv, TypeOK
  <2>4. solved' \in Seq([side : Side, receiptMs : Nat])
    <3>1. now \in Nat
      BY MaxMsAssumption DEF SafetyInv, TypeOK
    <3> QED
      BY <2>2, <3>1, StampsAreNatural, Zenon
  <2>5. \/ outstanding' # {} /\ state' = state /\ outcome' = outcome
        \/ /\ outstanding' = {} /\ solved' # <<>>
           /\ state' = "ENDED"
           /\ \E i \in DOMAIN solved' :
                /\ outcome' = Win(solved'[i].side, "SOLVED")
                /\ \A j \in DOMAIN solved' : solved'[i].receiptMs <= solved'[j].receiptMs
        \/ outstanding' = {} /\ solved' = <<>> /\ clockExpired
           /\ state' = "ENDED" /\ outcome' = Draw
        \/ outstanding' = {} /\ solved' = <<>> /\ ~clockExpired
           /\ state' = "LIVE" /\ outcome' = outcome
    BY <2>1, <2>4, ResolveDecides
  <2>6. CASE outstanding' # {}
    <3>1. state' = state /\ outcome' = outcome
      BY <2>5, <2>6
    <3>2. TypeOK'
      BY <1>1, <2>2, <2>3, <3>1 DEF SafetyInv, TypeOK, isTerminal
    <3>3. HoldIsExact' /\ WindowInv' /\ EndInv'
      BY <1>1, <2>6, <3>1, OpenEnd DEF HoldIsExact, WindowInv
    <3> QED
      BY <3>2, <3>3 DEF SafetyInv, EndInv
  <2>7. CASE outstanding' = {} /\ solved' # <<>>
    <3>1. PICK i \in DOMAIN solved' :
            /\ outcome' = Win(solved'[i].side, "SOLVED")
            /\ \A j \in DOMAIN solved' : solved'[i].receiptMs <= solved'[j].receiptMs
      BY <2>5, <2>7
    <3>2. state' = "ENDED"
      BY <2>5, <2>7
    <3>3. solved'[i].side \in Side
      BY <2>4, SidesOfSolved
    <3>4. /\ outcome' \in MatchOutcome /\ outcome' # NoOutcome
          /\ outcome'.kind = "WIN" /\ outcome'.reason = "SOLVED"
          /\ outcome'.winner = solved'[i].side
      BY <3>1, <3>3, Outcomes
    <3>5. TypeOK'
      BY <1>1, <2>2, <2>3, <3>2, <3>4 DEF SafetyInv, TypeOK, isTerminal, MatchState
    <3>6. EarliestCorrectWins'
      BY <2>7, <3>1, <3>4, Zenon DEF EarliestCorrectWins, Solved
    <3>7. HoldIsExact' /\ WindowInv' /\ DrawIsEarned' /\ WalkoverGoesToThePresentPlayer'
      BY <3>2, <3>4
      DEF HoldIsExact, WindowInv, isTerminal, DrawIsEarned, WalkoverGoesToThePresentPlayer
    <3> QED
      BY <3>5, <3>6, <3>7 DEF SafetyInv
  <2>8. CASE outstanding' = {} /\ solved' = <<>> /\ clockExpired
    <3>1. state' = "ENDED" /\ outcome' = Draw
      BY <2>5, <2>8
    <3>2. TypeOK'
      BY <1>1, <2>2, <2>3, <3>1, Outcomes DEF SafetyInv, TypeOK, isTerminal, MatchState
    <3>3. HoldIsExact' /\ WindowInv'
      BY <3>1 DEF HoldIsExact, WindowInv, isTerminal
    <3>4. EndInv'
      BY <1>1, <2>8, <3>1, Outcomes
      DEF EndInv, EarliestCorrectWins, DrawIsEarned, WalkoverGoesToThePresentPlayer
    <3> QED
      BY <3>2, <3>3, <3>4 DEF SafetyInv, EndInv
  <2>9. CASE outstanding' = {} /\ solved' = <<>> /\ ~clockExpired
    <3>1. state' = "LIVE" /\ outcome' = outcome
      BY <2>5, <2>9
    <3>2. TypeOK'
      BY <1>1, <2>2, <2>3, <3>1 DEF SafetyInv, TypeOK, isTerminal, MatchState
    <3>3. HoldIsExact' /\ WindowInv' /\ EndInv'
      BY <1>1, <2>9, <3>1, OpenEnd DEF HoldIsExact, WindowInv
    <3> QED
      BY <3>2, <3>3 DEF SafetyInv, EndInv
  <2> QED
    BY <2>6, <2>7, <2>8, <2>9
<1> QED
  BY <1>2, <1>3

\* Time only widens the range the stamps are drawn from.
LEMMA TickStep ==
  ASSUME SafetyInv, Tick
  PROVE  SafetyInv'
<1>1. now' \in 0..MaxMs /\ 0..now \subseteq 0..now' /\ UNCHANGED context
  BY MaxMsAssumption DEF SafetyInv, TypeOK, Tick
<1>2. [side : Side, receiptMs : 0..now] \subseteq [side : Side, receiptMs : 0..now']
  BY <1>1
<1>3. solved' \in Seq([side : Side, receiptMs : 0..now'])
  BY <1>1, <1>2, SeqMonotonic DEF SafetyInv, TypeOK, context
<1>4. TypeOK'
  BY <1>1, <1>2, <1>3 DEF SafetyInv, TypeOK, isTerminal, context
<1>5. HoldIsExact' /\ WindowInv' /\ EndInv'
  BY <1>1
  DEF SafetyInv, HoldIsExact, WindowInv, EndInv, EarliestCorrectWins, DrawIsEarned,
      WalkoverGoesToThePresentPlayer, Solved, isTerminal, context
<1> QED
  BY <1>4, <1>5 DEF SafetyInv, EndInv

\* Every event of the lifecycle, and the clock, keeps the invariant.
LEMMA StepSafe == SafetyInv /\ [Next]_machineVars => SafetyInv'
<1> SUFFICES ASSUME SafetyInv, [Next]_machineVars
             PROVE  SafetyInv'
  OBVIOUS
<1>1. CASE Event /\ UNCHANGED now
  BY <1>1, LobbyStep, PresenceStep, SubmissionStep, ClockStep, AcceptTimeoutStep,
     GraceStep, VerdictStep, Zenon DEF Event
<1>2. CASE Tick
  BY <1>2, TickStep
<1>3. CASE UNCHANGED machineVars
  <2>1. UNCHANGED context /\ now' = now
    BY <1>3 DEF machineVars, context
  <2>2. TypeOK'
    BY <2>1 DEF SafetyInv, TypeOK, isTerminal, context
  <2>3. WindowInv' /\ HoldIsExact' /\ EndInv'
    BY <2>1
    DEF SafetyInv, WindowInv, HoldIsExact, EndInv, EarliestCorrectWins, DrawIsEarned,
        WalkoverGoesToThePresentPlayer, Solved, isTerminal, context
  <2> QED
    BY <2>2, <2>3 DEF SafetyInv, EndInv
<1> QED
  BY <1>1, <1>2, <1>3 DEF Next

\* The invariant holds in every reachable state.
LEMMA AlwaysSafe == Spec => []SafetyInv
BY InitSafe, StepSafe, PTL DEF Spec
------------------------------------------------------------------------------
\* Every field keeps its type, no stamp lies in the future, and the outcome is
\* set exactly when the match is at rest.
THEOREM TypeCorrect == Spec => []TypeOK
<1>1. SafetyInv => TypeOK
  BY DEF SafetyInv
<1> QED
  BY <1>1, AlwaysSafe, PTL

\* A match won by solving was won by the earliest received correct submission,
\* with every verdict heard, whatever the order the verdicts came in.
THEOREM EarliestWins == Spec => []EarliestCorrectWins
<1>1. SafetyInv => EarliestCorrectWins
  BY DEF SafetyInv
<1> QED
  BY <1>1, AlwaysSafe, PTL

\* JUDGING is held exactly while a verdict is owed.
THEOREM HoldExact == Spec => []HoldIsExact
<1>1. SafetyInv => HoldIsExact
  BY DEF SafetyInv
<1> QED
  BY <1>1, AlwaysSafe, PTL

\* A draw is called only with every verdict heard and none of them correct.
THEOREM DrawEarned == Spec => []DrawIsEarned
<1>1. SafetyInv => DrawIsEarned
  BY DEF SafetyInv
<1> QED
  BY <1>1, AlwaysSafe, PTL

\* A walkover goes to the player who was there.
THEOREM WalkoverFair == Spec => []WalkoverGoesToThePresentPlayer
<1>1. SafetyInv => WalkoverGoesToThePresentPlayer
  BY DEF SafetyInv
<1> QED
  BY <1>1, AlwaysSafe, PTL

\* At rest no event is legal: each needs a state it is legal in, and a state of rest
\* is in none of the lists.
LEMMA RestStays ==
  ASSUME TypeOK, [Next]_machineVars, isTerminal
  PROVE  UNCHANGED context
<1>1. ~Event
  <2>1. \A event \in DOMAIN LegalIn : state \notin LegalIn[event]
    BY EventsNeedPlay
  <2> QED
    BY <2>1 DEF LegalIn, Event, MatchFound, AcceptWindowOpen, AcceptTimeout,
                CountdownComplete, ClockExpired, PlayerAccepted, SubmissionReceived,
                PlayerDisconnected, PlayerReconnected, GraceExpired, Verdict
<1>2. CASE Tick
  BY <1>2 DEF Tick
<1>3. CASE UNCHANGED machineVars
  BY <1>3 DEF machineVars, context
<1> QED
  BY <1>1, <1>2, <1>3 DEF Next

\* A match at rest stays as it is, whatever comes late.
THEOREM EndFinal == Spec => EndIsFinal
<1>1. SafetyInv /\ [Next]_machineVars => [isTerminal => UNCHANGED context]_machineVars
  BY RestStays DEF SafetyInv
<1> QED
  BY <1>1, AlwaysSafe, PTL DEF Spec, EndIsFinal
------------------------------------------------------------------------------
(***************************************************************************)
(* MatchMachine implements Referee: each event is a step of the referee or *)
(* leaves what the referee sees alone.                                     *)
(***************************************************************************)

\* The referee sees a submission come in.
LEMMA ReceiveRefines ==
  ASSUME SafetyInv, NEW s \in Side, SubmissionReceived(s)
  PROVE  R!Next
<1>1. Stamped(s) \in Submission
  BY MaxMsAssumption DEF Stamped, Submission, SafetyInv, TypeOK
<1>2. outcome = NoOutcome
  BY EventsNeedPlay DEF SafetyInv, LegalIn, SubmissionReceived
<1>3. R!Receive(Stamped(s))
  BY <1>2 DEF SubmissionReceived, R!Receive, R!NoRuling, NoOutcome, Solved
<1> QED
  BY <1>1, <1>3 DEF R!Next

\* The referee sees a verdict, and rules on the merits when it is the last one.
LEMMA VerdictRefines ==
  ASSUME SafetyInv, NEW sub \in Submission, NEW verdict \in Verdicts, Verdict(sub, verdict)
  PROVE  R!Next
<1>1. /\ outcome = R!NoRuling /\ sub \in outstanding
      /\ outstanding' = outstanding \ {sub}
  BY EventsNeedPlay DEF SafetyInv, LegalIn, Verdict, NoOutcome, R!NoRuling
<1>2. CASE verdict = "INTERNAL_ERROR"
  <2>1. R!NoContest(sub)
    BY <1>1, <1>2 DEF Verdict, Void, Solved, R!NoContest, R!Ruling
  <2> QED
    BY <2>1 DEF R!Next
<1>3. CASE verdict # "INTERNAL_ERROR"
  <2> DEFINE right == verdict = "ACCEPTED"
  <2>1. /\ solved' = IF right THEN Append(solved, sub) ELSE solved
        /\ Resolve(outstanding', solved', clockExpired)
    BY <1>3 DEF Verdict
  <2>2. /\ solved \in Seq([side : Side, receiptMs : 0..now])
        /\ sub \in [side : Side, receiptMs : 0..now] /\ now \in Nat
    BY <1>1, MaxMsAssumption DEF SafetyInv, TypeOK
  <2>3. /\ Append(solved, sub) \in Seq([side : Side, receiptMs : 0..now])
        /\ {Append(solved, sub)[i] : i \in DOMAIN Append(solved, sub)} = Solved \cup {sub}
    BY <2>2, SolvedGrows DEF Solved
  <2>4. Solved' = IF right THEN Solved \cup {sub} ELSE Solved
    BY <2>1, <2>3, Zenon DEF Solved
  <2>5. solved' \in Seq([side : Side, receiptMs : 0..now])
    BY <2>1, <2>2, <2>3, Zenon
  <2>6. solved' \in Seq([side : Side, receiptMs : Nat])
    BY <2>2, <2>5, StampsAreNatural, Zenon
  <2>7. \/ outstanding' # {} /\ state' = state /\ outcome' = outcome
        \/ /\ outstanding' = {} /\ solved' # <<>>
           /\ state' = "ENDED"
           /\ \E i \in DOMAIN solved' :
                /\ outcome' = Win(solved'[i].side, "SOLVED")
                /\ \A j \in DOMAIN solved' : solved'[i].receiptMs <= solved'[j].receiptMs
        \/ outstanding' = {} /\ solved' = <<>> /\ clockExpired
           /\ state' = "ENDED" /\ outcome' = Draw
        \/ outstanding' = {} /\ solved' = <<>> /\ ~clockExpired
           /\ state' = "LIVE" /\ outcome' = outcome
    BY <2>1, <2>6, ResolveDecides
  <2>8. outcome' \in R!OnTheMerits(outstanding', Solved')
    <3>1. CASE outstanding' # {}
      BY <1>1, <2>7, <3>1 DEF R!OnTheMerits
    <3>2. CASE outstanding' = {} /\ solved' # <<>>
      <4>1. PICK i \in DOMAIN solved' :
              /\ outcome' = Win(solved'[i].side, "SOLVED")
              /\ \A j \in DOMAIN solved' : solved'[i].receiptMs <= solved'[j].receiptMs
        BY <2>7, <3>2
      <4>2. solved'[i] \in Solved' /\ solved'[i] \in R!Earliest(Solved')
        BY <4>1, Zenon DEF Solved, R!Earliest
      <4>3. outcome' = R!Ruling("WIN", solved'[i].side, "SOLVED")
        BY <4>1, Zenon DEF Win, R!Ruling
      <4> QED
        BY <3>2, <4>2, <4>3, Zenon DEF R!OnTheMerits
    <3>3. CASE outstanding' = {} /\ solved' = <<>>
      <4>1. Solved' = {}
        BY <3>3 DEF Solved
      <4>2. outcome' \in {R!NoRuling, R!Ruling("DRAW", "NONE", "NOBODY_SOLVED")}
        BY <1>1, <2>7, <3>3 DEF Draw, R!Ruling
      <4> QED
        BY <3>3, <4>1, <4>2, Zenon DEF R!OnTheMerits
    <3> QED
      BY <3>1, <3>2, <3>3
  <2>9. R!Judge(sub, right)
    BY <1>1, <2>4, <2>8, Zenon DEF R!Judge
  <2> QED
    BY <2>9 DEF R!Next
<1> QED
  BY <1>2, <1>3

\* The clock draws an idle match; a held one the referee sees nothing of.
LEMMA ClockRefines ==
  ASSUME SafetyInv, ClockExpired
  PROVE  R!Next \/ UNCHANGED R!vars
<1>1. outcome = R!NoRuling /\ outstanding' = outstanding /\ solved' = solved
  BY EventsNeedPlay DEF SafetyInv, LegalIn, ClockExpired, NoOutcome, R!NoRuling
<1>2. CASE state = "LIVE"
  <2>1. outstanding = {} /\ solved = <<>>
    BY <1>2 DEF SafetyInv, HoldIsExact, isTerminal
  <2>2. outcome' = R!Ruling("DRAW", "NONE", "NOBODY_SOLVED")
    BY <1>2, <2>1, Zenon DEF ClockExpired, Resolve, Draw, R!Ruling
  <2>3. Solved = {} /\ Solved' = Solved
    BY <1>1, <2>1 DEF Solved
  <2>4. R!CallDraw
    BY <1>1, <2>1, <2>2, <2>3, Zenon DEF R!CallDraw
  <2> QED
    BY <2>4 DEF R!Next
<1>3. CASE state # "LIVE"
  <2>1. outcome' = outcome
    BY <1>3 DEF ClockExpired
  <2> QED
    BY <1>1, <2>1 DEF R!vars, Solved
<1> QED
  BY <1>2, <1>3

\* A window or a grace timer that runs out is a walkover.
LEMMA WalkoverRefines ==
  ASSUME SafetyInv, AcceptTimeout \/ \E s \in Side : GraceExpired(s)
  PROVE  R!Next
<1>1. outcome = R!NoRuling /\ outstanding' = outstanding /\ solved' = solved
  BY EventsNeedPlay DEF SafetyInv, LegalIn, AcceptTimeout, GraceExpired, NoOutcome, R!NoRuling
<1>2. outcome' \in R!OffTheMerits
  <2>1. CASE AcceptTimeout
    BY <2>1 DEF AcceptTimeout, Win, Canceled, R!OffTheMerits, R!Ruling
  <2>2. CASE \E s \in Side : GraceExpired(s)
    BY <2>2 DEF GraceExpired, Win, Canceled, Side, Other, R!OffTheMerits, R!Ruling
  <2> QED
    BY <2>1, <2>2
<1>3. R!Walkover
  BY <1>1, <1>2 DEF R!Walkover, Solved
<1> QED
  BY <1>3 DEF R!Next

\* The rest of the lifecycle is none of the referee's business.
LEMMA LobbyStutters ==
  ASSUME \/ MatchFound \/ AcceptWindowOpen \/ CountdownComplete
         \/ \E s \in Side : PlayerAccepted(s) \/ PlayerDisconnected(s) \/ PlayerReconnected(s)
         \/ Tick
         \/ UNCHANGED machineVars
  PROVE  UNCHANGED R!vars
<1>1. UNCHANGED <<outstanding, solved, outcome>>
  BY DEF MatchFound, AcceptWindowOpen, CountdownComplete, PlayerAccepted,
         PlayerDisconnected, PlayerReconnected, Tick, context, machineVars
<1> QED
  BY <1>1 DEF R!vars, Solved

\* The machine implements Referee: submissions are received, each is judged at
\* most once, the last verdict rules by receipt order, and there is one ruling.
THEOREM ImplementsReferee == Spec => KeepsThePromise
<1>1. Init => R!Init
  BY DEF Init, initialContext, Solved, NoOutcome, R!Init, R!NoRuling
<1>2. SafetyInv /\ [Next]_machineVars => [R!Next]_(R!vars)
  <2> SUFFICES ASSUME SafetyInv, [Next]_machineVars
               PROVE  R!Next \/ UNCHANGED R!vars
    OBVIOUS
  <2>1. CASE Event
    BY <2>1, ReceiveRefines, VerdictRefines, ClockRefines, WalkoverRefines, LobbyStutters, Zenon
    DEF Event
  <2>2. CASE Tick \/ UNCHANGED machineVars
    BY <2>2, LobbyStutters
  <2> QED
    BY <2>1, <2>2 DEF Next
<1> QED
  BY <1>1, <1>2, AlwaysSafe, PTL DEF Spec, KeepsThePromise, R!Spec
------------------------------------------------------------------------------
(* The running match.                                                       *)

\* A timer fires an event of the machine, or is refused.
LEMMA TimersDrive ==
  ASSUME NEW t \in Timer, TimerFires(t)
  PROVE  [Event /\ UNCHANGED now]_machineVars
<1>1. CASE AcceptTimeoutFires
  BY <1>1 DEF AcceptTimeoutFires, Event
<1>2. CASE CountdownFires
  BY <1>2 DEF CountdownFires, Event
<1>3. CASE ClockFires
  BY <1>3 DEF ClockFires, Event
<1>4. CASE t \in Side /\ GraceFires(t)
  BY <1>4 DEF GraceFires, Event
<1>5. CASE TimerRefused(t)
  BY <1>5 DEF TimerRefused
<1> QED
  BY <1>1, <1>2, <1>3, <1>4, <1>5 DEF TimerFires

\* A report is a verdict the machine takes, or one that comes too late for it.
LEMMA ReportsDrive ==
  ASSUME NEW sub \in Submission, NEW verdict \in Verdicts, Report(sub, verdict)
  PROVE  [Event /\ UNCHANGED now]_machineVars
<1>1. CASE Verdict(sub, verdict)
  BY <1>1 DEF Report, Event
<1>2. CASE UNCHANGED context
  BY <1>2 DEF Report, context, machineVars
<1> QED
  BY <1>1, <1>2 DEF Report

\* A job reports, or does something the machine does not see.
LEMMA JobsDrive ==
  ASSUME NEW sub \in Submission, Job(sub)
  PROVE  [Event /\ UNCHANGED now]_machineVars
<1>1. CASE CreateSubmission(sub)
  BY <1>1 DEF CreateSubmission
<1>2. CASE CreateFails(sub)
  BY <1>2, ReportsDrive DEF CreateFails, Verdicts
<1>3. ASSUME NEW verdict \in Verdicts, Judged(sub, verdict)
      PROVE  [Event /\ UNCHANGED now]_machineVars
  BY <1>3, ReportsDrive DEF Judged
<1> QED
  BY <1>1, <1>2, <1>3 DEF Job

\* What runs after a flush, an INSERT or a close leaves the machine alone, except
\* that open() goes on to its second event.
LEMMA ContinuationsDrive ==
  ASSUME FlushDone \/ (\E caller \in Callers : InsertDone(caller) \/ CloseDone(caller))
  PROVE  [Event /\ UNCHANGED now]_machineVars
<1>1. CASE OpenAcceptWindow
  BY <1>1 DEF OpenAcceptWindow, Event
<1>2. ASSUME NEW caller \in Callers,
             \/ EnterAccepting(caller) \/ EnterCountdown(caller) \/ EnterLive(caller)
             \/ EnterOver(caller) \/ EnterNothing(caller)
             \/ InsertDone(caller) \/ CloseDone(caller)
      PROVE  UNCHANGED machineVars
  BY <1>2 DEF EnterAccepting, EnterCountdown, EnterLive, EnterOver, EnterNothing, InsertDone,
              CloseDone
<1> QED
  BY <1>1, <1>2 DEF FlushDone

\* Every step of the running match is a step of the machine, or none.
LEMMA LiveStepDrives == [LiveNext]_vars => [Next]_machineVars
<1> SUFFICES ASSUME [LiveNext]_vars PROVE [Event /\ UNCHANGED now]_machineVars \/ Tick
  BY DEF Next
<1>1. CASE Open
  BY <1>1 DEF Open, Event
<1>2. ASSUME NEW s \in Side, Player(s) PROVE Event /\ UNCHANGED now
  BY <1>2 DEF Player, Accept, SubmitWhileLive, SubmitWhileJudging, Disconnect, Reconnect, Event
<1>3. CASE FlushDone
  BY <1>3, ContinuationsDrive
<1>4. CASE \E caller \in Callers : InsertDone(caller) \/ CloseDone(caller)
  BY <1>4, ContinuationsDrive
<1>5. CASE Settle
  BY <1>5 DEF Settle
<1>6. ASSUME NEW t \in Timer, Elapse(t) PROVE UNCHANGED machineVars
  BY <1>6 DEF Elapse
<1>7. ASSUME NEW t \in Timer, TimerFires(t) PROVE [Event /\ UNCHANGED now]_machineVars
  BY <1>7, TimersDrive
<1>8. ASSUME NEW sub \in Submission, Job(sub) PROVE [Event /\ UNCHANGED now]_machineVars
  BY <1>8, JobsDrive
<1>9. CASE LiveTick
  BY <1>9 DEF LiveTick
<1>10. CASE UNCHANGED vars
  BY <1>10 DEF vars
<1> QED
  BY <1>1, <1>2, <1>3, <1>4, <1>5, <1>6, <1>7, <1>8, <1>9, <1>10 DEF LiveNext

\* The running match is a run of the machine: apply() is the one place where the
\* context changes, and what it changes is a transition (live-match.ts:182-190).
THEOREM RunsTheMachine == LiveSpec => Spec
<1>1. LiveInit => Init
  BY DEF LiveInit
<1> QED
  BY <1>1, LiveStepDrives, PTL DEF LiveSpec, Spec
------------------------------------------------------------------------------
\* The inductive invariant of the grace timers.  A grace timer the machine refuses
\* would forget an absence; so what AbsenceIsTimed needs is that none is due where
\* GRACE_EXPIRED is not legal: not before the match is found, and after its end
\* AbsenceIsTimed asks nothing, the end being final.
PresenceInv ==
  /\ TypeOK
  /\ timers \in [Timer -> {"off", "armed", "due"}]
  /\ state = "QUEUED" => \A s \in Side : timers[s] = "off"
  /\ AbsenceIsTimed

\* The sides and the other timers are different timers.
LEMMA TimerNames ==
  /\ Side \subseteq Timer
  /\ {"accept", "countdown", "clock"} \subseteq Timer \ Side
BY DEF Timer, Side

\* A step that changes neither presence nor a grace timer, and opens no match at
\* rest, keeps the invariant.
LEMMA Undisturbed ==
  ASSUME PresenceInv, TypeOK',
         timers' \in [Timer -> {"off", "armed", "due"}],
         connected' = connected,
         \A s \in Side : timers'[s] = timers[s],
         state' = state \/ (~isTerminal /\ state' # "QUEUED")
  PROVE  PresenceInv'
BY DEF PresenceInv, AbsenceIsTimed, isTerminal

\* Setting a timer sets that timer only.
LEMMA Switched ==
  ASSUME timers \in [Timer -> {"off", "armed", "due"}],
         NEW t \in Timer, NEW to \in {"off", "armed", "due"}, Switch(t, to)
  PROVE  /\ timers' \in [Timer -> {"off", "armed", "due"}]
         /\ timers'[t] = to
         /\ \A u \in Timer \ {t} : timers'[u] = timers[u]
BY DEF Switch

\* An accept or a submission comes from a match in play and keeps it off QUEUED.
LEMMA PlayerKeepsPresence ==
  ASSUME PresenceInv, TypeOK', NEW s \in Side, Player(s)
  PROVE  PresenceInv'
<1> USE TimerNames
<1>1. CASE Accept(s)
  <2>1. ~isTerminal /\ state' # "QUEUED"
    BY <1>1 DEF Accept, PlayerAccepted, LegalIn, isTerminal
  <2> QED
    BY <1>1, <2>1, Undisturbed DEF Accept, PlayerAccepted, PresenceInv
<1>2. CASE SubmitWhileLive(s) \/ SubmitWhileJudging(s)
  <2>1. /\ ~isTerminal /\ state' # "QUEUED"
        /\ UNCHANGED <<connected, timers>>
    BY <1>2 DEF SubmitWhileLive, SubmitWhileJudging, SubmissionReceived, LegalIn, isTerminal
  <2> QED
    BY <2>1, Undisturbed DEF PresenceInv
<1>3. CASE Disconnect(s) \/ Reconnect(s)
  <2>1. PICK to \in {"off", "armed"} :
          /\ Switch(s, to)
          /\ connected' = [connected EXCEPT ![s] = (to = "off")]
    BY <1>3 DEF Disconnect, Reconnect, PlayerDisconnected, PlayerReconnected
  <2>2. ~isTerminal /\ state' = state /\ state # "QUEUED"
    BY <1>3 DEF Disconnect, Reconnect, PlayerDisconnected, PlayerReconnected, LegalIn, Playable
  <2>3. /\ timers' \in [Timer -> {"off", "armed", "due"}]
        /\ timers'[s] = to
        /\ \A u \in Timer \ {s} : timers'[u] = timers[u]
    BY <2>1, Switched DEF PresenceInv
  <2>4. \A u \in Side : connected'[u] <=> timers'[u] = "off"
    BY <2>1, <2>2, <2>3 DEF PresenceInv, AbsenceIsTimed, TypeOK
  <2> QED
    BY <2>2, <2>3, <2>4 DEF PresenceInv, AbsenceIsTimed
<1> QED
  BY <1>1, <1>2, <1>3 DEF Player

\* A grace timer that fires ends the match; one that comes too late finds it over.
LEMMA TimerKeepsPresence ==
  ASSUME PresenceInv, TypeOK', NEW t \in Timer, Elapse(t) \/ TimerFires(t)
  PROVE  PresenceInv'
<1> USE TimerNames
<1>1. CASE Elapse(t)
  <2>1. Switch(t, "due") /\ timers[t] = "armed" /\ UNCHANGED <<state, connected>>
    BY <1>1 DEF Elapse, machineVars
  <2>2. /\ timers' \in [Timer -> {"off", "armed", "due"}]
        /\ timers'[t] = "due"
        /\ \A u \in Timer \ {t} : timers'[u] = timers[u]
    BY <2>1, Switched DEF PresenceInv
  <2>3. \A u \in Side : timers'[u] = "off" <=> timers[u] = "off"
    BY <2>1, <2>2
  <2> QED
    BY <2>1, <2>2, <2>3 DEF PresenceInv, AbsenceIsTimed, isTerminal
<1>2. CASE AcceptTimeoutFires \/ CountdownFires \/ ClockFires
  <2>1. PICK u \in {"accept", "countdown", "clock"} : Switch(u, "off")
    BY <1>2 DEF AcceptTimeoutFires, CountdownFires, ClockFires
  <2>2. connected' = connected /\ ~isTerminal /\ state' # "QUEUED"
    BY <1>2 DEF AcceptTimeoutFires, CountdownFires, ClockFires, AcceptTimeout,
                CountdownComplete, ClockExpired, Resolve, LegalIn, isTerminal
  <2>3. /\ timers' \in [Timer -> {"off", "armed", "due"}]
        /\ \A s \in Side : timers'[s] = timers[s]
    BY <2>1, Switched DEF PresenceInv
  <2> QED
    BY <2>2, <2>3, Undisturbed
<1>3. CASE t \in Side /\ GraceFires(t)
  <2>1. Switch(t, "off") /\ state' \in {"ENDED", "ABANDONED"}
    BY <1>3 DEF GraceFires, GraceExpired
  <2>2. timers' \in [Timer -> {"off", "armed", "due"}]
    BY <2>1, Switched DEF PresenceInv
  <2> QED
    BY <2>1, <2>2 DEF PresenceInv, AbsenceIsTimed, isTerminal
<1>4. CASE TimerRefused(t)
  <2>1. Switch(t, "off") /\ timers[t] = "due" /\ UNCHANGED <<state, connected>>
    BY <1>4 DEF TimerRefused, machineVars
  <2>2. /\ timers' \in [Timer -> {"off", "armed", "due"}]
        /\ \A u \in Timer \ {t} : timers'[u] = timers[u]
    BY <2>1, Switched DEF PresenceInv
  <2>3. CASE t \in Side
    <3>1. state \notin Playable
      BY <1>4, <2>3 DEF TimerRefused, EventOf, LegalIn, Side
    <3>2. isTerminal
      BY <2>1, <2>3, <3>1 DEF PresenceInv, TypeOK, MatchState, Playable, isTerminal
    <3> QED
      BY <2>1, <2>2, <3>2 DEF PresenceInv, AbsenceIsTimed, isTerminal
  <2>4. CASE t \notin Side
    BY <2>1, <2>2, <2>4, Undisturbed
  <2> QED
    BY <2>3, <2>4
<1> QED
  BY <1>1, <1>2, <1>3, <1>4 DEF TimerFires

\* onEnter arms no grace timer, and clears them in a match that is over.
LEMMA FlushKeepsPresence ==
  ASSUME PresenceInv, TypeOK', FlushDone
  PROVE  PresenceInv'
<1> USE TimerNames
<1>1. CASE OpenAcceptWindow
  <2>1. ~isTerminal /\ state' # "QUEUED" /\ UNCHANGED <<connected, timers>>
    BY <1>1 DEF OpenAcceptWindow, AcceptWindowOpen, LegalIn, isTerminal
  <2> QED
    BY <2>1, Undisturbed DEF PresenceInv
<1>2. ASSUME NEW caller \in Callers, EnterAccepting(caller) \/ EnterCountdown(caller)
      PROVE  PresenceInv'
  <2>1. PICK u \in {"accept", "countdown"} : Switch(u, "armed")
    BY <1>2 DEF EnterAccepting, EnterCountdown
  <2>2. UNCHANGED <<state, connected>>
    BY <1>2 DEF EnterAccepting, EnterCountdown, machineVars
  <2>3. /\ timers' \in [Timer -> {"off", "armed", "due"}]
        /\ \A s \in Side : timers'[s] = timers[s]
    BY <2>1, Switched DEF PresenceInv
  <2> QED
    BY <2>2, <2>3, Undisturbed
<1>3. ASSUME NEW caller \in Callers, EnterLive(caller) \/ EnterNothing(caller)
      PROVE  PresenceInv'
  BY <1>3, Undisturbed DEF EnterLive, EnterNothing, machineVars, PresenceInv
<1>4. ASSUME NEW caller \in Callers, EnterOver(caller)
      PROVE  PresenceInv'
  <2>1. isTerminal /\ state' = state
    BY <1>4 DEF EnterOver, machineVars
  <2>2. timers' \in [Timer -> {"off", "armed", "due"}]
    BY <1>4 DEF EnterOver, PresenceInv
  <2> QED
    BY <2>1, <2>2 DEF PresenceInv, AbsenceIsTimed, isTerminal
<1> QED
  BY <1>1, <1>2, <1>3, <1>4 DEF FlushDone

\* A job and its verdict do not touch presence or timers.
LEMMA JobKeepsPresence ==
  ASSUME PresenceInv, TypeOK', NEW sub \in Submission, Job(sub)
  PROVE  PresenceInv'
<1>1. CASE CreateSubmission(sub)
  BY <1>1, Undisturbed DEF CreateSubmission, machineVars, PresenceInv
<1>2. ASSUME NEW verdict, Report(sub, verdict)
      PROVE  PresenceInv'
  <2>1. UNCHANGED <<connected, timers>>
    BY <1>2 DEF Report, Verdict, context
  <2>2. state' = state \/ (~isTerminal /\ state' # "QUEUED")
    BY <1>2 DEF Report, Verdict, Resolve, LegalIn, isTerminal, context
  <2> QED
    BY <2>1, <2>2, Undisturbed DEF PresenceInv
<1> QED
  BY <1>1, <1>2 DEF Job, CreateFails, Judged

\* Every step keeps the invariant of the grace timers.
LEMMA LiveStepKeepsPresence ==
  ASSUME PresenceInv, TypeOK', [LiveNext]_vars
  PROVE  PresenceInv'
<1> USE TimerNames
<1>1. CASE Open
  <2>1. ~isTerminal /\ state' # "QUEUED" /\ UNCHANGED <<connected, timers>>
    BY <1>1 DEF Open, MatchFound, LegalIn, isTerminal
  <2> QED
    BY <2>1, Undisturbed DEF PresenceInv
<1>2. ASSUME NEW caller \in Callers, InsertDone(caller)
      PROVE  PresenceInv'
  <2>1. Switch("clock", "armed") /\ UNCHANGED <<state, connected>>
    BY <1>2 DEF InsertDone, machineVars
  <2>2. /\ timers' \in [Timer -> {"off", "armed", "due"}]
        /\ \A s \in Side : timers'[s] = timers[s]
    BY <2>1, Switched DEF PresenceInv
  <2> QED
    BY <2>1, <2>2, Undisturbed
<1>3. ASSUME (\E caller \in Callers : CloseDone(caller)) \/ Settle \/ LiveTick \/ UNCHANGED vars
      PROVE  PresenceInv'
  <2>1. UNCHANGED <<state, connected, timers>>
    BY <1>3 DEF CloseDone, Settle, LiveTick, Tick, context, vars, machineVars, liveVars
  <2> QED
    BY <2>1, Undisturbed DEF PresenceInv
<1> QED
  BY <1>1, <1>2, <1>3, PlayerKeepsPresence, TimerKeepsPresence, FlushKeepsPresence,
     JobKeepsPresence DEF LiveNext

\* Every field keeps its type in the running match too.
LEMMA LiveAlwaysTyped == LiveSpec => []TypeOK
BY RunsTheMachine, TypeCorrect, PTL

\* Always, in every running match: PresenceInv.
LEMMA AlwaysPresence == LiveSpec => []PresenceInv
<1>1. LiveInit /\ TypeOK => PresenceInv
  BY DEF LiveInit, Init, initialContext, PresenceInv, AbsenceIsTimed, Side, Timer
<1>2. PresenceInv /\ TypeOK' /\ [LiveNext]_vars => PresenceInv'
  BY LiveStepKeepsPresence
<1> QED
  BY <1>1, <1>2, LiveAlwaysTyped, PTL DEF LiveSpec

\* While the match is on, a player is away exactly while the player's grace timer
\* is pending, through any number of absences (live-match.ts:392-421).
THEOREM AbsencesAreTimed == LiveSpec => []AbsenceIsTimed
<1>1. PresenceInv => AbsenceIsTimed
  BY DEF PresenceInv
<1> QED
  BY <1>1, AlwaysPresence, PTL

\* Only a grace timer forfeits.
LEMMA OnlyGraceForfeits ==
  ASSUME [LiveNext]_vars, forfeited' # forfeited
  PROVE  \E s \in Side : GraceFires(s)
<1>1. ASSUME NEW s \in Side PROVE ~Player(s)
  BY DEF Player, Accept, SubmitWhileLive, SubmitWhileJudging, Disconnect, Reconnect,
         PlayerAccepted, SubmissionReceived, PlayerDisconnected, PlayerReconnected
<1>2. ~Open /\ ~Settle /\ ~LiveTick /\ ~UNCHANGED vars
  BY DEF Open, MatchFound, Settle, LiveTick, Tick, context, vars, machineVars
<1>3. ~FlushDone /\ \A caller \in Callers : ~InsertDone(caller) /\ ~CloseDone(caller)
  BY DEF FlushDone, OpenAcceptWindow, AcceptWindowOpen, EnterAccepting, EnterCountdown, EnterLive,
         EnterOver, EnterNothing, InsertDone, CloseDone, machineVars
<1>4. ASSUME NEW sub \in Submission PROVE ~Job(sub)
  BY DEF Job, CreateSubmission, CreateFails, Judged, Report, Verdict, context, machineVars
<1>5. ASSUME NEW t \in Timer, Elapse(t) \/ TimerFires(t)
      PROVE  t \in Side /\ GraceFires(t)
  BY <1>5 DEF Elapse, TimerFires, AcceptTimeoutFires, CountdownFires, ClockFires, TimerRefused,
              AcceptTimeout, CountdownComplete, ClockExpired, machineVars
<1> QED
  BY <1>1, <1>2, <1>3, <1>4, <1>5 DEF LiveNext

\* A grace timer ends a match only for a player who is away at that moment
\* (live-match.ts:412-421).
THEOREM ForfeitsAreAbsences == LiveSpec => ForfeitOnlyAfterAbsence
<1> DEFINE Fair == \A s \in Side : forfeited' = s /\ forfeited # s => ~connected[s]
<1>1. PresenceInv /\ [LiveNext]_vars => Fair
  <2> SUFFICES ASSUME PresenceInv, [LiveNext]_vars,
                      NEW s \in Side, forfeited' = s, forfeited # s
               PROVE  ~connected[s]
    OBVIOUS
  <2>1. PICK u \in Side : GraceFires(u)
    BY OnlyGraceForfeits
  <2>2. u = s /\ timers[s] = "due" /\ ~isTerminal
    BY <2>1 DEF GraceFires, GraceExpired, LegalIn, Playable, isTerminal
  <2> QED
    BY <2>2 DEF PresenceInv, AbsenceIsTimed
<1> QED
  BY <1>1, AlwaysPresence, PTL DEF LiveSpec, ForfeitOnlyAfterAbsence
------------------------------------------------------------------------------
(* The row, the clock, the jobs and the log.                               *)

\* Who still waits: for a flush, for the INSERT, or for the log to close.
Waiting == {flushes[i] : i \in DOMAIN flushes} \cup inserting \cup closing

\* LiveTypeOK, and the log is closing only in a match at rest.
ShapeInv == LiveTypeOK /\ (closing # {} => isTerminal)

\* Only the end of the countdown leads to the INSERT and the clock.  It finds no flush
\* under way, and until the clock runs the match cannot come back to LIVE, since
\* without a row no submission is judged: so onEnter meets LIVE once before the clock.
ClockInv ==
  /\ ClockStartsOnceAfterRow
  /\ inserting \subseteq {Caller("countdown")}
  /\ state \in {"QUEUED", "MATCHED", "ACCEPTING", "COUNTDOWN"} => ~clockRunning /\ inserting = {}
  /\ state \in {"QUEUED", "MATCHED", "ACCEPTING"} => timers["countdown"] = "off"
  /\ state = "COUNTDOWN" /\ timers["countdown"] = "due" => flushes = <<>>
  /\ state = "LIVE" /\ ~clockRunning =>
       \/ flushes = <<Caller("countdown")>> /\ inserting = {}
       \/ flushes = <<>> /\ inserting # {}
  /\ ~clockRunning => row = "none" /\ \A i \in DOMAIN wire : wire[i] # "start"
  /\ \A sub \in Submission : jobs[sub] = "judging" => row # "none"

\* A caller that will take the lock for a submission waits in one place, once.
JobInv ==
  /\ HoldHasAJob
  /\ \A sub \in Submission : CallerFor("submit", sub) \in Waiting => jobs[sub] = "registering"
  /\ \A i, j \in DOMAIN flushes :
       flushes[i] = flushes[j] /\ flushes[i].by = "submit" => i = j
  /\ \A i \in DOMAIN flushes : flushes[i].by = "submit" => flushes[i] \notin inserting \cup closing
  /\ \A caller \in inserting : caller.by # "submit"

\* What a job has behind it is in the log, as long as the log takes records.
LogInv ==
  /\ ReplayExplainsTheResult
  /\ ~logClosed =>
       \A sub \in Submission : jobs[sub] \in {"creating", "judging"} => Received(sub) \in journal

\* A list one entry longer.
LEMMA Appended ==
  ASSUME NEW S, NEW q \in Seq(S), NEW e \in S
  PROVE  /\ DOMAIN Append(q, e) = DOMAIN q \cup {Len(q) + 1}
         /\ Len(q) + 1 \notin DOMAIN q
         /\ \A i \in DOMAIN q : Append(q, e)[i] = q[i]
         /\ Append(q, e)[Len(q) + 1] = e
OBVIOUS

\* A queue whose head is gone.
LEMMA Shifted ==
  ASSUME NEW S, NEW q \in Seq(S), q # <<>>
  PROVE  /\ 1 \in DOMAIN q /\ Head(q) = q[1]
         /\ \A i \in DOMAIN Tail(q) : i \in Nat \ {0} /\ i + 1 \in DOMAIN q /\ Tail(q)[i] = q[i + 1]
OBVIOUS

\* The callers, told apart by what they came from.
LEMMA CallerNames ==
  /\ \A by \in {"open", "window", "accept", "countdown", "timer"} :
       Caller(by) \in Callers /\ Caller(by).by = by
  /\ \A by \in {"submit", "verdict"}, sub \in Submission :
       /\ CallerFor(by, sub) \in Callers
       /\ CallerFor(by, sub).by = by /\ CallerFor(by, sub).sub = sub
  /\ \A caller \in Callers :
       caller.by = "submit" => caller.sub \in Submission /\ caller = CallerFor("submit", caller.sub)
<1>1. \A by \in {"open", "window", "accept", "countdown", "timer"} :
        Caller(by) \in Callers /\ Caller(by).by = by
  BY DEF Callers, Caller
<1>2. \A by \in {"submit", "verdict"}, sub \in Submission :
        /\ CallerFor(by, sub) \in Callers
        /\ CallerFor(by, sub).by = by /\ CallerFor(by, sub).sub = sub
  BY DEF Callers, CallerFor
<1>3. ASSUME NEW caller \in Callers, caller.by = "submit"
      PROVE  caller.sub \in Submission /\ caller = CallerFor("submit", caller.sub)
  <2>1. \/ \E by \in {"open", "window", "accept", "countdown", "timer"} : caller = Caller(by)
        \/ \E by \in {"submit", "verdict"}, sub \in Submission : caller = CallerFor(by, sub)
    BY SMT DEF Callers, CallerFor, Caller
  <2> QED
    BY <1>1, <1>2, <1>3, <2>1
<1> QED
  BY <1>1, <1>2, <1>3

\* A submission that is received now has its stamp within the clock.
LEMMA StampedNow ==
  ASSUME TypeOK, NEW s \in Side
  PROVE  Stamped(s) \in Submission /\ Stamped(s).side = s
BY MaxMsAssumption DEF Stamped, Submission, TypeOK

\* The queue of callers at the log's flush grows at its end ...
LEMMA Queued ==
  ASSUME flushes \in Seq(Callers), NEW caller \in Callers, Checkpoint(caller)
  PROVE  flushes' \in Seq(Callers)
BY DEF Checkpoint

\* ... and shrinks at its head.
LEMMA Dequeued ==
  ASSUME flushes \in Seq(Callers), flushes # <<>>
  PROVE  Head(flushes) \in Callers /\ Tail(flushes) \in Seq(Callers)
OBVIOUS

\* Setting a timer keeps the timers what they are.
LEMMA SwitchTyped ==
  ASSUME timers \in [Timer -> {"off", "armed", "due"}],
         NEW t, NEW to \in {"off", "armed", "due"}, Switch(t, to)
  PROVE  timers' \in [Timer -> {"off", "armed", "due"}]
BY DEF Switch

\* What a job writes has its type.
JobTypes ==
  /\ journal \subseteq Fact
  /\ jobs \in [Submission -> Stage]
  /\ inFlight \in [Side -> BOOLEAN]

\* Taking the lock, recording and moving a job on keep their types.
LEMMA StartTyped ==
  ASSUME JobTypes, NEW sub \in Submission, StartJob(sub)
  PROVE  JobTypes'
<1>1. sub.side \in Side /\ Received(sub) \in Fact
  BY DEF Submission, Received, Fact
<1>2. journal' \subseteq Fact
  BY <1>1 DEF JobTypes, StartJob, Record
<1>3. jobs' \in [Submission -> Stage]
  BY DEF JobTypes, StartJob, Stage
<1>4. inFlight' \in [Side -> BOOLEAN]
  BY <1>1 DEF JobTypes, StartJob
<1> QED
  BY <1>2, <1>3, <1>4 DEF JobTypes

\* What is left of a caller once its apply() returns keeps their types too,
LEMMA ResumeTyped ==
  ASSUME JobTypes, NEW caller \in Callers, Resume(caller)
  PROVE  JobTypes'
BY StartTyped, CallerNames DEF Resume, JobTypes

\* ... and so does a report.
LEMMA ReportTyped ==
  ASSUME JobTypes, NEW sub \in Submission, NEW verdict, Report(sub, verdict)
  PROVE  JobTypes'
<1>1. sub.side \in Side /\ Heard(sub) \in Fact
  BY DEF Submission, Heard, Fact
<1>2. journal' \subseteq Fact
  BY <1>1 DEF JobTypes, Report, Record
<1>3. jobs' \in [Submission -> Stage]
  BY DEF JobTypes, Report, Stage
<1>4. inFlight' \in [Side -> BOOLEAN]
  BY <1>1 DEF JobTypes, Report
<1> QED
  BY <1>2, <1>3, <1>4 DEF JobTypes

\* While the match is on there is nothing to settle.
LEMMA InPlay ==
  ASSUME ShapeInv, ~isTerminal
  PROVE  row \in {"none", "LIVE"} /\ ~logClosed /\ settling = 0 /\ closing = {}
BY DEF ShapeInv, LiveTypeOK, TypeOK, NoOutcome

\* A handler or a timer moves the machine and queues for the flush.
LEMMA EventKeepsShape ==
  ASSUME ShapeInv, TypeOK', JobTypes', ~isTerminal,
         flushes' \in Seq(Callers),
         timers' \in [Timer -> {"off", "armed", "due"}],
         UNCHANGED <<inserting, closing, clockRunning, row, logClosed, settling, wire>>
  PROVE  ShapeInv'
BY InPlay DEF ShapeInv, LiveTypeOK, JobTypes

\* What runs after a wait leaves the machine alone, and files the row as it stands.
LEMMA ContinuationKeepsShape ==
  ASSUME ShapeInv, TypeOK', JobTypes', UNCHANGED <<state, outcome>>,
         flushes' \in Seq(Callers),
         inserting' \subseteq Callers, closing' \subseteq Callers,
         timers' \in [Timer -> {"off", "armed", "due"}],
         clockRunning' \in BOOLEAN, logClosed' \in BOOLEAN,
         settling' \in Nat, wire' \in Seq({"start", "end"}),
         logClosed' \/ settling' > 0 \/ closing' # {} => isTerminal,
         row' \in {row, "LIVE"} \/ (isTerminal /\ row' = settledState)
  PROVE  ShapeInv'
<1>1. isTerminal' = isTerminal
  BY DEF isTerminal
<1>2. isTerminal => outcome.kind \in {"WIN", "DRAW", "VOID", "CANCELED"}
  BY Outcomes DEF ShapeInv, LiveTypeOK, TypeOK, MatchOutcome
<1>3. /\ row' \in {"none", "LIVE", "FINISHED", "ABANDONED"}
      /\ row' = "FINISHED" => outcome'.kind \in {"WIN", "DRAW", "VOID"}
      /\ row' = "ABANDONED" => outcome'.kind = "CANCELED"
  BY <1>2 DEF settledState, ShapeInv, LiveTypeOK
<1> QED
  BY <1>1, <1>3 DEF ShapeInv, LiveTypeOK, JobTypes

\* What a player does in a match that is on settles nothing.
LEMMA PlayerKeepsShape ==
  ASSUME ShapeInv, TypeOK', NEW s \in Side, Player(s)
  PROVE  ShapeInv'
<1> USE CallerNames, StampedNow
<1>1. ~isTerminal /\ JobTypes /\ TypeOK
  BY DEF Player, Accept, SubmitWhileLive, SubmitWhileJudging, Disconnect, Reconnect,
         PlayerAccepted, LegalIn, isTerminal, ShapeInv, LiveTypeOK, JobTypes
<1>2. CASE Accept(s)
  <2>1. flushes' \in Seq(Callers) /\ JobTypes'
    BY <1>1, <1>2, Queued DEF Accept, ShapeInv, LiveTypeOK, JobTypes
  <2> QED
    BY <1>1, <1>2, <2>1, EventKeepsShape DEF Accept, ShapeInv, LiveTypeOK
<1>3. CASE SubmitWhileLive(s)
  <2>1. flushes' \in Seq(Callers)
    BY <1>1, <1>3, Queued DEF SubmitWhileLive, ShapeInv, LiveTypeOK
  <2>2. JobTypes'
    BY <1>1, <1>3 DEF SubmitWhileLive, JobTypes, Stage
  <2> QED
    BY <1>1, <1>3, <2>1, <2>2, EventKeepsShape DEF SubmitWhileLive, ShapeInv, LiveTypeOK
<1>4. CASE SubmitWhileJudging(s)
  <2>1. JobTypes'
    BY <1>1, <1>4, StartTyped DEF SubmitWhileJudging
  <2> QED
    BY <1>1, <1>4, <2>1, EventKeepsShape DEF SubmitWhileJudging, ShapeInv, LiveTypeOK
<1>5. CASE Disconnect(s) \/ Reconnect(s)
  <2>1. timers' \in [Timer -> {"off", "armed", "due"}]
    BY <1>5, SwitchTyped DEF Disconnect, Reconnect, ShapeInv, LiveTypeOK
  <2>2. JobTypes'
    BY <1>1, <1>5 DEF Disconnect, Reconnect, JobTypes
  <2> QED
    BY <1>1, <1>5, <2>1, <2>2, EventKeepsShape DEF Disconnect, Reconnect, ShapeInv, LiveTypeOK
<1> QED
  BY <1>2, <1>3, <1>4, <1>5 DEF Player

\* A timer settles nothing either: one that fires finds the match on.
LEMMA TimerKeepsShape ==
  ASSUME ShapeInv, TypeOK', NEW t \in Timer, Elapse(t) \/ TimerFires(t)
  PROVE  ShapeInv'
<1> USE CallerNames
<1>1. /\ timers' \in [Timer -> {"off", "armed", "due"}]
      /\ UNCHANGED <<inserting, closing, clockRunning, jobs, inFlight, row, journal, logClosed,
                     settling, wire>>
  BY SwitchTyped DEF Elapse, TimerFires, AcceptTimeoutFires, CountdownFires, ClockFires, GraceFires,
         TimerRefused, ShapeInv, LiveTypeOK
<1>2. JobTypes'
  BY <1>1 DEF ShapeInv, LiveTypeOK, JobTypes
<1>3. CASE Elapse(t) \/ TimerRefused(t)
  BY <1>1, <1>2, <1>3, ContinuationKeepsShape
  DEF Elapse, TimerRefused, machineVars, ShapeInv, LiveTypeOK
<1>4. CASE AcceptTimeoutFires \/ CountdownFires \/ ClockFires \/ GraceFires(t)
  <2>1. ~isTerminal
    BY <1>4 DEF AcceptTimeoutFires, CountdownFires, ClockFires, GraceFires, AcceptTimeout,
                CountdownComplete, ClockExpired, GraceExpired, LegalIn, Playable, isTerminal
  <2>2. flushes' \in Seq(Callers)
    BY <1>4, Queued DEF AcceptTimeoutFires, CountdownFires, ClockFires, GraceFires, ShapeInv,
                        LiveTypeOK
  <2> QED
    BY <1>1, <1>2, <2>1, <2>2, EventKeepsShape
<1> QED
  BY <1>3, <1>4 DEF TimerFires

\* onEnter closes the log in a match at rest only.
LEMMA FlushKeepsShape ==
  ASSUME ShapeInv, TypeOK', FlushDone
  PROVE  ShapeInv'
<1> USE CallerNames
<1>1. /\ flushes # <<>> /\ flushes \in Seq(Callers)
      /\ Head(flushes) \in Callers /\ Tail(flushes) \in Seq(Callers) /\ JobTypes
  BY Dequeued DEF FlushDone, OpenAcceptWindow, EnterAccepting, EnterCountdown, EnterLive, EnterOver,
         EnterNothing, Flushed, ShapeInv, LiveTypeOK, JobTypes
<1>2. CASE OpenAcceptWindow
  <2>1. ~isTerminal
    BY <1>2 DEF OpenAcceptWindow, AcceptWindowOpen, LegalIn, isTerminal
  <2>2. flushes' \in Seq(Callers)
    BY <1>1, <1>2 DEF OpenAcceptWindow
  <2>3. JobTypes'
    BY <1>1, <1>2 DEF OpenAcceptWindow, JobTypes
  <2> QED
    BY <1>2, <2>1, <2>2, <2>3, EventKeepsShape DEF OpenAcceptWindow, ShapeInv, LiveTypeOK
<1>3. ASSUME NEW caller \in Callers, EnterAccepting(caller) \/ EnterCountdown(caller)
      PROVE  ShapeInv'
  <2>1. flushes' \in Seq(Callers) /\ timers' \in [Timer -> {"off", "armed", "due"}]
    BY <1>1, <1>3, SwitchTyped DEF EnterAccepting, EnterCountdown, ShapeInv, LiveTypeOK
  <2>2. JobTypes'
    BY <1>1, <1>3, ResumeTyped DEF EnterAccepting, EnterCountdown
  <2> QED
    BY <1>3, <2>1, <2>2, ContinuationKeepsShape
    DEF EnterAccepting, EnterCountdown, machineVars, ShapeInv, LiveTypeOK
<1>4. ASSUME NEW caller \in Callers, EnterNothing(caller)
      PROVE  ShapeInv'
  <2>1. JobTypes'
    BY <1>1, <1>4, ResumeTyped DEF EnterNothing
  <2> QED
    BY <1>1, <1>4, <2>1, ContinuationKeepsShape DEF EnterNothing, machineVars, ShapeInv, LiveTypeOK
<1>5. ASSUME NEW caller \in Callers, EnterLive(caller)
      PROVE  ShapeInv'
  <2>1. JobTypes' /\ inserting' \subseteq Callers
    BY <1>1, <1>5 DEF EnterLive, JobTypes, ShapeInv, LiveTypeOK
  <2> QED
    BY <1>1, <1>5, <2>1, ContinuationKeepsShape DEF EnterLive, machineVars, ShapeInv, LiveTypeOK
<1>6. ASSUME NEW caller \in Callers, EnterOver(caller)
      PROVE  ShapeInv'
  <2>1. JobTypes' /\ closing' \subseteq Callers /\ isTerminal
    BY <1>1, <1>6 DEF EnterOver, JobTypes, ShapeInv, LiveTypeOK
  <2>2. timers' \in [Timer -> {"off", "armed", "due"}]
    BY <1>6 DEF EnterOver, ShapeInv, LiveTypeOK
  <2> QED
    BY <1>1, <1>6, <2>1, <2>2, ContinuationKeepsShape
    DEF EnterOver, machineVars, ShapeInv, LiveTypeOK
<1> QED
  BY <1>2, <1>3, <1>4, <1>5, <1>6 DEF FlushDone

\* The settlement follows the closed log, and files the row as the match ended.
LEMMA AnswerKeepsShape ==
  ASSUME ShapeInv, TypeOK',
         (\E caller \in Callers : InsertDone(caller) \/ CloseDone(caller)) \/ Settle
  PROVE  ShapeInv'
<1> USE CallerNames
<1>1. JobTypes
  BY DEF ShapeInv, LiveTypeOK, JobTypes
<1>2. ASSUME NEW caller \in Callers, InsertDone(caller)
      PROVE  ShapeInv'
  <2>1. JobTypes'
    BY <1>1, <1>2, ResumeTyped DEF InsertDone
  <2>2. timers' \in [Timer -> {"off", "armed", "due"}]
    BY <1>2, SwitchTyped DEF InsertDone, ShapeInv, LiveTypeOK
  <2>3. wire' \in Seq({"start", "end"}) /\ inserting' \subseteq Callers /\ row' \in {row, "LIVE"}
    BY <1>2 DEF InsertDone, ShapeInv, LiveTypeOK
  <2> QED
    BY <1>2, <2>1, <2>2, <2>3, ContinuationKeepsShape
    DEF InsertDone, machineVars, ShapeInv, LiveTypeOK
<1>3. ASSUME NEW caller \in Callers, CloseDone(caller)
      PROVE  ShapeInv'
  <2>1. JobTypes'
    BY <1>1, <1>3, ResumeTyped DEF CloseDone
  <2>2. isTerminal /\ settling' \in Nat /\ closing' \subseteq Callers
    BY <1>3 DEF CloseDone, ShapeInv, LiveTypeOK
  <2> QED
    BY <1>3, <2>1, <2>2, ContinuationKeepsShape DEF CloseDone, machineVars, ShapeInv, LiveTypeOK
<1>4. CASE Settle
  <2>1. isTerminal /\ settling' \in Nat /\ wire' \in Seq({"start", "end"})
    BY <1>4 DEF Settle, ShapeInv, LiveTypeOK
  <2>2. JobTypes'
    BY <1>1, <1>4 DEF Settle, JobTypes
  <2>3. row' = row \/ row' = settledState
    BY <1>4 DEF Settle
  <2> QED
    BY <1>4, <2>1, <2>2, <2>3, ContinuationKeepsShape DEF Settle, machineVars, ShapeInv, LiveTypeOK
<1> QED
  BY <1>2, <1>3, <1>4

\* A verdict may end the match; the log is closed later.
LEMMA JobKeepsShape ==
  ASSUME ShapeInv, TypeOK', NEW sub \in Submission, Job(sub)
  PROVE  ShapeInv'
<1> USE CallerNames
<1>1. JobTypes
  BY DEF ShapeInv, LiveTypeOK, JobTypes
<1>2. CASE CreateSubmission(sub)
  <2>1. JobTypes'
    BY <1>1, <1>2 DEF CreateSubmission, JobTypes, Stage
  <2> QED
    BY <1>2, <2>1, ContinuationKeepsShape DEF CreateSubmission, machineVars, ShapeInv, LiveTypeOK
<1>3. ASSUME NEW verdict, Report(sub, verdict)
      PROVE  ShapeInv'
  <2>1. JobTypes'
    BY <1>1, <1>3, ReportTyped
  <2>2. CASE Verdict(sub, verdict) /\ Checkpoint(CallerFor("verdict", sub))
    <3>1. ~isTerminal
      BY <2>2 DEF Verdict, LegalIn, isTerminal
    <3>2. flushes' \in Seq(Callers)
      BY <2>2, Queued DEF ShapeInv, LiveTypeOK
    <3> QED
      BY <1>3, <2>1, <3>1, <3>2, EventKeepsShape DEF Report, ShapeInv, LiveTypeOK
  <2>3. CASE UNCHANGED <<context, flushes>>
    BY <1>3, <2>1, <2>3, ContinuationKeepsShape DEF Report, context, ShapeInv, LiveTypeOK
  <2> QED
    BY <1>3, <2>2, <2>3 DEF Report
<1> QED
  BY <1>2, <1>3 DEF Job, CreateFails, Judged

\* Every step keeps the types and the order of the end.
LEMMA LiveStepKeepsShape ==
  ASSUME ShapeInv, TypeOK', [LiveNext]_vars
  PROVE  ShapeInv'
<1>1. CASE Open
  <2>1. ~isTerminal
    BY <1>1 DEF Open, MatchFound, LegalIn, isTerminal
  <2>2. flushes' \in Seq(Callers)
    BY <1>1, Queued, CallerNames DEF Open, ShapeInv, LiveTypeOK
  <2>3. JobTypes'
    BY <1>1 DEF Open, JobTypes, ShapeInv, LiveTypeOK
  <2> QED
    BY <1>1, <2>1, <2>2, <2>3, EventKeepsShape DEF Open, ShapeInv, LiveTypeOK
<1>2. CASE LiveTick \/ UNCHANGED vars
  <2>1. UNCHANGED <<context, liveVars>>
    BY <1>2 DEF LiveTick, Tick, vars, machineVars, context
  <2> QED
    BY <2>1 DEF context, liveVars, ShapeInv, LiveTypeOK, isTerminal
<1> QED
  BY <1>1, <1>2, PlayerKeepsShape, TimerKeepsShape, FlushKeepsShape, AnswerKeepsShape,
     JobKeepsShape DEF LiveNext
------------------------------------------------------------------------------
\* The states before LIVE.
Early == {"QUEUED", "MATCHED", "ACCEPTING", "COUNTDOWN"}

\* What a step has to respect that writes no row and starts no clock.
LEMMA ClockFrame ==
  ASSUME ClockInv, UNCHANGED <<inserting, clockRunning, row, wire>>,
         \A sub \in Submission : jobs'[sub] = "judging" => row # "none",
         state' \in Early => state \in Early,
         state' \in Early \ {"COUNTDOWN"} => timers'["countdown"] = "off",
         state' = "COUNTDOWN" /\ timers'["countdown"] = "due" => flushes' = <<>>,
         state' = "LIVE" /\ ~clockRunning =>
           \/ flushes' = <<Caller("countdown")>> /\ inserting = {}
           \/ flushes' = <<>> /\ inserting # {}
  PROVE  ClockInv'
BY DEF ClockInv, ClockStartsOnceAfterRow, Early

\* A step that leaves the machine and the countdown alone, and does not queue.
LEMMA ClockStutter ==
  ASSUME ClockInv, UNCHANGED <<inserting, clockRunning, row, wire, state, flushes>>,
         \A sub \in Submission : jobs'[sub] = "judging" => row # "none",
         timers'["countdown"] = timers["countdown"]
  PROVE  ClockInv'
BY ClockFrame DEF ClockInv, Early

\* An accept may open the countdown; a submission takes the match out of LIVE.
LEMMA PlayerKeepsClock ==
  ASSUME ShapeInv, ClockInv, NEW s \in Side, Player(s)
  PROVE  ClockInv'
<1>1. /\ UNCHANGED <<inserting, clockRunning, row, wire>>
      /\ timers'["countdown"] = timers["countdown"]
  BY TimerNames, Switched
  DEF Player, Accept, SubmitWhileLive, SubmitWhileJudging, Disconnect, Reconnect, ShapeInv,
      LiveTypeOK
<1>2. CASE Accept(s)
  <2>1. state = "ACCEPTING" /\ state' \in {"ACCEPTING", "COUNTDOWN"} /\ jobs' = jobs
    BY <1>2 DEF Accept, PlayerAccepted, LegalIn
  <2> QED
    BY <1>1, <2>1, ClockFrame DEF ClockInv, Early
<1>3. CASE SubmitWhileLive(s) \/ SubmitWhileJudging(s)
  <2>1. state' = "JUDGING"
    BY <1>3 DEF SubmitWhileLive, SubmitWhileJudging, SubmissionReceived
  <2>2. \A sub \in Submission : jobs'[sub] = "judging" => jobs[sub] = "judging"
    BY <1>3 DEF SubmitWhileLive, SubmitWhileJudging, StartJob, ShapeInv, LiveTypeOK
  <2> QED
    BY <1>1, <2>1, <2>2, ClockFrame DEF ClockInv, Early
<1>4. CASE Disconnect(s) \/ Reconnect(s)
  <2>1. UNCHANGED <<state, flushes, jobs>>
    BY <1>4 DEF Disconnect, Reconnect, PlayerDisconnected, PlayerReconnected
  <2> QED
    BY <1>1, <2>1, ClockStutter DEF ClockInv
<1> QED
  BY <1>2, <1>3, <1>4 DEF Player

\* The countdown finds nobody waiting for a flush, and leaves one caller there.
LEMMA TimerKeepsClock ==
  ASSUME ShapeInv, ClockInv, SafetyInv, NEW t \in Timer, Elapse(t) \/ TimerFires(t)
  PROVE  ClockInv'
<1>1. /\ UNCHANGED <<inserting, clockRunning, row, wire, jobs>>
      /\ timers \in [Timer -> {"off", "armed", "due"}]
  BY DEF Elapse, TimerFires, AcceptTimeoutFires, CountdownFires, ClockFires, GraceFires,
         TimerRefused, ShapeInv, LiveTypeOK
<1>2. CASE Elapse(t)
  <2>1. /\ UNCHANGED <<state, flushes>> /\ flushes = <<>>
        /\ timers["countdown"] = "off" => timers'["countdown"] = "off"
    BY <1>1, <1>2, TimerNames DEF Elapse, machineVars, Switch
  <2> QED
    BY <1>1, <2>1, ClockFrame DEF ClockInv, Early
<1>3. CASE AcceptTimeoutFires \/ GraceFires(t) \/ ClockFires
  <2>1. state' \in {"JUDGING", "ENDED", "ABANDONED"}
    BY <1>3 DEF AcceptTimeoutFires, GraceFires, ClockFires, AcceptTimeout, GraceExpired,
                ClockExpired, LegalIn, Resolve, SafetyInv, HoldIsExact, isTerminal
  <2> QED
    BY <1>1, <2>1, ClockFrame DEF ClockInv, Early
<1>4. CASE CountdownFires
  <2>1. state = "COUNTDOWN" /\ state' = "LIVE" /\ timers["countdown"] = "due"
    BY <1>4 DEF CountdownFires, CountdownComplete, LegalIn
  <2>2. flushes = <<>> /\ inserting = {} /\ flushes' = Append(flushes, Caller("countdown"))
    BY <1>4, <2>1 DEF CountdownFires, Checkpoint, ClockInv
  <2>3. flushes' = <<Caller("countdown")>>
    BY <2>2
  <2> QED
    BY <1>1, <2>1, <2>2, <2>3, ClockFrame DEF ClockInv, Early
<1>5. CASE TimerRefused(t)
  <2>1. /\ UNCHANGED <<state, flushes>>
        /\ timers'["countdown"] \in {timers["countdown"], "off"}
    BY <1>1, <1>5, TimerNames DEF TimerRefused, machineVars, Switch
  <2> QED
    BY <1>1, <2>1, ClockFrame DEF ClockInv, Early
<1> QED
  BY <1>2, <1>3, <1>4, <1>5 DEF TimerFires

\* onEnter meets LIVE without a clock once, with the caller of the countdown.
LEMMA FlushKeepsClock ==
  ASSUME ShapeInv, ClockInv, FlushDone
  PROVE  ClockInv'
<1>1. /\ timers \in [Timer -> {"off", "armed", "due"}]
      /\ jobs \in [Submission -> Stage] /\ flushes \in Seq(Callers)
  BY DEF ShapeInv, LiveTypeOK
<1>2. CASE OpenAcceptWindow
  <2>1. /\ state = "MATCHED" /\ state' = "ACCEPTING"
        /\ UNCHANGED <<inserting, clockRunning, row, wire, jobs, timers>>
    BY <1>2 DEF OpenAcceptWindow, AcceptWindowOpen, LegalIn
  <2> QED
    BY <2>1, ClockFrame DEF ClockInv, Early
<1>3. ASSUME NEW caller, Resume(caller), jobs' # jobs
      PROVE  \A sub \in Submission : jobs'[sub] = "judging" => jobs[sub] = "judging"
  BY <1>1, <1>3 DEF Resume, StartJob
<1>4. ASSUME NEW caller \in Callers, EnterAccepting(caller)
      PROVE  ClockInv'
  <2>1. /\ state = "ACCEPTING" /\ state' = state
        /\ UNCHANGED <<inserting, clockRunning, row, wire>>
        /\ timers'["countdown"] = timers["countdown"]
    BY <1>1, <1>4, TimerNames, Switched DEF EnterAccepting, machineVars
  <2>2. \A sub \in Submission : jobs'[sub] = "judging" => jobs[sub] = "judging"
    BY <1>3, <1>4 DEF EnterAccepting
  <2> QED
    BY <2>1, <2>2, ClockFrame DEF ClockInv, Early
<1>5. ASSUME NEW caller \in Callers, EnterCountdown(caller)
      PROVE  ClockInv'
  <2>1. /\ state = "COUNTDOWN" /\ state' = state
        /\ UNCHANGED <<inserting, clockRunning, row, wire>>
        /\ timers'["countdown"] = "armed"
    BY <1>1, <1>5, TimerNames, Switched DEF EnterCountdown, machineVars
  <2>2. \A sub \in Submission : jobs'[sub] = "judging" => jobs[sub] = "judging"
    BY <1>3, <1>5 DEF EnterCountdown
  <2> QED
    BY <2>1, <2>2, ClockFrame DEF ClockInv, Early
<1>6. ASSUME NEW caller \in Callers, EnterLive(caller)
      PROVE  ClockInv'
  <2>1. /\ flushes = <<Caller("countdown")>> /\ inserting = {} /\ caller = Head(flushes)
        /\ state = "LIVE" /\ state' = state /\ ~clockRunning
        /\ flushes' = Tail(flushes) /\ inserting' = inserting \cup {caller}
        /\ UNCHANGED <<clockRunning, row, wire, jobs, timers>>
    BY <1>6 DEF EnterLive, Flushed, machineVars, ClockInv
  <2>2. flushes' = <<>> /\ inserting' = {Caller("countdown")}
    BY <2>1
  <2> QED
    BY <2>1, <2>2 DEF ClockInv, ClockStartsOnceAfterRow
<1>7. ASSUME NEW caller \in Callers, EnterOver(caller)
      PROVE  ClockInv'
  <2>1. /\ state' = state /\ state \in {"ENDED", "ABANDONED"}
        /\ UNCHANGED <<inserting, clockRunning, row, wire, jobs>>
    BY <1>7 DEF EnterOver, machineVars, isTerminal
  <2> QED
    BY <2>1, ClockFrame DEF ClockInv, Early
<1>8. ASSUME NEW caller \in Callers, EnterNothing(caller)
      PROVE  ClockInv'
  <2>1. /\ state' = state /\ (state = "JUDGING" \/ (state = "LIVE" /\ clockRunning))
        /\ UNCHANGED <<inserting, clockRunning, row, wire>>
    BY <1>8 DEF EnterNothing, machineVars
  <2>2. \A sub \in Submission : jobs'[sub] = "judging" => jobs[sub] = "judging"
    BY <1>3, <1>8 DEF EnterNothing
  <2> QED
    BY <2>1, <2>2, ClockFrame DEF ClockInv, Early
<1> QED
  BY <1>2, <1>4, <1>5, <1>6, <1>7, <1>8 DEF FlushDone

\* The INSERT that returns was the only one: the clock and match.start follow it.
LEMMA AnswerKeepsClock ==
  ASSUME ShapeInv, ClockInv,
         (\E caller \in Callers : InsertDone(caller) \/ CloseDone(caller)) \/ Settle
  PROVE  ClockInv'
<1>1. /\ wire \in Seq({"start", "end"}) /\ jobs \in [Submission -> Stage]
      /\ timers \in [Timer -> {"off", "armed", "due"}]
  BY DEF ShapeInv, LiveTypeOK
<1>2. ASSUME NEW caller, Resume(caller)
      PROVE  \A sub \in Submission : jobs'[sub] = "judging" => jobs[sub] = "judging"
  BY <1>1, <1>2 DEF Resume, StartJob
<1>3. ASSUME NEW caller \in Callers, InsertDone(caller)
      PROVE  ClockInv'
  <2>1. /\ inserting = {caller} /\ inserting' = {} /\ clockRunning'
        /\ ~clockRunning /\ state' = state /\ state \notin Early
    BY <1>3 DEF InsertDone, ClockInv, ClockStartsOnceAfterRow, machineVars, Early
  <2>2. \A i, j \in DOMAIN wire' : wire'[i] = "start" /\ wire'[j] = "start" => i = j
    BY <1>1, <1>3, <2>1, Appended DEF InsertDone, ClockInv
  <2>3. \A sub \in Submission : jobs'[sub] # "judging"
    BY <1>2, <1>3, <2>1 DEF InsertDone, ClockInv
  <2> QED
    BY <2>1, <2>2, <2>3 DEF ClockInv, ClockStartsOnceAfterRow, Early
<1>4. ASSUME NEW caller \in Callers, CloseDone(caller)
      PROVE  ClockInv'
  BY <1>2, <1>4, ClockStutter DEF CloseDone, machineVars, ClockInv
<1>5. CASE Settle
  <2>1. /\ UNCHANGED <<state, flushes, inserting, timers, clockRunning, jobs>>
        /\ row' = "none" <=> row = "none"
    BY <1>5 DEF Settle, settledState, machineVars
  <2>2. /\ \A i \in DOMAIN wire' : wire'[i] = "start" => i \in DOMAIN wire /\ wire[i] = "start"
    BY <1>1, <1>5, Appended DEF Settle
  <2> QED
    BY <2>1, <2>2 DEF ClockInv, ClockStartsOnceAfterRow
<1> QED
  BY <1>3, <1>4, <1>5

\* Only a submission that was judged brings the match back to LIVE, and it has a row.
LEMMA JobKeepsClock ==
  ASSUME ShapeInv, ClockInv, NEW sub \in Submission, Job(sub)
  PROVE  ClockInv'
<1>1. jobs \in [Submission -> Stage]
  BY DEF ShapeInv, LiveTypeOK
<1>2. CASE CreateSubmission(sub)
  <2>1. \A other \in Submission : jobs'[other] = "judging" => row # "none"
    BY <1>1, <1>2 DEF CreateSubmission, ClockInv
  <2> QED
    BY <1>2, <2>1, ClockStutter DEF CreateSubmission, machineVars
<1>3. ASSUME NEW verdict, Report(sub, verdict), verdict = "INTERNAL_ERROR" \/ clockRunning
      PROVE  ClockInv'
  <2>1. /\ UNCHANGED <<inserting, clockRunning, row, wire, timers>>
        /\ \A other \in Submission : jobs'[other] = "judging" => row # "none"
    BY <1>1, <1>3 DEF Report, ClockInv
  <2>2. CASE UNCHANGED <<context, flushes>>
    BY <2>1, <2>2, ClockStutter DEF context
  <2>3. CASE Verdict(sub, verdict)
    <3>1. state' \in {"JUDGING", "ENDED", "LIVE"} /\ (state' = "LIVE" => clockRunning)
      BY <1>3, <2>3 DEF Verdict, LegalIn, Resolve
    <3> QED
      BY <2>1, <3>1, ClockFrame DEF Early
  <2> QED
    BY <1>3, <2>2, <2>3 DEF Report
<1>4. CASE CreateFails(sub)
  BY <1>3, <1>4 DEF CreateFails
<1>5. ASSUME NEW verdict \in Verdicts, Judged(sub, verdict)
      PROVE  ClockInv'
  BY <1>3, <1>5 DEF Judged, ClockInv
<1> QED
  BY <1>2, <1>4, <1>5 DEF Job

\* Every step keeps the order of countdown, INSERT and clock.
LEMMA LiveStepKeepsClock ==
  ASSUME ShapeInv, ClockInv, SafetyInv, [LiveNext]_vars
  PROVE  ClockInv'
<1>1. CASE Open
  <2>1. /\ state = "QUEUED" /\ state' = "MATCHED"
        /\ UNCHANGED <<inserting, clockRunning, row, wire, jobs, timers>>
    BY <1>1 DEF Open, MatchFound, LegalIn
  <2> QED
    BY <2>1, ClockFrame DEF ClockInv, Early
<1>2. CASE LiveTick \/ UNCHANGED vars
  <2>1. UNCHANGED <<context, liveVars>>
    BY <1>2 DEF LiveTick, Tick, vars, machineVars, context
  <2> QED
    BY <2>1, ClockStutter DEF context, liveVars, ClockInv
<1> QED
  BY <1>1, <1>2, PlayerKeepsClock, TimerKeepsClock, FlushKeepsClock, AnswerKeepsClock,
     JobKeepsClock DEF LiveNext
------------------------------------------------------------------------------
\* Nobody new waits with a submission, and no job moves.
LEMMA JobFrame ==
  ASSUME ShapeInv, JobInv, UNCHANGED <<jobs, inserting, closing>>,
         isTerminal' \/ (~isTerminal /\ outstanding' = outstanding),
         NEW caller \in Callers, caller.by # "submit",
         flushes' = flushes \/ flushes' = Append(flushes, caller)
  PROVE  JobInv'
<1>1. /\ flushes \in Seq(Callers)
      /\ \A sub \in Submission : CallerFor("submit", sub) # caller
  BY CallerNames DEF ShapeInv, LiveTypeOK
<1>2. \A i \in DOMAIN flushes' :
        \/ i \in DOMAIN flushes /\ flushes'[i] = flushes[i]
        \/ flushes'[i] = caller
  BY <1>1, Appended
<1>3. HoldHasAJob'
  BY DEF JobInv, HoldHasAJob
<1>4. \A sub \in Submission :
        CallerFor("submit", sub) \in Waiting' => CallerFor("submit", sub) \in Waiting
  BY <1>1, <1>2 DEF Waiting
<1> QED
  BY <1>2, <1>3, <1>4 DEF JobInv

\* The same for an event of a player or a timer: it queues nobody with a submission.
LEMMA EventKeepsJobs ==
  ASSUME ShapeInv, JobInv, UNCHANGED <<jobs, inserting, closing, outstanding>>, ~isTerminal,
         NEW caller \in Callers, caller.by # "submit", Checkpoint(caller)
  PROVE  JobInv'
BY JobFrame DEF Checkpoint

\* A submission opens its job together with the hold of the machine.
LEMMA PlayerKeepsJobs ==
  ASSUME ShapeInv, SafetyInv, JobInv, NEW s \in Side, Player(s)
  PROVE  JobInv'
<1> USE CallerNames, StampedNow DEF SafetyInv
<1>1. flushes \in Seq(Callers) /\ jobs \in [Submission -> Stage] /\ ~isTerminal
  BY DEF ShapeInv, LiveTypeOK, Player, Accept, SubmitWhileLive, SubmitWhileJudging, Disconnect,
         Reconnect, PlayerAccepted, LegalIn, isTerminal
<1>2. CASE Accept(s)
  BY <1>1, <1>2, EventKeepsJobs DEF Accept, PlayerAccepted
<1>3. CASE SubmitWhileLive(s)
  <2> DEFINE caller == CallerFor("submit", Stamped(s))
  <2>1. /\ \A sub \in Submission : jobs[sub] \notin Running
        /\ \A sub \in Submission : CallerFor("submit", sub) \notin Waiting
    BY <1>1, <1>3 DEF SubmitWhileLive, HoldIsExact, JobInv, HoldHasAJob, Running
  <2>2. \A other \in Callers : other.by = "submit" => other \notin Waiting
    BY <2>1
  <2>3. /\ outstanding' = {Stamped(s)}
        /\ jobs' = [jobs EXCEPT ![Stamped(s)] = "registering"]
        /\ flushes' = Append(flushes, caller)
        /\ UNCHANGED <<inserting, closing>>
    BY <1>1, <1>3 DEF SubmitWhileLive, SubmissionReceived, Checkpoint, HoldIsExact
  <2>4. HoldHasAJob'
    BY <1>1, <2>1, <2>3 DEF HoldHasAJob, Running
  <2> HIDE DEF caller
  <2>5. caller \in Callers /\ caller = CallerFor("submit", Stamped(s))
    BY DEF caller
  <2>6. \A i \in DOMAIN flushes' :
          \/ i \in DOMAIN flushes /\ flushes'[i] = flushes[i] /\ flushes[i].by # "submit"
          \/ i = Len(flushes) + 1 /\ flushes'[i] = caller
    <3>1. \A i \in DOMAIN flushes : flushes[i] \in Callers /\ flushes[i] \in Waiting
      BY <1>1 DEF Waiting
    <3> QED
      BY <1>1, <2>2, <2>3, <2>5, <3>1, Appended
  <2>7. \A sub \in Submission : CallerFor("submit", sub) \in Waiting' => sub = Stamped(s)
    <3>1. ASSUME NEW sub \in Submission, CallerFor("submit", sub) \in Waiting'
          PROVE  CallerFor("submit", sub) = caller
      BY <2>1, <2>3, <2>6, <3>1 DEF Waiting
    <3> QED
      BY <2>5, <3>1
  <2>8. \A sub \in Submission : CallerFor("submit", sub) \in Waiting' => jobs'[sub] = "registering"
    BY <1>1, <2>3, <2>7
  <2>9. \A other \in inserting \cup closing : other.by # "submit"
    BY <2>2 DEF Waiting, ShapeInv, LiveTypeOK
  <2> QED
    BY <2>3, <2>4, <2>6, <2>8, <2>9 DEF JobInv
<1>4. CASE SubmitWhileJudging(s)
  <2>1. jobs[Stamped(s)] \notin Running /\ CallerFor("submit", Stamped(s)) \notin Waiting
    BY <1>1, <1>4 DEF SubmitWhileJudging, SubmissionReceived, JobInv, HoldHasAJob, Running
  <2>2. /\ outstanding' = outstanding \cup {Stamped(s)}
        /\ jobs' = [jobs EXCEPT ![Stamped(s)] = "creating"]
        /\ UNCHANGED <<flushes, inserting, closing>>
    BY <1>4 DEF SubmitWhileJudging, SubmissionReceived, StartJob
  <2>3. HoldHasAJob'
    BY <1>1, <2>2 DEF JobInv, HoldHasAJob, Running
  <2>4. Waiting' = Waiting
    BY <2>2 DEF Waiting
  <2> QED
    BY <1>1, <2>1, <2>2, <2>3, <2>4 DEF JobInv
<1>5. CASE Disconnect(s) \/ Reconnect(s)
  <2>1. UNCHANGED <<state, outstanding, flushes, jobs, inserting, closing>>
    BY <1>5 DEF Disconnect, Reconnect, PlayerDisconnected, PlayerReconnected
  <2> QED
    BY <1>1, <2>1, EventKeepsJobs DEF Checkpoint
<1> QED
  BY <1>2, <1>3, <1>4, <1>5 DEF Player

\* A timer may end the match, and then nothing is asked of its jobs.
LEMMA TimerKeepsJobs ==
  ASSUME ShapeInv, SafetyInv, JobInv, NEW t \in Timer, Elapse(t) \/ TimerFires(t)
  PROVE  JobInv'
<1> USE CallerNames
<1>1. CASE Elapse(t) \/ TimerRefused(t)
  <2>1. UNCHANGED <<state, outstanding, flushes, jobs, inserting, closing>>
    BY <1>1 DEF Elapse, TimerRefused, machineVars
  <2> QED
    BY <2>1, JobFrame DEF isTerminal
<1>2. CASE AcceptTimeoutFires \/ ClockFires \/ CountdownFires \/ GraceFires(t)
  <2>1. UNCHANGED <<outstanding, jobs, inserting, closing>> /\ ~isTerminal
    BY <1>2 DEF AcceptTimeoutFires, CountdownFires, ClockFires, GraceFires, AcceptTimeout,
                CountdownComplete, ClockExpired, GraceExpired, LegalIn, Playable, isTerminal
  <2>2. PICK by \in {"timer", "countdown"} : Checkpoint(Caller(by))
    BY <1>2 DEF AcceptTimeoutFires, CountdownFires, ClockFires, GraceFires
  <2> QED
    BY <2>1, <2>2, EventKeepsJobs
<1> QED
  BY <1>1, <1>2 DEF TimerFires

\* A caller leaves the queue and goes on, or goes on to wait for the log to close.
LEMMA HeadLeaves ==
  ASSUME ShapeInv, JobInv, NEW caller \in Callers, Flushed(caller), flushes' = Tail(flushes),
         UNCHANGED <<state, outstanding, inserting>>,
         \/ closing' = closing /\ Resume(caller)
         \/ closing' = closing \cup {caller} /\ jobs' = jobs
  PROVE  JobInv'
<1>1. flushes \in Seq(Callers) /\ jobs \in [Submission -> Stage] /\ flushes # <<>>
  BY DEF ShapeInv, LiveTypeOK, Flushed
<1>2. /\ 1 \in DOMAIN flushes /\ caller = flushes[1]
      /\ \A i \in DOMAIN flushes' :
           i \in Nat \ {0} /\ i + 1 \in DOMAIN flushes /\ flushes'[i] = flushes[i + 1]
  BY <1>1, Shifted DEF Flushed
<1>3. \A i \in DOMAIN flushes' : caller.by = "submit" => flushes'[i] # caller
  BY <1>2 DEF JobInv
<1>4. caller.by = "submit" => caller \notin inserting \cup closing
  BY <1>2 DEF JobInv
<1>5. /\ \A i, j \in DOMAIN flushes' :
           flushes'[i] = flushes'[j] /\ flushes'[i].by = "submit" => i = j
      /\ \A i \in DOMAIN flushes' :
           flushes'[i].by = "submit" => flushes'[i] \notin inserting' \cup closing'
      /\ \A other \in inserting' : other.by # "submit"
  BY <1>2, <1>3 DEF JobInv
<1>6. CASE \/ closing' = closing /\ Resume(caller) /\ caller.by # "submit"
           \/ closing' = closing \cup {caller} /\ jobs' = jobs
  <2>1. jobs' = jobs
    BY <1>6 DEF Resume
  <2>2. HoldHasAJob'
    BY <2>1 DEF JobInv, HoldHasAJob, isTerminal
  <2>3. Waiting' \subseteq Waiting \cup {caller} /\ caller \in Waiting
    BY <1>2 DEF Waiting
  <2> QED
    BY <1>5, <2>1, <2>2, <2>3 DEF JobInv
<1>7. CASE caller.by = "submit" /\ closing' = closing /\ Resume(caller)
  <2>1. /\ caller.sub \in Submission /\ caller = CallerFor("submit", caller.sub)
        /\ jobs' = [jobs EXCEPT ![caller.sub] = "creating"]
    BY <1>7, CallerNames DEF Resume, StartJob
  <2>2. caller \in Waiting /\ jobs[caller.sub] = "registering"
    BY <1>2, <2>1 DEF Waiting, JobInv
  <2>3. HoldHasAJob'
    BY <1>1, <2>1, <2>2 DEF JobInv, HoldHasAJob, isTerminal, Running
  <2>4. Waiting' \subseteq Waiting /\ caller \notin Waiting'
    BY <1>2, <1>3, <1>4, <1>7 DEF Waiting
  <2>5. \A sub \in Submission : CallerFor("submit", sub) \in Waiting' => jobs'[sub] = "registering"
    BY <1>1, <2>1, <2>4 DEF JobInv
  <2> QED
    BY <1>5, <2>3, <2>5 DEF JobInv
<1> QED
  BY <1>6, <1>7

\* After a flush a job that was only registered goes on, once.
LEMMA FlushKeepsJobs ==
  ASSUME ShapeInv, SafetyInv, ClockInv, JobInv, FlushDone
  PROVE  JobInv'
<1> USE CallerNames
<1>1. CASE OpenAcceptWindow
  <2>1. /\ flushes \in Seq(Callers) /\ flushes # <<>>
        /\ flushes' = Append(Tail(flushes), Caller("window"))
        /\ UNCHANGED <<outstanding, jobs, inserting, closing>> /\ ~isTerminal
    BY <1>1 DEF OpenAcceptWindow, AcceptWindowOpen, Flushed, LegalIn, isTerminal, ShapeInv,
                LiveTypeOK
  <2>2. \A i \in DOMAIN flushes' :
          \/ i \in Nat /\ i + 1 \in DOMAIN flushes /\ flushes'[i] = flushes[i + 1]
          \/ flushes'[i] = Caller("window")
    BY <2>1, Shifted, Appended, Dequeued
  <2>3. Waiting' \subseteq Waiting \cup {Caller("window")}
    BY <2>1, <2>2 DEF Waiting
  <2>4. \A sub \in Submission : CallerFor("submit", sub) \in Waiting' => jobs'[sub] = "registering"
    BY <2>1, <2>3 DEF JobInv
  <2> QED
    BY <2>1, <2>2, <2>4 DEF JobInv, HoldHasAJob
<1>2. ASSUME NEW caller \in Callers,
             \/ EnterAccepting(caller) \/ EnterCountdown(caller)
             \/ EnterOver(caller) \/ EnterNothing(caller)
      PROVE  JobInv'
  BY <1>2, HeadLeaves
  DEF EnterAccepting, EnterCountdown, EnterOver, EnterNothing, machineVars
<1>3. ASSUME NEW caller \in Callers, EnterLive(caller)
      PROVE  JobInv'
  <2>1. /\ flushes = <<Caller("countdown")>> /\ caller = Head(flushes)
        /\ flushes' = Tail(flushes) /\ inserting' = inserting \cup {caller}
        /\ UNCHANGED <<state, outstanding, jobs, closing>>
    BY <1>3 DEF EnterLive, Flushed, machineVars, ClockInv
  <2>2. flushes' = <<>> /\ caller = Caller("countdown")
    BY <2>1
  <2>3. Waiting' \subseteq Waiting \cup {caller}
    BY <2>1, <2>2 DEF Waiting
  <2>4. \A sub \in Submission : CallerFor("submit", sub) \in Waiting' => jobs'[sub] = "registering"
    BY <2>1, <2>2, <2>3 DEF JobInv
  <2> QED
    BY <2>1, <2>2, <2>4 DEF JobInv, HoldHasAJob, isTerminal
<1> QED
  BY <1>1, <1>2, <1>3 DEF FlushDone

\* Only a log that closed lets a submission go on from here, in a match at rest.
LEMMA AnswerKeepsJobs ==
  ASSUME ShapeInv, JobInv,
         (\E caller \in Callers : InsertDone(caller) \/ CloseDone(caller)) \/ Settle
  PROVE  JobInv'
<1> USE CallerNames
<1>1. jobs \in [Submission -> Stage] /\ flushes \in Seq(Callers)
  BY DEF ShapeInv, LiveTypeOK
<1>2. ASSUME NEW caller \in Callers, InsertDone(caller)
      PROVE  JobInv'
  <2>1. /\ UNCHANGED <<state, outstanding, jobs, flushes, closing>>
        /\ inserting' \subseteq inserting
    BY <1>2 DEF InsertDone, Resume, machineVars, JobInv
  <2>2. Waiting' \subseteq Waiting
    BY <2>1 DEF Waiting
  <2> QED
    BY <2>1, <2>2 DEF JobInv, HoldHasAJob, isTerminal
<1>3. ASSUME NEW caller \in Callers, CloseDone(caller)
      PROVE  JobInv'
  <2>1. /\ UNCHANGED <<state, outstanding, flushes, inserting>>
        /\ caller \in closing /\ closing' = closing \ {caller}
        /\ isTerminal
    BY <1>3 DEF CloseDone, machineVars, ShapeInv
  <2>2. HoldHasAJob'
    BY <2>1 DEF HoldHasAJob, isTerminal
  <2>3. Waiting' \subseteq Waiting
    BY <2>1 DEF Waiting
  <2>4. caller.by = "submit" => caller \notin Waiting'
    BY <2>1 DEF Waiting, JobInv
  <2>5. \A sub \in Submission : CallerFor("submit", sub) \in Waiting' => jobs'[sub] = "registering"
    BY <1>1, <1>3, <2>3, <2>4 DEF CloseDone, Resume, StartJob, JobInv
  <2> QED
    BY <2>1, <2>2, <2>5 DEF JobInv
<1>4. CASE Settle
  BY <1>4, JobFrame DEF Settle, machineVars, isTerminal
<1> QED
  BY <1>2, <1>3, <1>4

\* A report settles its job and its hold in one step, or finds the match at rest.
LEMMA JobKeepsJobs ==
  ASSUME ShapeInv, SafetyInv, JobInv, NEW sub \in Submission, Job(sub)
  PROVE  JobInv'
<1> USE CallerNames
<1>1. /\ jobs \in [Submission -> Stage] /\ flushes \in Seq(Callers)
      /\ jobs[sub] \in {"creating", "judging"} /\ CallerFor("submit", sub) \notin Waiting
  BY DEF ShapeInv, LiveTypeOK, Job, CreateSubmission, CreateFails, Judged, JobInv
<1>2. CASE CreateSubmission(sub)
  <2>1. /\ jobs' = [jobs EXCEPT ![sub] = "judging"]
        /\ UNCHANGED <<state, outstanding, flushes, inserting, closing>>
    BY <1>2 DEF CreateSubmission, machineVars
  <2>2. HoldHasAJob'
    BY <1>1, <2>1 DEF JobInv, HoldHasAJob, isTerminal, Running
  <2>3. Waiting' = Waiting
    BY <2>1 DEF Waiting
  <2> QED
    BY <1>1, <2>1, <2>2, <2>3 DEF JobInv
<1>3. ASSUME NEW verdict, Report(sub, verdict)
      PROVE  JobInv'
  <2> DEFINE caller == CallerFor("verdict", sub)
  <2>1. /\ jobs' = [jobs EXCEPT ![sub] = "done"]
        /\ UNCHANGED <<inserting, closing>>
    BY <1>3 DEF Report
  <2>2. ~isTerminal' => ~isTerminal /\ outstanding' = outstanding \ {sub}
    <3>1. CASE Verdict(sub, verdict)
      BY <3>1 DEF Verdict, LegalIn, isTerminal
    <3>2. CASE state \notin LegalIn.VERDICT /\ UNCHANGED context
      <4>1. ~isTerminal => sub \in outstanding
        BY <1>1 DEF JobInv, HoldHasAJob, Running
      <4>2. ~isTerminal => outstanding = {}
        BY <3>2 DEF SafetyInv, HoldIsExact, LegalIn
      <4> QED
        BY <3>2, <4>1, <4>2 DEF context, isTerminal
    <3> QED
      BY <1>3, <3>1, <3>2 DEF Report
  <2>3. HoldHasAJob'
    BY <1>1, <2>1, <2>2 DEF JobInv, HoldHasAJob, Running
  <2>4. flushes' = flushes \/ flushes' = Append(flushes, caller)
    BY <1>3 DEF Report, Checkpoint
  <2>5. caller \in Callers /\ caller.by = "verdict"
    OBVIOUS
  <2> HIDE DEF caller
  <2>6. \A i \in DOMAIN flushes' :
          \/ i \in DOMAIN flushes /\ flushes'[i] = flushes[i]
          \/ flushes'[i] = caller
    BY <1>1, <2>4, <2>5, Appended
  <2>7. Waiting' \subseteq Waiting \cup {caller}
    BY <2>1, <2>6 DEF Waiting
  <2>8. \A other \in Submission :
          CallerFor("submit", other) \in Waiting' => jobs'[other] = "registering"
    BY <1>1, <2>1, <2>5, <2>7 DEF JobInv
  <2> QED
    BY <2>1, <2>3, <2>5, <2>6, <2>8 DEF JobInv
<1> QED
  BY <1>2, <1>3 DEF Job, CreateFails, Judged

\* Every step keeps the jobs and the holds of the machine together.
LEMMA LiveStepKeepsJobs ==
  ASSUME ShapeInv, SafetyInv, ClockInv, JobInv, [LiveNext]_vars
  PROVE  JobInv'
<1> USE CallerNames
<1>1. CASE Open
  BY <1>1, EventKeepsJobs DEF Open, MatchFound, LegalIn, isTerminal
<1>2. CASE LiveTick \/ UNCHANGED vars
  <2>1. UNCHANGED <<context, liveVars>>
    BY <1>2 DEF LiveTick, Tick, vars, machineVars, context
  <2> QED
    BY <2>1, JobFrame DEF context, liveVars, isTerminal
<1> QED
  BY <1>1, <1>2, PlayerKeepsJobs, TimerKeepsJobs, FlushKeepsJobs, AnswerKeepsJobs,
     JobKeepsJobs DEF LiveNext
------------------------------------------------------------------------------
\* The log only grows, and nothing is taken on without a record of it.
LEMMA LogFrame ==
  ASSUME LogInv, solved' = solved, journal \subseteq journal', logClosed => logClosed',
         ~logClosed' =>
           \A sub \in Submission :
             jobs'[sub] \in {"creating", "judging"} =>
               jobs[sub] \in {"creating", "judging"} \/ Received(sub) \in journal'
  PROVE  LogInv'
BY DEF LogInv, ReplayExplainsTheResult, Solved

\* A record that is taken stays.
LEMMA Recorded ==
  ASSUME NEW fact, Record(fact)
  PROVE  journal \subseteq journal' /\ (~logClosed => fact \in journal')
BY DEF Record

\* Taking a job on records its receipt.
LEMMA StartKeepsLog ==
  ASSUME ShapeInv, LogInv, NEW sub \in Submission, StartJob(sub),
         UNCHANGED <<solved, logClosed>>
  PROVE  LogInv'
<1>1. jobs \in [Submission -> Stage] /\ jobs' = [jobs EXCEPT ![sub] = "creating"]
  BY DEF ShapeInv, LiveTypeOK, StartJob
<1>2. journal \subseteq journal' /\ (~logClosed => Received(sub) \in journal')
  BY Recorded DEF StartJob
<1> QED
  BY <1>1, <1>2, LogFrame

\* Whoever goes on after a wait records the receipt, or takes nothing on.
LEMMA ResumeKeepsLog ==
  ASSUME ShapeInv, LogInv, NEW caller \in Callers, Resume(caller), UNCHANGED <<solved, logClosed>>
  PROVE  LogInv'
<1>1. CASE caller.by = "submit"
  BY <1>1, CallerNames, StartKeepsLog DEF Resume
<1>2. CASE caller.by # "submit"
  BY <1>2, LogFrame DEF Resume
<1> QED
  BY <1>1, <1>2

\* A verdict that counts comes while the match is on, and so while the log is open.
LEMMA ReportKeepsLog ==
  ASSUME ShapeInv, SafetyInv, LogInv, NEW sub \in Submission, NEW verdict,
         jobs[sub] \in {"creating", "judging"}, Report(sub, verdict)
  PROVE  LogInv'
<1>1. /\ jobs \in [Submission -> Stage]
      /\ jobs' = [jobs EXCEPT ![sub] = "done"] /\ logClosed' = logClosed
  BY DEF ShapeInv, LiveTypeOK, Report
<1>2. journal \subseteq journal' /\ (~logClosed => Heard(sub) \in journal')
  BY Recorded DEF Report
<1>3. \A other \in Submission :
        jobs'[other] \in {"creating", "judging"} => jobs[other] \in {"creating", "judging"}
  BY <1>1
<1>4. CASE solved' = solved
  BY <1>1, <1>2, <1>3, <1>4, LogFrame
<1>5. CASE solved' # solved
  <2>1. Verdict(sub, verdict) /\ solved' = Append(solved, sub)
    BY <1>5 DEF Report, Verdict, context
  <2>2. /\ ~isTerminal /\ solved \in Seq([side : Side, receiptMs : 0..now])
        /\ sub \in [side : Side, receiptMs : 0..now]
    BY <2>1 DEF Verdict, LegalIn, isTerminal, SafetyInv, TypeOK
  <2>3. ~logClosed /\ Received(sub) \in journal
    BY <2>2, InPlay DEF LogInv
  <2>4. Solved' = Solved \cup {sub}
    <3>1. {Append(solved, sub)[i] : i \in DOMAIN Append(solved, sub)}
            = {solved[i] : i \in DOMAIN solved} \cup {sub}
      BY <2>2, SolvedGrows
    <3> QED
      BY <2>1, <3>1, Zenon DEF Solved
  <2> QED
    BY <1>1, <1>2, <1>3, <2>3, <2>4 DEF LogInv, ReplayExplainsTheResult
<1> QED
  BY <1>4, <1>5

\* Every step keeps the log ahead of what it must explain.
LEMMA LiveStepKeepsLog ==
  ASSUME ShapeInv, SafetyInv, LogInv, [LiveNext]_vars
  PROVE  LogInv'
<1>1. CASE Open \/ Settle \/ LiveTick \/ UNCHANGED vars
  <2>1. UNCHANGED <<solved, journal, jobs, logClosed>>
    BY <1>1 DEF Open, MatchFound, Settle, LiveTick, Tick, context, vars, machineVars, liveVars
  <2> QED
    BY <2>1, LogFrame
<1>2. ASSUME NEW s \in Side, Player(s)
      PROVE  LogInv'
  <2>1. jobs \in [Submission -> Stage]
    BY DEF ShapeInv, LiveTypeOK
  <2>2. CASE SubmitWhileJudging(s)
    BY <2>2, StampedNow, StartKeepsLog DEF SubmitWhileJudging, SubmissionReceived, SafetyInv
  <2>3. CASE SubmitWhileLive(s)
    BY <2>1, <2>3, LogFrame DEF SubmitWhileLive, SubmissionReceived
  <2>4. CASE Accept(s) \/ Disconnect(s) \/ Reconnect(s)
    <3>1. UNCHANGED <<solved, journal, jobs, logClosed>>
      BY <2>4 DEF Accept, Disconnect, Reconnect, PlayerAccepted, PlayerDisconnected,
                  PlayerReconnected
    <3> QED
      BY <3>1, LogFrame
  <2> QED
    BY <1>2, <2>2, <2>3, <2>4 DEF Player
<1>3. ASSUME NEW t \in Timer, Elapse(t) \/ TimerFires(t)
      PROVE  LogInv'
  <2>1. UNCHANGED <<solved, journal, jobs, logClosed>>
    BY <1>3 DEF Elapse, TimerFires, AcceptTimeoutFires, CountdownFires, ClockFires, GraceFires,
                TimerRefused, AcceptTimeout, CountdownComplete, ClockExpired, GraceExpired,
                machineVars
  <2> QED
    BY <2>1, LogFrame
<1>4. CASE FlushDone
  <2>1. CASE OpenAcceptWindow
    BY <2>1, LogFrame DEF OpenAcceptWindow, AcceptWindowOpen
  <2>2. ASSUME NEW caller \in Callers, EnterLive(caller) \/ EnterOver(caller)
        PROVE  LogInv'
    BY <2>2, LogFrame DEF EnterLive, EnterOver, machineVars
  <2>3. ASSUME NEW caller \in Callers,
               EnterAccepting(caller) \/ EnterCountdown(caller) \/ EnterNothing(caller)
        PROVE  LogInv'
    BY <2>3, ResumeKeepsLog DEF EnterAccepting, EnterCountdown, EnterNothing, machineVars
  <2> QED
    BY <1>4, <2>1, <2>2, <2>3 DEF FlushDone
<1>5. ASSUME NEW caller \in Callers, InsertDone(caller) \/ CloseDone(caller)
      PROVE  LogInv'
  BY <1>5, ResumeKeepsLog DEF InsertDone, CloseDone, machineVars
<1>6. ASSUME NEW sub \in Submission, Job(sub)
      PROVE  LogInv'
  <2>1. CASE CreateSubmission(sub)
    <3>1. jobs \in [Submission -> Stage]
      BY DEF ShapeInv, LiveTypeOK
    <3> QED
      BY <2>1, <3>1, LogFrame DEF CreateSubmission, machineVars
  <2>2. CASE \E verdict : jobs[sub] \in {"creating", "judging"} /\ Report(sub, verdict)
    BY <2>2, ReportKeepsLog
  <2> QED
    BY <1>6, <2>1, <2>2 DEF Job, CreateFails, Judged
<1> QED
  BY <1>1, <1>2, <1>3, <1>4, <1>5, <1>6 DEF LiveNext
------------------------------------------------------------------------------
\* Everything that is known of a running match.
LiveInv == SafetyInv /\ ShapeInv /\ ClockInv /\ JobInv /\ LogInv

\* A match that was just created: nothing is queued, owed or logged.
LEMMA LiveInitSafe == LiveInit => LiveInv
<1> SUFFICES ASSUME LiveInit PROVE LiveInv
  OBVIOUS
<1>1. SafetyInv /\ ~isTerminal /\ outstanding = {} /\ solved = <<>> /\ state = "QUEUED"
  BY InitSafe DEF LiveInit, Init, initialContext, isTerminal
<1>2. ShapeInv
  <2>1. flushes \in Seq(Callers) /\ wire \in Seq({"start", "end"})
    BY DEF LiveInit
  <2>2. jobs \in [Submission -> Stage]
    BY DEF LiveInit, Stage
  <2>3. inFlight \in [Side -> BOOLEAN]
    BY DEF LiveInit
  <2>4. /\ inserting = {} /\ closing = {} /\ timers \in [Timer -> {"off", "armed", "due"}]
        /\ clockRunning \in BOOLEAN /\ row = "none" /\ journal = {} /\ ~logClosed
        /\ logClosed \in BOOLEAN /\ settling = 0
    BY DEF LiveInit
  <2> QED
    BY <1>1, <2>1, <2>2, <2>3, <2>4 DEFS ShapeInv, LiveTypeOK, SafetyInv
<1>3. ClockInv
  BY <1>1 DEF LiveInit, ClockInv, ClockStartsOnceAfterRow, Timer
<1>4. JobInv
  <2>1. Waiting = {}
    BY DEF LiveInit, Waiting
  <2> QED
    BY <1>1, <2>1 DEF LiveInit, JobInv, HoldHasAJob, Running
<1>5. LogInv
  BY <1>1 DEF LiveInit, LogInv, ReplayExplainsTheResult, Solved
<1> QED
  BY <1>1, <1>2, <1>3, <1>4, <1>5 DEF LiveInv

\* The invariant holds in every reachable state of a running match.
LEMMA AlwaysLive == LiveSpec => []LiveInv
<1>1. LiveInit => LiveInv
  BY LiveInitSafe
<1>2. LiveInv /\ [LiveNext]_vars => LiveInv'
  <2> SUFFICES ASSUME LiveInv, [LiveNext]_vars PROVE LiveInv'
    OBVIOUS
  <2>1. SafetyInv' /\ TypeOK'
    BY LiveStepDrives, StepSafe DEF LiveInv, SafetyInv
  <2> QED
    BY <2>1, LiveStepKeepsShape, LiveStepKeepsClock, LiveStepKeepsJobs, LiveStepKeepsLog
    DEF LiveInv
<1> QED
  BY <1>1, <1>2, PTL DEF LiveSpec

\* Every variable of the running match has its type; the log is closed and a
\* settlement under way only in a match at rest; and a settled row says how the match
\* ended (live-match.ts:235-263, index.ts:546-588).
THEOREM LiveTypeCorrect == LiveSpec => []LiveTypeOK
<1>1. LiveInv => LiveTypeOK
  BY DEF LiveInv, ShapeInv
<1> QED
  BY <1>1, AlwaysLive, PTL

\* Before the end the machine waits exactly for the submissions whose job is running:
\* none is waited for in vain, and none is reported to a machine that forgot it
\* (index.ts:169-177).
THEOREM HoldsHaveJobs == LiveSpec => []HoldHasAJob
<1>1. LiveInv => HoldHasAJob
  BY DEF LiveInv, JobInv
<1> QED
  BY <1>1, AlwaysLive, PTL

\* The log holds the receipt and the verdict of every correct submission, the decisive
\* one included, whenever the log was closed (live-match.ts:525-537).
THEOREM ReplayExplains == LiveSpec => []ReplayExplainsTheResult
<1>1. LiveInv => ReplayExplainsTheResult
  BY DEF LiveInv, LogInv
<1> QED
  BY <1>1, AlwaysLive, PTL

\* The match clock runs only once the INSERT of the match row has returned, and
\* match.start is sent at most once, whatever flushes and verdicts come in between
\* (live-match.ts:225-251).
THEOREM ClockStartsOnce == LiveSpec => []ClockStartsOnceAfterRow
<1>1. LiveInv => ClockStartsOnceAfterRow
  BY DEF LiveInv, ClockInv
<1> QED
  BY <1>1, AlwaysLive, PTL
==============================================================================
