------------------------------ MODULE RelayProofs ------------------------------
(***************************************************************************)
(* The editor relay, for any number of edits, of lost connections and any  *)
(* size of a batch.  That the log replays to the document is inductive as  *)
(* it stands: the gateway writes them in one step.                         *)
(*                                                                         *)
(* What the copies hold depends on the messages that are on their way.     *)
(* Those to a spectator carry on from its view, without a gap, up to the   *)
(* document (FeedInv).  Those to the gateway carry on from a text the      *)
(* editor has held up to the one it holds, and the gateway has that text   *)
(* unless it is behind the first of them, which it will not take           *)
(* (Explained).                                                            *)
(***************************************************************************)
EXTENDS Relay, FiniteSetTheorems, SequenceTheorems, WellFoundedInduction, TLAPS

LEMMA MessagesAreMessages ==
  ASSUME NEW n \in Nat, NEW t \in Text
  PROVE  Delta(n, t) \in Message /\ Snapshot(n, t) \in Message
<1> QED
  BY DEF Delta, Snapshot, Message

LEMMA ChangesAreText ==
  ASSUME NEW s \in Seq(1 .. MaxEdits) PROVE s \in Text
<1> QED
  BY SeqMonotonic, 1 .. MaxEdits \subseteq Starter \cup 1 .. MaxEdits DEF Text

\* What can be taken from and put on a queue of messages.
LEMMA Queues ==
  ASSUME NEW q \in Seq(Message), q # <<>>
  PROVE  /\ Head(q) \in Message
         /\ Head(q).seq \in Nat /\ Head(q).text \in Text
         /\ Tail(q) \in Seq(Message)
<1>1. Head(q) \in Message
  OBVIOUS
<1>2. Tail(q) \in Seq(Message)
  OBVIOUS
<1> QED
  BY <1>1, <1>2 DEF Message

LEMMA Joined ==
  ASSUME NEW s \in Text, NEW t \in Text PROVE s \o t \in Text
<1> QED
  BY DEF Text

LEMMA ViewsAndDocuments ==
  ASSUME NEW t \in Text, NEW n \in Nat, NEW k \in Nat
  PROVE  /\ [text |-> t, seq |-> n] \in [text : Text, seq : Nat]
         /\ [text |-> t, seq |-> n, snapshotSeq |-> k]
              \in [text : Text, seq : Nat, snapshotSeq : Nat]
<1> QED
  OBVIOUS

LEMMA Starters == \A lang \in Starter : <<lang>> \in Text
<1> QED
  BY DEF Text

IInv == TypeOK /\ ReplayIsTheDocument
------------------------------------------------------------------------------
LEMMA InitInv == Init => IInv
<1> SUFFICES ASSUME Init PROVE IInv
  OBVIOUS
<1>1. <<PYTHON3>> \in Text /\ <<>> \in Text
  BY Starters DEF Starter, Text
<1>2. up \in Seq(Message)
  BY <1>1, MessagesAreMessages DEF Init
<1>3. feed \in Seq(Message) /\ pending \in Seq(1 .. MaxEdits)
  BY EmptySeq DEF Init
<1>4. doc \in [text : Text, seq : Nat, snapshotSeq : Nat] /\ doc.snapshotSeq <= doc.seq
  BY <1>1 DEF Init
<1>5. view \in [text : Text, seq : Nat]
  BY <1>1 DEF Init
<1>6. edits \in 0 .. MaxEdits /\ breaks \in 0 .. MaxBreaks /\ detaches \in 0 .. MaxDetaches
  BY RelayAssumption DEF Init
<1>7. TypeOK
  BY <1>1, <1>2, <1>3, <1>4, <1>5, <1>6 DEF Init, TypeOK
<1> QED
  BY <1>7 DEF IInv, Init, ReplayIsTheDocument
------------------------------------------------------------------------------
(* The editor.                                                             *)

LEMMA StartAgainTypes ==
  ASSUME TypeOK, NEW whole \in Text, StartAgain(whole)
  PROVE  seq' \in Nat /\ pending' \in Seq(1 .. MaxEdits) /\ up' \in Seq(Message)
<1>1. Snapshot(0, whole) \in Message
  BY MessagesAreMessages
<1> QED
  BY <1>1 DEF StartAgain, TypeOK

LEMMA TypeTypes == ASSUME TypeOK, Type PROVE TypeOK'
<1>1. edits + 1 \in 1 .. MaxEdits /\ edits' \in 0 .. MaxEdits
  BY RelayAssumption DEF TypeOK, Type
<1>2. text' \in Text /\ source' \in Text
  BY <1>1 DEF TypeOK, Type, Hold, Text
<1>3. pending' \in Seq(1 .. MaxEdits)
  BY <1>1 DEF TypeOK, Type
<1> QED
  BY <1>1, <1>2, <1>3 DEF TypeOK, Type, gateway, spectator

LEMMA FlushTypes == ASSUME TypeOK, Flush PROVE TypeOK'
<1>1. Delta(seq + 1, pending) \in Message
  BY MessagesAreMessages, ChangesAreText DEF TypeOK
<1>2. up' \in Seq(Message)
  BY <1>1 DEF TypeOK, Flush
<1>3. pending' \in Seq(1 .. MaxEdits) /\ seq' \in Nat
  BY DEF TypeOK, Flush
<1> QED
  BY <1>2, <1>3 DEF TypeOK, Flush, gateway, spectator, history

LEMMA SwitchTypes ==
  ASSUME TypeOK, NEW lang \in Starter, SwitchLanguage(lang) PROVE TypeOK'
<1>1. <<lang>> \in Text
  BY Starters
<1>2. seq' \in Nat /\ pending' \in Seq(1 .. MaxEdits) /\ up' \in Seq(Message)
  BY <1>1, StartAgainTypes DEF SwitchLanguage
<1>3. edits' \in 0 .. MaxEdits
  BY RelayAssumption DEF TypeOK, SwitchLanguage
<1>4. text' \in Text /\ source' \in Text /\ misreported' \in BOOLEAN
  BY <1>1 DEF TypeOK, SwitchLanguage, Hold
<1> QED
  BY <1>2, <1>3, <1>4 DEF TypeOK, SwitchLanguage, gateway, spectator

LEMMA DesyncTypes == ASSUME TypeOK, DesyncArrives PROVE TypeOK'
<1>1. source \in Text
  BY DEF TypeOK
<1>2. seq' \in Nat /\ pending' \in Seq(1 .. MaxEdits) /\ up' \in Seq(Message)
  BY <1>1, StartAgainTypes DEF DesyncArrives
<1>3. desyncs' \in Nat
  BY DEF TypeOK, DesyncArrives
<1> QED
  BY <1>2, <1>3 DEF TypeOK, DesyncArrives, gateway, spectator, history

LEMMA LoseTypes ==
  ASSUME TypeOK, Lose
  PROVE  breaks' \in 0 .. MaxBreaks /\ desyncs' \in Nat /\ snapshotLost' \in BOOLEAN
<1> QED
  BY RelayAssumption DEF TypeOK, Lose

LEMMA ConnectionTypes == ASSUME TypeOK, Break \/ Reconnect \/ Reload PROVE TypeOK'
<1>1. CASE Break
  <2>1. up' \in Seq(Message)
    BY <1>1, EmptySeq DEF Break
  <2> QED
    BY <1>1, <2>1, LoseTypes DEF TypeOK, Break, page, gateway, spectator
<1>2. CASE Reconnect
  BY <1>2 DEF TypeOK, Reconnect, page, gateway, spectator, history
<1>3. CASE Reload
  <2>1. <<PYTHON3>> \in Text
    BY Starters DEF Starter
  <2>2. up' \in Seq(Message)
    BY <1>3, <2>1, MessagesAreMessages DEF Reload
  <2>3. seq' \in Nat /\ pending' \in Seq(1 .. MaxEdits) /\ text' \in Text
        /\ source' \in Text
    BY <1>3, <2>1 DEF Reload, Hold
  <2> QED
    BY <1>3, <2>2, <2>3, LoseTypes DEF TypeOK, Reload, gateway, spectator
<1> QED
  BY <1>1, <1>2, <1>3

LEMMA EditorKeepsTheRest ==
  ASSUME Type \/ Flush \/ DesyncArrives \/ (\E lang \in Starter : SwitchLanguage(lang))
           \/ Break \/ Reconnect \/ Reload
  PROVE  UNCHANGED <<stage, doc, replayed>>
<1> QED
  BY DEF Type, Flush, DesyncArrives, SwitchLanguage, Break, Reconnect, Reload, gateway
------------------------------------------------------------------------------
(* The gateway and the viewers.                                            *)

LEMMA FanOutTypes == ASSUME TypeOK, NEW m \in Message, FanOut(m) PROVE feed' \in Seq(Message)
<1> QED
  BY DEF TypeOK, FanOut

LEMMA DeltaInv == ASSUME IInv, DeliverDelta PROVE IInv'
<1> DEFINE delta == Head(up)
<1>1. /\ up' \in Seq(Message) /\ delta \in Message
      /\ delta.seq \in Nat /\ delta.text \in Text
  BY Queues DEF IInv, TypeOK, DeliverDelta
<1>2. UNCHANGED <<page, connected, stage, attached, view, history>>
  BY DEF DeliverDelta
<1>3. CASE known /\ Len(delta.text) <= MaxChanges /\ follows(delta)
  <2>1. /\ doc' = [doc EXCEPT !.text = @ \o delta.text, !.seq = delta.seq]
        /\ Record(replayed \o delta.text) /\ FanOut(delta) /\ desyncs' = desyncs
    <3>1. Len(delta.text) \in Nat
      BY <1>1, LenProperties DEF Text
    <3> QED
      BY <1>3, <3>1, RelayAssumption DEF DeliverDelta
  <2>2. doc.text \o delta.text \in Text /\ replayed \o delta.text \in Text
    BY <1>1, Joined DEF IInv, TypeOK
  <2>3. feed' \in Seq(Message)
    BY <1>1, <2>1, FanOutTypes DEF IInv
  <2>4. delta.seq = doc.seq + 1
    BY <1>3 DEF follows
  <2>5. /\ doc' \in [text : Text, seq : Nat, snapshotSeq : Nat]
        /\ doc'.snapshotSeq <= doc'.seq /\ doc'.text = doc.text \o delta.text
    <3>1. doc' = [text |-> doc.text \o delta.text, seq |-> delta.seq,
                  snapshotSeq |-> doc.snapshotSeq]
      BY <2>1 DEF IInv, TypeOK
    <3>2. /\ doc.snapshotSeq \in Nat /\ doc.seq \in Nat
          /\ doc.snapshotSeq <= doc.seq
      BY DEF IInv, TypeOK
    <3>3. doc' \in [text : Text, seq : Nat, snapshotSeq : Nat]
      BY <1>1, <2>2, <3>1, <3>2, ViewsAndDocuments
    <3>4. /\ doc'.text = doc.text \o delta.text
          /\ doc'.seq = delta.seq /\ doc'.snapshotSeq = doc.snapshotSeq
      BY <3>1
    <3> QED
      BY <2>4, <3>2, <3>3, <3>4
  <2>6. replayed' \in Text /\ (logOpen => replayed' = replayed \o delta.text)
    BY <2>1, <2>2 DEF IInv, TypeOK, Record
  <2>7. TypeOK'
    BY <1>1, <1>2, <2>1, <2>3, <2>5, <2>6 DEF IInv, TypeOK, page, history
  <2> QED
    BY <1>2, <2>3, <2>5, <2>6, <2>7
       DEF IInv, ReplayIsTheDocument, logOpen
<1>4. CASE ~(known /\ Len(delta.text) <= MaxChanges /\ follows(delta))
  <2>1. UNCHANGED <<doc, replayed, feed>> /\ desyncs' \in {desyncs, desyncs + 1}
    BY <1>4 DEF DeliverDelta
  <2>2. TypeOK'
    BY <1>1, <1>2, <2>1 DEF IInv, TypeOK, page, history
  <2> QED
    BY <1>2, <2>1, <2>2 DEF IInv, ReplayIsTheDocument, logOpen
<1> QED
  BY <1>3, <1>4

LEMMA SnapshotInv == ASSUME IInv, DeliverSnapshot PROVE IInv'
<1> DEFINE whole == Head(up)
<1>1. /\ up' \in Seq(Message) /\ whole \in Message
      /\ whole.seq \in Nat /\ whole.text \in Text
  BY Queues DEF IInv, TypeOK, DeliverSnapshot
<1>2. UNCHANGED <<page, connected, desyncs, stage, attached, view, history>>
  BY DEF DeliverSnapshot
<1>3. CASE known
  <2>1. /\ doc' = [text |-> whole.text, seq |-> whole.seq, snapshotSeq |-> whole.seq]
        /\ Record(whole.text) /\ FanOut(whole)
    BY <1>3 DEF DeliverSnapshot
  <2>2. feed' \in Seq(Message)
    BY <1>1, <2>1, FanOutTypes DEF IInv
  <2>3. replayed' \in Text /\ (logOpen => replayed' = doc'.text)
    BY <1>1, <2>1 DEF IInv, TypeOK, Record
  <2>4. TypeOK'
    BY <1>1, <1>2, <2>1, <2>2, <2>3 DEF IInv, TypeOK, page, history
  <2> QED
    BY <1>2, <2>2, <2>3, <2>4
       DEF IInv, ReplayIsTheDocument, logOpen
<1>4. CASE ~known
  <2>1. UNCHANGED <<doc, replayed, feed>>
    BY <1>4 DEF DeliverSnapshot
  <2>2. TypeOK'
    BY <1>1, <1>2, <2>1 DEF IInv, TypeOK, page, history
  <2> QED
    BY <1>2, <2>1, <2>2 DEF IInv, ReplayIsTheDocument, logOpen
<1> QED
  BY <1>3, <1>4

LEMMA LogInv == ASSUME IInv, PeriodicSnapshot \/ End \/ Close \/ Forget PROVE IInv'
<1> USE DEF IInv
<1>1. CASE PeriodicSnapshot
  <2>1. doc' \in [text : Text, seq : Nat, snapshotSeq : Nat] /\ doc'.text = doc.text
        /\ doc'.snapshotSeq <= doc'.seq
    BY <1>1 DEF TypeOK, PeriodicSnapshot
  <2>2. replayed' = doc'.text
    BY <1>1, <2>1 DEF PeriodicSnapshot, Record, logOpen
  <2> QED
    BY <1>1, <2>1, <2>2 DEF PeriodicSnapshot, TypeOK, ReplayIsTheDocument,
                            page, spectator, history
<1>2. CASE End
  BY <1>2 DEF End, TypeOK, ReplayIsTheDocument, logOpen, page,
              spectator, history
<1>3. CASE Close
  <2>1. replayed' \in Text
    BY <1>3 DEF Close, Record, TypeOK
  <2> QED
    BY <1>3, <2>1 DEF Close, TypeOK, ReplayIsTheDocument, logOpen,
                      page, spectator, history
<1>4. CASE Forget
  BY <1>4 DEF Forget, TypeOK, ReplayIsTheDocument, logOpen, page,
              spectator, history
<1> QED
  BY <1>1, <1>2, <1>3, <1>4

LEMMA ViewersInv == ASSUME IInv, Attach \/ Detach PROVE IInv'
<1> USE DEF IInv
<1>1. Snapshot(doc.seq, doc.text) \in Message
  BY MessagesAreMessages DEF TypeOK
<1>2. feed' \in Seq(Message)
  <2>1. <<Snapshot(doc.seq, doc.text)>> \in Seq(Message) /\ <<>> \in Seq(Message)
    BY <1>1, EmptySeq
  <2>2. feed' = feed \/ feed' = <<>> \/ feed' = <<Snapshot(doc.seq, doc.text)>>
    BY DEF Attach, Detach, spectator
  <2> QED
    BY <2>1, <2>2 DEF TypeOK
<1>3. detaches' \in 0 .. MaxDetaches
  BY RelayAssumption DEF TypeOK, Attach, Detach, history
<1>4. TypeOK'
  BY <1>2, <1>3 DEF TypeOK, Attach, Detach, page, spectator, history
<1>5. UNCHANGED <<stage, doc, replayed>>
  BY DEF Attach, Detach
<1> QED
  BY <1>4, <1>5 DEF ReplayIsTheDocument, logOpen

LEMMA WatchInv == ASSUME IInv, Watch PROVE IInv'
<1> DEFINE message == Head(feed)
<1>1. /\ Tail(feed) \in Seq(Message) /\ message.seq \in Nat /\ message.text \in Text
  BY Queues DEF IInv, TypeOK, Watch
<1>2. Snapshot(doc.seq, doc.text) \in Message
  BY MessagesAreMessages DEF IInv, TypeOK
<1>3. feed' \in Seq(Message)
  <2>1. <<Snapshot(doc.seq, doc.text)>> \in Seq(Message) /\ <<>> \in Seq(Message)
    BY <1>2, EmptySeq
  <2>2. /\ Tail(feed) \o <<Snapshot(doc.seq, doc.text)>> \in Seq(Message)
        /\ Tail(feed) \o <<>> \in Seq(Message)
    BY <1>1, <2>1, ConcatProperties
  <2>3. \/ feed' = Tail(feed)
        \/ feed' = Tail(feed) \o <<Snapshot(doc.seq, doc.text)>>
        \/ feed' = Tail(feed) \o <<>>
    BY DEF Watch
  <2> QED
    BY <1>1, <2>2, <2>3
<1>4. view.text \o message.text \in Text
  BY <1>1, Joined DEF IInv, TypeOK
<1>5. view' \in [text : Text, seq : Nat]
  <2>1. \/ view' = [text |-> message.text, seq |-> message.seq]
        \/ view' = [text |-> view.text \o message.text, seq |-> message.seq]
        \/ view' = view
    BY DEF Watch
  <2> QED
    BY <1>1, <1>4, <2>1, ViewsAndDocuments DEF IInv, TypeOK
<1>6. UNCHANGED <<page, connected, up, desyncs, gateway, history>>
  BY DEF Watch
<1>7. TypeOK'
  BY <1>3, <1>5, <1>6 DEF IInv, TypeOK, page, gateway, history
<1> QED
  BY <1>6, <1>7 DEF IInv, ReplayIsTheDocument, logOpen, gateway

LEMMA NextInv == IInv /\ [Next]_vars => IInv'
<1> SUFFICES ASSUME IInv, [Next]_vars PROVE IInv'
  OBVIOUS
<1>1. ASSUME Type \/ Flush \/ DesyncArrives \/ (\E lang \in Starter : SwitchLanguage(lang))
               \/ Break \/ Reconnect \/ Reload
      PROVE  IInv'
  <2>1. TypeOK'
    BY <1>1, TypeTypes, FlushTypes, DesyncTypes, SwitchTypes, ConnectionTypes DEF IInv
  <2>2. UNCHANGED <<stage, doc, replayed>>
    BY <1>1, EditorKeepsTheRest
  <2> QED
    BY <2>1, <2>2 DEF IInv, ReplayIsTheDocument, logOpen
<1>2. ASSUME DeliverDelta \/ DeliverSnapshot \/ PeriodicSnapshot \/ End \/ Close \/ Forget
               \/ Attach \/ Detach \/ Watch
      PROVE  IInv'
  BY <1>2, DeltaInv, SnapshotInv, LogInv, ViewersInv, WatchInv
<1>3. CASE UNCHANGED vars
  BY <1>3 DEF IInv, TypeOK, ReplayIsTheDocument, logOpen, vars,
              page, gateway, spectator, history
<1> QED
  BY <1>1, <1>2, <1>3 DEF Next

LEMMA InvHolds == Spec => []IInv
<1> QED
  BY InitInv, NextInv, PTL DEF Spec
------------------------------------------------------------------------------
\* Type correctness: no queue, document or view ever holds anything but texts made of
\* what was typed.
THEOREM TypeCorrect == Spec => []TypeOK
<1>1. IInv => TypeOK
  BY DEF IInv
<1> QED
  BY <1>1, InvHolds, PTL

\* The recording replays to the document the gateway holds, after every delta, snapshot
\* and refused message, for as long as the log is open.
THEOREM ReplayIsFaithful == Spec => []ReplayIsTheDocument
<1>1. IInv => ReplayIsTheDocument
  BY DEF IInv
<1> QED
  BY <1>1, InvHolds, PTL
------------------------------------------------------------------------------
(* What becomes of a text when messages are applied to it one after the other. *)

\* Induction up to a bound, as a fact about a set: the least number outside of it would
\* have a predecessor in it.
LEMMA UpTo ==
  ASSUME NEW n \in Nat, NEW S, 0 \in S, \A i \in 1 .. n : i - 1 \in S => i \in S
  PROVE  \A i \in 0 .. n : i \in S
<1> DEFINE Outside == {0 .. k : k \in {i \in 0 .. n : i \notin S}}
<1>1. SUFFICES ASSUME Outside # {} PROVE FALSE
  BY Zenon
<1>2. Outside \subseteq FiniteSubsetsOf(Nat)
  <2>1. ASSUME NEW k \in 0 .. n PROVE 0 .. k \in FiniteSubsetsOf(Nat)
    <3>1. k \in Int /\ 0 \in Int /\ 0 .. k \in SUBSET Nat
      BY SMT
    <3> QED
      BY <3>1, FS_Interval, Zenon DEF FiniteSubsetsOf
  <2> QED
    BY <2>1, Zenon
<1> HIDE DEF Outside
<1>3. PICK low \in Outside : \A other \in Outside : <<other, low>> \notin StrictSubsetOrdering(Nat)
  BY <1>1, <1>2, FS_StrictSubsetOrderingWellFounded, WFMin, Zenon
<1>4. PICK m \in {i \in 0 .. n : i \notin S} : low = 0 .. m
  BY Zenon DEF Outside
<1>5. m \in 1 .. n /\ m - 1 \in 0 .. n /\ m - 1 \notin S
  BY <1>4, SMT
<1>6. 0 .. (m - 1) \in Outside
  BY <1>5, Zenon DEF Outside
<1>7. 0 .. (m - 1) \in SUBSET Nat /\ 0 .. m \in SUBSET Nat /\ 0 .. (m - 1) \subseteq 0 .. m
  BY <1>5, SMT
<1>8. m \in 0 .. m /\ m \notin 0 .. (m - 1)
  BY <1>5, SMT
<1>9. 0 .. (m - 1) # 0 .. m
  BY <1>8, Zenon
<1>10. <<0 .. (m - 1), low>> \in StrictSubsetOrdering(Nat)
  BY <1>4, <1>7, <1>9, SMT DEF StrictSubsetOrdering
<1> QED
  BY <1>3, <1>6, <1>10, Zenon

\* What one of them makes of it.
Applied(t, m) == IF m.kind = "snapshot" THEN m.text ELSE t \o m.text

\* The texts on the way from t, one for every message of q.
Steps(f, t, q) ==
  /\ f[0] = t
  /\ \A i \in 1 .. Len(q) : f[i] = Applied(f[i - 1], q[i])

LEMMA AppliedTypes == \A t \in Text, m \in Message : Applied(t, m) \in Text
<1> SUFFICES ASSUME NEW t \in Text, NEW m \in Message PROVE Applied(t, m) \in Text
  OBVIOUS
<1>1. m.text \in Text
  BY DEF Message
<1> QED
  BY <1>1, Joined DEF Applied

\* The recursion of after has a solution.
LEMMA StepsExist ==
  ASSUME NEW t \in Text, NEW q \in Seq(Message)
  PROVE  \E f \in [0 .. Len(q) -> Text] : Steps(f, t, q)
<1> DEFINE n == Len(q)
           Upto(f, k) == f[0] = t /\ \A i \in 1 .. k : f[i] = Applied(f[i - 1], q[i])
           S == {k \in 0 .. n : \E f \in [0 .. k -> Text] : Upto(f, k)}
<1>1. n \in Nat /\ \A i \in 1 .. n : q[i] \in Message
  BY LenProperties, ElementOfSeq
<1>2. 0 \in S
  <2>1. [i \in 0 .. 0 |-> t] \in [0 .. 0 -> Text] /\ Upto([i \in 0 .. 0 |-> t], 0)
    OBVIOUS
  <2>2. \E f \in [0 .. 0 -> Text] : Upto(f, 0)
    BY <2>1, Zenon
  <2> QED
    BY <1>1, <2>2
<1>3. ASSUME NEW k \in 1 .. n, k - 1 \in S PROVE k \in S
  <2>1. PICK f \in [0 .. k - 1 -> Text] : Upto(f, k - 1)
    BY <1>3
  <2> DEFINE g == [i \in 0 .. k |-> IF i = k THEN Applied(f[k - 1], q[k]) ELSE f[i]]
  <2>2. k \in Nat /\ k - 1 \in 0 .. k - 1 /\ f[k - 1] \in Text
    BY <1>1
  <2>3. Applied(f[k - 1], q[k]) \in Text
    BY <1>1, <2>2, AppliedTypes
  <2>4. g \in [0 .. k -> Text]
    BY <2>2, <2>3
  <2>5. g[k] = Applied(f[k - 1], q[k]) /\ \A i \in 0 .. k - 1 : g[i] = f[i]
    BY <2>2
  <2> HIDE DEF g
  <2>6. Upto(g, k)
    <3>1. g[0] = t
      BY <2>1, <2>2, <2>5
    <3>2. ASSUME NEW i \in 1 .. k PROVE g[i] = Applied(g[i - 1], q[i])
      <4>1. CASE i = k
        BY <2>2, <2>5, <4>1
      <4>2. CASE i # k
        <5>1. i \in 1 .. k - 1 /\ i \in 0 .. k - 1 /\ i - 1 \in 0 .. k - 1
          BY <2>2, <4>2
        <5> QED
          BY <2>1, <2>5, <5>1
      <4> QED
        BY <4>1, <4>2
    <3> QED
      BY <3>1, <3>2
  <2> HIDE DEF Upto
  <2>7. k \in 0 .. n
    BY <1>1
  <2> QED
    BY <2>4, <2>6, <2>7, Zenon
<1> HIDE DEF S
<1>4. \A i \in 0 .. n : i \in S
  BY <1>1, <1>2, <1>3, UpTo
<1>5. n \in S
  BY <1>1, <1>4
<1> QED
  BY <1>5 DEF S, Steps

LEMMA StepsAreUnique ==
  ASSUME NEW t \in Text, NEW q \in Seq(Message), NEW f, NEW g, Steps(f, t, q), Steps(g, t, q)
  PROVE  \A i \in 0 .. Len(q) : f[i] = g[i]
<1> DEFINE S == {i \in 0 .. Len(q) : f[i] = g[i]}
<1>1. Len(q) \in Nat
  BY LenProperties
<1>2. 0 \in S
  BY <1>1 DEF Steps
<1>3. ASSUME NEW i \in 1 .. Len(q), i - 1 \in S PROVE i \in S
  BY <1>1, <1>3 DEF Steps
<1> HIDE DEF S
<1>4. \A i \in 0 .. Len(q) : i \in S
  BY <1>1, <1>2, <1>3, UpTo
<1> QED
  BY <1>4 DEF S

\* What after is, for any way to find it.
LEMMA AfterIs ==
  ASSUME NEW t \in Text, NEW q \in Seq(Message), NEW f \in [0 .. Len(q) -> Text], Steps(f, t, q)
  PROVE  after(t, q) = f[Len(q)]
<1> DEFINE Sofar(h) == h = [i \in 0 .. Len(q) |->
                         IF i = 0 THEN t
                         ELSE IF q[i].kind = "snapshot" THEN q[i].text
                         ELSE h[i - 1] \o q[i].text]
           c == CHOOSE h : Sofar(h)
<1>1. Len(q) \in Nat
  BY LenProperties
<1>2. Sofar(f)
  <2> DEFINE e == [i \in 0 .. Len(q) |->
                         IF i = 0 THEN t
                         ELSE IF q[i].kind = "snapshot" THEN q[i].text
                         ELSE f[i - 1] \o q[i].text]
  <2>1. ASSUME NEW i \in 0 .. Len(q) PROVE f[i] = e[i]
    <3>1. i = 0 \/ i \in 1 .. Len(q)
      BY <1>1
    <3>2. f[0] = t /\ \A j \in 1 .. Len(q) : f[j] = Applied(f[j - 1], q[j])
      BY DEF Steps
    <3>3. i \in 1 .. Len(q) => i # 0
      OBVIOUS
    <3> QED
      BY <3>1, <3>2, <3>3 DEF Applied
  <2>2. f = [i \in 0 .. Len(q) |-> f[i]]
    OBVIOUS
  <2>3. e = [i \in 0 .. Len(q) |-> f[i]]
    BY <2>1
  <2> QED
    BY <2>2, <2>3
<1>3. Sofar(c)
  BY <1>2, Zenon
<1>4. after(t, q) = c[Len(q)]
  BY Zenon DEF after
<1>5. Steps(c, t, q)
  <2> HIDE DEF c
  <2>1. ASSUME NEW i \in 0 .. Len(q)
        PROVE  c[i] = IF i = 0 THEN t ELSE Applied(c[i - 1], q[i])
    BY <1>3 DEF Applied
  <2> QED
    BY <1>1, <2>1 DEF Steps
<1>6. Len(q) \in 0 .. Len(q)
  BY <1>1
<1> QED
  BY <1>4, <1>5, <1>6, StepsAreUnique

LEMMA AfterNothing == \A t \in Text : after(t, <<>>) = t
<1> SUFFICES ASSUME NEW t \in Text PROVE after(t, <<>>) = t
  OBVIOUS
<1> DEFINE f == [i \in 0 .. 0 |-> t]
<1>1. <<>> \in Seq(Message) /\ Len(<<>>) = 0
  BY EmptySeq
<1>2. f \in [0 .. Len(<<>>) -> Text] /\ Steps(f, t, <<>>) /\ f[0] = t
  BY <1>1 DEF Steps
<1> QED
  BY <1>1, <1>2, AfterIs

\* One more message at the end.
LEMMA AfterAppend ==
  ASSUME NEW t \in Text, NEW q \in Seq(Message), NEW m \in Message
  PROVE  after(t, Append(q, m)) = Applied(after(t, q), m)
<1> DEFINE n == Len(q)
           longer == Append(q, m)
<1>1. PICK f \in [0 .. n -> Text] : Steps(f, t, q)
  BY StepsExist
<1>2. /\ n \in Nat /\ longer \in Seq(Message) /\ Len(longer) = n + 1
      /\ longer[n + 1] = m /\ \A i \in 1 .. n : longer[i] = q[i]
  BY LenProperties, AppendProperties
<1> DEFINE g == [i \in 0 .. n + 1 |-> IF i = n + 1 THEN Applied(f[n], m) ELSE f[i]]
<1>3. n \in 0 .. n /\ f[n] \in Text /\ Applied(f[n], m) \in Text
  BY <1>2, AppliedTypes
<1>4. g \in [0 .. n + 1 -> Text]
  BY <1>2, <1>3
<1>5. g[n + 1] = Applied(f[n], m) /\ \A i \in 0 .. n : g[i] = f[i]
  BY <1>2
<1> HIDE DEF g, longer
<1>6. Steps(g, t, longer)
  <2>1. g[0] = t
    BY <1>1, <1>2, <1>5 DEF Steps
  <2>2. ASSUME NEW i \in 1 .. n + 1 PROVE g[i] = Applied(g[i - 1], longer[i])
    <3>1. CASE i = n + 1
      BY <1>2, <1>3, <1>5, <3>1
    <3>2. CASE i # n + 1
      <4>1. i \in 1 .. n /\ i \in 0 .. n /\ i - 1 \in 0 .. n
        BY <1>2, <3>2
      <4>2. f[i] = Applied(f[i - 1], q[i])
        BY <1>1, <4>1 DEF Steps
      <4> QED
        BY <1>2, <1>5, <4>1, <4>2
    <3> QED
      BY <3>1, <3>2
  <2> QED
    BY <1>2, <2>1, <2>2 DEF Steps
<1>7. after(t, longer) = g[n + 1]
  BY <1>2, <1>4, <1>6, AfterIs
<1>8. after(t, q) = f[n]
  BY <1>1, AfterIs
<1> QED
  BY <1>5, <1>7, <1>8 DEF longer

\* The first message taken off.
LEMMA AfterTail ==
  ASSUME NEW t \in Text, NEW q \in Seq(Message), q # <<>>
  PROVE  after(Applied(t, Head(q)), Tail(q)) = after(t, q)
<1> DEFINE n == Len(q)
           rest == Tail(q)
           u == Applied(t, Head(q))
<1>1. PICK f \in [0 .. n -> Text] : Steps(f, t, q)
  BY StepsExist
<1>2. /\ n \in Nat \ {0} /\ rest \in Seq(Message) /\ Len(rest) = n - 1
      /\ \A i \in 1 .. n - 1 : rest[i] = q[i + 1]
      /\ Head(q) \in Message /\ Head(q) = q[1]
  BY EmptySeq, HeadTailProperties
<1>3. u \in Text /\ f[1] = u
  BY <1>1, <1>2, AppliedTypes DEF Steps
<1> DEFINE g == [i \in 0 .. n - 1 |-> f[i + 1]]
<1>4. g \in [0 .. n - 1 -> Text] /\ \A i \in 0 .. n - 1 : g[i] = f[i + 1]
  BY <1>2
<1> HIDE DEF g, rest, u
<1>5. Steps(g, u, rest)
  <2>1. g[0] = u
    BY <1>2, <1>3, <1>4
  <2>2. ASSUME NEW i \in 1 .. n - 1 PROVE g[i] = Applied(g[i - 1], rest[i])
    <3>1. i \in 0 .. n - 1 /\ i - 1 \in 0 .. n - 1 /\ i + 1 \in 1 .. n /\ (i + 1) - 1 = i
          /\ (i - 1) + 1 = i
      BY <1>2
    <3>2. f[i + 1] = Applied(f[i], q[i + 1])
      BY <1>1, <3>1 DEF Steps
    <3>3. g[i] = f[i + 1] /\ g[i - 1] = f[i] /\ rest[i] = q[i + 1]
      BY <1>2, <1>4, <3>1
    <3> QED
      BY <3>2, <3>3
  <2> QED
    BY <1>2, <2>1, <2>2 DEF Steps
<1>6. after(u, rest) = g[n - 1]
  BY <1>2, <1>3, <1>4, <1>5, AfterIs
<1>7. after(t, q) = f[n] /\ g[n - 1] = f[n]
  BY <1>1, <1>2, <1>4, AfterIs
<1> QED
  BY <1>6, <1>7 DEF u, rest
------------------------------------------------------------------------------
(* What is on its way to a spectator.                                      *)

\* What is on the way to a spectator carries on from the view: every batch has the number
\* after the one before it, and the last message is where the document is.
NoGap(q, first, last) ==
  /\ \A i \in 1 .. Len(q) :
       q[i].kind = "delta" => q[i].seq = (IF i = 1 THEN first ELSE q[i - 1].seq) + 1
  /\ last = IF q = <<>> THEN first ELSE q[Len(q)].seq

FeedInv ==
  attached /\ known => NoGap(feed, view.seq, doc.seq) /\ after(view.text, feed) = doc.text

LEMMA InitFeed == Init => FeedInv
<1> QED
  BY DEF Init, FeedInv

LEMMA NoGapAppend ==
  ASSUME NEW q \in Seq(Message), NEW first \in Nat, NEW last \in Nat, NoGap(q, first, last),
         NEW m \in Message, m.kind = "delta" => m.seq = last + 1
  PROVE  NoGap(Append(q, m), first, m.seq)
<1> DEFINE longer == Append(q, m)
           n == Len(q)
<1>1. /\ n \in Nat /\ longer \in Seq(Message) /\ Len(longer) = n + 1
      /\ longer[n + 1] = m /\ \A i \in 1 .. n : longer[i] = q[i]
  BY LenProperties, AppendProperties
<1> HIDE DEF longer
<1>2. longer # <<>>
  BY <1>1, EmptySeq
<1>3. last = IF n = 0 THEN first ELSE q[n].seq
  BY <1>1, EmptySeq DEF NoGap
<1>4. ASSUME NEW i \in 1 .. n + 1, longer[i].kind = "delta"
      PROVE  longer[i].seq = (IF i = 1 THEN first ELSE longer[i - 1].seq) + 1
  <2>1. CASE i = n + 1
    <3>1. n # 0 => longer[n] = q[n]
      BY <1>1
    <3> QED
      BY <1>1, <1>3, <1>4, <2>1, <3>1
  <2>2. CASE i # n + 1
    <3>1. i \in 1 .. n /\ (i # 1 => i - 1 \in 1 .. n)
      BY <1>1, <2>2
    <3>2. longer[i] = q[i] /\ (i # 1 => longer[i - 1] = q[i - 1])
      BY <1>1, <3>1
    <3> QED
      BY <1>4, <3>1, <3>2 DEF NoGap
  <2> QED
    BY <2>1, <2>2
<1>5. NoGap(longer, first, m.seq)
  BY <1>1, <1>2, <1>4 DEF NoGap
<1> QED
  BY <1>5 DEF longer

LEMMA NoGapTail ==
  ASSUME NEW q \in Seq(Message), q # <<>>, NEW first, NEW last, NoGap(q, first, last)
  PROVE  NoGap(Tail(q), Head(q).seq, last)
<1> DEFINE rest == Tail(q)
           n == Len(q)
<1>1. /\ n \in Nat \ {0} /\ rest \in Seq(Message) /\ Len(rest) = n - 1
      /\ \A i \in 1 .. n - 1 : rest[i] = q[i + 1]
      /\ Head(q) = q[1]
  BY EmptySeq, HeadTailProperties
<1>2. rest = <<>> <=> n = 1
  BY <1>1, EmptySeq
<1> HIDE DEF rest
<1>3. ASSUME NEW i \in 1 .. n - 1, rest[i].kind = "delta"
      PROVE  rest[i].seq = (IF i = 1 THEN q[1].seq ELSE rest[i - 1].seq) + 1
  <2>1. i + 1 \in 1 .. n /\ i + 1 # 1 /\ (i + 1) - 1 = i
    BY <1>1
  <2>2. q[i + 1].seq = q[i].seq + 1
    BY <1>1, <1>3, <2>1 DEF NoGap
  <2>3. i # 1 => rest[i - 1] = q[i]
    <3>1. i # 1 => i - 1 \in 1 .. n - 1 /\ (i - 1) + 1 = i
      BY <1>1
    <3> QED
      BY <1>1, <3>1
  <2> QED
    BY <1>1, <2>2, <2>3
<1>4. last = IF rest = <<>> THEN q[1].seq ELSE rest[Len(rest)].seq
  <2>1. last = q[n].seq
    BY DEF NoGap
  <2>2. n # 1 => n - 1 \in 1 .. n - 1 /\ (n - 1) + 1 = n
    BY <1>1
  <2> QED
    BY <1>1, <1>2, <2>1, <2>2
<1>5. NoGap(rest, q[1].seq, last)
  BY <1>1, <1>3, <1>4 DEF NoGap
<1> QED
  BY <1>1, <1>5 DEF rest

\* What FanOut sends is what has become of the document.
LEMMA FanOutFeed ==
  ASSUME TypeOK, FeedInv, NEW m \in Message, FanOut(m), UNCHANGED <<stage, attached, view>>,
         m.kind = "delta" => m.seq = doc.seq + 1,
         doc'.seq = m.seq, doc'.text = Applied(doc.text, m)
  PROVE  FeedInv'
<1> SUFFICES ASSUME attached', known'
             PROVE  NoGap(feed', view'.seq, doc'.seq) /\ after(view'.text, feed') = doc'.text
  BY DEF FeedInv
<1>1. attached /\ known /\ feed' = Append(feed, m)
  BY DEF FanOut, known
<1>2. feed \in Seq(Message) /\ view.seq \in Nat /\ doc.seq \in Nat /\ view.text \in Text
  BY DEF TypeOK
<1>3. NoGap(feed, view.seq, doc.seq) /\ after(view.text, feed) = doc.text
  BY <1>1 DEF FeedInv
<1>4. NoGap(Append(feed, m), view.seq, m.seq)
  BY <1>2, <1>3, NoGapAppend
<1>5. after(view.text, Append(feed, m)) = Applied(doc.text, m)
  BY <1>2, <1>3, AfterAppend
<1> QED
  BY <1>1, <1>4, <1>5

\* Most steps touch neither the document's text nor what is sent.
LEMMA FrameFeed ==
  ASSUME FeedInv, UNCHANGED <<feed, view>>, doc'.text = doc.text, doc'.seq = doc.seq,
         attached' => attached, known' => known
  PROVE  FeedInv'
<1> QED
  BY DEF FeedInv

LEMMA DeliverFeed == ASSUME TypeOK, FeedInv, DeliverDelta \/ DeliverSnapshot PROVE FeedInv'
<1> DEFINE m == Head(up)
<1>1. m \in Message /\ m.seq \in Nat /\ m.text \in Text
  BY Queues DEF TypeOK, DeliverDelta, DeliverSnapshot
<1>2. UNCHANGED <<stage, attached, view>>
  BY DEF DeliverDelta, DeliverSnapshot
<1>3. CASE UNCHANGED <<doc, feed>>
  BY <1>2, <1>3, FrameFeed DEF known
<1>4. CASE DeliverDelta /\ ~UNCHANGED <<doc, feed>>
  <2>1. /\ m.kind = "delta" /\ m.seq = doc.seq + 1 /\ FanOut(m)
        /\ doc' = [doc EXCEPT !.text = @ \o m.text, !.seq = m.seq]
    BY <1>4 DEF DeliverDelta, follows
  <2>2. doc'.seq = m.seq /\ doc'.text = Applied(doc.text, m)
    BY <2>1 DEF TypeOK, Applied
  <2> QED
    BY <1>1, <1>2, <2>1, <2>2, FanOutFeed
<1>5. CASE DeliverSnapshot /\ ~UNCHANGED <<doc, feed>>
  <2>1. /\ m.kind = "snapshot" /\ FanOut(m)
        /\ doc' = [text |-> m.text, seq |-> m.seq, snapshotSeq |-> m.seq]
    BY <1>5 DEF DeliverSnapshot
  <2>2. doc'.seq = m.seq /\ doc'.text = Applied(doc.text, m)
    BY <2>1 DEF Applied
  <2> QED
    BY <1>1, <1>2, <2>1, <2>2, FanOutFeed
<1> QED
  BY <1>3, <1>4, <1>5

LEMMA AttachFeed == ASSUME TypeOK, FeedInv, Attach PROVE FeedInv'
<1> DEFINE m == Snapshot(doc.seq, doc.text)
<1>1. doc.seq \in Nat /\ doc.text \in Text /\ view.text \in Text /\ m \in Message
  BY MessagesAreMessages DEF TypeOK
<1>2. m.kind = "snapshot" /\ m.seq = doc.seq /\ m.text = doc.text
  BY DEF Snapshot
<1> HIDE DEF m
<1>3. feed' = <<m>> /\ UNCHANGED <<doc, view>>
  BY DEF Attach, m
<1>4. NoGap(<<m>>, view.seq, doc.seq)
  BY <1>2 DEF NoGap
<1>5. after(view.text, <<m>>) = doc.text
  <2>1. <<m>> = Append(<<>>, m)
    OBVIOUS
  <2>2. after(view.text, <<m>>) = Applied(after(view.text, <<>>), m)
    BY <1>1, <2>1, EmptySeq, AfterAppend
  <2> QED
    BY <1>2, <2>2 DEF Applied
<1> QED
  BY <1>3, <1>4, <1>5 DEF FeedInv

\* The first of them is applied: without a gap it is never asked for again.
LEMMA WatchFeed == ASSUME TypeOK, FeedInv, Watch PROVE FeedInv'
<1> SUFFICES ASSUME attached', known'
             PROVE  NoGap(feed', view'.seq, doc'.seq) /\ after(view'.text, feed') = doc'.text
  BY DEF FeedInv
<1>1. /\ attached /\ known /\ doc' = doc /\ feed # <<>>
  BY DEF Watch, gateway, known
<1>2. /\ NoGap(feed, view.seq, doc.seq) /\ after(view.text, feed) = doc.text
      /\ feed \in Seq(Message) /\ view.text \in Text
  BY <1>1 DEF FeedInv, TypeOK
<1> DEFINE m == Head(feed)
<1>3. m.kind = "delta" => m.seq = view.seq + 1
  <2>1. Len(feed) \in Nat \ {0} /\ Head(feed) = feed[1]
    BY <1>1, <1>2, EmptySeq, HeadTailProperties
  <2> QED
    BY <1>2, <2>1 DEF NoGap
<1>4. /\ feed' = Tail(feed) /\ view'.seq = m.seq /\ view'.text = Applied(view.text, m)
  <2>1. CASE m.kind = "snapshot"
    <3>1. feed' = Tail(feed) /\ view' = [text |-> m.text, seq |-> m.seq]
      BY <2>1 DEF Watch
    <3> QED
      BY <2>1, <3>1 DEF Applied
  <2>2. CASE m.kind # "snapshot"
    <3>1. feed' = Tail(feed) /\ view' = [text |-> view.text \o m.text, seq |-> m.seq]
      BY <1>3, <2>2 DEF Watch
    <3> QED
      BY <2>2, <3>1 DEF Applied
  <2> QED
    BY <2>1, <2>2
<1>5. NoGap(Tail(feed), m.seq, doc.seq)
  BY <1>1, <1>2, NoGapTail
<1>6. after(Applied(view.text, m), Tail(feed)) = doc.text
  BY <1>1, <1>2, AfterTail
<1> QED
  BY <1>1, <1>4, <1>5, <1>6

LEMMA NextFeed == ASSUME TypeOK, FeedInv, [Next]_vars PROVE FeedInv'
<1>1. CASE Type \/ Flush \/ DesyncArrives \/ (\E lang \in Starter : SwitchLanguage(lang))
             \/ Break \/ Reconnect \/ Reload \/ UNCHANGED vars
  <2>1. UNCHANGED <<stage, doc, attached, feed, view>>
    BY <1>1 DEF Type, Flush, DesyncArrives, SwitchLanguage, Break, Reconnect, Reload, vars,
                gateway, spectator
  <2> QED
    BY <2>1, FrameFeed DEF known
<1>2. CASE DeliverDelta \/ DeliverSnapshot \/ Attach \/ Watch
  BY <1>2, DeliverFeed, AttachFeed, WatchFeed
<1>3. CASE PeriodicSnapshot \/ End \/ Close \/ Forget
  <2>1. /\ UNCHANGED <<attached, feed, view>> /\ doc'.text = doc.text /\ doc'.seq = doc.seq
        /\ known' => known
    BY <1>3 DEF PeriodicSnapshot, End, Close, Forget, spectator, known, TypeOK
  <2> QED
    BY <2>1, FrameFeed
<1>4. CASE Detach
  BY <1>4 DEF Detach, FeedInv
<1> QED
  BY <1>1, <1>2, <1>3, <1>4 DEF Next
------------------------------------------------------------------------------
\* A spectator is shown the document as soon as all that was sent has arrived, and never
\* has to ask for it: the numbers of what it is sent have no gap.
THEOREM SpectatorCatchesUp == Spec => []ViewCatchesUp
<1>1. TypeOK /\ FeedInv /\ [Next]_vars => FeedInv'
  BY NextFeed
<1>2. FeedInv => ViewCatchesUp
  BY DEF FeedInv, ViewCatchesUp, NoGap
<1> QED
  BY <1>1, <1>2, InitFeed, TypeCorrect, PTL DEF Spec
------------------------------------------------------------------------------
(* What is on its way to the gateway.                                      *)

\* What is on the way to the gateway, from a text that was written to the editor's: f
\* gives the text after each message, base the number before the first.
Explains(f, base, q, last) ==
  /\ Steps(f, f[0], q)
  /\ NoGap(q, base, last)
  /\ \A i \in 1 .. Len(q) : q[i].kind = "snapshot" => q[i].seq = 0

\* The gateway is where the first message goes on, or behind it - then it takes none.
InStep(f, base) ==
  ~snapshotLost /\ known /\ (up = <<>> \/ up[1].kind = "delta") =>
    doc.seq <= base /\ (doc.seq = base => doc.text = f[0])

Explained ==
  \E base \in Nat : \E f \in [0 .. Len(up) -> written] :
    /\ Explains(f, base, up, seq)
    /\ f[Len(up)] \o pending = text
    /\ InStep(f, base)

TextWasWritten == doc.text \in written \/ snapshotLost
WrittenInv == written \subseteq Text /\ text \in written /\ TextWasWritten /\ Explained

LEMMA Larger ==
  ASSUME NEW n \in Nat, NEW S, NEW T, S \subseteq T, NEW f \in [0 .. n -> S]
  PROVE  f \in [0 .. n -> T]
<1> QED
  OBVIOUS

\* A batch, or a snapshot, that is sent.
LEMMA ExplainsAppend ==
  ASSUME NEW q \in Seq(Message), NEW base \in Nat, NEW last \in Nat,
         NEW W \in SUBSET Text, NEW f \in [0 .. Len(q) -> W], Explains(f, base, q, last),
         NEW m \in Message, Applied(f[Len(q)], m) \in W,
         m.kind = "delta" => m.seq = last + 1, m.kind = "snapshot" => m.seq = 0
  PROVE  \E g \in [0 .. Len(Append(q, m)) -> W] :
           /\ Explains(g, base, Append(q, m), m.seq)
           /\ g[Len(Append(q, m))] = Applied(f[Len(q)], m)
           /\ g[0] = f[0]
<1> DEFINE n == Len(q)
           longer == Append(q, m)
<1>1. /\ n \in Nat /\ longer \in Seq(Message) /\ Len(longer) = n + 1
      /\ longer[n + 1] = m /\ \A i \in 1 .. n : longer[i] = q[i]
  BY LenProperties, AppendProperties
<1>2. NoGap(longer, base, m.seq)
  BY NoGapAppend DEF Explains
<1> DEFINE g == [i \in 0 .. n + 1 |-> IF i = n + 1 THEN Applied(f[n], m) ELSE f[i]]
<1>3. g \in [0 .. n + 1 -> W]
  BY <1>1
<1>4. g[n + 1] = Applied(f[n], m) /\ \A i \in 0 .. n : g[i] = f[i]
  BY <1>1
<1> HIDE DEF g, longer
<1>5. Steps(g, g[0], longer)
  <2>1. ASSUME NEW i \in 1 .. n + 1 PROVE g[i] = Applied(g[i - 1], longer[i])
    <3>1. CASE i = n + 1
      <4>1. n \in 0 .. n /\ i - 1 = n
        BY <1>1, <3>1
      <4> QED
        BY <1>1, <1>4, <3>1, <4>1
    <3>2. CASE i # n + 1
      <4>1. i \in 1 .. n /\ i \in 0 .. n /\ i - 1 \in 0 .. n
        BY <1>1, <3>2
      <4>2. f[i] = Applied(f[i - 1], q[i])
        BY <4>1 DEF Explains, Steps
      <4> QED
        BY <1>1, <1>4, <4>1, <4>2
    <3> QED
      BY <3>1, <3>2
  <2> QED
    BY <1>1, <2>1 DEF Steps
<1>6. \A i \in 1 .. n + 1 : longer[i].kind = "snapshot" => longer[i].seq = 0
  <2>1. \A i \in 1 .. n + 1 : i = n + 1 \/ i \in 1 .. n
    BY <1>1
  <2> QED
    BY <1>1, <2>1 DEF Explains
<1>7. Explains(g, base, longer, m.seq) /\ g[0] = f[0]
  BY <1>1, <1>2, <1>4, <1>5, <1>6 DEF Explains
<1>8. \E h \in [0 .. n + 1 -> W] :
        Explains(h, base, longer, m.seq) /\ h[n + 1] = Applied(f[n], m) /\ h[0] = f[0]
  BY <1>3, <1>4, <1>7, Zenon
<1> QED
  BY <1>1, <1>8 DEF longer

\* The first message taken off.
LEMMA ExplainsTail ==
  ASSUME NEW q \in Seq(Message), q # <<>>, NEW base, NEW last,
         NEW W, NEW f \in [0 .. Len(q) -> W], Explains(f, base, q, last)
  PROVE  \E g \in [0 .. Len(Tail(q)) -> W] :
           /\ Explains(g, Head(q).seq, Tail(q), last)
           /\ g[Len(Tail(q))] = f[Len(q)]
           /\ g[0] = f[1] /\ f[1] = Applied(f[0], Head(q)) /\ f[1] \in W
<1> DEFINE n == Len(q)
           rest == Tail(q)
<1>1. /\ n \in Nat \ {0} /\ rest \in Seq(Message) /\ Len(rest) = n - 1
      /\ \A i \in 1 .. n - 1 : rest[i] = q[i + 1]
      /\ Head(q) = q[1]
  BY EmptySeq, HeadTailProperties
<1>2. NoGap(rest, Head(q).seq, last)
  BY NoGapTail DEF Explains
<1> DEFINE g == [i \in 0 .. n - 1 |-> f[i + 1]]
<1>3. g \in [0 .. n - 1 -> W] /\ \A i \in 0 .. n - 1 : g[i] = f[i + 1]
  BY <1>1
<1>4. f[1] = Applied(f[0], Head(q)) /\ f[1] \in W
  BY <1>1 DEF Explains, Steps
<1> HIDE DEF g, rest
<1>5. Steps(g, g[0], rest)
  <2>1. ASSUME NEW i \in 1 .. n - 1 PROVE g[i] = Applied(g[i - 1], rest[i])
    <3>1. i \in 0 .. n - 1 /\ i - 1 \in 0 .. n - 1 /\ i + 1 \in 1 .. n /\ (i + 1) - 1 = i
          /\ (i - 1) + 1 = i
      BY <1>1
    <3>2. f[i + 1] = Applied(f[i], q[i + 1])
      BY <3>1 DEF Explains, Steps
    <3>3. g[i] = f[i + 1] /\ g[i - 1] = f[i] /\ rest[i] = q[i + 1]
      BY <1>1, <1>3, <3>1
    <3> QED
      BY <3>2, <3>3
  <2> QED
    BY <1>1, <2>1 DEF Steps
<1>6. \A i \in 1 .. n - 1 : rest[i].kind = "snapshot" => rest[i].seq = 0
  <2>1. \A i \in 1 .. n - 1 : i + 1 \in 1 .. n
    BY <1>1
  <2> QED
    BY <1>1, <2>1 DEF Explains
<1>7. Explains(g, Head(q).seq, rest, last)
  BY <1>1, <1>2, <1>5, <1>6 DEF Explains
<1>8. g[n - 1] = f[n] /\ g[0] = f[1]
  <2>1. n - 1 \in 0 .. n - 1 /\ 0 \in 0 .. n - 1 /\ (n - 1) + 1 = n /\ 0 + 1 = 1
    BY <1>1
  <2> QED
    BY <1>3, <2>1
<1>9. \E h \in [0 .. n - 1 -> W] :
        /\ Explains(h, Head(q).seq, rest, last) /\ h[n - 1] = f[n]
        /\ h[0] = f[1] /\ f[1] = Applied(f[0], Head(q)) /\ f[1] \in W
  BY <1>3, <1>4, <1>7, <1>8, Zenon
<1> QED
  BY <1>1, <1>9 DEF rest

\* As long as no snapshot is among them, the batches are counted by their numbers.
LEMMA DeltasCount ==
  ASSUME NEW q \in Seq(Message), NEW base \in Nat, NEW last, NoGap(q, base, last),
         \A i \in 1 .. Len(q) : q[i].kind = "delta"
  PROVE  last = base + Len(q)
<1> DEFINE n == Len(q)
           S == {i \in 0 .. n : i = 0 \/ q[i].seq = base + i}
<1>1. n \in Nat /\ (q = <<>> <=> n = 0)
  BY LenProperties, EmptySeq
<1>2. 0 \in S
  BY <1>1
<1>3. ASSUME NEW i \in 1 .. n, i - 1 \in S PROVE i \in S
  <2>1. q[i].seq = (IF i = 1 THEN base ELSE q[i - 1].seq) + 1
    BY DEF NoGap
  <2>2. i # 1 => q[i - 1].seq = base + (i - 1)
    BY <1>3
  <2>3. q[i].seq = base + i
    BY <2>1, <2>2
  <2> QED
    BY <1>1, <2>3
<1> HIDE DEF S
<1>4. \A i \in 0 .. n : i \in S
  BY <1>1, <1>2, <1>3, UpTo
<1>5. n \in S
  BY <1>1, <1>4
<1> QED
  BY <1>1, <1>5 DEF NoGap, S

LEMMA InitWritten == Init => WrittenInv
<1> SUFFICES ASSUME Init PROVE WrittenInv
  OBVIOUS
<1>1. <<PYTHON3>> \in Text /\ <<>> \in Text
  BY Starters DEF Starter, Text
<1> DEFINE m == Snapshot(0, <<PYTHON3>>)
           f == [i \in 0 .. 1 |-> IF i = 0 THEN <<>> ELSE <<PYTHON3>>]
<1>2. /\ up = <<m>> /\ m.kind = "snapshot" /\ m.seq = 0 /\ m.text = <<PYTHON3>>
      /\ written = {<<>>, <<PYTHON3>>} /\ text = <<PYTHON3>> /\ seq = 0
  BY DEF Init, Snapshot
<1>3. Len(up) = 1 /\ up[1] = m /\ up # <<>>
  BY <1>2
<1>4. f \in [0 .. 1 -> written] /\ f[0] = <<>> /\ f[1] = <<PYTHON3>>
  BY <1>2
<1> HIDE DEF m, f
<1>5. Explains(f, 0, up, seq)
  <2>1. \A i \in 1 .. 1 : i = 1
    OBVIOUS
  <2> QED
    BY <1>2, <1>3, <1>4, <2>1 DEF Explains, Steps, NoGap, Applied
<1>6. f[1] \o pending = text
  BY <1>1, <1>2, <1>4, ConcatEmptySeq DEF Init, Text
<1>7. InStep(f, 0)
  BY <1>2, <1>3 DEF InStep
<1>8. Explained
  BY <1>3, <1>4, <1>5, <1>6, <1>7 DEF Explained
<1>9. TextWasWritten
  BY DEF Init, TextWasWritten
<1> QED
  BY <1>1, <1>2, <1>8, <1>9 DEF WrittenInv

\* What the editor sends goes to the end, and does not change how the gateway stands.
LEMMA SendKeeps ==
  ASSUME TypeOK, WrittenInv, NEW m \in Message, up' = Append(up, m), seq' = m.seq,
         m.kind = "delta" => m.seq = seq + 1,
         m.kind = "snapshot" => m.seq = 0,
         m.kind = "delta" => m.text = pending /\ text' = text,
         m.kind = "snapshot" => m.text = text',
         pending' = <<>>, text' \in written', text' \in Text, written' = written \cup {text'},
         UNCHANGED <<stage, doc, snapshotLost>>
  PROVE  WrittenInv'
<1>1. /\ up \in Seq(Message) /\ seq \in Nat /\ doc.seq \in Nat
      /\ written \subseteq Text /\ written' \subseteq Text /\ written \subseteq written'
  BY DEF TypeOK, WrittenInv
<1>2. PICK base \in Nat, f \in [0 .. Len(up) -> written] :
        Explains(f, base, up, seq) /\ f[Len(up)] \o pending = text /\ InStep(f, base)
  BY DEF WrittenInv, Explained
<1>3. Len(up) \in Nat /\ f \in [0 .. Len(up) -> written']
  BY <1>1, LenProperties
<1>4. Applied(f[Len(up)], m) = text'
  BY <1>2 DEF Applied, Message
<1>5. PICK g \in [0 .. Len(up') -> written'] :
        Explains(g, base, up', seq') /\ g[Len(up')] = text' /\ g[0] = f[0]
  BY <1>1, <1>2, <1>3, <1>4, ExplainsAppend
<1>6. g[Len(up')] \o pending' = text'
  BY <1>5, ConcatEmptySeq DEF Text
<1>7. InStep(g, base)'
  <2>1. up # <<>> => up'[1] = up[1]
    BY <1>1, EmptySeq, AppendProperties, <1>3
  <2>2. up' # <<>>
    BY <1>1, EmptySeq, AppendProperties
  <2> QED
    BY <1>2, <1>5, <2>1, <2>2 DEF InStep, known
<1>8. Explained'
  BY <1>5, <1>6, <1>7 DEF Explained
<1> QED
  BY <1>1, <1>8 DEF WrittenInv, TextWasWritten

LEMMA SendWritten ==
  ASSUME TypeOK, WrittenInv, source = text, ~misreported',
         Flush \/ DesyncArrives \/ \E lang \in Starter : SwitchLanguage(lang)
  PROVE  WrittenInv'
<1>1. text \in Text /\ text \in written /\ seq \in Nat /\ pending \in Seq(1 .. MaxEdits)
  BY DEF TypeOK, WrittenInv
<1>2. CASE Flush
  <2> DEFINE m == Delta(seq + 1, pending)
  <2>1. m \in Message /\ m.kind = "delta" /\ m.seq = seq + 1 /\ m.text = pending
    <3>1. seq + 1 \in Nat /\ pending \in Text
      BY <1>1, ChangesAreText
    <3> QED
      BY <3>1, MessagesAreMessages DEF Delta
  <2> HIDE DEF m
  <2>2. /\ up' = Append(up, m) /\ seq' = seq + 1 /\ pending' = <<>> /\ text' = text
        /\ written' = written /\ UNCHANGED <<stage, doc, snapshotLost>>
    BY <1>2 DEF Flush, gateway, history, m
  <2> QED
    BY <1>1, <2>1, <2>2, SendKeeps
<1>3. CASE DesyncArrives \/ \E lang \in Starter : SwitchLanguage(lang)
  <2>1. /\ text' \in Text /\ written' = written \cup {text'} /\ StartAgain(text')
        /\ UNCHANGED <<stage, doc, snapshotLost>>
    <3>1. CASE DesyncArrives
      BY <1>1, <3>1 DEF DesyncArrives, gateway, history
    <3>2. ASSUME NEW lang \in Starter, SwitchLanguage(lang), lang # language
          PROVE  /\ text' \in Text /\ written' = written \cup {text'} /\ StartAgain(text')
                 /\ UNCHANGED <<stage, doc, snapshotLost>>
      BY <3>2, Starters DEF SwitchLanguage, Hold, gateway
    <3>3. ASSUME NEW lang \in Starter, SwitchLanguage(lang), lang = language
          PROVE  /\ text' \in Text /\ written' = written \cup {text'} /\ StartAgain(text')
                 /\ UNCHANGED <<stage, doc, snapshotLost>>
      <4>1. text = <<lang>> /\ text' = text /\ written' = written /\ StartAgain(<<lang>>)
        BY <3>3 DEF SwitchLanguage
      <4> QED
        BY <1>1, <3>3, <4>1 DEF SwitchLanguage, gateway
    <3> QED
      BY <1>3, <3>1, <3>2, <3>3
  <2> DEFINE m == Snapshot(0, text')
  <2>2. m \in Message /\ m.kind = "snapshot" /\ m.seq = 0 /\ m.text = text'
    BY <2>1, MessagesAreMessages DEF Snapshot
  <2> HIDE DEF m
  <2>3. up' = Append(up, m) /\ seq' = 0 /\ pending' = <<>>
    BY <2>1 DEF StartAgain, m
  <2> QED
    BY <2>1, <2>2, <2>3, SendKeeps
<1> QED
  BY <1>2, <1>3

LEMMA TypeWritten == ASSUME TypeOK, WrittenInv, Type PROVE WrittenInv'
<1> DEFINE e == edits + 1
<1>1. /\ e \in 1 .. MaxEdits /\ text \in Text /\ pending \in Seq(1 .. MaxEdits)
      /\ pending \in Text /\ written \subseteq Text
  BY RelayAssumption, ChangesAreText DEF TypeOK, Type, WrittenInv
<1> HIDE DEF e
<1>2. /\ text' = Append(text, e) /\ pending' = Append(pending, e)
      /\ written' = written \cup {text'} /\ UNCHANGED <<seq, up, stage, doc, snapshotLost>>
  BY DEF Type, Hold, gateway, e
<1>3. text' \in Text
  BY <1>1, <1>2 DEF Text
<1>4. PICK base \in Nat, f \in [0 .. Len(up) -> written] :
        Explains(f, base, up, seq) /\ f[Len(up)] \o pending = text /\ InStep(f, base)
  BY DEF WrittenInv, Explained
<1>5. f \in [0 .. Len(up) -> written']
  BY <1>2
<1>6. f[Len(up)] \o pending' = text'
  <2>1. Len(up) \in Nat /\ f[Len(up)] \in Text
    BY <1>1, LenProperties DEF TypeOK
  <2>2. f[Len(up)] \o Append(pending, e) = Append(f[Len(up)] \o pending, e)
    BY <1>1, <2>1 DEF Text
  <2> QED
    BY <1>2, <1>4, <2>2
<1>7. InStep(f, base)'
  BY <1>2, <1>4 DEF InStep, known
<1>8. Explained'
  BY <1>2, <1>4, <1>5, <1>6, <1>7 DEF Explained
<1> QED
  BY <1>1, <1>2, <1>3, <1>8 DEF WrittenInv, TextWasWritten

\* A connection that breaks without a snapshot on its way leaves the gateway behind, or
\* where the editor is.
LEMMA BreakWritten == ASSUME TypeOK, WrittenInv, Break PROVE WrittenInv'
<1>1. /\ up \in Seq(Message) /\ seq \in Nat /\ doc.seq \in Nat /\ Len(up) \in Nat
  BY LenProperties DEF TypeOK
<1>2. /\ up' = <<>> /\ UNCHANGED <<text, seq, pending, written, stage, doc>>
      /\ snapshotLost' = (snapshotLost \/ \E i \in DOMAIN up : up[i].kind = "snapshot")
  BY DEF Break, Lose, page, gateway
<1>3. PICK base \in Nat, f \in [0 .. Len(up) -> written] :
        Explains(f, base, up, seq) /\ f[Len(up)] \o pending = text /\ InStep(f, base)
  BY DEF WrittenInv, Explained
<1>0. PICK b \in Nat : b = seq
  BY <1>1
<1>4. PICK g \in [0 .. 0 -> written] : g[0] = f[Len(up)]
  <2>1. f[Len(up)] \in written
    BY <1>1
  <2>2. [i \in 0 .. 0 |-> f[Len(up)]] \in [0 .. 0 -> written]
    BY <2>1
  <2> QED
    BY <2>2
<1>5. Explains(g, b, <<>>, b)
  BY DEF Explains, Steps, NoGap
<1>6. ASSUME ~snapshotLost', known'
      PROVE  doc.seq <= b /\ (doc.seq = b => doc.text = g[0])
  <2>1. ~snapshotLost /\ known /\ \A i \in DOMAIN up : up[i].kind # "snapshot"
    BY <1>2, <1>6 DEF known
  <2>2. \A i \in 1 .. Len(up) : up[i].kind = "delta"
    <3>1. \A i \in 1 .. Len(up) : i \in DOMAIN up /\ up[i] \in Message
      BY <1>1, LenProperties, ElementOfSeq
    <3> QED
      BY <2>1, <3>1 DEF Message
  <2>3. seq = base + Len(up)
    BY <1>1, <1>3, <2>2, DeltasCount DEF Explains
  <2>4. doc.seq <= base /\ (doc.seq = base => doc.text = f[0])
    <3>1. up = <<>> \/ 1 \in 1 .. Len(up)
      BY <1>1, EmptySeq
    <3> QED
      BY <1>3, <2>1, <2>2, <3>1 DEF InStep
  <2> QED
    BY <1>0, <1>1, <1>4, <2>3, <2>4
<1>7. InStep(g, b)'
  <2>1. doc' = doc
    BY <1>2
  <2> QED
    BY <1>6, <2>1 DEF InStep
<1>8. Explained'
  <2>1. Len(up') = 0 /\ g \in [0 .. Len(up') -> written']
    BY <1>2, <1>4
  <2>2. Explains(g, b, up', seq') /\ g[Len(up')] \o pending' = text'
    BY <1>0, <1>2, <1>3, <1>4, <1>5, <2>1
  <2> QED
    BY <1>7, <2>1, <2>2 DEF Explained
<1> QED
  BY <1>2, <1>8 DEF WrittenInv, TextWasWritten

LEMMA ReloadWritten == ASSUME TypeOK, WrittenInv, Reload PROVE WrittenInv'
<1>1. <<PYTHON3>> \in Text
  BY Starters DEF Starter
<1> DEFINE m == Snapshot(0, <<PYTHON3>>)
           f == [i \in 0 .. 1 |-> <<PYTHON3>>]
<1>2. /\ up' = <<m>> /\ m.kind = "snapshot" /\ m.seq = 0 /\ m.text = <<PYTHON3>>
      /\ text' = <<PYTHON3>> /\ written' = written \cup {<<PYTHON3>>} /\ seq' = 0
      /\ pending' = <<>> /\ doc' = doc /\ (snapshotLost => snapshotLost')
  BY DEF Reload, Hold, Lose, Snapshot, gateway
<1>3. Len(up') = 1 /\ up'[1] = m /\ up' # <<>>
  BY <1>2
<1>4. f \in [0 .. 1 -> written'] /\ f[0] = <<PYTHON3>> /\ f[1] = <<PYTHON3>>
  BY <1>2
<1> HIDE DEF m, f
<1>5. Explains(f, 0, up', seq')
  <2>1. \A i \in 1 .. 1 : i = 1
    OBVIOUS
  <2> QED
    BY <1>2, <1>3, <1>4, <2>1 DEF Explains, Steps, NoGap, Applied
<1>6. f[1] \o pending' = text'
  BY <1>1, <1>2, <1>4, ConcatEmptySeq DEF Text
<1>7. InStep(f, 0)'
  BY <1>2, <1>3 DEF InStep
<1>8. Explained'
  BY <1>3, <1>4, <1>5, <1>6, <1>7 DEF Explained
<1> QED
  BY <1>1, <1>2, <1>8 DEF WrittenInv, TextWasWritten

\* A message arrives.  One that is not taken leaves the gateway behind until a snapshot.
LEMMA DeliverWritten ==
  ASSUME TypeOK, WrittenInv, DeliverDelta \/ DeliverSnapshot PROVE WrittenInv'
<1> DEFINE m == Head(up)
<1>1. /\ up # <<>> /\ up' = Tail(up) /\ up \in Seq(Message) /\ up' \in Seq(Message)
      /\ UNCHANGED <<text, seq, pending, written, stage, snapshotLost>>
  BY Queues DEF DeliverDelta, DeliverSnapshot, page, history, TypeOK
<1>2. m \in Message /\ m.seq \in Nat /\ m.text \in Text /\ doc.seq \in Nat
  BY <1>1, Queues DEF TypeOK
<1>3. PICK base \in Nat, f \in [0 .. Len(up) -> written] :
        Explains(f, base, up, seq) /\ f[Len(up)] \o pending = text /\ InStep(f, base)
  BY DEF WrittenInv, Explained
<1>4a. PICK b \in Nat : b = m.seq
  BY <1>2
<1>4b. PICK g \in [0 .. Len(Tail(up)) -> written] :
        /\ Explains(g, Head(up).seq, Tail(up), seq)
        /\ g[Len(Tail(up))] = f[Len(up)]
        /\ g[0] = f[1] /\ f[1] = Applied(f[0], Head(up)) /\ f[1] \in written
  <2>1. Explains(f, base, up, seq) /\ up # <<>> /\ up \in Seq(Message)
    BY <1>1, <1>3
  <2> QED
    BY <2>1, ExplainsTail
<1>4. /\ b = m.seq /\ Explains(g, b, Tail(up), seq) /\ g[Len(Tail(up))] = f[Len(up)]
      /\ g[0] = f[1] /\ f[1] = Applied(f[0], m) /\ f[1] \in written
  BY <1>4a, <1>4b
<1>5. /\ up[1] = m /\ (m.kind = "delta" => m.seq = base + 1)
  <2>1. Len(up) \in Nat \ {0} /\ m = up[1]
    BY <1>1, EmptySeq, HeadTailProperties
  <2> QED
    BY <1>3, <2>1 DEF Explains, NoGap
<1> HIDE DEF m
<1>6. (snapshotLost \/ doc'.text = g[0] \/ doc' = doc) /\ InStep(g, b)'
  <2>1. CASE DeliverSnapshot /\ known
    <3>1. doc'.text = m.text /\ doc'.seq = m.seq /\ m.kind = "snapshot"
      BY <2>1 DEF DeliverSnapshot, m
    <3>2. doc'.text = g[0] /\ doc'.seq = b
      BY <1>4, <3>1 DEF Applied
    <3> QED
      BY <1>4, <3>2 DEF InStep
  <2>2. CASE ~known
    <3>1. doc' = doc /\ ~known'
      BY <1>1, <2>2 DEF DeliverSnapshot, DeliverDelta, known
    <3> QED
      BY <3>1 DEF InStep
  <2>3. CASE DeliverDelta /\ known /\ doc' = doc
    <3>1. m.kind = "delta"
      BY <2>3 DEF DeliverDelta, m
    <3>2. ~snapshotLost => doc.seq <= base
      BY <1>3, <1>5, <2>3, <3>1 DEF InStep
    <3>3. ~snapshotLost => doc.seq < b
      BY <1>2, <1>4, <1>5, <3>1, <3>2
    <3> QED
      BY <1>1, <1>2, <1>4, <2>3, <3>3 DEF InStep
  <2>4. CASE DeliverDelta /\ known /\ doc' # doc
    <3>1. /\ m.kind = "delta" /\ m.seq = doc.seq + 1
          /\ doc' = [doc EXCEPT !.text = @ \o m.text, !.seq = m.seq]
      BY <2>4 DEF DeliverDelta, follows, m
    <3>2. doc'.seq = m.seq /\ doc'.text = doc.text \o m.text
      BY <3>1 DEF TypeOK
    <3>3. doc.seq = base
      BY <1>2, <1>5, <3>1
    <3>4. ~snapshotLost => doc'.text = g[0]
      <4>1. ~snapshotLost => doc.text = f[0]
        BY <1>3, <1>5, <2>4, <3>1, <3>3 DEF InStep
      <4> QED
        BY <1>4, <3>1, <3>2, <4>1 DEF Applied
    <3>5. doc'.seq = b
      BY <1>4, <3>2
    <3> QED
      BY <1>1, <1>4, <3>4, <3>5 DEF InStep
  <2> QED
    BY <2>1, <2>2, <2>3, <2>4
<1>7. Explained'
  <2>1. g \in [0 .. Len(up') -> written'] /\ Explains(g, b, up', seq')
    BY <1>1, <1>4
  <2>2. g[Len(up')] \o pending' = text'
    BY <1>1, <1>3, <1>4
  <2> QED
    BY <1>6, <2>1, <2>2 DEF Explained
<1>8. TextWasWritten'
  BY <1>1, <1>4, <1>6 DEF WrittenInv, TextWasWritten
<1> QED
  BY <1>1, <1>7, <1>8 DEF WrittenInv

LEMMA FrameWritten ==
  ASSUME WrittenInv, UNCHANGED <<page, up, written, snapshotLost>>,
         doc'.text = doc.text, doc'.seq = doc.seq, known' => known
  PROVE  WrittenInv'
<1>1. UNCHANGED <<text, seq, pending>>
  BY DEF page
<1>2. PICK base \in Nat, f \in [0 .. Len(up) -> written] :
        Explains(f, base, up, seq) /\ f[Len(up)] \o pending = text /\ InStep(f, base)
  BY DEF WrittenInv, Explained
<1>3. InStep(f, base)'
  BY <1>2 DEF InStep
<1>4. Explained'
  <2>1. f \in [0 .. Len(up') -> written'] /\ Explains(f, base, up', seq')
    BY <1>1, <1>2
  <2>2. f[Len(up')] \o pending' = text'
    BY <1>1, <1>2
  <2> QED
    BY <1>3, <2>1, <2>2 DEF Explained
<1> QED
  BY <1>1, <1>4 DEF WrittenInv, TextWasWritten

LEMMA NextWritten ==
  ASSUME TypeOK, WrittenInv, source = text, ~misreported', [Next]_vars PROVE WrittenInv'
<1>1. ASSUME NEW lang \in Starter, SwitchLanguage(lang) PROVE WrittenInv'
  BY <1>1, SendWritten
<1>2. CASE Type \/ Flush \/ DesyncArrives \/ Break \/ Reload
  BY <1>2, TypeWritten, SendWritten, BreakWritten, ReloadWritten
<1>3. CASE DeliverDelta \/ DeliverSnapshot
  BY <1>3, DeliverWritten
<1>4. CASE \/ Reconnect \/ PeriodicSnapshot \/ End \/ Close \/ Forget
           \/ Attach \/ Detach \/ Watch \/ UNCHANGED vars
  <2>1. UNCHANGED <<page, up, written, snapshotLost>>
    BY <1>4 DEF Reconnect, PeriodicSnapshot, End, Close, Forget, Attach, Detach,
                Watch, vars, history
  <2>2. doc'.text = doc.text /\ doc'.seq = doc.seq
    BY <1>4 DEF Reconnect, PeriodicSnapshot, End, Close, Forget, Attach, Detach,
                Watch, vars, gateway, TypeOK
  <2>3. known' => known
    BY <1>4 DEF Reconnect, PeriodicSnapshot, End, Close, Forget, Attach, Detach,
                Watch, vars, gateway, known
  <2> QED
    BY <2>1, <2>2, <2>3, FrameWritten
<1> QED
  BY <1>1, <1>2, <1>3, <1>4 DEF Next
------------------------------------------------------------------------------
\* What a page has misreported stays misreported.
LEMMA MisreportedForGood == ASSUME [Next]_vars, ~misreported' PROVE ~misreported
<1>1. ASSUME NEW lang \in Starter, SwitchLanguage(lang) PROVE ~misreported
  BY <1>1 DEF SwitchLanguage
<1>2. CASE \/ Type \/ Flush \/ DesyncArrives \/ Break \/ Reload \/ Reconnect \/ DeliverDelta
           \/ DeliverSnapshot \/ PeriodicSnapshot \/ End \/ Close \/ Forget \/ Attach \/ Detach
           \/ Watch \/ UNCHANGED vars
  BY <1>2 DEF Type, Flush, DesyncArrives, Break, Reload, Reconnect, DeliverDelta,
              DeliverSnapshot, PeriodicSnapshot, End, Close, Forget, Attach, Detach, Watch,
              vars, history
<1> QED
  BY <1>1, <1>2 DEF Next

\* As long as it has misreported nothing, it takes for the text of the editor what that is.
LEMMA NextSource ==
  ASSUME source = text, ~misreported, ~misreported', [Next]_vars PROVE source' = text'
<1>1. ASSUME NEW lang \in Starter, SwitchLanguage(lang) PROVE source' = text'
  <2>1. CASE lang # language
    BY <1>1, <2>1 DEF SwitchLanguage, Hold
  <2>2. CASE lang = language
    BY <1>1, <2>2 DEF SwitchLanguage
  <2> QED
    BY <2>1, <2>2
<1>2. CASE Type \/ Flush \/ DesyncArrives \/ Break \/ Reload
  BY <1>2 DEF Type, Flush, DesyncArrives, Break, Reload, Hold, page, history
<1>3. CASE \/ Reconnect \/ DeliverDelta \/ DeliverSnapshot \/ PeriodicSnapshot \/ End \/ Close
           \/ Forget \/ Attach \/ Detach \/ Watch \/ UNCHANGED vars
  BY <1>3 DEF Reconnect, DeliverDelta, DeliverSnapshot, PeriodicSnapshot, End, Close, Forget,
              Attach, Detach, Watch, vars, page, history
<1> QED
  BY <1>1, <1>2, <1>3 DEF Next

Reported == misreported \/ (source = text /\ WrittenInv)

\* The gateway's document is always a text the editor has held: batches that are late,
\* lost or refused never make another one of it.  Only a lost snapshot may, and a page
\* that misreports its own text.
THEOREM NothingIsMadeUp == Spec => []OnlyWrittenText
<1>1. Init => Reported
  BY InitWritten DEF Init, Reported
<1>2. ASSUME TypeOK, Reported, [Next]_vars PROVE Reported'
  <2>1. CASE misreported'
    BY <2>1 DEF Reported
  <2>2. CASE ~misreported'
    <3>1. ~misreported
      BY <1>2, <2>2, MisreportedForGood
    <3>2. source = text /\ WrittenInv
      BY <1>2, <3>1 DEF Reported
    <3> QED
      BY <1>2, <2>2, <3>1, <3>2, NextSource, NextWritten DEF Reported
  <2> QED
    BY <2>1, <2>2
<1>3. Reported => OnlyWrittenText
  BY DEF Reported, WrittenInv, TextWasWritten, OnlyWrittenText
<1> QED
  BY <1>1, <1>2, <1>3, TypeCorrect, PTL DEF Spec
==============================================================================
