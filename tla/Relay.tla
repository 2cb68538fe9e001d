--------------------------------- MODULE Relay ---------------------------------
(***************************************************************************)
(* One player's editor and its copies: the document the gateway keeps      *)
(* (relay.ts), the replay log, and the page of a spectator.  The two       *)
(* documents of a match do not touch.  The opponent's socket is left out:  *)
(* what goes there is decided by one guard (canSee), while the match is on *)
(* nothing.                                                                *)
(*                                                                         *)
(* The editor numbers its batches and the gateway applies only the number  *)
(* that follows; on a gap it asks for a snapshot.  A snapshot starts the   *)
(* numbers again at 0.  Messages of one connection stay in order, and are  *)
(* lost when it breaks; what the page emits while it is offline is kept    *)
(* and sent when it is back.                                               *)
(*                                                                         *)
(* A text is modelled by the changes it is made of, each with a number of  *)
(* its own, on top of a starter.  The limits on the size of a document are *)
(* left out (a snapshot and a document have the same one), the limit on    *)
(* the changes of a batch is not.                                          *)
(***************************************************************************)
EXTENDS Integers, SequencesExt

CONSTANTS
  MaxEdits,              \* changes and language switches a player makes
  MaxChanges,            \* changes a batch may have: 200
  MaxBreaks,             \* broken connections and reloads
  MaxDetaches

ASSUME RelayAssumption ==
  MaxEdits \in Nat /\ MaxChanges \in Nat /\ MaxBreaks \in Nat /\ MaxDetaches \in Nat

VARIABLES                \* the page of the player
  text,                  \* what is in the editor
  source,                \* sourceRef: what the page takes to be in the editor
  seq,                   \* the number of the last batch
  pending,               \* changes of the batch being collected
  connected,
  up,                    \* messages on their way to the gateway
  desyncs                \* editor.desync on their way back

VARIABLES                \* the gateway
  stage,                 \* "live", "over", "closed" (the log is), "gone"
  doc,                   \* RelayDoc
  replayed,              \* documentsAt the end of the log
  attached               \* the spectator's socket is among match.spectators

VARIABLES                \* the page of the spectator
  feed,                  \* messages on their way there
  view

VARIABLES                \* history
  written,               \* every text the editor has held
  edits, breaks, detaches,
  snapshotLost,
  misreported            \* a text was sent as the editor's that was not the editor's

page == <<text, source, seq, pending>>
gateway == <<stage, doc, replayed, attached>>
spectator == <<feed, view>>
history == <<written, edits, breaks, detaches, snapshotLost, misreported>>
vars == <<page, connected, up, desyncs, gateway, spectator, history>>
------------------------------------------------------------------------------
\* The starters are numbered below the changes.
PYTHON3 == -1
CPP17 == -2
Starter == {PYTHON3, CPP17}
Text == Seq(Starter \cup 1 .. MaxEdits)

\* With FALSE for what a message of that kind does not have.
Delta(n, changes) == [kind |-> "delta", seq |-> n, text |-> changes]
Snapshot(n, whole) == [kind |-> "snapshot", seq |-> n, text |-> whole]
Message == [kind : {"delta", "snapshot"}, seq : Nat, text : Text]

known == stage # "gone"                \* matches.get(matchId)
logOpen == stage \in {"live", "over"}

Init ==
  /\ text = <<PYTHON3>> /\ source = <<PYTHON3>>
  /\ seq = 0
  /\ pending = <<>>
  /\ connected = TRUE
  /\ up = <<Snapshot(0, <<PYTHON3>>)>>
  /\ desyncs = 0
  /\ stage = "live"
  /\ doc = [text |-> <<>>, seq |-> 0, snapshotSeq |-> 0]
  /\ replayed = <<>>
  /\ attached = FALSE
  /\ feed = <<>>
  /\ view = [text |-> <<>>, seq |-> 0]
  /\ written = {<<>>, <<PYTHON3>>}
  /\ edits = 0 /\ breaks = 0 /\ detaches = 0
  /\ snapshotLost = FALSE /\ misreported = FALSE
------------------------------------------------------------------------------
(* The editor.                                                             *)

\* A text begins with the starter of the language it is in.
language == Head(text)

Hold(t) == text' = t /\ source' = t /\ written' = written \cup {t}

Type ==
  /\ edits < MaxEdits
  /\ edits' = edits + 1
  /\ Hold(Append(text, edits + 1))
  /\ pending' = Append(pending, edits + 1)
  /\ UNCHANGED <<seq, connected, up, desyncs, gateway, spectator, breaks, detaches,
                 snapshotLost, misreported>>

\* The batch of the last 50 ms.
Flush ==
  /\ pending # <<>>
  /\ seq' = seq + 1
  /\ up' = Append(up, Delta(seq + 1, pending))
  /\ pending' = <<>>
  /\ UNCHANGED <<text, source, connected, desyncs, gateway, spectator, history>>

\* Ground truth: the whole text, and the numbers start again.
StartAgain(whole) ==
  /\ seq' = 0
  /\ pending' = <<>>
  /\ up' = Append(up, Snapshot(0, whole))

\* The buttons of the languages.  Another language puts a new editor, with its starter,
\* in the place of the old one; a click on the language one is in does not, for the
\* editor goes by its key, but the page does all the rest.
SwitchLanguage(lang) ==
  /\ edits < MaxEdits
  /\ edits' = edits + 1
  /\ \/ lang # language /\ Hold(<<lang>>) /\ UNCHANGED misreported
     \/ /\ lang = language
        /\ source' = <<lang>>
        /\ misreported' = (misreported \/ text # <<lang>>)
        /\ UNCHANGED <<text, written>>
  /\ StartAgain(<<lang>>)
  /\ UNCHANGED <<connected, desyncs, gateway, spectator, breaks, detaches, snapshotLost>>

\* Seeded fault: the editor goes on from the number the gateway expects.
DesyncArrivesRenumbering ==
  /\ connected /\ desyncs > 0
  /\ desyncs' = desyncs - 1
  /\ seq' = doc.seq
  /\ UNCHANGED <<text, source, pending, up, connected, gateway, spectator, history>>

DesyncArrives ==
  /\ connected /\ desyncs > 0
  /\ desyncs' = desyncs - 1
  /\ StartAgain(source)
  /\ UNCHANGED <<text, source, connected, gateway, spectator, history>>

Lose ==
  /\ breaks < MaxBreaks
  /\ breaks' = breaks + 1
  /\ desyncs' = 0
  /\ snapshotLost' = (snapshotLost \/ \E i \in DOMAIN up : up[i].kind = "snapshot")

Break ==
  /\ connected
  /\ Lose
  /\ connected' = FALSE
  /\ up' = <<>>
  /\ UNCHANGED <<page, gateway, spectator, written, edits, detaches, misreported>>

Reconnect ==
  /\ ~connected
  /\ connected' = TRUE
  /\ UNCHANGED <<page, up, desyncs, gateway, spectator, history>>

\* A page that is loaded again starts from the starter; the copy the gateway has
\* is not sent to it.
Reload ==
  /\ Lose
  /\ connected' = TRUE
  /\ Hold(<<PYTHON3>>)
  /\ seq' = 0
  /\ pending' = <<>>
  /\ up' = <<Snapshot(0, <<PYTHON3>>)>>
  /\ UNCHANGED <<gateway, spectator, edits, detaches, misreported>>
------------------------------------------------------------------------------
(* The gateway.                                                            *)

FanOut(message) == feed' = IF attached THEN Append(feed, message) ELSE feed

Record(t) == replayed' = IF logOpen THEN t ELSE replayed

\* Seeded fault: a batch that comes twice or late is applied as well.
followsAnything(message) == TRUE

follows(message) == message.seq = doc.seq + 1

DeliverDelta ==
  /\ connected /\ up # <<>> /\ Head(up).kind = "delta"
  /\ up' = Tail(up)
  /\ LET delta == Head(up) IN
     \/ /\ known /\ Len(delta.text) <= MaxChanges /\ follows(delta)
        /\ doc' = [doc EXCEPT !.text = @ \o delta.text, !.seq = delta.seq]
        /\ Record(replayed \o delta.text)
        /\ FanOut(delta)
        /\ UNCHANGED desyncs
     \/ /\ known /\ Len(delta.text) <= MaxChanges /\ ~follows(delta)
        /\ desyncs' = desyncs + 1
        /\ UNCHANGED <<doc, replayed, feed>>
     \/ /\ ~known \/ Len(delta.text) > MaxChanges      \* refused without a word
        /\ UNCHANGED <<doc, replayed, feed, desyncs>>
  /\ UNCHANGED <<page, connected, stage, attached, view, history>>

\* Seeded fault: a snapshot is not recorded, for it changes nothing a player typed.
DeliverSnapshotUnrecorded ==
  /\ connected /\ up # <<>> /\ Head(up).kind = "snapshot"
  /\ up' = Tail(up)
  /\ IF known
     THEN /\ doc' = [text |-> Head(up).text, seq |-> Head(up).seq,
                     snapshotSeq |-> Head(up).seq]
          /\ FanOut(Head(up))
     ELSE UNCHANGED <<doc, feed>>
  /\ UNCHANGED <<page, connected, desyncs, stage, replayed, attached, view, history>>

DeliverSnapshot ==
  /\ connected /\ up # <<>> /\ Head(up).kind = "snapshot"
  /\ up' = Tail(up)
  /\ IF known
     THEN /\ doc' = [text |-> Head(up).text, seq |-> Head(up).seq,
                     snapshotSeq |-> Head(up).seq]
          /\ Record(Head(up).text)
          /\ FanOut(Head(up))
     ELSE UNCHANGED <<doc, replayed, feed>>
  /\ UNCHANGED <<page, connected, desyncs, stage, attached, view, history>>

needsSnapshot == doc.seq > doc.snapshotSeq

\* Every 30 s, for the log only.
PeriodicSnapshot ==
  /\ stage = "live"
  /\ needsSnapshot
  /\ Record(doc.text)
  /\ doc' = [doc EXCEPT !.snapshotSeq = doc.seq]
  /\ UNCHANGED <<page, connected, up, desyncs, stage, attached, spectator,
                 history>>

\* The terminal state, the closing of the log, and the match leaving the map.
End ==
  /\ stage = "live"
  /\ stage' = "over"
  /\ UNCHANGED <<page, connected, up, desyncs, doc, replayed, attached,
                 spectator, history>>

Close ==
  /\ stage = "over"
  /\ stage' = "closed"
  /\ Record(IF doc.text # <<>> THEN doc.text ELSE replayed)
  /\ UNCHANGED <<page, connected, up, desyncs, doc, attached, spectator,
                 history>>

Forget ==
  /\ stage = "closed"
  /\ stage' = "gone"
  /\ UNCHANGED <<page, connected, up, desyncs, doc, replayed, attached,
                 spectator, history>>
------------------------------------------------------------------------------
(* The viewers.                                                            *)

\* Seeded fault: the spectator waits for the next message.
AttachQuietly ==
  /\ ~attached /\ known
  /\ attached' = TRUE
  /\ UNCHANGED <<page, connected, up, desyncs, stage, doc, replayed, 
                 spectator, history>>

\* spectate.watch of someone who does not play here, first or again: both
\* documents are sent with the acceptance.
Attach ==
  /\ ~attached /\ known
  /\ attached' = TRUE
  /\ feed' = <<Snapshot(doc.seq, doc.text)>>
  /\ UNCHANGED <<page, connected, up, desyncs, stage, doc, replayed, view,
                 history>>

Detach ==
  /\ attached
  /\ detaches < MaxDetaches
  /\ detaches' = detaches + 1
  /\ attached' = FALSE
  /\ feed' = <<>>
  /\ UNCHANGED <<page, connected, up, desyncs, stage, doc, replayed, view,
                 written, edits, breaks, snapshotLost, misreported>>

\* A gap makes the page ask again, which is answered at once.
Watch ==
  /\ feed # <<>>
  /\ LET message == Head(feed) IN
     \/ /\ message.kind = "snapshot"
        /\ view' = [text |-> message.text, seq |-> message.seq]
        /\ feed' = Tail(feed)
     \/ /\ message.kind = "delta" /\ message.seq = view.seq + 1
        /\ view' = [text |-> view.text \o message.text, seq |-> message.seq]
        /\ feed' = Tail(feed)
     \/ /\ message.kind = "delta" /\ message.seq # view.seq + 1
        /\ feed' = Tail(feed) \o
             (IF known /\ attached THEN <<Snapshot(doc.seq, doc.text)>> ELSE <<>>)
        /\ UNCHANGED view
  /\ UNCHANGED <<page, connected, up, desyncs, gateway, history>>

Next ==
  \/ Type \/ Flush \/ DesyncArrives \/ \E lang \in Starter : SwitchLanguage(lang)
  \/ Break \/ Reconnect \/ Reload
  \/ DeliverDelta \/ DeliverSnapshot \/ PeriodicSnapshot \/ End \/ Close \/ Forget
  \/ Attach \/ Detach \/ Watch

\* Intervals fire, a broken connection is made again, messages get through.  The
\* match need not end, the player need not type, nobody need watch.
Fairness ==
  /\ WF_vars(Flush) /\ WF_vars(Reconnect) /\ WF_vars(DesyncArrives)
  /\ WF_vars(DeliverDelta) /\ WF_vars(DeliverSnapshot) /\ WF_vars(Watch)

Spec == Init /\ [][Next]_vars
FairSpec == Spec /\ Fairness
------------------------------------------------------------------------------
TypeOK ==
  /\ text \in Text /\ source \in Text /\ pending \in Seq(1 .. MaxEdits) /\ seq \in Nat
  /\ connected \in BOOLEAN
  /\ up \in Seq(Message) /\ feed \in Seq(Message)
  /\ desyncs \in Nat
  /\ stage \in {"live", "over", "closed", "gone"}
  /\ doc \in [text : Text, seq : Nat, snapshotSeq : Nat] /\ doc.snapshotSeq <= doc.seq
  /\ replayed \in Text
  /\ attached \in BOOLEAN
  /\ view \in [text : Text, seq : Nat]
  /\ edits \in 0 .. MaxEdits /\ breaks \in 0 .. MaxBreaks /\ detaches \in 0 .. MaxDetaches
  /\ snapshotLost \in BOOLEAN /\ misreported \in BOOLEAN

\* The gateway never holds code that nobody wrote, whatever is lost, late or refused.
\* There are two exceptions.  A snapshot was lost: the numbers start again at 0 with
\* one, so the batches after a lost one can fit where they do not belong.  Or the page
\* itself reported a text that its editor did not hold, see SwitchLanguage.
OnlyWrittenText == doc.text \in written \/ snapshotLost \/ misreported

\* The replay of the log gives the gateway's document as long as the log is open,
\* and the one it was closed with ever after.
ReplayIsTheDocument == logOpen => replayed = doc.text

\* What a text becomes when the messages of a feed are applied to it in turn.
after(t, messages) ==
  LET sofar[i \in 0 .. Len(messages)] ==
        IF i = 0 THEN t
        ELSE IF messages[i].kind = "snapshot" THEN messages[i].text
        ELSE sofar[i - 1] \o messages[i].text
  IN  sofar[Len(messages)]

\* A spectator sees the document as soon as all that was sent has arrived, and sees
\* no gap on the way: late, again or from the start.
ViewCatchesUp ==
  attached /\ known =>
    /\ after(view.text, feed) = doc.text
    /\ (feed = <<>> => view.seq = doc.seq)

\* A gap that was noticed is repaired: the gateway has the editor's text again,
\* if the connection holds and the match goes on, and the page knows that text itself.
GapIsRepaired ==
  desyncs > 0 /\ breaks = MaxBreaks ~> doc.text = text \/ ~known \/ misreported
==============================================================================
