------------------------------- MODULE MCRelay -------------------------------
(***************************************************************************)
(* Checking Relay.  Three edits make two batches with a change between     *)
(* them, or one that is too long; two breaks lose a message and then what  *)
(* was sent to repair the loss.                                            *)
(*                                                                         *)
(* Playback and Splice have no steps; what they make of a log, and of a    *)
(* batch of changes, is checked here over all short ones.                  *)
(***************************************************************************)
EXTENDS Relay

P == INSTANCE Playback WITH IDLE_MARK_MS <- 2

\* Logs of four events after the first, written one after the other.
Entry == {"editor.delta", "editor.snapshot", "submission.verdict"} \X {"p1", "p2"}
Offsets == {at \in [1 .. 4 -> 1 .. 4] : \A i \in 1 .. 3 : at[i] <= at[i + 1]}
Logged(at, entries) ==
  <<[seq |-> 1, offsetMs |-> 0, kind |-> "match.created", side |-> "none", text |-> <<>>]>> \o
  [i \in 1 .. 4 |-> [seq |-> i + 1, offsetMs |-> at[i], kind |-> entries[i][1],
                      side |-> entries[i][2], text |-> <<i>>]]

\* A log cut off anywhere, in the middle of a line or not, is read as ending there.
ASSUME CutLogsArePrefixes ==
  \A at \in Offsets, n \in 1 .. 5, tail \in {<<>>, <<P!Torn>>} :
    LET kept == SubSeq(Logged(at, [i \in 1 .. 4 |-> <<"editor.delta", "p1">>]), 1, n)
        read == P!parseReplay(kept \o tail)
    IN  /\ read.ok /\ read.events = kept
        /\ P!parseLog(kept \o tail).events = kept
        /\ P!checkSequence(read.events)

\* A document is its last snapshot and the changes since.  A pause is marked between
\* an edit and the next of the same side.
ASSUME LogsAreReadBack ==
  \A at \in Offsets, entries \in [1 .. 4 -> Entry] :
    LET log == Logged(at, entries)
        editsOf(side) == {i \in 2 .. 5 : P!isEdit(log[i]) /\ log[i].side = side}
        heard(side, ms) == {i \in editsOf(side) : log[i].offsetMs <= ms}
        whole(side, ms) == {i \in heard(side, ms) :
                              \A j \in heard(side, ms) : log[j].kind = "editor.snapshot" => j <= i}
        pauses == {P!Mark(log[i].offsetMs, "idle", side) :
                     <<side, i>> \in {<<s, j>> \in {"p1", "p2"} \X (2 .. 5) :
                       \E k \in editsOf(s) :
                         /\ j \in editsOf(s) /\ j < k
                         /\ \A e \in editsOf(s) : ~(j < e /\ e < k)
                         /\ log[k].offsetMs - log[j].offsetMs >= 2}}
        marks == P!markersOf(log)
    IN  /\ \A ms \in 0 .. 4, side \in {"p1", "p2"} :
             P!documentsAt(log, ms)[side] =
               [i \in 1 .. Cardinality(whole(side, ms)) |-> SetToSortSeq(whole(side, ms), <)[i] - 1]
        /\ {marks[i] : i \in {j \in DOMAIN marks : marks[j].kind = "idle"}} = pauses
        /\ \A i \in 1 .. Len(marks) - 1 : marks[i].offsetMs <= marks[i + 1].offsetMs

\* The changes of one event, as the editor lists them: from the last to the first of
\* the text, none touching another.
D == INSTANCE Splice WITH MAX_DOC_CHARS <- 3
Piece == {<<>>, <<"a">>, <<"a", "b">>}
Change == [offset : 0 .. 3, length : 0 .. 2, text : Piece]
Batch(t) == {<<>>} \cup {<<c>> : c \in {d \in Change : d.offset + d.length <= Len(t)}}
Batches(t) ==
  Batch(t) \cup
  {<<c, d>> : <<c, d>> \in {pair \in Change \X Change :
     /\ pair[1].offset + pair[1].length <= Len(t)
     /\ pair[2].offset + pair[2].length <= pair[1].offset
     /\ pair[2].offset < pair[1].offset}}

\* What the batch means: every change at its place in the text there was before it.
atOnce(t, changes) ==
  LET at(i) == SelectSeq(changes, LAMBDA c : c.offset = i)
      inserted(i) == IF at(i) = <<>> THEN <<>> ELSE at(i)[1].text
      kept(i) == i > 0 /\ \A k \in DOMAIN changes :
                   ~(changes[k].offset < i /\ i <= changes[k].offset + changes[k].length)
  IN  FlattenSeq([j \in 1 .. Len(t) + 1 |->
                    (IF kept(j - 1) THEN <<t[j - 1]>> ELSE <<>>) \o inserted(j - 1)])

\* Applied one after the other, in the order they come in, the changes do what they
\* do at once - in the gateway only while the text is not too long.
ASSUME ChangesLandWhereTheyWereMade ==
  \A t \in UNION {[1 .. n -> {"x", "y"}] : n \in 0 .. 3} : \A changes \in Batches(t) :
    /\ D!mirrorChanges(t, changes) = atOnce(t, changes)
    /\ Len(D!applyChanges(t, changes)) <= 3
    /\ (\A k \in 0 .. Len(changes) : Len(D!mirrorChanges(t, SubSeq(changes, 1, k))) <= 3)
         => D!applyChanges(t, changes) = atOnce(t, changes)
=============================================================================
