-------------------------------- MODULE Playback --------------------------------
(***************************************************************************)
(* Reading a match's log back (core: replay.ts, event-log.ts): what a file *)
(* parses to, both documents as of a moment, and the marks on the time     *)
(* line.                                                                   *)
(*                                                                         *)
(* A file is a sequence of lines, each an event or Torn, a line that does  *)
(* not parse.  An event has its number, its offset from the start of the   *)
(* match, a kind, a side and a text; a text is a sequence of changes, as   *)
(* in Relay.  Logs are of the present schema version.                      *)
(***************************************************************************)
EXTENDS Integers, SequencesExt

CONSTANT IDLE_MARK_MS    \* the shortest pause that is marked

Torn == [kind |-> "torn"]
isTorn(line) == line.kind = "torn"
bySeq(events) == SortSeq(events, LAMBDA one, other : one.seq < other.seq)
legible(file) == bySeq(SelectSeq(file, LAMBDA line : ~isTorn(line)))

\* A line that does not parse is left out.
parseLog(file) ==
  [events |-> legible(file), malformed |-> Len(SelectSeq(file, isTorn))]

\* Only the last line may be torn, and a log has a beginning.
parseReplay(file) ==
  IF \E i \in 1 .. Len(file) - 1 : isTorn(file[i]) THEN [ok |-> FALSE, reason |-> "corrupt"]
  ELSE IF legible(file) = <<>> THEN [ok |-> FALSE, reason |-> "empty"]
  ELSE IF \A e \in Range(legible(file)) : e.kind # "match.created"
       THEN [ok |-> FALSE, reason |-> "no beginning"]
  ELSE [ok |-> TRUE, events |-> legible(file)]

checkSequence(events) == \A i \in DOMAIN events : events[i].seq = i
------------------------------------------------------------------------------
isEdit(event) == event.kind \in {"editor.snapshot", "editor.delta"}

\* The events up to the first that is later.
until(events, atMs) ==
  LET later == {i \in DOMAIN events : events[i].offsetMs > atMs}
  IN  IF later = {} THEN events ELSE SubSeq(events, 1, Min(later) - 1)

applyEdit(docs, event) ==
  IF event.kind = "editor.snapshot" THEN [docs EXCEPT ![event.side] = event.text]
  ELSE IF event.kind = "editor.delta" THEN [docs EXCEPT ![event.side] = @ \o event.text]
  ELSE docs

documentsAt(events, atMs) ==
  FoldLeft(applyEdit, [p1 |-> <<>>, p2 |-> <<>>], until(events, atMs))

Mark(offsetMs, kind, side) == [offsetMs |-> offsetMs, kind |-> kind, side |-> side]

markOf(event) ==
  CASE event.kind = "match.started"       -> <<Mark(event.offsetMs, "start", "none")>>
    [] event.kind = "submission.received" -> <<Mark(event.offsetMs, "submit", event.side)>>
    [] event.kind = "submission.verdict"  -> <<Mark(event.offsetMs, "verdict", event.side)>>
    [] event.kind = "presence.lost"       -> <<Mark(event.offsetMs, "disconnect", event.side)>>
    [] event.kind = "match.ended"         -> <<Mark(event.offsetMs, "end", "none")>>
    [] OTHER                              -> <<>>

\* A pause is between two edits of one side, and is marked at the first of them.  The
\* offset of the last edit is 0 when there is none.
readEvent(sofar, event) ==
  LET last == sofar.last[event.side]
      pause == isEdit(event) /\ last # 0 /\ event.offsetMs - last >= IDLE_MARK_MS
  IN  [marks |-> sofar.marks \o markOf(event) \o
                   (IF pause THEN <<Mark(last, "idle", event.side)>> ELSE <<>>),
       last  |-> IF isEdit(event) THEN [sofar.last EXCEPT ![event.side] = event.offsetMs]
                 ELSE sofar.last]

markersOf(events) ==
  LET read == FoldLeft(readEvent, [marks |-> <<>>, last |-> [p1 |-> 0, p2 |-> 0]], events)
  IN  SortSeq(read.marks, LAMBDA one, other : one.offsetMs < other.offsetMs)
==============================================================================
