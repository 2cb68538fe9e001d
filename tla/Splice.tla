--------------------------------- MODULE Splice ---------------------------------
(***************************************************************************)
(* What a batch of editor changes does to a text: in the gateway           *)
(* (applyChanges of relay.ts), and in the copies that know no limit on its *)
(* size, the page of a spectator and the replay.                           *)
(*                                                                         *)
(* A change takes length characters away at offset and puts a text there.  *)
(* Offsets count from 0, and past the end of a text mean its end.          *)
(***************************************************************************)
EXTENDS Integers, SequencesExt

CONSTANT MAX_DOC_CHARS

atMost(n, limit) == IF n < limit THEN n ELSE limit

splice(text, change) ==
  LET start == atMost(change.offset, Len(text))
      end == atMost(start + change.length, Len(text))
  IN  SubSeq(text, 1, start) \o change.text \o SubSeq(text, end + 1, Len(text))

\* The first change that makes the text too long is cut, and the last to be applied.
applyChanges(text, changes) ==
  LET step(sofar, change) ==
        LET next == splice(sofar.text, change) IN
        IF sofar.full THEN sofar
        ELSE [text |-> SubSeq(next, 1, atMost(Len(next), MAX_DOC_CHARS)),
              full |-> Len(next) > MAX_DOC_CHARS]
  IN  FoldLeft(step, [text |-> text, full |-> FALSE], changes).text

mirrorChanges(text, changes) == FoldLeft(splice, text, changes)
=================================================================================
