----------------------------- MODULE RecordPart -----------------------------
(***************************************************************************)
(* Streams of records, as a part of Stores.                                *)
(***************************************************************************)
EXTENDS Integers, Sequences

CONSTANTS Lengths, HeaderSize, FooterSize, MaxRecordSize, BufferSize, MaxFrames

ASSUME RecordConstants ==
  /\ Lengths \subseteq Nat /\ MaxRecordSize \in Nat /\ BufferSize \in Nat
  /\ HeaderSize \in Nat \ {0} /\ FooterSize \in Nat \ {0}

VARIABLES
  frames, accepted, flushed, offset, sunk, werr, damaged, phase, source, buffered, lastValidOffset, err, scanned

recordVars == <<frames, accepted, flushed, offset, sunk, werr, damaged, phase, source, buffered,
                lastValidOffset, err, scanned>>

Record == INSTANCE RecordIO WITH
  seen <- scanned, MaxRecords <- MaxFrames
-----------------------------------------------------------------------------
(* The Scanner returns the records in the order they were written, leaves  *)
(* none out and returns none that is damaged, in spite of what its buffer  *)
(* held when it skipped.  Its end tells what became of the stream: a clean *)
(* end is a record's end, a torn write is a record cut off, and corruption *)
(* is reported where a cell of the record is damaged.  No record that was  *)
(* flushed is missing at the end of an undamaged stream, and none whose    *)
(* WriteRecord failed appears, whatever the sink did.                      *)
RecordsSurvive == Record!InOrder /\ Record!Verdict /\ Record!FlushedIsRead
=============================================================================
