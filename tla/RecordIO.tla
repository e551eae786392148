------------------------------ MODULE RecordIO ------------------------------
(***************************************************************************)
(* A stream of records: the Writer that frames them through a buffer into  *)
(* a sink that may fail, what a crash and damage make of the stream, and   *)
(* the Scanner that reads it or skips over it.                             *)
(*                                                                         *)
(* A stream is counted in cells; a frame is a header, a payload and a      *)
(* footer.  The CRCs are ideal: a header or a payload is accepted when it  *)
(* is read where one was written and no cell of it is damaged.  The        *)
(* buffers of bufio empty and fill by any amount they may.                 *)
(***************************************************************************)
EXTENDS Integers, Sequences

CONSTANTS
  Lengths,        \* lengths of payloads
  HeaderSize, FooterSize,
  MaxRecordSize,  \* the longest payload the Scanner accepts
  BufferSize,     \* of the Scanner's buffer
  MaxRecords      \* bound: records written

VARIABLES
  frames,    \* the frames begun: where they start, and the lengths of their payloads
  accepted,  \* how many of them WriteRecord accepted
  flushed,   \* ghost: how many were accepted when Flush last succeeded
  offset,    \* Writer.offset
  sunk,      \* cells that have reached the sink
  werr,      \* Writer.err is set
  damaged,   \* the cells that are damaged
  phase,     \* "write" or "read"
  source,    \* how far the Scanner's source has been read
  buffered,  \* cells in the Scanner's buffer
  lastValidOffset,
  err,       \* Scanner.err, or "eof" after a clean end
  seen       \* ghost: the frames returned, and whether each was scanned or skipped

writer == <<frames, accepted, flushed, offset, sunk, werr>>
scanner == <<source, buffered, lastValidOffset, err, seen>>
vars == <<writer, damaged, phase, scanner>>

FrameSize(i) == HeaderSize + frames[i].len + FooterSize

Total == IF frames = <<>> THEN 0 ELSE frames[Len(frames)].at + FrameSize(Len(frames))

(* Where frame i begins, which is the offset WriteRecord returns for it,   *)
(* or where the next one would begin.                                      *)
Start(i) == IF i \in DOMAIN frames THEN frames[i].at ELSE Total

Least(a, b) == IF a <= b THEN a ELSE b

Init ==
  /\ frames = <<>> /\ accepted = 0 /\ flushed = 0 /\ offset = 0 /\ sunk = 0 /\ werr = FALSE
  /\ damaged = {} /\ phase = "write"
  /\ source = 0 /\ buffered = 0 /\ lastValidOffset = 0 /\ err = "nil" /\ seen = <<>>
-----------------------------------------------------------------------------
(* Writer.                                                                 *)

Writing == phase = "write" /\ ~werr /\ UNCHANGED <<damaged, phase, scanner>>

WriteRecord(n) ==
  /\ Writing /\ Len(frames) < MaxRecords
  /\ frames' = Append(frames, [at |-> Total, len |-> n])
  /\ accepted' = accepted + 1 /\ offset' = offset + HeaderSize + n + FooterSize
  /\ sunk' \in sunk..(Total')
  /\ UNCHANGED <<flushed, werr>>

(* The buffer had to be emptied for this frame, and the sink failed.       *)
WriteFails(n) ==
  /\ Writing /\ Len(frames) < MaxRecords
  /\ frames' = Append(frames, [at |-> Total, len |-> n])
  /\ sunk' \in sunk..(Total' - 1) /\ werr' = TRUE
  /\ UNCHANGED <<accepted, flushed, offset>>

Flush == Writing /\ sunk' = Total /\ flushed' = accepted /\ UNCHANGED <<frames, accepted, offset, werr>>

FlushFails ==
  /\ Writing /\ sunk < Total
  /\ sunk' \in sunk..(Total - 1) /\ werr' = TRUE
  /\ UNCHANGED <<frames, accepted, flushed, offset>>

(* Reset begins another stream, also after an error.                       *)
Reset ==
  /\ phase = "write" /\ frames # <<>>
  /\ frames' = <<>> /\ accepted' = 0 /\ flushed' = 0 /\ offset' = 0 /\ sunk' = 0 /\ werr' = FALSE
  /\ UNCHANGED <<damaged, phase, scanner>>

(* The writer is closed or crashes, the stream may be damaged, and a       *)
(* Scanner opens it.                                                       *)
Open ==
  /\ phase = "write" /\ phase' = "read"
  /\ damaged' \in {{}} \cup {{c} : c \in 0..(sunk - 1)}
  /\ UNCHANGED <<writer, scanner>>
-----------------------------------------------------------------------------
(* Scanner.                                                                *)

Reading == phase = "read" /\ err = "nil" /\ UNCHANGED <<writer, damaged, phase>>

Position == source - buffered

Intact(from, n) == damaged \cap from..(from + n - 1) = {}

(* What may be buffered after n cells from the position were consumed.     *)
Buffers(n) ==
  IF buffered >= n THEN {buffered - n} ELSE 0..Least(BufferSize, sunk - Position - n)

FrameAt(p) == CHOOSE i \in DOMAIN frames : Start(i) = p

readHeader(p) ==
  IF sunk <= p THEN "eof"
  ELSE IF sunk < p + HeaderSize THEN "torn"
  ELSE IF ~Intact(p, HeaderSize) \/ ~\E i \in DOMAIN frames : Start(i) = p THEN "header"
  ELSE IF frames[FrameAt(p)].len > MaxRecordSize THEN "large"
  ELSE "ok"

Halt(e) == err' = e /\ UNCHANGED <<source, buffered, lastValidOffset, seen>>

HeaderFails == Reading /\ readHeader(Position) # "ok" /\ Halt(readHeader(Position))

Advance(i, how) ==
  /\ lastValidOffset' = lastValidOffset + FrameSize(i)
  /\ seen' = Append(seen, [frame |-> i, by |-> how])
  /\ UNCHANGED err

PayloadIntact(i) == Intact(Position + HeaderSize, frames[i].len + FooterSize)

Scan ==
  /\ Reading /\ readHeader(Position) = "ok"
  /\ LET i == FrameAt(Position)
     IN IF sunk < Position + FrameSize(i) THEN Halt("torn")
        ELSE IF ~PayloadIntact(i) THEN Halt("data")
        ELSE /\ \E b \in Buffers(FrameSize(i)) :
                  buffered' = b /\ source' = Position + FrameSize(i) + b
             /\ Advance(i, "scan")

SeekPayload(i, b) ==
  Position + HeaderSize + b + (IF b < frames[i].len THEN frames[i].len ELSE frames[i].len - b)

(* Where the footer is looked for: what is buffered of the payload is      *)
(* discarded, the rest is sought past, or read when the source cannot seek.*)
SeekTo(i, b) == Position + HeaderSize + b + (frames[i].len - b)

Skip ==
  /\ Reading /\ readHeader(Position) = "ok"
  /\ LET i == FrameAt(Position)
     IN \E b \in Buffers(HeaderSize) :
          IF b >= frames[i].len + FooterSize
          THEN /\ buffered' = b - frames[i].len - FooterSize /\ source' = Position + HeaderSize + b
               /\ Advance(i, "skip")
          ELSE LET to == SeekTo(i, b)
               IN IF sunk < to + FooterSize THEN Halt("torn")
                  ELSE /\ \E c \in 0..Least(BufferSize, sunk - to - FooterSize) :
                            buffered' = c /\ source' = to + FooterSize + c
                       /\ Advance(i, "skip")

(* The source fails with another error than its end.                       *)
ReadFails == Reading /\ Halt("io")
-----------------------------------------------------------------------------
Next ==
  \/ \E n \in Lengths : WriteRecord(n) \/ WriteFails(n)
  \/ Flush \/ FlushFails \/ Reset \/ Open
  \/ HeaderFails \/ Scan \/ Skip \/ ReadFails

Spec == Init /\ [][Next]_vars
-----------------------------------------------------------------------------
Upcoming == Len(seen) + 1

(* The Scanner returns the frames in the order they were written, leaves   *)
(* none out, and returns no payload that is damaged, in spite of what its  *)
(* buffer held when it skipped; and Writer and Scanner know where they are.*)
InOrder ==
  /\ \A j \in DOMAIN seen :
       seen[j].frame = j /\ (seen[j].by = "scan" => Intact(Start(j), FrameSize(j)))
  /\ ~werr => offset = Total
  /\ lastValidOffset = Start(Upcoming)
  /\ phase = "read" /\ err = "nil" => Position = lastValidOffset

(* The end tells what became of the stream: a clean end is a frame's end,  *)
(* a torn write is an undamaged header or less with the frame cut off, and *)
(* corruption is reported where a cell of the frame is damaged.            *)
Verdict ==
  /\ err = "eof" => lastValidOffset = sunk
  /\ err = "torn" => lastValidOffset < sunk /\ sunk < lastValidOffset + FrameSize(Upcoming)
  /\ err \in {"header", "data"} => ~Intact(lastValidOffset, FrameSize(Upcoming))

(* No record that was flushed is missing at the end of an undamaged        *)
(* stream, and no record whose WriteRecord failed appears, whatever the    *)
(* sink did: LastValidOffset is a boundary to truncate the stream at.      *)
FlushedIsRead ==
  /\ err \in {"eof", "torn"} => Len(seen) >= flushed
  /\ Len(seen) <= accepted
=============================================================================
