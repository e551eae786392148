------------------------------ MODULE Walbench ------------------------------
(***************************************************************************)
(* The benchmark of the log: a producer feeds writers through a channel    *)
(* until the time is up, and the sanity check reads the stream back with   *)
(* parallel readers.                                                       *)
(*                                                                         *)
(* The log is what LogStream says of it: an append adds its record or      *)
(* fails, and the answer to an upload may be lost, after which the client  *)
(* uploads again or reports a failure.  Between run and check the bucket   *)
(* may lose or damage entries.  The context is never cancelled, and        *)
(* opening the log has succeeded in run already.                           *)
(***************************************************************************)
EXTENDS Naturals, FiniteSets, Sequences

CONSTANTS
  Writers, Readers,
  Capacity,     \* of the channel
  Idle,         \* nothing in hand
  Missing,      \* an entry the bucket has lost
  Damaged,      \* an entry that log.Read or verify refuses
  Unread,
  MaxRecords,   \* bound: records that are appended
  MaxLost,      \* bound: answers that are lost
  MaxDamage     \* bound: entries lost or damaged

VARIABLES
  stop,      \* the flag
  work,      \* the channel of records
  closed,    \* it is closed
  next,      \* the producer's next record
  producer,  \* test, send or gone
  hand,      \* the record each writer is appending
  writer,    \* receive, test, append or gone
  stage,     \* of the program: run, drain, wait, idle, check, done
  stream,    \* the entries: the record of each, or Missing or Damaged
  acked,     \* the records of runResult.appends
  seq,       \* the entry the check hands out next
  reads,     \* the entry each reader has
  segs,      \* what the readers found
  verdict,   \* of checkStream
  lost, damage  \* answers lost, entries lost or damaged

bench == <<stop, work, closed, next, producer, hand, writer, acked, lost>>
check == <<seq, reads, segs, verdict>>
vars == <<bench, stage, stream, damage, check>>

Init ==
  /\ stop = FALSE /\ work = <<>> /\ closed = FALSE
  /\ next = 0 /\ producer = "test"
  /\ hand = [w \in Writers |-> Idle] /\ writer = [w \in Writers |-> "receive"]
  /\ stage = "run" /\ stream = <<>> /\ acked = {}
  /\ seq = 1 /\ reads = [r \in Readers |-> Idle] /\ segs = <<>> /\ verdict = "none"
  /\ lost = 0 /\ damage = 0
-----------------------------------------------------------------------------
(* The producer: test the flag, fill a record, send it.                    *)

Test ==
  /\ producer = "test"
  /\ IF stop THEN producer' = "gone" /\ closed' = TRUE
             ELSE producer' = "send" /\ UNCHANGED closed
  /\ UNCHANGED <<stop, work, next, hand, writer, acked, lost, stage, stream, damage, check>>

Send ==
  /\ producer = "send" /\ Len(work) < Capacity
  /\ work' = Append(work, next) /\ next' = next + 1 /\ producer' = "test"
  /\ UNCHANGED <<stop, closed, hand, writer, acked, lost, stage, stream, damage, check>>
-----------------------------------------------------------------------------
(* A writer.  Records past the bound wait for the end of the run.          *)

Go(w, where, record) == writer' = [writer EXCEPT ![w] = where] /\ hand' = [hand EXCEPT ![w] = record]

Receive(w) ==
  /\ writer[w] = "receive"
  /\ \/ work # <<>> /\ work' = Tail(work) /\ Go(w, "test", Head(work))
     \/ work = <<>> /\ closed /\ Go(w, "gone", Idle) /\ UNCHANGED work
  /\ UNCHANGED <<stop, closed, next, producer, acked, lost, stage, stream, damage, check>>

TestStop(w) ==
  /\ writer[w] = "test"
  /\ IF stop THEN Go(w, "gone", Idle) ELSE hand[w] < MaxRecords /\ Go(w, "append", hand[w])
  /\ UNCHANGED <<stop, work, closed, next, producer, acked, lost, stage, stream, damage, check>>

AppendOk(w) ==
  /\ writer[w] = "append" /\ stream' = Append(stream, hand[w])
  /\ acked' = acked \cup {hand[w]} /\ Go(w, "receive", Idle)
  /\ UNCHANGED <<stop, work, closed, next, producer, lost, stage, damage, check>>

AppendLost(w) ==
  /\ writer[w] = "append" /\ stream' = Append(stream, hand[w])
  /\ lost < MaxLost /\ lost' = lost + 1
  /\ UNCHANGED <<stop, work, closed, next, producer, hand, writer, acked, stage, damage, check>>

AppendFails(w) ==
  /\ writer[w] = "append" /\ Go(w, "receive", Idle)
  /\ UNCHANGED <<stop, work, closed, next, producer, acked, lost, stage, stream, damage, check>>
-----------------------------------------------------------------------------
(* benchmark itself.                                                       *)

TimeUp ==
  /\ stage = "run" /\ stage' = "drain" /\ stop' = TRUE
  /\ UNCHANGED <<work, closed, next, producer, hand, writer, acked, lost, stream, damage, check>>

(* The producer may be parked on the send: one item makes room for it.     *)
DrainOne ==
  /\ stage = "drain" /\ stage' = "wait"
  /\ work' = IF work = <<>> THEN work ELSE Tail(work)
  /\ UNCHANGED <<stop, closed, next, producer, hand, writer, acked, lost, stream, damage, check>>

(* g.Wait: every writer has returned.                                      *)
Wait ==
  /\ stage = "wait" /\ \A w \in Writers : writer[w] = "gone"
  /\ stage' = "idle"
  /\ UNCHANGED <<bench, stream, damage, check>>
-----------------------------------------------------------------------------
(* What may happen to the bucket before the check.                         *)
Damage(i, what) ==
  /\ stage = "idle" /\ damage < MaxDamage /\ damage' = damage + 1
  /\ stream[i] \notin {Missing, Damaged} /\ stream' = [stream EXCEPT ![i] = what]
  /\ UNCHANGED <<bench, stage, check>>

(* log.Tail: the last entry, or in a long stream with a hole any entry     *)
(* before a hole; 0 when there is none.                                    *)
Present == {i \in DOMAIN stream : stream[i] # Missing}
Tails   == IF Present = {} THEN {0} ELSE {i \in Present : i + 1 \notin Present}

CheckStream ==
  /\ stage = "idle" /\ stage' = "check"
  /\ \E tail \in Tails : segs' = [i \in 1..tail |-> Unread]
  /\ UNCHANGED <<bench, stream, damage, seq, reads, verdict>>

HandOut(r) ==
  /\ stage = "check" /\ seq <= Len(segs) /\ reads[r] = Idle
  /\ reads' = [reads EXCEPT ![r] = seq] /\ seq' = seq + 1
  /\ UNCHANGED <<bench, stage, stream, damage, segs, verdict>>

(* log.Read and verify: the record, or why there is none.                  *)
Read(r) ==
  /\ reads[r] # Idle
  /\ segs' = [segs EXCEPT ![reads[r]] = stream[reads[r]]]
  /\ reads' = [reads EXCEPT ![r] = Idle]
  /\ UNCHANGED <<bench, stage, stream, damage, seq, verdict>>

Found == {segs[i] : i \in DOMAIN segs}

HandedOut == seq > Len(segs)

(* work is closed, and wg.Wait returns.                                    *)
AllRead == seq > Len(segs) /\ \A r \in Readers : reads[r] = Idle

ok == Found \cap {Missing, Damaged} = {} /\ acked \subseteq Found

Judge ==
  /\ stage = "check" /\ AllRead
  /\ verdict' = (IF ok THEN "PASS" ELSE "FAIL") /\ stage' = "done"
  /\ UNCHANGED <<bench, stream, damage, seq, reads, segs>>
-----------------------------------------------------------------------------
Next ==
  \/ Test \/ Send \/ TimeUp \/ DrainOne \/ Wait
  \/ \E w \in Writers : Receive(w) \/ TestStop(w) \/ AppendOk(w) \/ AppendLost(w) \/ AppendFails(w)
  \/ \E i \in DOMAIN stream, what \in {Missing, Damaged} : Damage(i, what)
  \/ CheckStream \/ Judge
  \/ \E r \in Readers : HandOut(r) \/ Read(r)

Spec == Init /\ [][Next]_vars
-----------------------------------------------------------------------------
Ended == stage = "done" /\ closed

Repeated == \E i, j \in DOMAIN stream : i < j /\ stream[i] = stream[j]

(* A stream passes only when every record that was acknowledged is in it   *)
(* and every entry up to its tail is whole, and fails only when the bucket *)
(* lost or damaged something: failed appends are no error.  Of a stream    *)
(* that holds a record twice either may be said: the documents list it     *)
(* among the failures, and the code lets it pass.                          *)
VerdictIsRight ==
  /\ verdict = "PASS" =>
       /\ \A record \in acked : \E i \in DOMAIN stream : stream[i] = record
       /\ \A i \in DOMAIN segs : stream[i] \notin {Missing, Damaged}
  /\ verdict = "FAIL" => damage > 0 \/ Repeated
=============================================================================
