-------------------------------- MODULE Wal --------------------------------
(***************************************************************************)
(* What a write-ahead log promises the rest of the engine, with nothing    *)
(* said about how: one growing sequence of entries, and calls of Append    *)
(* that put their batch at the end, are told where it went, or fail.       *)
(*                                                                         *)
(* LogStream implements this specification over an object store; Ingest    *)
(* uses the log only through it.                                           *)
(***************************************************************************)
EXTENDS Naturals, Sequences

CONSTANTS Appends   \* the calls of Append; a call is also the batch it writes

VARIABLES
  log,     \* the entries, in sequence-number order
  status,  \* status[a]: what the caller of a has been told
  at       \* at[a]: the number a was given, 0 before

walVars == <<log, status, at>>

WalInit ==
  /\ log \in Seq(Appends \cup {"old"})
  /\ status = [a \in Appends |-> "pending"]
  /\ at = [a \in Appends |-> 0]

(* The batch of an unfinished call becomes the next entry.  A call may do  *)
(* so again when the answer to its first write was lost: delivery is at    *)
(* least once.                                                             *)
Extend(a) ==
  /\ status[a] = "pending"
  /\ log' = Append(log, a)
  /\ UNCHANGED <<status, at>>

(* The call learns its number, and the entry under that number is its own. *)
Acknowledge(a) ==
  /\ status[a] = "pending"
  /\ status' = [status EXCEPT ![a] = "acknowledged"]
  /\ \E k \in DOMAIN log : log[k] = a /\ at' = [at EXCEPT ![a] = k]
  /\ UNCHANGED log

(* Calls fail without saying whether the entry exists.  A node that stops  *)
(* fails all of its calls at once.                                         *)
Fail(A) ==
  /\ \A a \in A : status[a] = "pending"
  /\ status' = [a \in Appends |-> IF a \in A THEN "failed" ELSE status[a]]
  /\ UNCHANGED <<log, at>>

(* The last write of a failing call lands although its answer is lost.     *)
ExtendAndFail(a) ==
  /\ status[a] = "pending"
  /\ log' = Append(log, a)
  /\ status' = [status EXCEPT ![a] = "failed"]
  /\ UNCHANGED at

WalNext ==
  \/ \E a \in Appends : Extend(a) \/ Acknowledge(a) \/ ExtendAndFail(a)
  \/ \E A \in SUBSET Appends : Fail(A)

WalSpec == WalInit /\ [][WalNext]_walVars
=============================================================================
