----------------------------- MODULE ServerPart -----------------------------
(***************************************************************************)
(* The daemon, its RPC handlers and the benchmark of the log, as parts of  *)
(* Services.                                                               *)
(***************************************************************************)
EXTENDS Defaults, Integers, Sequences

CONSTANTS
  \* the daemon
  IngestNamespaces, Handlers, MaxEntries,
  \* the RPC handlers
  Tenants, ValidNames, OddNames, Empty, MaxHeaders, MaxItems,
  \* the benchmark of the log
  Writers, Readers, Capacity, NoRecord, Hole, Damaged, Unread, MaxRecords, MaxLost, MaxDamage

ASSUME ServerConstants ==
  /\ DefaultNamespace \in IngestNamespaces
  /\ None \notin {"OK", "InvalidArgument", "Unauthenticated", "NotFound"}
  /\ NoRecord \notin Nat /\ Hole \notin Nat /\ Damaged \notin Nat

VARIABLES
  catalog, wal, flushed, acked, logs, known, request, grpc, flusher, cancelled, streams, open, timedOut,
  req, stage, call, applied, status,
  stop, work, closed, next, producer, hand, writer, step, stream, appended, seq, reads, segs, verdict,
  lost, damage

daemonVars   == <<catalog, wal, flushed, acked, logs, known, request, grpc, flusher, cancelled, streams,
                  open, timedOut>>
rpcVars      == <<req, stage, call, applied, status>>
walbenchVars == <<stop, work, closed, next, producer, hand, writer, step, stream, appended, seq, reads,
                  segs, verdict, lost, damage>>

Daemon == INSTANCE Daemon WITH
  Namespaces <- IngestNamespaces, Requests <- Handlers, registered <- known

Rpc == INSTANCE Rpc

Walbench == INSTANCE Walbench WITH
  stage <- step, acked <- appended, Idle <- NoRecord, Missing <- Hole
-----------------------------------------------------------------------------
(* When Serve returns, every stream that ended well has flushed everything *)
(* a client was told is written: the flushers are told to stop only after  *)
(* the last handler that can still answer has answered.  Daemons whose     *)
(* listener broke, or whose flusher gave up after a discovery ran into a   *)
(* deadline while they served, are left out.  And the stores are closed    *)
(* only when no stream uses them any more.                                 *)
ShutdownLosesNothing ==
  Daemon!AcknowledgedIsDrained /\ Daemon!StoresOutliveStreams

(* A caller that is told OK has its effect, and one that is told its       *)
(* request was wrong, or that tenant or source are missing, has left no    *)
(* trace and may send another.  Other statuses leave open what happened.   *)
StatusTellsEffect == Rpc!StatusTellsEffect

(* The check of a log passes only when every record that was acknowledged  *)
(* is in it and every entry up to its tail is whole, and fails only when   *)
(* the bucket lost or damaged something or holds a record twice.           *)
VerdictIsRight == Walbench!VerdictIsRight
=============================================================================
