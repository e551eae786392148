------------------------------- MODULE Daemon -------------------------------
(***************************************************************************)
(* The ingest daemon: requests that reach a log through getOrCreateLog,    *)
(* the Flusher that discovers namespaces and starts a stream for each, and *)
(* the order in which Serve stops them and closes the stores.              *)
(*                                                                         *)
(* One tenant.  A log is the number of its entries, and a stream flushes   *)
(* them one after another (Ingest has the details).  A handler may hang in *)
(* the store for as long as its context lives.                             *)
(***************************************************************************)
EXTENDS Naturals

CONSTANTS
  Namespaces, DefaultNamespace,
  Requests,    \* requests in flight at the same time
  MaxEntries   \* bound: entries in a log

VARIABLES
  catalog,     \* ns.json: the status of each namespace
  wal,         \* the entries in each log
  flushed,     \* how many of them are flushed
  acked,       \* ghost: how many entries there were when a client was last told of success
  logs,        \* Ingester.logs
  registered,  \* Ingester.registered
  request,     \* each request: where it is, and its namespace
  grpc,        \* the server: serving, draining (GracefulStop), stopping (Stop), stopped,
               \* or broken (its listener failed)
  flusher,     \* Flusher.Run: starting, running, waiting for its streams, or returned
  cancelled,   \* flusherCtx is done
  streams,     \* each stream: none, up, draining, ended or failed
  open,        \* the stores are open: Serve has not returned
  timedOut     \* ghost: a discovery ran into a deadline, while the daemon served

ingesting == <<catalog, wal, acked, logs, registered, request>>
flushing == <<flusher, streams, flushed, timedOut>>
vars == <<ingesting, flushing, grpc, cancelled, open>>

Init ==
  /\ catalog = [ns \in Namespaces |-> "absent"]
  /\ wal = [ns \in Namespaces |-> 0]
  /\ flushed = wal /\ acked = wal
  /\ logs = {} /\ registered = {}
  /\ request = [r \in Requests |-> [pc |-> "idle", ns |-> DefaultNamespace]]
  /\ grpc = "serving"
  /\ flusher = "starting"
  /\ cancelled = FALSE
  /\ streams = [ns \in Namespaces |-> "none"]
  /\ open = TRUE
  /\ timedOut = FALSE
-----------------------------------------------------------------------------
(* getOrCreateLog, then Append.                                            *)

Go(r, pc) == request' = [request EXCEPT ![r].pc = pc]

Arrive(r, ns) ==
  /\ grpc \in {"serving", "broken"} /\ request[r].pc = "idle"
  /\ request' = [request EXCEPT ![r] = [pc |-> IF ns \in logs \cup registered THEN "append" ELSE "create", ns |-> ns]]
  /\ logs' = IF ns \in registered THEN logs \cup {ns} ELSE logs
  /\ UNCHANGED <<catalog, wal, acked, registered, flushing, grpc, cancelled, open>>

(* CreateNamespace: the name may exist, be deleted, or the call may fail;  *)
(* the answer is dropped.                                                  *)
CreateNamespace(r) ==
  /\ request[r].pc = "create" /\ Go(r, "append")
  /\ registered' = registered \cup {request[r].ns} /\ logs' = logs \cup {request[r].ns}
  /\ \/ catalog' = [catalog EXCEPT ![request[r].ns] = IF @ = "absent" THEN "live" ELSE @]
     \/ UNCHANGED catalog
  /\ UNCHANGED <<wal, acked, flushing, grpc, cancelled, open>>

(* After Stop the client is gone.                                          *)
Append(r) ==
  LET ns == request[r].ns
  IN /\ request[r].pc = "append" /\ wal[ns] < MaxEntries /\ Go(r, "idle")
     /\ wal' = [wal EXCEPT ![ns] = @ + 1]
     /\ acked' = IF grpc \in {"stopping", "stopped"} THEN acked ELSE [acked EXCEPT ![ns] = wal[ns] + 1]
     /\ UNCHANGED <<catalog, logs, registered, flushing, grpc, cancelled, open>>

AppendFails(r) ==
  /\ request[r].pc = "append" /\ Go(r, "idle")
  /\ UNCHANGED <<catalog, wal, acked, logs, registered, flushing, grpc, cancelled, open>>

DeleteNamespace(ns) ==
  /\ catalog[ns] = "live" /\ catalog' = [catalog EXCEPT ![ns] = "deleted"]
  /\ UNCHANGED <<wal, acked, logs, registered, request, flushing, grpc, cancelled, open>>
-----------------------------------------------------------------------------
(* Flusher.Run.                                                            *)

ActiveNamespaces ==
  LET live == {ns \in Namespaces : catalog[ns] = "live"}
  IN IF live = {} THEN {DefaultNamespace} ELSE live

(* startStream for each namespace found: one that has a stream keeps it,   *)
(* whatever became of it.                                                  *)
startStreams(as) ==
  streams' = [ns \in Namespaces |->
                IF ns \in ActiveNamespaces /\ streams[ns] = "none" THEN as ELSE streams[ns]]

DiscoverFirst ==
  /\ flusher = "starting"
  /\ flusher' = "running" /\ startStreams("up")
  /\ UNCHANGED <<ingesting, flushed, timedOut, grpc, cancelled, open>>

(* Cancelled, or no answer in five seconds: the streams that a second      *)
(* attempt finds are started only to drain.                                *)
DiscoverLate ==
  /\ flusher = "starting"
  /\ timedOut' = ~cancelled
  /\ \/ flusher' = "waiting" /\ startStreams("draining")
     \/ flusher' = "returned" /\ UNCHANGED streams
  /\ UNCHANGED <<ingesting, flushed, grpc, cancelled, open>>

(* Any other error: Run returns it, and Serve calls Stop, which does not   *)
(* wait for the handlers; a GracefulStop under way does.                   *)
DiscoverFails ==
  /\ flusher = "starting" /\ flusher' = "returned"
  /\ grpc' = IF grpc \in {"draining", "stopping"} THEN "stopping" ELSE "stopped"
  /\ cancelled' = (cancelled \/ grpc' = "stopped")
  /\ UNCHANGED <<ingesting, streams, flushed, timedOut, open>>

TickKeepsTargets == FALSE /\ UNCHANGED vars

(* A later discovery; most errors are only logged.                         *)
Tick ==
  /\ flusher = "running"
  /\ startStreams("up") /\ streams' # streams
  /\ UNCHANGED <<ingesting, flusher, flushed, timedOut, grpc, cancelled, open>>

(* But one that ends in Canceled or DeadlineExceeded, be it the store's    *)
(* own, stops every stream, and Run with them, whether or not the daemon   *)
(* serves on.                                                              *)
TickEnds ==
  /\ flusher = "running"
  /\ flusher' = "waiting" /\ timedOut' = (timedOut \/ ~cancelled)
  /\ UNCHANGED <<ingesting, streams, flushed, grpc, cancelled, open>>

stopAllStreams ==
  /\ flusher = "running" /\ cancelled
  /\ flusher' = "waiting"
  /\ UNCHANGED <<ingesting, streams, flushed, timedOut, grpc, cancelled, open>>

Return ==
  /\ flusher = "waiting" /\ \A ns \in Namespaces : streams[ns] \notin {"up", "draining"}
  /\ flusher' = "returned"
  /\ UNCHANGED <<ingesting, streams, flushed, timedOut, grpc, cancelled, open>>
-----------------------------------------------------------------------------
(* A stream.                                                               *)

Become(ns, state) ==
  /\ streams' = [streams EXCEPT ![ns] = state]
  /\ UNCHANGED <<ingesting, flusher, flushed, timedOut, grpc, cancelled, open>>

FlushEntry(ns) ==
  /\ streams[ns] \in {"up", "draining"} /\ flushed[ns] < wal[ns]
  /\ flushed' = [flushed EXCEPT ![ns] = @ + 1]
  /\ UNCHANGED <<ingesting, streams, flusher, timedOut, grpc, cancelled, open>>

(* Its context is done: flusherCtx is, or stopAllStreams has cancelled it. *)
Drain(ns) ==
  streams[ns] = "up" /\ (cancelled \/ flusher = "waiting") /\ Become(ns, "draining")

EndOfLog(ns) == streams[ns] = "draining" /\ flushed[ns] = wal[ns] /\ Become(ns, "ended")

StreamFails(ns) == streams[ns] \in {"up", "draining"} /\ Become(ns, "failed")
-----------------------------------------------------------------------------
(* Serve and serveGRPC.                                                    *)

InFlight == \E r \in Requests : request[r].pc # "idle"

SignalCancelsFlusher ==
  /\ grpc = "serving" /\ grpc' = "draining" /\ cancelled' = TRUE
  /\ UNCHANGED <<ingesting, flushing, open>>

Signal ==
  /\ grpc = "serving" /\ grpc' = "draining"
  /\ UNCHANGED <<ingesting, flushing, cancelled, open>>

(* Accept fails: Serve goes on to the end, connections stay.               *)
ListenerFails ==
  /\ grpc = "serving" /\ grpc' = "broken" /\ cancelled' = TRUE
  /\ UNCHANGED <<ingesting, flushing, open>>

(* GracefulStop returns when the handlers have, also after Stop.           *)
GracefulStop ==
  /\ grpc \in {"draining", "stopping"} /\ ~InFlight
  /\ grpc' = "stopped" /\ cancelled' = TRUE
  /\ UNCHANGED <<ingesting, flushing, open>>

StopNever == FALSE /\ UNCHANGED vars

(* Five seconds have passed: connections close, and with them the contexts *)
(* of the handlers.                                                        *)
Stop ==
  /\ grpc = "draining" /\ InFlight /\ grpc' = "stopping"
  /\ UNCHANGED <<ingesting, flushing, cancelled, open>>

Close ==
  /\ open /\ grpc \in {"stopped", "broken"} /\ flusher = "returned"
  /\ open' = FALSE
  /\ UNCHANGED <<ingesting, flushing, grpc, cancelled>>
-----------------------------------------------------------------------------
Next ==
  \/ \E r \in Requests : CreateNamespace(r) \/ Append(r) \/ AppendFails(r) \/ \E ns \in Namespaces : Arrive(r, ns)
  \/ \E ns \in Namespaces : DeleteNamespace(ns)
  \/ DiscoverFirst \/ DiscoverLate \/ DiscoverFails \/ Tick \/ TickEnds \/ stopAllStreams \/ Return
  \/ \E ns \in Namespaces : FlushEntry(ns) \/ Drain(ns) \/ EndOfLog(ns) \/ StreamFails(ns)
  \/ Signal \/ ListenerFails \/ GracefulStop \/ Stop \/ Close

Spec == Init /\ [][Next]_vars

(* A handler whose context is done returns.                                *)
HandlerReturns(r) ==
  grpc = "stopping" /\ (CreateNamespace(r) \/ Append(r) \/ AppendFails(r))
-----------------------------------------------------------------------------
(* Serve closes the stores only when no stream uses them any more.         *)
StoresOutliveStreams == ~open => \A ns \in Namespaces : streams[ns] \notin {"up", "draining"}

(* When Serve returns, every stream that ended well has flushed everything *)
(* a client was told is written: the flushers are told to stop only after  *)
(* the last handler that can still answer has answered, unless the         *)
(* listener broke or a discovery ran into a deadline (timedOut).           *)
AcknowledgedIsDrained ==
  ~open /\ ~timedOut /\ grpc # "broken" => \A ns \in Namespaces : streams[ns] = "ended" => flushed[ns] >= acked[ns]

(* Told to stop, it has stopped.                                           *)
StoppedIfTold == grpc = "serving" \/ ~open

(* A live namespace has had a stream, unless the flusher is stopping.      *)
HasStream(ns) == catalog[ns] = "live" => streams[ns] # "none" \/ flusher \in {"waiting", "returned"}
=============================================================================
