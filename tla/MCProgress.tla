----------------------------- MODULE MCProgress -----------------------------
(***************************************************************************)
(* What must happen in the end, on small instances of the parts that wait, *)
(* retry or stop.  These parts share no state; a behaviour is about one of *)
(* them, and the others stay as they begin.                                *)
(***************************************************************************)
EXTENDS Naturals, Sequences, TLC

CONSTANTS None, Nobody, Ticker, NoRecord, Hole, Damaged, Unread, c1, c2, c3, c4, r1, p1, t1, t2, w1, w2

VARIABLES
  part,
  object, catalogPc, copy, reply, written, failed,
  entries, gen, cache, cachePc, name, seen, lookup, asked,
  shared, file, puts, last, mutex, flock, localPc, cond, time, held, returned, tries, crashes,
  registered, listed, manifest, writes, loaders, pass, faults, history, reborn,
  catalog, wal, flushed, acked, logs, known, request, grpc, flusher, cancelled, streams, open, timedOut,
  stop, work, closed, next, producer, hand, writer, step, stream, appended, seq, reads, segs, verdict,
  lost, damage

Asks(op, n) == [op |-> op, name |-> n]

(* Calls that lose races for one name, and one of another name.            *)
Catalog == INSTANCE Catalog WITH
  pc <- catalogPc, answer <- reply, faults <- failed,
  Names <- {"a", "b"}, Calls <- {c1, c2, c3, c4}, MaxFaults <- 1,
  Request <- c1 :> Asks("add", "a") @@ c2 :> Asks("remove", "a") @@ c3 :> Asks("add", "a")
               @@ c4 :> Asks("create", "b")

Cache == INSTANCE CatalogCache WITH
  pc <- cachePc, answer <- lookup, Names <- {"a", "b"}, Readers <- {r1}, Calls <- {c1, c2, c3},
  Request <- c1 :> Asks("create", "a") @@ c2 :> Asks("delete", "a") @@ c3 :> Asks("create", "b")

(* Two threads of one process, which also delete, and whose flock may fail.*)
Local == INSTANCE LocalStore WITH
  pc <- localPc, Processes <- {p1}, Threads <- {t1, t2}, Home <- t1 :> p1 @@ t2 :> p1, Free <- Nobody,
  Solo <- p1, Missing <- None, Clock <- {1, 2}, Sizes <- {1}, MaxPuts <- 2, MaxCrashes <- 0

Put1(id, col, v, k) ==
  [op |-> "put", id |-> id, vectors |-> [c \in {col} |-> v], attrs |-> [a \in {k} |-> id]]
Deleted(id) == [op |-> "delete", id |-> id, vectors |-> << >>, attrs |-> << >>]

(* One engine over two namespaces; no table takes the whole of segment c,  *)
(* whose vectors do not fit each other.                                    *)
MCContents ==
  "a" :> <<Put1(1, "v", <<1, 2>>, "k"), Put1(2, "v", <<3, 3>>, "k")>>
  @@ "b" :> <<Deleted(2), Put1(1, "v", <<2, 2>>, "k")>>
  @@ "c" :> <<Put1(1, "v", <<1>>, "k"), Put1(2, "v", <<1, 2>>, "k")>>

Engine == INSTANCE Engine WITH
  Namespaces <- {"default", "other"}, DefaultNamespace <- "default", Branches <- {"main"},
  DefaultBranch <- "main", Segments <- {"a", "b", "c"}, Contents <- MCContents, Passes <- {p1},
  MaxWrites <- 2, MaxFaults <- 1, Storable <- LAMBDA v : TRUE

(* Discovery and shutdown with a request that may hang.                    *)
Daemon == INSTANCE Daemon WITH
  registered <- known, Namespaces <- {"default", "other"}, DefaultNamespace <- "default",
  Requests <- {r1}, MaxEntries <- 1

Walbench == INSTANCE Walbench WITH
  stage <- step, acked <- appended, Writers <- {w1, w2}, Readers <- {w1, w2}, Idle <- NoRecord,
  Missing <- Hole, Capacity <- 1, MaxRecords <- 2, MaxLost <- 1, MaxDamage <- 0
-----------------------------------------------------------------------------
ProgressInit ==
  /\ part \in {"catalog", "cache", "local", "engine", "daemon", "walbench"}
  /\ Catalog!Init /\ Cache!Init /\ Local!Init /\ ~shared /\ Engine!Init /\ Daemon!Init /\ Walbench!Init

catalogVars  == <<object, catalogPc, copy, reply, written, failed>>
cacheVars    == <<entries, gen, cache, cachePc, name, seen, lookup, asked>>
localVars    == <<shared, file, puts, last, mutex, flock, localPc, cond, time, held, returned, tries,
                  crashes>>
engineVars   == <<registered, listed, manifest, writes, loaders, pass, faults, history, reborn>>
daemonVars   == <<catalog, wal, flushed, acked, logs, known, request, grpc, flusher, cancelled, streams,
                  open, timedOut>>
walbenchVars == <<stop, work, closed, next, producer, hand, writer, step, stream, appended, seq, reads,
                  segs, verdict, lost, damage>>

ProgressNext ==
  \/ /\ part = "catalog" /\ Catalog!Next
     /\ UNCHANGED <<part, cacheVars, localVars, engineVars, daemonVars, walbenchVars>>
  \/ /\ part = "cache" /\ Cache!Next
     /\ UNCHANGED <<part, catalogVars, localVars, engineVars, daemonVars, walbenchVars>>
  \/ /\ part = "local" /\ Local!Next
     /\ UNCHANGED <<part, catalogVars, cacheVars, engineVars, daemonVars, walbenchVars>>
  \/ /\ part = "engine" /\ Engine!Next
     /\ UNCHANGED <<part, catalogVars, cacheVars, localVars, daemonVars, walbenchVars>>
  \/ /\ part = "daemon" /\ Daemon!Next
     /\ UNCHANGED <<part, catalogVars, cacheVars, localVars, engineVars, walbenchVars>>
  \/ /\ part = "walbench" /\ Walbench!Next
     /\ UNCHANGED <<part, catalogVars, cacheVars, localVars, engineVars, daemonVars>>

progress == <<part, catalogVars, cacheVars, localVars, engineVars, daemonVars, walbenchVars>>

On(p) == part = p

(* Every catalog call is run by its goroutine and its requests return.     *)
CatalogFair ==
  \A c \in {c1, c2, c3, c4} :
    WF_catalogVars(On("catalog") /\ (Catalog!Read(c) \/ Catalog!Write(c) \/ Catalog!Conflict(c)))

(* Run refreshes at every tick, and a refresh does not fail for ever.      *)
CacheFair ==
  /\ WF_cacheVars(On("cache") /\ Cache!Tick)
  /\ \A r \in {r1, Ticker} :
       /\ SF_cacheVars(On("cache") /\ Cache!RefreshRead(r))
       /\ WF_cacheVars(On("cache") /\ Cache!RefreshStore(r))

(* Threads that have begun a call go on with it, and flock is fair.        *)
LocalFair == \A t \in {t1, t2} : SF_localVars(On("local") /\ Local!Step(t) /\ UNCHANGED shared)

(* Engine.Run calls SyncOnce at every tick, and every request returns.     *)
EngineFair == WF_engineVars(On("engine") /\ Engine!Sync(p1))

(* The goroutines of the flusher and of Serve run on, and a handler whose  *)
(* context is done returns; requests, failures and signals come or do not. *)
DaemonFair ==
  /\ WF_daemonVars(On("daemon") /\ (Daemon!DiscoverFirst \/ Daemon!DiscoverLate))
  /\ WF_daemonVars(On("daemon") /\ Daemon!Tick)
  /\ WF_daemonVars(On("daemon") /\ Daemon!stopAllStreams)
  /\ WF_daemonVars(On("daemon") /\ Daemon!Return)
  /\ \A ns \in {"default", "other"} :
       /\ WF_daemonVars(On("daemon") /\ Daemon!FlushEntry(ns))
       /\ WF_daemonVars(On("daemon") /\ Daemon!Drain(ns))
       /\ WF_daemonVars(On("daemon") /\ Daemon!EndOfLog(ns))
  /\ WF_daemonVars(On("daemon") /\ Daemon!HandlerReturns(r1))
  /\ WF_daemonVars(On("daemon") /\ Daemon!GracefulStop)
  /\ WF_daemonVars(On("daemon") /\ Daemon!Stop)
  /\ WF_daemonVars(On("daemon") /\ Daemon!Close)

(* Every goroutine of the benchmark runs on, and every append returns.     *)
WalbenchFair ==
  /\ WF_walbenchVars(On("walbench") /\ Walbench!Test)
  /\ WF_walbenchVars(On("walbench") /\ Walbench!Send)
  /\ WF_walbenchVars(On("walbench") /\ Walbench!TimeUp)
  /\ WF_walbenchVars(On("walbench") /\ Walbench!DrainOne)
  /\ WF_walbenchVars(On("walbench") /\ Walbench!Wait)
  /\ WF_walbenchVars(On("walbench") /\ Walbench!CheckStream)
  /\ WF_walbenchVars(On("walbench") /\ Walbench!Judge)
  /\ \A w \in {w1, w2} :
       /\ WF_walbenchVars(On("walbench") /\ Walbench!Receive(w))
       /\ WF_walbenchVars(On("walbench") /\ Walbench!TestStop(w))
       /\ WF_walbenchVars(On("walbench") /\ (Walbench!AppendOk(w) \/ Walbench!AppendFails(w)))
       /\ WF_walbenchVars(On("walbench") /\ Walbench!HandOut(w))
       /\ WF_walbenchVars(On("walbench") /\ Walbench!Read(w))

ProgressSpec ==
  /\ ProgressInit /\ [][ProgressNext]_progress
  /\ CatalogFair /\ CacheFair /\ LocalFair /\ EngineFair /\ DaemonFair /\ WalbenchFair
-----------------------------------------------------------------------------
(* Every call ends.  A catalog call that loses a race goes round, but not  *)
(* for ever; a call of the store on a directory finds the mutex and the    *)
(* flock free again, for no error path keeps them; and a run of the log's  *)
(* benchmark ends with its channel closed and its writers gone, whether    *)
(* the producer waits to send, is about to, or has just tested the flag.   *)
CallsReturn ==
  /\ []<>(On("catalog") => Catalog!Returned)
  /\ \A t \in {t1, t2} : []<>(localPc[t] = "idle")
  /\ []<>(On("walbench") => Walbench!Ended)

(* The catalog cache catches up with ns.json again and again, although a   *)
(* slow refresh may set it back.                                           *)
CacheCatchesUp == []<>(On("cache") => Cache!CaughtUp)

(* Once faults and writes end, queries on every listed branch see all of   *)
(* its manifest, unless it holds a mutation that its table refuses; such a *)
(* branch does not keep the others back.                                   *)
QueriesCatchUp == <>[](On("engine") => Engine!CaughtUp)

(* Once told to stop, Serve returns, also when a handler hangs.            *)
ServeReturns == []<>(On("daemon") => Daemon!StoppedIfTold)

(* Discovery gives every live namespace a stream sooner or later, unless   *)
(* the flusher is stopping or has returned.                                *)
LiveGetsStream == \A ns \in {"default", "other"} : []<>(On("daemon") => Daemon!HasStream(ns))
=============================================================================
