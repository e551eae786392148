--------------------------- MODULE ServicesProofs ---------------------------
(***************************************************************************)
(* The safety of the processes over the store, for every value of the      *)
(* constants.                                                              *)
(***************************************************************************)
EXTENDS ServerPart, TLAPS

-----------------------------------------------------------------------------
(* The daemon.                                                             *)

DaemonType ==
  /\ catalog \in [IngestNamespaces -> {"absent", "live", "deleted"}]
  /\ wal \in [IngestNamespaces -> Nat]
  /\ flushed \in [IngestNamespaces -> Nat]
  /\ acked \in [IngestNamespaces -> Nat]
  /\ request \in [Handlers -> [pc : {"idle", "create", "append"}, ns : IngestNamespaces]]
  /\ grpc \in {"serving", "draining", "stopping", "stopped", "broken"}
  /\ flusher \in {"starting", "running", "waiting", "returned"}
  /\ streams \in [IngestNamespaces -> {"none", "up", "draining", "ended", "failed"}]
  /\ cancelled \in BOOLEAN /\ open \in BOOLEAN /\ timedOut \in BOOLEAN

(* No stream exists before the first discovery, none runs when Run has     *)
(* returned, and the stores stay open until then.                          *)
StreamsFollowRun ==
  /\ flusher = "starting" => \A ns \in IngestNamespaces : streams[ns] = "none"
  /\ flusher = "returned" => \A ns \in IngestNamespaces : streams[ns] \notin {"up", "draining"}
  /\ ~open => flusher = "returned"

(* Run waits and streams drain only when the flushers were told to stop or *)
(* a discovery was late, and they are told to stop only when no handler    *)
(* can answer any more or the listener broke.                              *)
DrainIsLast ==
  /\ cancelled => grpc \in {"stopped", "broken"}
  /\ flusher = "waiting" => cancelled \/ timedOut
  /\ \A ns \in IngestNamespaces : streams[ns] \in {"draining", "ended"} => cancelled \/ timedOut

(* What a client was told is in the log, and a stream that has ended since *)
(* has flushed it.                                                         *)
EndedHasAll ==
  \A ns \in IngestNamespaces :
    /\ acked[ns] <= wal[ns]
    /\ streams[ns] = "ended" /\ ~timedOut /\ grpc # "broken" => flushed[ns] >= acked[ns]

DaemonInv == DaemonType /\ StreamsFollowRun /\ DrainIsLast /\ EndedHasAll

(* The requests.                                                           *)
LEMMA DaemonRequests ==
  ASSUME DaemonInv, NEW r \in Handlers, NEW n \in IngestNamespaces,
         \/ Daemon!Arrive(r, n) \/ Daemon!CreateNamespace(r) \/ Daemon!AppendFails(r)
  PROVE  DaemonInv'
<1> USE DEF DaemonInv, DaemonType
<1>1. CASE Daemon!Arrive(r, n)
  BY <1>1, Zenon DEF Daemon!Arrive, Daemon!flushing, StreamsFollowRun, DrainIsLast, EndedHasAll
<1>2. CASE Daemon!CreateNamespace(r)
  BY <1>2 DEF Daemon!CreateNamespace, Daemon!Go, Daemon!flushing, StreamsFollowRun, DrainIsLast, EndedHasAll
<1>3. CASE Daemon!AppendFails(r)
  BY <1>3 DEF Daemon!AppendFails, Daemon!Go, Daemon!flushing, StreamsFollowRun, DrainIsLast, EndedHasAll
<1> QED
  BY <1>1, <1>2, <1>3, Zenon

(* A namespace is deleted.                                                 *)
LEMMA DaemonDelete ==
  ASSUME DaemonInv, NEW n \in IngestNamespaces, Daemon!DeleteNamespace(n)
  PROVE  DaemonInv'
BY Zenon DEF Daemon!DeleteNamespace, Daemon!flushing, DaemonInv, DaemonType, StreamsFollowRun, DrainIsLast, EndedHasAll

(* Append: only a handler that can still answer changes acked.             *)
LEMMA DaemonAppend ==
  ASSUME DaemonInv, NEW r \in Handlers, Daemon!Append(r)
  PROVE  DaemonInv'
<1> DEFINE ns == request[r].ns
<1>1. /\ ns \in IngestNamespaces
      /\ wal' = [wal EXCEPT ![ns] = @ + 1]
      /\ acked' = IF grpc \in {"stopping", "stopped"} THEN acked ELSE [acked EXCEPT ![ns] = wal[ns] + 1]
      /\ request' = [request EXCEPT ![r].pc = "idle"]
      /\ UNCHANGED <<catalog, flusher, streams, flushed, timedOut, grpc, cancelled, open>>
  BY Zenon DEF DaemonInv, DaemonType, Daemon!Append, Daemon!Go, Daemon!flushing
<1> HIDE DEF ns
<1>2. DaemonType'
  BY <1>1 DEF DaemonInv, DaemonType
<1>3. StreamsFollowRun' /\ DrainIsLast'
  BY <1>1, Zenon DEF DaemonInv, StreamsFollowRun, DrainIsLast
<1>4. EndedHasAll'
  <2> SUFFICES ASSUME NEW n \in IngestNamespaces
               PROVE  /\ acked'[n] <= wal'[n]
                      /\ streams[n] = "ended" /\ ~timedOut /\ grpc # "broken" => flushed[n] >= acked'[n]
    BY <1>1, Zenon DEF EndedHasAll
  <2>1. streams[n] = "ended" /\ ~timedOut /\ grpc # "broken" => acked' = acked
    BY <1>1, Zenon DEF DaemonInv, DrainIsLast
  <2>2. acked[n] <= wal[n] /\ acked[n] \in Nat /\ wal[n] \in Nat
    BY Zenon DEF DaemonInv, DaemonType, EndedHasAll
  <2>3. acked'[n] \in {acked[n], wal'[n]} /\ wal'[n] \in {wal[n], wal[n] + 1}
    BY <1>1, Zenon DEF DaemonInv, DaemonType
  <2> QED
    BY <2>1, <2>2, <2>3 DEF DaemonInv, EndedHasAll
<1> QED
  BY <1>2, <1>3, <1>4, Zenon DEF DaemonInv

(* Flusher.Run.                                                            *)
LEMMA DaemonRun ==
  ASSUME DaemonInv,
         \/ Daemon!DiscoverFirst \/ Daemon!DiscoverLate \/ Daemon!DiscoverFails
         \/ Daemon!Tick \/ Daemon!TickEnds \/ Daemon!stopAllStreams \/ Daemon!Return
  PROVE  DaemonInv'
<1> USE DEF DaemonInv, DaemonType, Daemon!ingesting
<1>1. CASE Daemon!DiscoverFirst
  BY <1>1, Zenon DEF Daemon!DiscoverFirst, Daemon!startStreams, StreamsFollowRun, DrainIsLast, EndedHasAll
<1>2. CASE Daemon!DiscoverLate
  BY <1>2 DEF Daemon!DiscoverLate, Daemon!startStreams, StreamsFollowRun, DrainIsLast, EndedHasAll
<1>3. CASE Daemon!DiscoverFails
  BY <1>3, Zenon DEF Daemon!DiscoverFails, StreamsFollowRun, DrainIsLast, EndedHasAll
<1>4. CASE Daemon!Tick
  BY <1>4, Zenon DEF Daemon!Tick, Daemon!startStreams, StreamsFollowRun, DrainIsLast, EndedHasAll
<1>5. CASE Daemon!TickEnds
  BY <1>5, Zenon DEF Daemon!TickEnds, StreamsFollowRun, DrainIsLast, EndedHasAll
<1>6. CASE Daemon!stopAllStreams
  BY <1>6, Zenon DEF Daemon!stopAllStreams, StreamsFollowRun, DrainIsLast, EndedHasAll
<1>7. CASE Daemon!Return
  BY <1>7, Zenon DEF Daemon!Return, StreamsFollowRun, DrainIsLast, EndedHasAll
<1> QED
  BY <1>1, <1>2, <1>3, <1>4, <1>5, <1>6, <1>7, Zenon

(* A stream.                                                               *)
LEMMA DaemonStream ==
  ASSUME DaemonInv, NEW n \in IngestNamespaces,
         Daemon!FlushEntry(n) \/ Daemon!Drain(n) \/ Daemon!EndOfLog(n) \/ Daemon!StreamFails(n)
  PROVE  DaemonInv'
<1> USE DEF DaemonInv, DaemonType, Daemon!ingesting
<1>1. CASE Daemon!FlushEntry(n)
  BY <1>1 DEF Daemon!FlushEntry, StreamsFollowRun, DrainIsLast, EndedHasAll
<1>2. CASE Daemon!Drain(n)
  BY <1>2, Zenon DEF Daemon!Drain, Daemon!Become, StreamsFollowRun, DrainIsLast, EndedHasAll
<1>3. CASE Daemon!EndOfLog(n)
  BY <1>3, Zenon DEF Daemon!EndOfLog, Daemon!Become, StreamsFollowRun, DrainIsLast, EndedHasAll
<1>4. CASE Daemon!StreamFails(n)
  BY <1>4, Zenon DEF Daemon!StreamFails, Daemon!Become, StreamsFollowRun, DrainIsLast, EndedHasAll
<1> QED
  BY <1>1, <1>2, <1>3, <1>4, Zenon

(* Serve.                                                                  *)
LEMMA DaemonServe ==
  ASSUME DaemonInv,
         Daemon!Signal \/ Daemon!ListenerFails \/ Daemon!GracefulStop \/ Daemon!Stop \/ Daemon!Close
  PROVE  DaemonInv'
<1> USE DEF DaemonInv, DaemonType, StreamsFollowRun, DrainIsLast, EndedHasAll, Daemon!ingesting, Daemon!flushing
<1>1. CASE Daemon!Signal
  BY <1>1, Zenon DEF Daemon!Signal
<1>2. CASE Daemon!ListenerFails
  BY <1>2, Zenon DEF Daemon!ListenerFails
<1>3. CASE Daemon!GracefulStop
  BY <1>3, Zenon DEF Daemon!GracefulStop
<1>4. CASE Daemon!Stop
  BY <1>4, Zenon DEF Daemon!Stop
<1>5. CASE Daemon!Close
  BY <1>5, Zenon DEF Daemon!Close
<1> QED
  BY <1>1, <1>2, <1>3, <1>4, <1>5, Zenon

(* The daemon begins within the invariant.                                 *)
LEMMA DaemonInit == Daemon!Init => DaemonInv
<1> SUFFICES ASSUME Daemon!Init PROVE DaemonInv
  BY Zenon
<1>1. /\ wal = [ns \in IngestNamespaces |-> 0] /\ flushed = wal /\ acked = wal
      /\ request = [r \in Handlers |-> [pc |-> "idle", ns |-> DefaultNamespace]]
      /\ streams = [ns \in IngestNamespaces |-> "none"]
  BY Zenon DEF Daemon!Init
<1>2. request \in [Handlers -> [pc : {"idle", "create", "append"}, ns : IngestNamespaces]]
  BY <1>1, ServerConstants, Zenon
<1>3. wal \in [IngestNamespaces -> Nat]
  BY <1>1, Zenon
<1>4. DaemonType
  BY <1>1, <1>2, <1>3, Zenon DEF Daemon!Init, DaemonType
<1>5. StreamsFollowRun /\ DrainIsLast /\ EndedHasAll
  BY <1>1 DEF Daemon!Init, StreamsFollowRun, DrainIsLast, EndedHasAll
<1> QED
  BY <1>4, <1>5, Zenon DEF DaemonInv

(* When Serve returns, every stream that ended well has flushed what       *)
(* clients were told is written, and no stream uses the stores any more,   *)
(* for any namespaces, requests in flight and order of stopping.           *)
THEOREM ShutdownIsSafe == Daemon!Spec => []ShutdownLosesNothing
<1>1. Daemon!Init => DaemonInv
  BY DaemonInit, Zenon
<1>2. DaemonInv /\ [Daemon!Next]_(Daemon!vars) => DaemonInv'
  <2> SUFFICES ASSUME DaemonInv, [Daemon!Next]_daemonVars PROVE DaemonInv'
    BY Zenon DEF daemonVars, Daemon!vars, Daemon!ingesting, Daemon!flushing
  <2>1. CASE UNCHANGED daemonVars
    BY <2>1, Zenon DEF daemonVars, DaemonInv, DaemonType, StreamsFollowRun, DrainIsLast, EndedHasAll
  <2>2. CASE Daemon!Next
    <3>1. CASE \E r \in Handlers, n \in IngestNamespaces :
                 \/ Daemon!Arrive(r, n) \/ Daemon!CreateNamespace(r) \/ Daemon!AppendFails(r)
      BY <3>1, DaemonRequests, Zenon
    <3>2. CASE \E r \in Handlers : Daemon!Append(r)
      BY <3>2, DaemonAppend, Zenon
    <3>3. CASE \E n \in IngestNamespaces : Daemon!DeleteNamespace(n)
      BY <3>3, DaemonDelete, Zenon
    <3>4. CASE \/ Daemon!DiscoverFirst \/ Daemon!DiscoverLate \/ Daemon!DiscoverFails
               \/ Daemon!Tick \/ Daemon!TickEnds \/ Daemon!stopAllStreams \/ Daemon!Return
      BY <3>4, DaemonRun, Zenon
    <3>5. CASE \E n \in IngestNamespaces :
                 Daemon!FlushEntry(n) \/ Daemon!Drain(n) \/ Daemon!EndOfLog(n) \/ Daemon!StreamFails(n)
      BY <3>5, DaemonStream, Zenon
    <3>6. CASE Daemon!Signal \/ Daemon!ListenerFails \/ Daemon!GracefulStop \/ Daemon!Stop \/ Daemon!Close
      BY <3>6, DaemonServe, Zenon
    <3> QED
      BY <2>2, <3>1, <3>2, <3>3, <3>4, <3>5, <3>6, ServerConstants, Zenon DEF Daemon!Next
  <2> QED
    BY <2>1, <2>2, Zenon
<1>3. DaemonInv => ShutdownLosesNothing
  BY Zenon DEF DaemonInv, StreamsFollowRun, EndedHasAll, ShutdownLosesNothing,
         Daemon!AcknowledgedIsDrained, Daemon!StoresOutliveStreams
<1> QED
  BY <1>1, <1>2, <1>3, PTL DEF Daemon!Spec
-----------------------------------------------------------------------------
(* The RPC handlers.                                                       *)

(* Nothing took effect and no status is known before the reply, and what   *)
(* is passed on is the request.                                            *)
RpcInv ==
  /\ stage \in {"interceptor", "handler", "call", "replied"}
  /\ stage # "replied" => status = None /\ ~applied
  /\ stage = "call" => call.op = req.op
  /\ req.op \in {"upsert", "delete", "fork", "query"}

(* Every step of the handlers keeps what is known of the reply.            *)
LEMMA RpcStep ==
  ASSUME RpcInv, Rpc!StatusTellsEffect, Rpc!Next
  PROVE  RpcInv' /\ Rpc!StatusTellsEffect'
<1> USE ServerConstants
<1>1. CASE Rpc!TenantInterceptor
  <2>1. PICK s \in {None, "Unauthenticated", "InvalidArgument"} :
          /\ status' = s /\ stage' = IF s = None THEN "handler" ELSE "replied"
          /\ UNCHANGED <<req, call, applied>>
    BY <1>1, Zenon DEF Rpc!TenantInterceptor, Rpc!Reply, RpcInv
  <2>2. stage = "interceptor"
    BY <1>1, Zenon DEF Rpc!TenantInterceptor
  <2> QED
    BY <2>1, <2>2, Zenon DEF RpcInv, Rpc!StatusTellsEffect
<1>2. CASE Rpc!Refuse
  <2>1. stage = "handler" /\ stage' = "replied" /\ UNCHANGED <<req, call, applied>>
    BY <1>2, Zenon DEF Rpc!Refuse, Rpc!Reply
  <2>2. status' \in {"InvalidArgument", "NotFound"}
    BY <1>2, Zenon DEF Rpc!Refuse, Rpc!Reply, Rpc!Refusal
  <2> QED
    BY <2>1, <2>2, Zenon DEF RpcInv, Rpc!StatusTellsEffect
<1>3. CASE Rpc!Nothing
  <2>1. stage = "handler" /\ stage' = "replied" /\ UNCHANGED <<req, call, applied>>
    BY <1>3, Zenon DEF Rpc!Nothing, Rpc!Reply
  <2>2. status' = "OK" /\ Rpc!NothingToDo /\ Rpc!NothingToDo'
    BY <1>3, Zenon DEF Rpc!Nothing, Rpc!Reply, Rpc!NothingToDo
  <2> QED
    BY <2>1, <2>2, Zenon DEF RpcInv, Rpc!StatusTellsEffect
<1>4. CASE Rpc!Pass
  BY <1>4, Zenon DEF Rpc!Pass, RpcInv, Rpc!StatusTellsEffect
<1>5. CASE Rpc!Return
  <2>1. PICK outcome \in IF call.op = "query" THEN Rpc!EngineOutcomes ELSE Rpc!IngesterOutcomes :
          status' = Rpc!Code(outcome[1]) /\ applied' = outcome[2]
    BY <1>5, Zenon DEF Rpc!Return
  <2>2. \/ outcome[1] = "none" /\ outcome[2] = (call.op # "query")
        \/ outcome[1] \in {"canceled", "deadline", "other", "exists"}
        \/ outcome[1] \in {"mismatch", "zero", "not found"} /\ ~outcome[2]
    <3>1. CASE call.op = "query"
      <4>1. outcome \in {"none", "canceled", "deadline", "mismatch", "zero", "other"} \X {FALSE}
        BY <2>1, <3>1, Zenon DEF Rpc!EngineOutcomes
      <4> QED
        BY <3>1, <4>1, Zenon
    <3>2. CASE call.op # "query"
      <4>1. \/ outcome = <<"none", TRUE>> \/ outcome = <<"not found", FALSE>>
            \/ outcome \in {"canceled", "deadline", "other"} \X BOOLEAN \/ outcome \in {"exists"} \X BOOLEAN
        <5>1. outcome \in Rpc!IngesterOutcomes
          BY <2>1, <3>2, Zenon
        <5>2. CASE call.op = "fork"
          BY <5>1, <5>2, Zenon DEF Rpc!IngesterOutcomes
        <5>3. CASE call.op # "fork"
          BY <5>1, <5>3, Zenon DEF Rpc!IngesterOutcomes
        <5> QED
          BY <5>2, <5>3, Zenon
      <4>2. CASE outcome = <<"none", TRUE>>
        BY <3>2, <4>2, Zenon
      <4>3. CASE outcome = <<"not found", FALSE>>
        BY <4>3, Zenon
      <4>4. CASE outcome \in {"canceled", "deadline", "other"} \X BOOLEAN \/ outcome \in {"exists"} \X BOOLEAN
        BY <4>4, Zenon
      <4> QED
        BY <4>1, <4>2, <4>3, <4>4, Zenon
    <3> QED
      BY <3>1, <3>2, Zenon
  <2>3. status' = "OK" => outcome[1] = "none"
    BY <2>1, Zenon DEF Rpc!Code
  <2>4. status' \in {"InvalidArgument", "Unauthenticated", "NotFound"} =>
          outcome[1] \in {"mismatch", "zero", "not found"}
    BY <2>1, Zenon DEF Rpc!Code
  <2>5. call.op = req.op
    BY <1>5, Zenon DEF RpcInv, Rpc!Return
  <2>6. stage = "call" /\ stage' = "replied" /\ UNCHANGED <<req, call>>
    BY <1>5, Zenon DEF Rpc!Return
  <2> QED
    BY <2>1, <2>2, <2>3, <2>4, <2>5, <2>6, Zenon DEF RpcInv, Rpc!StatusTellsEffect
<1> QED
  BY <1>1, <1>2, <1>3, <1>4, <1>5, Zenon DEF Rpc!Next

(* What holds of the handlers in every state.                              *)
RpcSafe == RpcInv /\ Rpc!StatusTellsEffect

(* It does.                                                                *)
LEMMA RpcIsSafe == Rpc!Spec => []RpcSafe
<1>1. Rpc!Init => RpcSafe
  BY ServerConstants, Zenon DEF Rpc!Init, Rpc!Requests, RpcSafe, RpcInv, Rpc!StatusTellsEffect
<1>2. RpcSafe /\ [Rpc!Next]_(Rpc!vars) => RpcSafe'
  <2> SUFFICES ASSUME RpcSafe, [Rpc!Next]_rpcVars PROVE RpcSafe'
    BY Zenon DEF rpcVars, Rpc!vars
  <2>1. CASE UNCHANGED rpcVars
    BY <2>1, Zenon DEF rpcVars, RpcSafe, RpcInv, Rpc!StatusTellsEffect, Rpc!NothingToDo
  <2> QED
    BY <2>1, RpcStep, Zenon DEF RpcSafe
<1> QED
  BY <1>1, <1>2, PTL DEF Rpc!Spec

(* The status a caller is given is true of what its request did.           *)
THEOREM StatusIsTrue == Rpc!Spec => []StatusTellsEffect
<1>1. RpcSafe => StatusTellsEffect
  BY Zenon DEF RpcSafe, StatusTellsEffect
<1> QED
  BY <1>1, RpcIsSafe, PTL
-----------------------------------------------------------------------------
(* The benchmark of the log.                                               *)

Entries == Nat \cup {Hole, Damaged}

WalbenchType ==
  /\ work \in Seq(Nat) /\ next \in Nat
  /\ hand \in [Writers -> Nat \cup {NoRecord}]
  /\ writer \in [Writers -> {"receive", "test", "append", "gone"}]
  /\ \A w \in Writers : writer[w] \in {"test", "append"} => hand[w] \in Nat
  /\ step \in {"run", "drain", "wait", "idle", "check", "done"}
  /\ stream \in Seq(Entries) /\ damage \in Nat
  /\ appended \in SUBSET Nat
  /\ seq \in Nat /\ reads \in [Readers -> Nat \cup {NoRecord}]
  /\ segs \in Seq(Entries \cup {Unread})

(* The stream grows only while writers run, and while the bucket keeps its *)
(* entries it holds every record that was acknowledged.                    *)
StreamHolds ==
  /\ step \in {"idle", "check", "done"} => \A w \in Writers : writer[w] = "gone"
  /\ damage = 0 =>
       /\ \A i \in DOMAIN stream : stream[i] \in Nat
       /\ \A record \in appended : \E i \in DOMAIN stream : stream[i] = record

(* The readers work through the entries up to the tail: what was handed    *)
(* out and is in nobody's hands was read.                                  *)
ReadersFollow ==
  /\ step \notin {"check", "done"} => segs = << >> /\ seq = 1 /\ \A r \in Readers : reads[r] = NoRecord
  /\ seq >= 1
  /\ Len(segs) <= Len(stream)
  /\ damage = 0 /\ step \in {"check", "done"} => Len(segs) = Len(stream)
  /\ \A r \in Readers : reads[r] # NoRecord => reads[r] \in 1..Len(segs) /\ reads[r] < seq
  /\ \A i \in 1..Len(segs) : i < seq /\ (\A r \in Readers : reads[r] # i) => segs[i] = stream[i]
  /\ step = "done" => Walbench!AllRead

Judged ==
  /\ verdict # "none" => step = "done"
  /\ verdict = "FAIL" => damage > 0
  /\ Walbench!VerdictIsRight

WalbenchInv == WalbenchType /\ StreamHolds /\ ReadersFollow /\ Judged

(* The producer and the program: neither touches the stream or the check.  *)
LEMMA WalbenchProgram ==
  ASSUME WalbenchInv,
         Walbench!Test \/ Walbench!Send \/ Walbench!TimeUp \/ Walbench!DrainOne \/ Walbench!Wait
  PROVE  WalbenchInv'
<1>1. /\ UNCHANGED <<hand, writer, appended, stream, damage, seq, reads, segs, verdict>>
      /\ work' \in Seq(Nat) /\ next' \in Nat
  <2> USE DEF WalbenchInv, WalbenchType, Walbench!check, Walbench!bench
  <2>1. CASE Walbench!Test
    BY <2>1, Zenon DEF Walbench!Test
  <2>2. CASE Walbench!Send
    BY <2>2 DEF Walbench!Send
  <2>3. CASE Walbench!TimeUp
    BY <2>3, Zenon DEF Walbench!TimeUp
  <2>4. CASE Walbench!DrainOne
    BY <2>4 DEF Walbench!DrainOne
  <2>5. CASE Walbench!Wait
    BY <2>5, Zenon DEF Walbench!Wait
  <2> QED
    BY <2>1, <2>2, <2>3, <2>4, <2>5, Zenon
<1>2. \/ step' = step
      \/ step = "run" /\ step' = "drain"
      \/ step = "drain" /\ step' = "wait"
      \/ step = "wait" /\ step' = "idle" /\ \A w \in Writers : writer[w] = "gone"
  BY Zenon DEF Walbench!Test, Walbench!Send, Walbench!TimeUp, Walbench!DrainOne, Walbench!Wait
<1>3. WalbenchType'
  BY <1>1, <1>2, Zenon DEF WalbenchInv, WalbenchType
<1>4. StreamHolds'
  BY <1>1, <1>2, Zenon DEF WalbenchInv, StreamHolds
<1>5. ReadersFollow' /\ Judged'
  BY <1>1, <1>2 DEF WalbenchInv, ReadersFollow, Judged, Walbench!AllRead, Walbench!VerdictIsRight
<1> QED
  BY <1>3, <1>4, <1>5, Zenon DEF WalbenchInv

(* A writer: it is not gone, so the check has not begun.                   *)
LEMMA WalbenchWriter ==
  ASSUME WalbenchInv, NEW w \in Writers,
         \/ Walbench!Receive(w) \/ Walbench!TestStop(w) \/ Walbench!AppendOk(w)
         \/ Walbench!AppendLost(w) \/ Walbench!AppendFails(w)
  PROVE  WalbenchInv'
<1>1. /\ UNCHANGED <<next, step, damage, seq, reads, segs, verdict>>
      /\ work' \in Seq(Nat)
      /\ writer[w] # "gone"
  <2> USE DEF WalbenchInv, WalbenchType, Walbench!check, Walbench!Go
  <2>1. CASE Walbench!Receive(w)
    <3>1. work' = work \/ (work # << >> /\ work' = Tail(work))
      BY <2>1, Zenon DEF Walbench!Receive
    <3>2. work' \in Seq(Nat)
      <4> HIDE DEF WalbenchInv, WalbenchType
      <4>1. work \in Seq(Nat)
        BY Zenon DEF WalbenchInv, WalbenchType
      <4>2. work # << >> => Tail(work) \in Seq(Nat)
        BY <4>1
      <4> QED
        BY <3>1, <4>1, <4>2, Zenon
    <3> QED
      BY <2>1, <3>2, Zenon DEF Walbench!Receive
  <2>2. CASE Walbench!TestStop(w)
    BY <2>2, Zenon DEF Walbench!TestStop
  <2>3. CASE Walbench!AppendOk(w)
    BY <2>3, Zenon DEF Walbench!AppendOk
  <2>4. CASE Walbench!AppendLost(w)
    BY <2>4, Zenon DEF Walbench!AppendLost
  <2>5. CASE Walbench!AppendFails(w)
    BY <2>5, Zenon DEF Walbench!AppendFails
  <2> QED
    BY <2>1, <2>2, <2>3, <2>4, <2>5, Zenon
<1>2. \/ UNCHANGED <<stream, appended>>
      \/ hand[w] \in Nat /\ stream' = Append(stream, hand[w]) /\ appended' \in {appended, appended \cup {hand[w]}}
  BY Zenon DEF WalbenchInv, WalbenchType, Walbench!Receive, Walbench!TestStop, Walbench!AppendOk, Walbench!AppendLost,
         Walbench!AppendFails
<1>3. /\ hand' \in [Writers -> Nat \cup {NoRecord}]
      /\ writer' \in [Writers -> {"receive", "test", "append", "gone"}]
      /\ \A v \in Writers : writer'[v] \in {"test", "append"} => hand'[v] \in Nat
  <2> USE DEF WalbenchInv, WalbenchType, Walbench!Go
  <2>1. CASE Walbench!Receive(w)
    <3>1. CASE work # << >>
      <4>1. Head(work) \in Nat
        BY <3>1
      <4> QED
        BY <2>1, <3>1, <4>1, Zenon DEF Walbench!Receive
    <3>2. CASE work = << >>
      BY <2>1, <3>2, Zenon DEF Walbench!Receive
    <3> QED
      BY <3>1, <3>2, Zenon
  <2>2. CASE Walbench!TestStop(w)
    BY <2>2, Zenon DEF Walbench!TestStop
  <2>3. CASE Walbench!AppendOk(w)
    BY <2>3, Zenon DEF Walbench!AppendOk
  <2>4. CASE Walbench!AppendLost(w)
    BY <2>4, Zenon DEF Walbench!AppendLost
  <2>5. CASE Walbench!AppendFails(w)
    BY <2>5, Zenon DEF Walbench!AppendFails
  <2> QED
    BY <2>1, <2>2, <2>3, <2>4, <2>5, Zenon
<1>4. stream' \in Seq(Entries) /\ appended' \in SUBSET Nat
  <2>1. stream \in Seq(Entries) /\ appended \in SUBSET Nat
    BY Zenon DEF WalbenchInv, WalbenchType
  <2>2. hand[w] \in Nat => hand[w] \in Entries
    BY Zenon DEF Entries
  <2>3. hand[w] \in Nat => Append(stream, hand[w]) \in Seq(Entries)
    BY <2>1, <2>2
  <2>4. hand[w] \in Nat => appended \cup {hand[w]} \in SUBSET Nat
    BY <2>1, Zenon
  <2> QED
    BY <1>2, <2>1, <2>3, <2>4, Zenon
<1>5. step \notin {"idle", "check", "done"}
  BY <1>1, Zenon DEF WalbenchInv, StreamHolds
<1>6. WalbenchType'
  BY <1>1, <1>3, <1>4, Zenon DEF WalbenchInv, WalbenchType
<1>7. /\ Len(stream') >= Len(stream)
      /\ \A i \in DOMAIN stream : i \in DOMAIN stream' /\ stream'[i] = stream[i]
      /\ \A i \in DOMAIN stream' : i \in DOMAIN stream \/ stream'[i] \in Nat
      /\ \A record \in appended' : record \in appended \/ \E i \in DOMAIN stream' : stream'[i] = record
  <2>1. CASE UNCHANGED <<stream, appended>>
    BY <2>1 DEF WalbenchInv, WalbenchType
  <2>2. CASE hand[w] \in Nat /\ stream' = Append(stream, hand[w]) /\ appended' \in {appended, appended \cup {hand[w]}}
    <3>1. stream \in Seq(Entries) /\ Len(stream) \in Nat /\ DOMAIN stream = 1..Len(stream)
      BY DEF WalbenchInv, WalbenchType
    <3>2. /\ Len(stream') = Len(stream) + 1 /\ DOMAIN stream' = 1..Len(stream) + 1
          /\ stream'[Len(stream) + 1] = hand[w]
          /\ \A i \in 1..Len(stream) : stream'[i] = stream[i]
      BY <2>2, <3>1, <1>4
    <3> QED
      BY <2>2, <3>1, <3>2
  <2> QED
    BY <1>2, <2>1, <2>2, Zenon
<1>8. StreamHolds'
  BY <1>1, <1>5, <1>7, Zenon DEF WalbenchInv, StreamHolds
<1>9. ReadersFollow'
  <2>1. segs = << >> /\ seq = 1 /\ \A r \in Readers : reads[r] = NoRecord
    BY <1>5, Zenon DEF WalbenchInv, ReadersFollow
  <2> QED
    BY <2>1, <1>1, <1>4, <1>5 DEF WalbenchInv, ReadersFollow, WalbenchType
<1>10. Judged'
  BY <1>1, <1>5, Zenon DEF WalbenchInv, Judged, Walbench!VerdictIsRight
<1> QED
  BY <1>6, <1>8, <1>9, <1>10, Zenon DEF WalbenchInv

(* The bucket loses or damages an entry: before the check, and counted.    *)
LEMMA WalbenchDamage ==
  ASSUME WalbenchInv, NEW i \in DOMAIN stream, NEW what \in {Hole, Damaged}, Walbench!Damage(i, what)
  PROVE  WalbenchInv'
<1>1. /\ UNCHANGED <<work, next, hand, writer, step, appended, seq, reads, segs, verdict>>
      /\ step = "idle" /\ damage' = damage + 1 /\ stream' = [stream EXCEPT ![i] = what]
  BY Zenon DEF Walbench!Damage, Walbench!bench, Walbench!check
<1>2. stream' \in Seq(Entries) /\ Len(stream') = Len(stream)
  <2>1. stream \in Seq(Entries) /\ what \in Entries
    BY Zenon DEF WalbenchInv, WalbenchType, Entries
  <2> QED
    BY <1>1, <2>1
<1>3. damage' \in Nat /\ damage' # 0
  BY <1>1 DEF WalbenchInv, WalbenchType
<1>4. WalbenchType'
  BY <1>1, <1>2, <1>3, Zenon DEF WalbenchInv, WalbenchType
<1>5. StreamHolds'
  BY <1>1, <1>3, Zenon DEF WalbenchInv, StreamHolds
<1>6. ReadersFollow'
  <2>1. segs = << >> /\ seq = 1 /\ \A r \in Readers : reads[r] = NoRecord
    BY <1>1, Zenon DEF WalbenchInv, ReadersFollow
  <2> QED
    BY <2>1, <1>1, <1>2 DEF WalbenchInv, ReadersFollow, WalbenchType
<1>7. Judged'
  BY <1>1, Zenon DEF WalbenchInv, Judged, Walbench!VerdictIsRight
<1> QED
  BY <1>4, <1>5, <1>6, <1>7, Zenon DEF WalbenchInv

(* The check begins at a tail: the last entry, if none is missing.         *)
LEMMA WalbenchCheckStream ==
  ASSUME WalbenchInv, Walbench!CheckStream
  PROVE  WalbenchInv'
<1>1. /\ UNCHANGED <<work, next, hand, writer, appended, stream, damage, seq, reads, verdict>>
      /\ step = "idle" /\ step' = "check"
  BY Zenon DEF Walbench!CheckStream, Walbench!bench
<1>2. PICK tail \in Walbench!Tails : segs' = [j \in 1..tail |-> Unread]
  BY Zenon DEF Walbench!CheckStream
<1>3. stream \in Seq(Entries) /\ Len(stream) \in Nat /\ DOMAIN stream = 1..Len(stream)
  BY DEF WalbenchInv, WalbenchType
<1> DEFINE n == Len(stream)
<1>4. n \in Nat /\ tail \in Nat /\ tail <= n
  BY <1>2, <1>3 DEF Walbench!Tails, Walbench!Present
<1> HIDE DEF n
<1>5. damage = 0 => tail = n
  <2> SUFFICES ASSUME damage = 0 PROVE tail = n
    BY Zenon
  <2>1. \A j \in DOMAIN stream : stream[j] # Hole
    BY ServerConstants, Zenon DEF WalbenchInv, StreamHolds
  <2>2. Walbench!Present = 1..n
    BY <2>1, <1>3, Zenon DEF Walbench!Present, n
  <2>3. CASE n = 0
    BY <2>3, <1>4
  <2>4. CASE n # 0
    <3>1. 1 \in Walbench!Present
      BY <2>2, <2>4, <1>4
    <3>2. tail \in 1..n /\ tail + 1 \notin 1..n
      BY <1>2, <2>2, <3>1, Zenon DEF Walbench!Tails
    <3> QED
      BY <3>2, <1>4
  <2> QED
    BY <2>3, <2>4, Zenon
<1>6. segs' \in Seq(Entries \cup {Unread}) /\ Len(segs') = tail
  BY <1>2, <1>4
<1>7. WalbenchType'
  BY <1>1, <1>6, Zenon DEF WalbenchInv, WalbenchType
<1>8. StreamHolds'
  BY <1>1, Zenon DEF WalbenchInv, StreamHolds
<1>9. ReadersFollow'
  <2>1. \A r \in Readers : reads[r] = NoRecord
    BY <1>1, Zenon DEF WalbenchInv, ReadersFollow
  <2>2. seq = 1
    BY <1>1, Zenon DEF WalbenchInv, ReadersFollow
  <2>3. \A j \in 1..Len(segs') : ~(j < seq')
    BY <2>2, <1>1, <1>6, <1>4
  <2>4. Len(segs') <= Len(stream') /\ (damage' = 0 => Len(segs') = Len(stream'))
    BY <1>1, <1>4, <1>5, <1>6, Zenon DEF n
  <2> QED
    BY <2>1, <2>2, <2>3, <2>4, <1>1 DEF ReadersFollow
<1>10. Judged'
  BY <1>1, Zenon DEF WalbenchInv, Judged, Walbench!VerdictIsRight
<1> QED
  BY <1>7, <1>8, <1>9, <1>10, Zenon DEF WalbenchInv

(* A reader is handed an entry.                                            *)
LEMMA WalbenchHandOut ==
  ASSUME WalbenchInv, NEW r \in Readers, Walbench!HandOut(r)
  PROVE  WalbenchInv'
<1>1. /\ UNCHANGED <<work, next, hand, writer, appended, stream, damage, step, segs, verdict>>
      /\ step = "check" /\ seq <= Len(segs) /\ reads[r] = NoRecord
      /\ reads' = [reads EXCEPT ![r] = seq] /\ seq' = seq + 1
  BY Zenon DEF Walbench!HandOut, Walbench!bench
<1>2. seq \in Nat \ {0} /\ Len(segs) \in Nat /\ reads \in [Readers -> Nat \cup {NoRecord}]
  BY DEF WalbenchInv, WalbenchType, ReadersFollow
<1>3. WalbenchType'
  BY <1>1, <1>2 DEF WalbenchInv, WalbenchType
<1>4. StreamHolds'
  BY <1>1, Zenon DEF WalbenchInv, StreamHolds
<1>5. ReadersFollow'
  <2>1. \A q \in Readers : reads'[q] # NoRecord => reads'[q] \in 1..Len(segs) /\ reads'[q] < seq'
    <3> SUFFICES ASSUME NEW q \in Readers, reads'[q] # NoRecord
                 PROVE  reads'[q] \in 1..Len(segs) /\ reads'[q] < seq'
      BY Zenon
    <3>1. CASE q = r
      BY <3>1, <1>1, <1>2
    <3>2. CASE q # r
      <4>1. reads'[q] = reads[q] /\ reads[q] \in 1..Len(segs) /\ reads[q] < seq
        BY <3>2, <1>1, <1>2, Zenon DEF WalbenchInv, ReadersFollow
      <4> QED
        BY <4>1, <1>1, <1>2
    <3> QED
      BY <3>1, <3>2, Zenon
  <2>2. \A j \in 1..Len(segs) : j < seq' /\ (\A q \in Readers : reads'[q] # j) => segs[j] = stream[j]
    <3> SUFFICES ASSUME NEW j \in 1..Len(segs), j < seq', \A q \in Readers : reads'[q] # j
                 PROVE  segs[j] = stream[j]
      BY Zenon
    <3>1. reads'[r] = seq
      BY <1>1, <1>2, Zenon
    <3>2. j # seq
      BY <3>1, Zenon
    <3>3. j < seq
      BY <3>2, <1>1, <1>2
    <3>4. \A q \in Readers : reads[q] # j
      <4> SUFFICES ASSUME NEW q \in Readers PROVE reads[q] # j
        BY Zenon
      <4>1. q = r => reads[q] # j
        BY <1>1, ServerConstants
      <4>2. q # r => reads'[q] = reads[q]
        BY <1>1, <1>2, Zenon
      <4> QED
        BY <4>1, <4>2, Zenon
    <3> QED
      BY <3>3, <3>4, Zenon DEF WalbenchInv, ReadersFollow
  <2> QED
    BY <2>1, <2>2, <1>1, <1>2 DEF WalbenchInv, ReadersFollow
<1>6. Judged'
  BY <1>1, Zenon DEF WalbenchInv, Judged, Walbench!VerdictIsRight
<1> QED
  BY <1>3, <1>4, <1>5, <1>6, Zenon DEF WalbenchInv

(* It reads the entry.                                                     *)
LEMMA WalbenchRead ==
  ASSUME WalbenchInv, NEW r \in Readers, Walbench!Read(r)
  PROVE  WalbenchInv'
<1> DEFINE e == reads[r]
<1>1. /\ UNCHANGED <<work, next, hand, writer, appended, stream, damage, step, seq, verdict>>
      /\ e # NoRecord
      /\ reads' = [reads EXCEPT ![r] = NoRecord]
      /\ segs' = [segs EXCEPT ![e] = stream[e]]
  BY Zenon DEF Walbench!Read, Walbench!bench
<1>2. /\ reads \in [Readers -> Nat \cup {NoRecord}]
      /\ segs \in Seq(Entries \cup {Unread}) /\ stream \in Seq(Entries)
      /\ Len(segs) \in Nat /\ Len(stream) \in Nat /\ Len(segs) <= Len(stream) /\ seq \in Nat
      /\ e \in 1..Len(segs) /\ e < seq
  BY <1>1 DEF WalbenchInv, WalbenchType, ReadersFollow
<1>3. step = "check"
  <2>1. step = "done" => e = NoRecord
    BY Zenon DEF WalbenchInv, ReadersFollow, Walbench!AllRead
  <2>2. step \notin {"check", "done"} => e = NoRecord
    BY Zenon DEF WalbenchInv, ReadersFollow
  <2> QED
    BY <2>1, <2>2, <1>1, Zenon
<1> HIDE DEF e
<1>4. stream[e] \in Entries
  BY <1>2
<1>5. segs' \in Seq(Entries \cup {Unread}) /\ Len(segs') = Len(segs)
  BY <1>1, <1>2, <1>4
<1>6. reads' \in [Readers -> Nat \cup {NoRecord}]
  BY <1>1, <1>2, Zenon
<1>7. WalbenchType'
  BY <1>1, <1>5, <1>6, Zenon DEF WalbenchInv, WalbenchType
<1>8. StreamHolds'
  BY <1>1, Zenon DEF WalbenchInv, StreamHolds
<1>9. ReadersFollow'
  <2>1. \A q \in Readers : reads'[q] # NoRecord => reads'[q] \in 1..Len(segs') /\ reads'[q] < seq'
    BY <1>1, <1>2, <1>5, Zenon DEF WalbenchInv, ReadersFollow
  <2>2. \A j \in 1..Len(segs') : j < seq' /\ (\A q \in Readers : reads'[q] # j) => segs'[j] = stream'[j]
    <3> SUFFICES ASSUME NEW j \in 1..Len(segs), j < seq, \A q \in Readers : reads'[q] # j
                 PROVE  segs'[j] = stream[j]
      BY <1>1, <1>5, Zenon
    <3>1. CASE j = e
      BY <3>1, <1>1, <1>2
    <3>2. CASE j # e
      <4>1. \A q \in Readers : reads[q] # j
        <5> SUFFICES ASSUME NEW q \in Readers PROVE reads[q] # j
          BY Zenon
        <5>1. CASE q = r
          BY <5>1, <3>2, Zenon DEF e
        <5>2. CASE q # r
          BY <5>2, <1>1, <1>2, Zenon
        <5> QED
          BY <5>1, <5>2, Zenon
      <4>2. segs[j] = stream[j]
        BY <4>1, Zenon DEF WalbenchInv, ReadersFollow
      <4> QED
        BY <3>2, <4>2, <1>1, <1>2
    <3> QED
      BY <3>1, <3>2, Zenon
  <2> QED
    BY <2>1, <2>2, <1>1, <1>3, <1>5, Zenon DEF WalbenchInv, ReadersFollow
<1>10. Judged'
  BY <1>1, <1>3, Zenon DEF WalbenchInv, Judged, Walbench!VerdictIsRight
<1> QED
  BY <1>7, <1>8, <1>9, <1>10, Zenon DEF WalbenchInv

(* The verdict: all has been read, so what the readers found is the stream *)
(* up to its tail.                                                         *)
LEMMA WalbenchJudge ==
  ASSUME WalbenchInv, Walbench!Judge
  PROVE  WalbenchInv'
<1>1. /\ UNCHANGED <<work, next, hand, writer, appended, stream, damage, seq, reads, segs>>
      /\ step = "check" /\ step' = "done" /\ Walbench!AllRead
      /\ verdict' = IF Walbench!ok THEN "PASS" ELSE "FAIL"
  BY Zenon DEF Walbench!Judge, Walbench!bench
<1>2. WalbenchType' /\ StreamHolds'
  BY <1>1, Zenon DEF WalbenchInv, WalbenchType, StreamHolds
<1>3. ReadersFollow'
  BY <1>1, Zenon DEF WalbenchInv, ReadersFollow, Walbench!AllRead
<1>4. /\ DOMAIN segs = 1..Len(segs) /\ DOMAIN stream = 1..Len(stream)
      /\ Len(segs) \in Nat /\ Len(stream) \in Nat /\ Len(segs) <= Len(stream)
      /\ seq \in Nat
  BY DEF WalbenchInv, WalbenchType, ReadersFollow
<1>5. \A i \in DOMAIN segs : i \in DOMAIN stream /\ segs[i] = stream[i]
  <2> SUFFICES ASSUME NEW i \in DOMAIN segs PROVE i \in DOMAIN stream /\ segs[i] = stream[i]
    BY Zenon
  <2>1. i < seq /\ i \in 1..Len(segs) /\ i \in 1..Len(stream)
    BY <1>1, <1>4 DEF Walbench!AllRead
  <2>2. \A r \in Readers : reads[r] # i
    BY <1>1, <1>4, ServerConstants DEF Walbench!AllRead
  <2> QED
    BY <2>1, <2>2, <1>4, Zenon DEF WalbenchInv, ReadersFollow
<1>6. Walbench!Found = {stream[i] : i \in DOMAIN segs}
  BY <1>5, Zenon DEF Walbench!Found
<1>7. CASE Walbench!ok
  <2>1. \A record \in appended : \E i \in DOMAIN stream : stream[i] = record
    BY <1>5, <1>6, <1>7, Zenon DEF Walbench!ok
  <2>2. \A i \in DOMAIN segs : stream[i] \notin {Hole, Damaged}
    BY <1>6, <1>7, Zenon DEF Walbench!ok
  <2> QED
    BY <2>1, <2>2, <1>1, <1>2, <1>3, <1>7, Zenon DEF WalbenchInv, Judged, Walbench!VerdictIsRight
<1>8. CASE ~Walbench!ok
  <2>1. damage # 0
    <3> SUFFICES ASSUME damage = 0 PROVE Walbench!ok
      BY <1>8, Zenon
    <3>1. DOMAIN segs = DOMAIN stream
      BY <1>1, <1>4, Zenon DEF WalbenchInv, ReadersFollow
    <3>2. Walbench!Found \subseteq Nat
      BY <3>1, <1>6, Zenon DEF WalbenchInv, StreamHolds
    <3>3. appended \subseteq Walbench!Found
      BY <3>1, <1>6, Zenon DEF WalbenchInv, StreamHolds
    <3> QED
      BY <3>2, <3>3, ServerConstants, Zenon DEF Walbench!ok
  <2>2. damage > 0
    BY <2>1 DEF WalbenchInv, WalbenchType
  <2> QED
    BY <2>2, <1>1, <1>2, <1>3, <1>8, Zenon DEF WalbenchInv, Judged, Walbench!VerdictIsRight
<1> QED
  BY <1>7, <1>8, Zenon

(* The check of a log passes only a log that is whole and holds every      *)
(* acknowledged record, and fails only one the bucket has lost or damaged  *)
(* something of, for any number of writers, readers and records.           *)
THEOREM CheckIsRight == Walbench!Spec => []VerdictIsRight
<1>1. Walbench!Init => WalbenchInv
  BY DEF Walbench!Init, WalbenchInv, WalbenchType, StreamHolds, ReadersFollow, Judged,
         Walbench!VerdictIsRight
<1>2. WalbenchInv /\ [Walbench!Next]_(Walbench!vars) => WalbenchInv'
  <2> SUFFICES ASSUME WalbenchInv, [Walbench!Next]_walbenchVars PROVE WalbenchInv'
    BY Zenon DEF walbenchVars, Walbench!vars, Walbench!bench, Walbench!check
  <2>1. CASE UNCHANGED walbenchVars
    BY <2>1 DEF walbenchVars, WalbenchInv, WalbenchType, StreamHolds, ReadersFollow, Judged,
                Walbench!AllRead, Walbench!VerdictIsRight
  <2>2. CASE Walbench!Next
    BY <2>2, WalbenchProgram, WalbenchWriter, WalbenchDamage, WalbenchCheckStream, WalbenchHandOut,
       WalbenchRead, WalbenchJudge, Zenon DEF Walbench!Next
  <2> QED
    BY <2>1, <2>2, Zenon
<1>3. WalbenchInv => VerdictIsRight
  BY Zenon DEF WalbenchInv, Judged, VerdictIsRight
<1> QED
  BY <1>1, <1>2, <1>3, PTL DEF Walbench!Spec
=============================================================================
