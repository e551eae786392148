------------------------------- MODULE Ingest -------------------------------
(***************************************************************************)
(* The ingest tier on one namespace: clients append mutations, flushers    *)
(* turn log entries into manifests, and forks copy manifests, all at once. *)
(***************************************************************************)
EXTENDS Flusher, Fork

vars == <<storeVars, flusherVars, forkVars>>

Init == StoreInit /\ FlusherInit /\ ForkInit

Client == \E b \in Branches, batch \in Batches : Mutate(b, batch) /\ UNCHANGED <<flusherVars, forkVars>>

Next ==
  \/ Client
  \/ \E f \in Flushers : FlusherNext(f) /\ UNCHANGED forkVars
  \/ \E x \in Forks : ForkNext(x) /\ UNCHANGED flusherVars

Spec == Init /\ [][Next]_vars

(* A running stream keeps going.  Nothing starts one but an operator.      *)
FlushersRun == \A f \in Flushers : WF_vars(FlusherStep(f) /\ UNCHANGED forkVars)

FairSpec == Spec /\ FlushersRun
-----------------------------------------------------------------------------
TypeOK == StoreType /\ FlusherType /\ ForkType

(* Every checkpoint vouches for the whole log below it, not only for its   *)
(* own branch: no entry at or below any branch's checkpoint still has to   *)
(* reach its manifest.  This is why replay may start at the lowest listed  *)
(* checkpoint (initCheckpoints) although unlisted branches are not read.   *)
CheckpointsCover ==
  \A b \in Branches : \A k \in DOMAIN wal :
    k <= manifests[b].checkpoint => Settled(k)

(* A flusher never goes past an entry that is not in its branch's          *)
(* manifest: whatever the others did, a mutation it skips as covered or    *)
(* finishes is there (processRecords, flushBranch).                        *)
PastFirst == {"read", "upload", "fetch", "write", "register"}

NothingSkipped ==
  \A f \in Flushers : fpc[f] \in PastFirst =>
    \A k \in DOMAIN wal : k < fseq[f] => Settled(k)

(* A manifest holds an entry at most once, in log order, and none past its *)
(* checkpoint, however often crashed or competing flushers replayed it.    *)
OnceInOrder ==
  \A b \in Branches :
    LET segs == manifests[b].segments IN
    /\ \A i, j \in DOMAIN segs : i < j => segs[i] < segs[j]
    /\ \A i \in DOMAIN segs : segs[i] <= manifests[b].checkpoint

(* Every segment a manifest refers to has been uploaded.                   *)
SegmentsExist ==
  \A b \in Branches : \A i \in DOMAIN manifests[b].segments :
    LET k == manifests[b].segments[i] IN k \in DOMAIN wal /\ wal[k] \in segments

(* A flusher that shuts down without an error has flushed everything that  *)
(* was in the log when shutdown was requested (shutdownFlush).             *)
DrainCompletes ==
  \A f \in Flushers : fpc[f] = "drained" =>
    \A k \in DOMAIN wal : k <= cancelledAt[f] => Settled(k)

(* Branch heads only advance: a step never lowers a checkpoint and never   *)
(* drops or reorders segments.  The exception is a branch whose manifest a *)
(* fork's rollback has deleted: of it nothing is said, then or later.      *)
Extends(new, old) ==
  /\ new.checkpoint >= old.checkpoint
  /\ Len(new.segments) >= Len(old.segments)
  /\ \A i \in DOMAIN old.segments : new.segments[i] = old.segments[i]

HeadsAdvance ==
  [][\A b \in Branches :
       b \in rolledBack' \/ Extends(manifests'[b], manifests[b])]_vars

SomeStreamRuns == \E f \in Flushers : fpc[f] \in Busy

(* Every entry of the log reaches its branch's manifest in the end, as     *)
(* long as again and again some stream runs: whatever conflicts with other *)
(* flushers and with forks, lost answers, shutdowns and failures of other  *)
(* streams it meets, replay gets through.  Where all streams have ended    *)
(* and no process is started, nothing is promised.                         *)
EverythingFlushed ==
  []<>SomeStreamRuns =>
    \A k \in 1..MaxWal : (k <= Len(wal)) ~> (k <= Len(wal) /\ Settled(k))
-----------------------------------------------------------------------------
(* What the repository says and the code does not do.                      *)

(* The branch of every entry that a flusher is past is listed.             *)
RegisteredBeforeLater ==
  \A f \in Flushers : fpc[f] \in PastFirst =>
    \A k \in DOMAIN wal : k < fseq[f] /\ IsMutation(k) =>
      wal[k].branch \in ListBranches \cup rolledBack

(* Replay, wherever it starts, starts after entries that have reached      *)
(* their manifests only.  The exception for rolled back branches that      *)
(* CheckpointsCover makes is left out.                                     *)
BelowReplay(k) ==
  /\ \E b \in ListBranches : Found(manifests[b])
  /\ \A b \in ListBranches : Found(manifests[b]) => k <= manifests[b].checkpoint

ReplaySkipsNothing ==
  \A k \in DOMAIN wal : BelowReplay(k) /\ IsMutation(k) => Materialised(k)

(* The target of a fork that succeeded exists and is listed.               *)
ForkStands ==
  \A x \in Forks : xpc[x] = "acknowledged" =>
    Found(manifests[target[x]]) /\ target[x] \in catalog

(* While a fork copies a manifest and rolls back beside a flusher, every   *)
(* checkpoint vouches for the whole log below it, no flusher goes past an  *)
(* entry that is not in its manifest, and no manifest holds one twice or   *)
(* out of order.                                                           *)
ForksLoseNothing == CheckpointsCover /\ NothingSkipped /\ OnceInOrder
=============================================================================
