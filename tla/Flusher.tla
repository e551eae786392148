------------------------------ MODULE Flusher ------------------------------
(***************************************************************************)
(* The stream flushers of ingest/flusher.go: each ingest node runs one for *)
(* the namespace.  A flusher replays the log from the lowest checkpoint of *)
(* the listed branches, and for each entry uploads a segment, adds it to   *)
(* the branch's manifest by compare-and-swap, and lists the branch in the  *)
(* catalog, before it looks at the next entry.  Several flushers do this   *)
(* to the same log at once; any of them may stop at any point.             *)
(***************************************************************************)
EXTENDS BranchStore

CONSTANTS Flushers

VARIABLES
  fpc,         \* where each flusher is
  mode,        \* "run", "cancelled" (shutdown requested), "drain" (shutdownFlush)
  fseq,        \* the entry the flusher is at
  checkpoints, \* branchCheckpoints; 0 stands for a missing key
  todo,        \* initCheckpoints: the branches not read yet
  low,         \* initCheckpoints: the lowest checkpoint found, -1 when none
  got,         \* flushBranch: the manifest as last read or written
  cancelledAt  \* history: the length of the log when shutdown was requested

flusherVars == <<fpc, mode, fseq, checkpoints, todo, low, got, cancelledAt>>

Busy    == {"list", "init", "read", "upload", "fetch", "write", "register"}
Stopped == {"down", "dead", "drained"}

FlusherInit ==
  /\ fpc         = [f \in Flushers |-> "down"]
  /\ mode        = [f \in Flushers |-> "run"]
  /\ fseq        = [f \in Flushers |-> 0]
  /\ checkpoints = [f \in Flushers |-> [b \in Branches |-> 0]]
  /\ todo        = [f \in Flushers |-> {}]
  /\ low         = [f \in Flushers |-> -1]
  /\ got         = [f \in Flushers |-> NoManifest]
  /\ cancelledAt = [f \in Flushers |-> 0]

FlusherType ==
  /\ fpc         \in [Flushers -> Busy \cup Stopped]
  /\ mode        \in [Flushers -> {"run", "cancelled", "drain"}]
  /\ fseq        \in [Flushers -> Nat]
  /\ checkpoints \in [Flushers -> [Branches -> Nat]]
  /\ todo        \in [Flushers -> SUBSET Branches]
  /\ low         \in [Flushers -> Nat \cup {-1}]
  /\ got         \in [Flushers -> Manifest]
  /\ cancelledAt \in [Flushers -> Nat]

At(f, here)   == fpc[f] = here
Goto(f, next) == fpc' = [fpc EXCEPT ![f] = next]
Current(f)    == wal[fseq[f]].branch

(* The stream or its process ends, and what it had in memory is gone.      *)
Halt(f, end) ==
  /\ Goto(f, end)
  /\ mode'        = [mode        EXCEPT ![f] = "run"]
  /\ fseq'        = [fseq        EXCEPT ![f] = 0]
  /\ checkpoints' = [checkpoints EXCEPT ![f] = [b \in Branches |-> 0]]
  /\ todo'        = [todo        EXCEPT ![f] = {}]
  /\ low'         = [low         EXCEPT ![f] = -1]
  /\ got'         = [got         EXCEPT ![f] = NoManifest]
  /\ UNCHANGED cancelledAt
-----------------------------------------------------------------------------
(* A process that has no stream for the namespace yet discovers it.        *)
Boot(f) ==
  /\ At(f, "down")
  /\ Goto(f, "list")
  /\ cancelledAt' = [cancelledAt EXCEPT ![f] = 0]
  /\ UNCHANGED <<storeVars, mode, fseq, checkpoints, todo, low, got>>

(* A stream that ended, by an error or by shutdown, keeps its place in the *)
(* map of streams, and no discovery starts another.  Only the end of the   *)
(* process makes room for one.                                             *)
Exit(f) ==
  /\ fpc[f] \in {"dead", "drained"}
  /\ Halt(f, "down")
  /\ UNCHANGED storeVars

(* initCheckpoints: list the branches, then read their manifests one by    *)
(* one, while others change them.                                          *)
InitList(f) ==
  /\ At(f, "list")
  /\ Goto(f, "init")
  /\ todo' = [todo EXCEPT ![f] = ListBranches]
  /\ low' = [low EXCEPT ![f] = -1]
  /\ UNCHANGED <<storeVars, mode, fseq, checkpoints, got, cancelledAt>>

InitRead(f, b) ==
  /\ At(f, "init")
  /\ b \in todo[f]
  /\ todo' = [todo EXCEPT ![f] = @ \ {b}]
  /\ LET c == manifests[b].checkpoint IN
     IF Found(manifests[b])
     THEN /\ checkpoints' = [checkpoints EXCEPT ![f][b] = c]
          /\ low' = [low EXCEPT ![f] = IF @ = -1 \/ c < @ THEN c ELSE @]
     ELSE UNCHANGED <<checkpoints, low>>
  /\ UNCHANGED <<storeVars, fpc, mode, fseq, got, cancelledAt>>

InitDone(f) ==
  /\ At(f, "init")
  /\ todo[f] = {}
  /\ Goto(f, "read")
  /\ fseq' = [fseq EXCEPT ![f] = (IF low[f] = -1 THEN 0 ELSE low[f]) + 1]
  /\ low' = [low EXCEPT ![f] = -1]
  /\ UNCHANGED <<storeVars, mode, checkpoints, todo, got, cancelledAt>>

(* processRecords.  A fork event only moves the checkpoint in memory; a    *)
(* mutation at or below its branch's checkpoint is skipped.                *)
ReadFork(f) ==
  /\ At(f, "read")
  /\ fseq[f] <= Len(wal)
  /\ ~IsMutation(fseq[f])
  /\ checkpoints' = [checkpoints EXCEPT ![f][Current(f)] =
                       IF fseq[f] > @ THEN fseq[f] ELSE @]
  /\ fseq' = [fseq EXCEPT ![f] = @ + 1]
  /\ UNCHANGED <<storeVars, fpc, mode, todo, low, got, cancelledAt>>

(* Mutant: an entry just above the checkpoint counts as covered.           *)
CoveredOneMore(f) == fseq[f] <= checkpoints[f][Current(f)] + 1

Covered(f) == fseq[f] <= checkpoints[f][Current(f)]

(* Mutants: a fork event is flushed as if it were a mutation; the manifest *)
(* is updated without the segment.                                         *)
ReadAnything(f) ==
  /\ At(f, "read")
  /\ fseq[f] <= Len(wal)
  /\ Goto(f, "upload")
  /\ UNCHANGED <<storeVars, mode, fseq, checkpoints, todo, low, got, cancelledAt>>

ReadSkipsUpload(f) ==
  /\ At(f, "read")
  /\ fseq[f] <= Len(wal)
  /\ IsMutation(fseq[f])
  /\ IF Covered(f)
     THEN fseq' = [fseq EXCEPT ![f] = @ + 1] /\ UNCHANGED fpc
     ELSE Goto(f, "fetch") /\ UNCHANGED fseq
  /\ UNCHANGED <<storeVars, mode, checkpoints, todo, low, got, cancelledAt>>

ReadMutation(f) ==
  /\ At(f, "read")
  /\ fseq[f] <= Len(wal)
  /\ IsMutation(fseq[f])
  /\ IF Covered(f)
     THEN fseq' = [fseq EXCEPT ![f] = @ + 1] /\ UNCHANGED fpc
     ELSE Goto(f, "upload") /\ UNCHANGED fseq
  /\ UNCHANGED <<storeVars, mode, checkpoints, todo, low, got, cancelledAt>>

(* flushBranch.  The segment first; one that exists already is as good.    *)
Upload(f) ==
  /\ At(f, "upload")
  /\ Goto(f, "fetch")
  /\ segments' = segments \cup {wal[fseq[f]]}
  /\ UNCHANGED <<wal, manifests, catalog, generation, faults, rolledBack,
                 mode, fseq, checkpoints, todo, low, got, cancelledAt>>

(* Mutant: the entry is appended whatever the checkpoint says.             *)
FetchAndWrite(f) ==
  /\ At(f, "fetch")
  /\ got' = [got EXCEPT ![f] = manifests[Current(f)]]
  /\ Goto(f, "write")
  /\ UNCHANGED <<storeVars, mode, fseq, checkpoints, todo, low, cancelledAt>>

(* Then the manifest.  If it covers the entry already, some flusher has    *)
(* written it, perhaps this one in an earlier life.                        *)
Fetch(f) ==
  /\ At(f, "fetch")
  /\ got' = [got EXCEPT ![f] = manifests[Current(f)]]
  /\ Goto(f, IF manifests[Current(f)].checkpoint >= fseq[f] THEN "register" ELSE "write")
  /\ UNCHANGED <<storeVars, mode, fseq, checkpoints, todo, low, cancelledAt>>

(* Mutant: the manifest is written without a condition.                    *)
CommitBlindly(f) ==
  LET segs == Append(got[f].segments, fseq[f]) IN
  /\ At(f, "write")
  /\ Write(Current(f), fseq[f], segs)
  /\ Goto(f, "register")
  /\ got' = [got EXCEPT ![f] = [generation |-> generation + 1,
                                checkpoint |-> fseq[f], segments |-> segs]]
  /\ UNCHANGED <<wal, catalog, segments, rolledBack, faults,
                 mode, fseq, checkpoints, todo, low, cancelledAt>>

Commit(f) ==
  LET segs == Append(got[f].segments, fseq[f]) IN
  /\ At(f, "write")
  /\ Writable(Current(f), got[f].generation)
  /\ Write(Current(f), fseq[f], segs)
  /\ \/ /\ Goto(f, "register")
        /\ got' = [got EXCEPT ![f] = [generation |-> generation + 1,
                                      checkpoint |-> fseq[f], segments |-> segs]]
        /\ UNCHANGED <<faults, mode, fseq, checkpoints, todo, low, cancelledAt>>
     \/ /\ Fault     \* the answer is lost, and the client's own retry fails its condition
        /\ Goto(f, "fetch")
        /\ got' = [got EXCEPT ![f] = NoManifest]
        /\ UNCHANGED <<mode, fseq, checkpoints, todo, low, cancelledAt>>
     \/ /\ Fault     \* the answer is an error
        /\ Halt(f, "dead")
  /\ UNCHANGED <<wal, catalog, segments, rolledBack>>

(* Mutant: the flusher tries again with the manifest it has.               *)
ConflictKeepsManifest(f) ==
  /\ At(f, "write")
  /\ ~Writable(Current(f), got[f].generation)
  /\ UNCHANGED <<storeVars, flusherVars>>

Conflict(f) ==
  /\ At(f, "write")
  /\ ~Writable(Current(f), got[f].generation)
  /\ Goto(f, "fetch")
  /\ got' = [got EXCEPT ![f] = NoManifest]
  /\ UNCHANGED <<storeVars, mode, fseq, checkpoints, todo, low, cancelledAt>>

(* Last, the catalog; only now is the entry done with.                     *)
Register(f) ==
  /\ At(f, "register")
  /\ AddBranch(Current(f))
  /\ \/ /\ Goto(f, "read")
        /\ checkpoints' = [checkpoints EXCEPT ![f][Current(f)] = got[f].checkpoint]
        /\ fseq' = [fseq EXCEPT ![f] = @ + 1]
        /\ got' = [got EXCEPT ![f] = NoManifest]
        /\ UNCHANGED <<faults, mode, todo, low, cancelledAt>>
     \/ Fault /\ Halt(f, "dead")
  /\ UNCHANGED <<wal, manifests, segments, generation, rolledBack>>
-----------------------------------------------------------------------------
(* Any request may fail without effect.  The stream ends.                  *)
FlusherError(f) ==
  /\ fpc[f] \in Busy
  /\ Fault
  /\ Halt(f, "dead")
  /\ UNCHANGED <<wal, manifests, catalog, segments, generation, rolledBack>>

FlusherCrash(f) ==
  /\ fpc[f] \in Busy
  /\ Fault
  /\ Halt(f, "down")
  /\ UNCHANGED <<wal, manifests, catalog, segments, generation, rolledBack>>

(* Shutdown.  The context is cancelled; the stream notices at its next     *)
(* request or when it waits for new entries, and turns to shutdownFlush,   *)
(* which takes the entry it was at from the start, or, before it had one,  *)
(* initialises again.                                                      *)
Cancel(f) ==
  /\ fpc[f] \in Busy
  /\ mode[f] = "run"
  /\ mode' = [mode EXCEPT ![f] = "cancelled"]
  /\ cancelledAt' = [cancelledAt EXCEPT ![f] = Len(wal)]
  /\ UNCHANGED <<storeVars, fpc, fseq, checkpoints, todo, low, got>>

(* Mutant: shutdownFlush starts after the entry that was interrupted.      *)
NoticeAndSkip(f) ==
  /\ fpc[f] \in Busy
  /\ mode[f] = "cancelled"
  /\ mode' = [mode EXCEPT ![f] = "drain"]
  /\ Goto(f, IF fpc[f] \in {"list", "init"} THEN "list" ELSE "read")
  /\ fseq' = [fseq EXCEPT ![f] = @ + 1]
  /\ todo' = [todo EXCEPT ![f] = {}]
  /\ low' = [low EXCEPT ![f] = -1]
  /\ got' = [got EXCEPT ![f] = NoManifest]
  /\ UNCHANGED <<storeVars, checkpoints, cancelledAt>>

Notice(f) ==
  /\ fpc[f] \in Busy
  /\ mode[f] = "cancelled"
  /\ mode' = [mode EXCEPT ![f] = "drain"]
  /\ Goto(f, IF fpc[f] \in {"list", "init"} THEN "list" ELSE "read")
  /\ todo' = [todo EXCEPT ![f] = {}]
  /\ low' = [low EXCEPT ![f] = -1]
  /\ got' = [got EXCEPT ![f] = NoManifest]
  /\ UNCHANGED <<storeVars, fseq, checkpoints, cancelledAt>>

Drained(f) ==
  /\ At(f, "read")
  /\ mode[f] = "drain"
  /\ fseq[f] > Len(wal)
  /\ Halt(f, "drained")
  /\ UNCHANGED storeVars

FlusherStep(f) ==
  \/ InitList(f) \/ InitDone(f) \/ \E b \in Branches : InitRead(f, b)
  \/ ReadFork(f) \/ ReadMutation(f) \/ Upload(f) \/ Fetch(f)
  \/ Commit(f) \/ Conflict(f) \/ Register(f) \/ Notice(f) \/ Drained(f)

FlusherNext(f) ==
  \/ FlusherStep(f) \/ Boot(f) \/ Exit(f) \/ Cancel(f) \/ FlusherError(f) \/ FlusherCrash(f)
=============================================================================
