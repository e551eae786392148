--------------------------- MODULE IngestProofs -----------------------------
(***************************************************************************)
(* What is proved about Ingest: the other steps of flushers and the steps  *)
(* of clients and forks keep the invariant of IngestInductive, so it holds *)
(* always, and the properties that Ingest states follow from it.           *)
(***************************************************************************)
EXTENDS IngestInductive

(* The steps by which a flusher writes, fails and shuts down.              *)

(* The conditional write preserves the invariant, whatever becomes of its  *)
(* answer.                                                                 *)
LEMMA CommitStep ==
  ASSUME IngestInv, NEW f \in Flushers, Commit(f), UNCHANGED forkVars
  PROVE  IngestInv'
<1>1. PICK b : b = Current(f)
  BY Zenon
<1>2. PICK n : n = fseq[f]
  BY Zenon
<1> DEFINE new == [generation |-> generation + 1, checkpoint |-> n,
                   segments |-> Append(got[f].segments, n)]
<1>3. FlusherType /\ StoreType /\ ForkType /\ TypeOK /\ FlusherInv(f)
  BY Zenon DEF IngestInv, TypeOK
<1>4. /\ b \in Branches /\ n \in Nat /\ n >= 1 /\ n <= Len(wal)
      /\ wal[n] \in Mutation /\ wal[n] \in segments
      /\ StoreGrows
      /\ manifests'[b] = new
      /\ manifests'[b] \in Manifest
      /\ \A d \in Branches : d = b \/ manifests'[d] = manifests[d]
      /\ Vouched(n, wal', manifests', rolledBack')
      /\ WellFormed(manifests'[b], wal', segments')
      /\ CachedIn(manifests'[b], manifests', generation')
  <2>1. Committed(f, b, n)
    BY <1>1, <1>2, CommitStore, Zenon
  <2> QED
    BY <2>1, Zenon DEF Committed
<1>5. new.checkpoint = n
  BY Zenon
<1>6. Safe(manifests[b])' /\ Cached(manifests[b])'
  <2>1. manifests'[b].checkpoint = n
    BY <1>4, <1>5, Zenon
  <2> QED
    BY <1>4, <2>1, Zenon DEF Safe, Cached, VouchedNow
<1>7. ForkType' /\ \A x \in Forks : copy'[x] = copy[x]
  BY <1>3, Zenon DEF ForkType, forkVars
<1>8. StoreType'
  <2>1. faults' \in 0..MaxFaults
    BY <1>3, StoreConstants DEF StoreType, Commit, Fault
  <2> QED
    BY <1>3, <1>4, <2>1, Zenon DEF StoreType, StoreGrows, Commit
<1>9. FlusherType' /\ \A g \in Flushers : SameFlusher(g) \/ FlusherInv(g)'
  <2>1. CASE /\ Goto(f, "register")
             /\ got' = [got EXCEPT ![f] = new]
             /\ UNCHANGED <<faults, mode, fseq, checkpoints, todo, low, cancelledAt>>
    <3> HIDE DEF new
    <3>1. FlusherType'
      BY <1>3, <1>4, <2>1, Zenon DEF FlusherType, Goto, Busy
    <3>2. ASSUME NEW g \in Flushers, g # f PROVE SameFlusher(g)
      BY <1>3, <2>1, <3>2, Zenon DEF FlusherType, SameFlusher, Goto
    <3>3. /\ fpc'[f] = "register" /\ got'[f] = new /\ fseq'[f] = n /\ fpc[f] = "write"
          /\ low[f] \in Nat \cup {-1} /\ checkpoints[f] \in [Branches -> Nat]
          /\ cancelledAt[f] \in Nat
      BY <1>2, <1>3, <2>1, Zenon DEF FlusherType, Goto, Commit, At
    <3>4. \A k \in Nat : VouchedNow(k) => Vouched(k, wal', manifests', rolledBack')
      BY <1>3, <1>4, Stable, Zenon
    <3>5. Safe(got[f])' /\ Cached(got[f])'
      BY <1>4, <1>5, <3>3, Zenon DEF Safe, Cached, VouchedNow
    <3>6. /\ (low[f] # -1 => VouchedNow(low[f]))'
          /\ (\A d \in Branches : VouchedNow(checkpoints[f][d]))'
      BY <1>3, <2>1, <3>3, <3>4, Zenon DEF FlusherInv, VouchedNow
    <3>7. n - 1 \in Nat /\ Vouched(n - 1, wal', manifests', rolledBack')
      <4>1. n - 1 \in Nat
        BY <1>4
      <4>2. VouchedNow(n - 1)
        BY <1>2, <1>3, <3>3, Zenon DEF FlusherInv, PastFirst
      <4> QED
        BY <3>4, <4>1, <4>2, Zenon
    <3>8. wal' = wal /\ segments' = segments
      BY Zenon DEF Commit
    <3>9. cancelledAt'[f] <= Len(wal')
      BY <1>3, <2>1, <3>8, Zenon DEF FlusherInv
    <3>10. FlusherInv(f)'
      BY <1>4, <1>5, <3>3, <3>5, <3>6, <3>7, <3>8, <3>9 DEF FlusherInv, VouchedNow
    <3> QED
      BY <3>1, <3>2, <3>10, Zenon
  <2>2. CASE /\ Goto(f, "fetch")
             /\ got' = [got EXCEPT ![f] = NoManifest]
             /\ UNCHANGED <<mode, fseq, checkpoints, todo, low, cancelledAt>>
    BY <1>4, <2>2, Again, Zenon DEF Commit
  <2>3. CASE Halt(f, "dead")
    BY <1>4, <2>3, HaltStep, Zenon DEF Stopped
  <2> QED
    BY <1>2, <2>1, <2>2, <2>3, Zenon DEF Commit
<1>10. TypeOK'
  BY <1>7, <1>8, <1>9, Zenon DEF TypeOK
<1> QED
  BY <1>4, <1>6, <1>7, <1>9, <1>10, Assemble, Zenon

(* A failed condition only sends the flusher back to read again.           *)
LEMMA ConflictStep ==
  ASSUME IngestInv, NEW f \in Flushers, Conflict(f), UNCHANGED forkVars
  PROVE  IngestInv'
<1>1. StoreType /\ ForkType
  BY Zenon DEF IngestInv, TypeOK
<1>2. StoreGrows /\ \A b \in Branches : manifests'[b] = manifests[b]
  BY <1>1, StoreSame, Zenon DEF Conflict, storeVars
<1>3. FlusherType' /\ \A g \in Flushers : SameFlusher(g) \/ FlusherInv(g)'
  BY <1>2, Again, Zenon DEF Conflict
<1>4. TypeOK' /\ \A x \in Forks : copy'[x] = copy[x]
  BY <1>1, <1>3, Zenon DEF Conflict, TypeOK, StoreType, ForkType, storeVars, forkVars
<1> QED
  BY <1>2, <1>3, <1>4, Assemble, Zenon

(* Past the register step, the manifest the flusher saw covers its entry.  *)
LEMMA RegisterStep ==
  ASSUME IngestInv, NEW f \in Flushers, Register(f), UNCHANGED forkVars
  PROVE  IngestInv'
<1> USE DEF Register, At, Goto, AddBranch
<1>1. FlusherType /\ StoreType /\ ForkType /\ TypeOK /\ FlusherInv(f)
  BY Zenon DEF IngestInv, TypeOK
<1>2. /\ fseq[f] \in Nat /\ fseq[f] >= 1 /\ wal \in Seq(Entry) /\ wal[fseq[f]] \in Mutation
      /\ got[f] \in Manifest /\ Safe(got[f]) /\ got[f].checkpoint >= fseq[f]
  BY <1>1, Zenon DEF FlusherType, FlusherInv, Flushing, PastFirst, StoreType
<1>3. Current(f) \in Branches
  BY <1>2, Zenon DEF Current, Mutation
<1>4. got[f].checkpoint \in Nat /\ VouchedNow(got[f].checkpoint)
  BY <1>2, Zenon DEF Manifest, Safe
<1>5. VouchedNow(fseq[f])
  BY <1>2, <1>4, VouchedBelow, Zenon DEF VouchedNow
<1>6. StoreGrows /\ \A b \in Branches : manifests'[b] = manifests[b]
  BY <1>1 DEF StoreGrows, StoreType
<1>7. StoreType'
  <2>1. faults' \in 0..MaxFaults
    BY <1>1, StoreConstants DEF StoreType, Fault
  <2> QED
    BY <1>1, <1>3, <2>1, Zenon DEF StoreType
<1>8. ForkType' /\ \A x \in Forks : copy'[x] = copy[x]
  BY <1>1, Zenon DEF ForkType, forkVars
<1>9. FlusherType' /\ \A g \in Flushers : SameFlusher(g) \/ FlusherInv(g)'
  <2>1. CASE /\ fpc' = [fpc EXCEPT ![f] = "read"]
             /\ checkpoints' = [checkpoints EXCEPT ![f][Current(f)] = got[f].checkpoint]
             /\ fseq' = [fseq EXCEPT ![f] = @ + 1]
             /\ got' = [got EXCEPT ![f] = NoManifest]
             /\ UNCHANGED <<faults, mode, todo, low, cancelledAt>>
    <3>1. /\ NoManifest \in Manifest /\ NoManifest.checkpoint = 0
          /\ Vouched(0, wal', manifests', rolledBack')
          /\ WellFormed(NoManifest, wal', segments')
          /\ CachedIn(NoManifest, manifests', generation')
      BY <1>6, NothingHeld, Zenon
    <3>2. checkpoints' \in [Flushers -> [Branches -> Nat]]
      BY <1>1, <1>4, <2>1, Zenon DEF FlusherType
    <3>3. fpc' \in [Flushers -> Busy \cup Stopped] /\ fseq' \in [Flushers -> Nat]
      BY <1>1, <2>1 DEF FlusherType, Busy
    <3>4. got' \in [Flushers -> Manifest]
      BY <1>1, <2>1, <3>1, Zenon DEF FlusherType
    <3>5. FlusherType'
      BY <1>1, <2>1, <3>2, <3>3, <3>4, Zenon DEF FlusherType
    <3>6. ASSUME NEW g \in Flushers, g # f PROVE SameFlusher(g)
      BY <1>1, <2>1, <3>6, Zenon DEF FlusherType, SameFlusher
    <3>7. /\ fpc'[f] = "read" /\ fseq'[f] = fseq[f] + 1 /\ got'[f] = NoManifest
          /\ low'[f] = low[f] /\ cancelledAt'[f] = cancelledAt[f]
      BY <1>1, <2>1, Zenon DEF FlusherType
    <3>8. \A d \in Branches : checkpoints'[f][d] \in {checkpoints[f][d], got[f].checkpoint}
      BY <1>1, <2>1, Zenon DEF FlusherType
    <3>9. (\A d \in Branches : VouchedNow(checkpoints[f][d]))'
      BY <1>1, <1>4, <3>8, Zenon DEF FlusherInv, VouchedNow
    <3>10. fseq'[f] >= 1 /\ fseq'[f] - 1 = fseq[f]
      BY <1>2, <3>7
    <3>11. Safe(got[f])' /\ Cached(got[f])'
      BY <3>1, <3>7, Zenon DEF Safe, Cached, VouchedNow
    <3>12. FlusherInv(f)'
      BY <1>1, <1>5, <3>7, <3>9, <3>10, <3>11, Zenon
         DEF FlusherInv, VouchedNow, PastFirst, Flushing
    <3> QED
      BY <3>5, <3>6, <3>12, Zenon
  <2>2. CASE Halt(f, "dead")
    BY <1>6, <2>2, HaltStep, Zenon DEF Stopped
  <2> QED
    BY <2>1, <2>2, Zenon
<1>10. TypeOK'
  BY <1>7, <1>8, <1>9, Zenon DEF TypeOK
<1> QED
  BY <1>6, <1>8, <1>9, <1>10, Assemble, Zenon

(* A flusher that fails, crashes, has drained the log or exits preserves   *)
(* the invariant.                                                          *)
LEMMA FlusherEndStep ==
  ASSUME IngestInv, NEW f \in Flushers, UNCHANGED forkVars,
         FlusherError(f) \/ FlusherCrash(f) \/ Drained(f) \/ Exit(f)
  PROVE  IngestInv'
<1>1. FlusherType /\ StoreType /\ ForkType /\ TypeOK /\ FlusherInv(f)
  BY Zenon DEF IngestInv, TypeOK
<1>2. UNCHANGED <<wal, manifests, catalog, segments, generation, rolledBack>>
  BY Zenon DEF FlusherError, FlusherCrash, Drained, Exit, storeVars
<1>3. StoreGrows /\ \A b \in Branches : manifests'[b] = manifests[b]
  BY <1>1, <1>2 DEF StoreGrows, StoreType
<1>4. StoreType'
  <2>1. faults' \in 0..MaxFaults
    BY <1>1, StoreConstants DEF StoreType, Fault, FlusherError, FlusherCrash, Drained, Exit, storeVars
  <2> QED
    BY <1>1, <1>2, <2>1, Zenon DEF StoreType
<1>5. ForkType' /\ \A x \in Forks : copy'[x] = copy[x]
  BY <1>1, Zenon DEF ForkType, forkVars
<1>6. FlusherType' /\ \A g \in Flushers : SameFlusher(g) \/ FlusherInv(g)'
  <2>1. CASE FlusherError(f) \/ FlusherCrash(f) \/ Exit(f)
    BY <1>3, <2>1, HaltStep, Zenon DEF FlusherError, FlusherCrash, Exit, Stopped
  <2>2. CASE Drained(f)
    <3>1. /\ fseq[f] \in Nat /\ cancelledAt[f] \in Nat /\ fseq[f] > Len(wal)
          /\ Len(wal) \in Nat /\ wal \in Seq(Entry)
      BY <1>1, <2>2 DEF FlusherType, Drained, StoreType
    <3>2. fseq[f] - 1 \in Nat /\ VouchedNow(fseq[f] - 1) /\ cancelledAt[f] <= Len(wal)
      BY <1>1, <2>2, <3>1 DEF FlusherInv, Drained, At, PastFirst
    <3>3. VouchedNow(cancelledAt[f])
      BY <3>1, <3>2, VouchedBelow DEF VouchedNow
    <3>4. Vouched(cancelledAt[f], wal', manifests', rolledBack')
      BY <1>2, <3>3, Zenon DEF VouchedNow
    <3> QED
      BY <1>3, <2>2, <3>4, HaltStep, Zenon DEF Drained, Stopped
  <2> QED
    BY <2>1, <2>2, Zenon
<1>7. TypeOK'
  BY <1>4, <1>5, <1>6, Zenon DEF TypeOK
<1> QED
  BY <1>3, <1>5, <1>6, <1>7, Assemble, Zenon

(* A request to shut down preserves the invariant.                         *)
LEMMA CancelStep ==
  ASSUME IngestInv, NEW f \in Flushers, Cancel(f), UNCHANGED forkVars
  PROVE  IngestInv'
<1> USE DEF Cancel, storeVars
<1>1. FlusherType /\ StoreType /\ FlusherInv(f)
  BY Zenon DEF IngestInv, TypeOK
<1>2. Len(wal) \in Nat /\ fpc[f] # "drained"
  BY <1>1 DEF StoreType, Busy
<1>3. FlusherType'
  BY <1>1, <1>2, Zenon DEF FlusherType
<1>4. \A g \in Flushers : g = f \/ SameFlusher(g)
  BY <1>1, Zenon DEF FlusherType, SameFlusher
<1>5. cancelledAt'[f] = Len(wal)
  BY <1>1, Zenon DEF FlusherType
<1>6. /\ UNCHANGED <<wal, manifests, segments, generation, rolledBack>>
      /\ UNCHANGED <<fpc, fseq, checkpoints, low, got>>
  BY Zenon DEF storeVars
<1>7. (cancelledAt[f] <= Len(wal))' /\ (fpc[f] = "drained" => VouchedNow(cancelledAt[f]))'
  BY <1>2, <1>5, <1>6
<1>8. /\ (low[f] # -1 => VouchedNow(low[f]))'
      /\ (\A b \in Branches : VouchedNow(checkpoints[f][b]))'
      /\ (fpc[f] \in PastFirst => fseq[f] >= 1 /\ VouchedNow(fseq[f] - 1))'
  BY <1>1, <1>6, Zenon DEF FlusherInv, VouchedNow
<1>9. Safe(got[f])' /\ Cached(got[f])'
  BY <1>1, <1>6, Zenon DEF FlusherInv, Safe, Cached, VouchedNow
<1>10. FlusherInv(f)'
  BY <1>1, <1>6, <1>7, <1>8, <1>9, Zenon DEF FlusherInv
<1> QED
  BY <1>3, <1>4, <1>10, Quiet, Zenon

(* Turning to shutdownFlush preserves the invariant: the interrupted entry *)
(* is taken from the start.                                                *)
LEMMA NoticeStep ==
  ASSUME IngestInv, NEW f \in Flushers, Notice(f), UNCHANGED forkVars
  PROVE  IngestInv'
<1> USE DEF Notice, Goto
<1>1. FlusherType /\ StoreType /\ FlusherInv(f)
  BY Zenon DEF IngestInv, TypeOK
<1>2. StoreGrows
  BY <1>1, StoreSame, Zenon
<1>3. /\ NoManifest \in Manifest /\ NoManifest.checkpoint = 0
      /\ Vouched(0, wal', manifests', rolledBack')
      /\ WellFormed(NoManifest, wal', segments')
      /\ CachedIn(NoManifest, manifests', generation')
  BY <1>2, NothingHeld, Zenon
<1>4. fpc' \in [Flushers -> Busy \cup Stopped]
  BY <1>1, Zenon DEF FlusherType, Busy
<1>5. FlusherType'
  BY <1>1, <1>3, <1>4, Zenon DEF FlusherType
<1>6. \A g \in Flushers : g = f \/ SameFlusher(g)
  BY <1>1, Zenon DEF FlusherType, SameFlusher
<1>7. /\ fpc'[f] \in {"list", "read"} /\ (fpc'[f] = "read" => fpc[f] \in PastFirst)
      /\ low'[f] = -1 /\ got'[f] = NoManifest
  BY <1>1, Zenon DEF FlusherType, Busy, PastFirst
<1>8. Safe(got[f])' /\ Cached(got[f])'
  BY <1>3, <1>7, Zenon DEF Safe, Cached, VouchedNow
<1>9. FlusherInv(f)'
  BY <1>1, <1>7, <1>8, Zenon DEF FlusherInv, VouchedNow, PastFirst, Flushing, storeVars
<1> QED
  BY <1>5, <1>6, <1>9, Quiet, Zenon

(* Every step of a flusher preserves the invariant.                        *)
LEMMA FlusherNextStep ==
  ASSUME IngestInv, NEW f \in Flushers, FlusherNext(f), UNCHANGED forkVars
  PROVE  IngestInv'
  BY BootStep, InitListStep, InitReadStep, InitDoneStep, ReadForkStep, ReadMutationStep,
     UploadStep, FetchStep, CommitStep, ConflictStep, RegisterStep, FlusherEndStep,
     CancelStep, NoticeStep, Zenon
     DEF FlusherNext, FlusherStep
-----------------------------------------------------------------------------

(* The steps of clients and forks.                                         *)

(* An appended entry only makes the store grow.                            *)
LEMMA AppendGrows ==
  ASSUME IngestInv, NEW e \in Entry, WalAppend(e),
         UNCHANGED <<manifests, segments, generation, rolledBack>>
  PROVE  StoreGrows
<1>1. StoreType
  BY Zenon DEF IngestInv, TypeOK
<1>2. wal \in Seq(Entry) /\ wal' = Append(wal, e)
  BY <1>1, Zenon DEF StoreType, WalAppend
<1>3. wal' \in Seq(Entry) /\ Len(wal) <= Len(wal') /\ \A k \in 1..Len(wal) : wal'[k] = wal[k]
  BY <1>2
<1> QED
  BY <1>1, <1>3 DEF StoreGrows, StoreType

(* A client's upsert or delete preserves the invariant.                    *)
LEMMA ClientStep ==
  ASSUME IngestInv, Client
  PROVE  IngestInv'
<1>1. PICK b \in Branches, batch \in Batches :
        Mutate(b, batch) /\ UNCHANGED <<flusherVars, forkVars>>
  BY Zenon DEF Client
<1>2. TypeOK
  BY Zenon DEF IngestInv
<1> DEFINE e == [kind |-> "mutation", branch |-> b, batch |-> batch]
<1>3. e \in Entry
  BY Zenon DEF Entry, Mutation
<1>4. WalAppend(e) /\ UNCHANGED <<manifests, catalog, segments, generation, faults, rolledBack>>
  BY <1>1, Zenon DEF Mutate
<1> HIDE DEF e
<1>5. StoreGrows
  BY <1>3, <1>4, AppendGrows, Zenon
<1>6. \A f \in Flushers : SameFlusher(f)
  BY <1>1, Zenon DEF SameFlusher, flusherVars
<1>7. \A x \in Forks : copy'[x] = copy[x]
  BY <1>1, Zenon DEF forkVars
<1>8. StoreType'
  BY <1>2, <1>4, <1>5, Zenon DEF TypeOK, StoreType, StoreGrows
<1>9. FlusherType' /\ ForkType'
  BY <1>1, <1>2, Zenon DEF TypeOK, FlusherType, ForkType, flusherVars, forkVars
<1>10. TypeOK'
  BY <1>8, <1>9, Zenon DEF TypeOK
<1>11. \A b2 \in Branches : manifests'[b2] = manifests[b2]
  BY <1>4, Zenon
<1> QED
  BY <1>5, <1>6, <1>7, <1>10, <1>11, Assemble, Zenon

(* What is left to show of a fork's step.                                  *)
LEMMA ForkAssemble ==
  ASSUME IngestInv, UNCHANGED flusherVars, StoreGrows, StoreType', ForkType',
         \A b \in Branches :
           \/ manifests'[b] = manifests[b] \/ manifests'[b] = NoManifest
           \/ Safe(manifests[b])' /\ Cached(manifests[b])',
         \A x \in Forks : copy'[x] = copy[x] \/ Safe(copy[x])'
  PROVE  IngestInv'
<1>1. FlusherType'
  BY Zenon DEF IngestInv, TypeOK, FlusherType, flusherVars
<1>2. TypeOK'
  BY <1>1, Zenon DEF TypeOK
<1>3. \A f \in Flushers : SameFlusher(f)
  BY Zenon DEF SameFlusher, flusherVars
<1> QED
  BY <1>2, <1>3, Assemble, Zenon

(* The copy that a fork reads is as safe as the parent's manifest.         *)
LEMMA ReadParentStep ==
  ASSUME IngestInv, NEW x \in Forks, NEW s \in Branches, NEW t \in Branches,
         ReadParent(x, s, t), UNCHANGED flusherVars
  PROVE  IngestInv'
<1> USE DEF ReadParent, Move
<1>1. StoreType /\ ForkType
  BY Zenon DEF IngestInv, TypeOK
<1>2. manifests[s] \in Manifest /\ Safe(manifests[s])
  BY <1>1, Zenon DEF StoreType, IngestInv, StoreInv
<1>3. ForkType'
  BY <1>1, <1>2, Zenon DEF ForkType, ForkWaiting, ForkEnded
<1>4. StoreGrows
  BY <1>1, StoreSame, Zenon
<1>5. StoreType' /\ \A b \in Branches : manifests'[b] = manifests[b]
  BY <1>1, Zenon DEF StoreType, storeVars
<1>6. ASSUME NEW y \in Forks PROVE copy'[y] = copy[y] \/ Safe(copy[y])'
  <2>1. CASE y # x
    BY <1>1, <2>1, Zenon DEF ForkType
  <2>2. CASE y = x
    <3>1. copy'[y] = manifests[s]
      BY <1>1, <2>2, Zenon DEF ForkType
    <3> QED
      BY <1>2, <3>1, Zenon DEF Safe, VouchedNow, storeVars
  <2> QED
    BY <2>1, <2>2, Zenon
<1> QED
  BY <1>3, <1>4, <1>5, <1>6, ForkAssemble, Zenon

(* The copy of a manifest vouches for what the manifest vouched for.       *)
LEMMA WriteTargetStep ==
  ASSUME IngestInv, NEW x \in Forks, WriteTarget(x), UNCHANGED flusherVars
  PROVE  IngestInv'
<1> USE DEF WriteTarget, Move
<1>1. StoreType /\ ForkType /\ TypeOK
  BY Zenon DEF IngestInv, TypeOK
<1>2. ForkType' /\ \A y \in Forks : copy'[y] = copy[y]
  BY <1>1, Zenon DEF ForkType, ForkWaiting, ForkEnded
<1>3. faults' \in 0..MaxFaults
  BY <1>1, StoreConstants DEF StoreType, Fault
<1>4. CASE Writable(target[x], 0)
  <2>1. PICK b : b = target[x]
    BY Zenon
  <2>2. PICK m : m = copy[x]
    BY Zenon
  <2>3. Write(b, m.checkpoint, m.segments) /\ UNCHANGED <<wal, segments, rolledBack>>
    BY <1>4, <2>1, <2>2, Zenon
  <2> HIDE DEF WriteTarget, Move
  <2>4. b \in Branches /\ m \in Manifest /\ Safe(m)
    BY <1>1, <2>1, <2>2, Zenon DEF ForkType, IngestInv
  <2>5. m.checkpoint \in Nat /\ m.segments \in Seq(Nat)
    BY <2>4, Zenon DEF Manifest
  <2>6. manifests[b] = NoManifest
    BY <1>4, <2>1, <2>4, Zenon DEF Writable, IngestInv, StoreInv, Cached, CachedIn
  <2>7. \A i \in DOMAIN manifests[b].segments :
          i \in DOMAIN m.segments /\ m.segments[i] = manifests[b].segments[i]
    BY <2>6 DEF NoManifest
  <2>8. /\ StoreGrows
        /\ manifests'[b] = [generation |-> generation + 1, checkpoint |-> m.checkpoint,
                            segments |-> m.segments]
        /\ \A d \in Branches : d = b \/ manifests'[d] = manifests[d]
        /\ CachedIn(manifests'[b], manifests', generation')
    BY <2>3, <2>4, <2>5, <2>7, WriteGrows, Zenon
  <2>9. /\ Vouched(m.checkpoint, wal', manifests', rolledBack')
        /\ WellFormed(m, wal', segments')
    BY <1>1, <2>4, <2>8, ManifestStays, Zenon
  <2>10. manifests'[b].checkpoint = m.checkpoint /\ manifests'[b].segments = m.segments
    BY <2>8
  <2>11. WellFormed(manifests'[b], wal', segments')
    BY <2>9, <2>10, Zenon DEF WellFormed
  <2>12. Safe(manifests[b])' /\ Cached(manifests[b])'
    BY <2>8, <2>9, <2>10, <2>11, Zenon DEF Safe, Cached, VouchedNow
  <2>13. catalog' = catalog
    BY Zenon DEF WriteTarget
  <2>14. StoreType'
    BY <1>1, <1>3, <2>3, <2>8, <2>13, Zenon DEF StoreType, StoreGrows
  <2> QED
    BY <1>2, <2>8, <2>12, <2>14, ForkAssemble, Zenon
<1>5. CASE ~Writable(target[x], 0)
  <2>1. UNCHANGED storeVars
    BY <1>5, Zenon DEF storeVars
  <2>2. StoreGrows /\ StoreType' /\ \A b \in Branches : manifests'[b] = manifests[b]
    BY <1>1, <2>1, StoreSame, Zenon DEF StoreType, storeVars
  <2> QED
    BY <1>2, <2>2, ForkAssemble, Zenon
<1> QED
  BY <1>4, <1>5, Zenon

(* Logging the fork preserves the invariant.                               *)
LEMMA AppendEventStep ==
  ASSUME IngestInv, NEW x \in Forks, AppendEvent(x), UNCHANGED flusherVars
  PROVE  IngestInv'
<1> USE DEF AppendEvent, Move
<1>1. StoreType /\ ForkType
  BY Zenon DEF IngestInv, TypeOK
<1> DEFINE e == [kind |-> "fork", branch |-> target[x], parent |-> source[x]]
<1>2. e \in Entry
  BY <1>1, Zenon DEF ForkType, Entry, ForkEvent
<1>3. StoreGrows
  <2> HIDE DEF e
  <2>1. WalAppend(e) /\ UNCHANGED <<manifests, segments, generation, rolledBack>>
    BY Zenon DEF e
  <2> QED
    BY <1>2, <2>1, AppendGrows, Zenon
<1>4. ForkType' /\ \A y \in Forks : copy'[y] = copy[y]
  BY <1>1, Zenon DEF ForkType, ForkWaiting, ForkEnded
<1>5. StoreType'
  <2>1. faults' \in 0..MaxFaults
    <3>1. faults' = faults \/ (faults < MaxFaults /\ faults' = faults + 1)
      BY Zenon DEF Fault
    <3> HIDE DEF AppendEvent, Move, e
    <3>2. faults \in 0..MaxFaults
      BY <1>1, Zenon DEF StoreType
    <3> QED
      BY <3>1, <3>2, StoreConstants
  <2> QED
    BY <1>1, <1>3, <2>1, Zenon DEF StoreType, StoreGrows
<1> QED
  BY <1>3, <1>4, <1>5, ForkAssemble, Zenon

(* Rollback preserves the invariant, which excepts the branch it deletes.  *)
LEMMA DeleteTargetStep ==
  ASSUME IngestInv, NEW x \in Forks, DeleteTarget(x), UNCHANGED flusherVars
  PROVE  IngestInv'
<1>1. StoreType /\ ForkType
  BY Zenon DEF IngestInv, TypeOK
<1>2. /\ \/ UNCHANGED <<manifests, rolledBack>>
         \/ /\ manifests' = [manifests EXCEPT ![target[x]] = NoManifest]
            /\ rolledBack' = rolledBack \cup {target[x]}
      /\ faults' = faults \/ Fault
      /\ xpc' = [xpc EXCEPT ![x] = "remove"]
      /\ UNCHANGED <<wal, catalog, segments, generation, source, target, copy>>
  BY Zenon DEF DeleteTarget, Move
<1>3. target[x] \in Branches /\ NoManifest \in Manifest
  BY <1>1 DEF ForkType, NoManifest, Manifest
<1>4. /\ manifests' \in [Branches -> Manifest] /\ rolledBack \subseteq rolledBack'
      /\ rolledBack' \subseteq Branches
      /\ \A b \in Branches : \/ manifests'[b] = manifests[b]
                             \/ manifests'[b] = NoManifest /\ b \in rolledBack'
  BY <1>1, <1>2, <1>3, Zenon DEF StoreType
<1>5. StoreGrows
  BY <1>1, <1>2, <1>4 DEF StoreGrows, StoreType
<1>6. ForkType'
  BY <1>1, <1>2, Zenon DEF ForkType, ForkWaiting
<1>7. StoreType'
  <2>1. faults' \in 0..MaxFaults
    BY <1>1, <1>2, StoreConstants DEF StoreType, Fault
  <2> QED
    BY <1>1, <1>2, <1>4, <2>1, Zenon DEF StoreType
<1> QED
  BY <1>2, <1>4, <1>5, <1>6, <1>7, ForkAssemble, Zenon

(* The steps of a fork that change no manifest and no log preserve the     *)
(* invariant.                                                              *)
LEMMA ForkOtherStep ==
  ASSUME IngestInv, NEW x \in Forks, UNCHANGED flusherVars,
         \/ CheckTarget(x) \/ ListTarget(x) \/ UnlistTarget(x) \/ ForkError(x) \/ ForkCrash(x)
  PROVE  IngestInv'
<1>1. StoreType /\ ForkType
  BY Zenon DEF IngestInv, TypeOK
<1>2. /\ UNCHANGED <<wal, manifests, segments, generation, rolledBack, source, target, copy>>
      /\ faults' = faults \/ Fault
      /\ catalog' \in {catalog, catalog \cup {target[x]}, catalog \ {target[x]}}
      /\ \E p \in ForkWaiting \cup ForkEnded : xpc' = [xpc EXCEPT ![x] = p]
  BY Zenon DEF CheckTarget, ListTarget, UnlistTarget, ForkError, ForkCrash, Move, AddBranch, RemoveBranch,
         ForkWaiting, ForkEnded, storeVars
<1>3. StoreGrows
  BY <1>1, <1>2 DEF StoreGrows, StoreType
<1>4. ForkType'
  BY <1>1, <1>2, Zenon DEF ForkType
<1>5. StoreType'
  <2>1. faults' \in 0..MaxFaults
    BY <1>1, <1>2, StoreConstants DEF StoreType, Fault
  <2>2. catalog' \subseteq Branches
    BY <1>1, <1>2 DEF StoreType, ForkType
  <2> QED
    BY <1>1, <1>2, <2>1, <2>2, Zenon DEF StoreType
<1> QED
  BY <1>2, <1>3, <1>4, <1>5, ForkAssemble, Zenon

(* Every step of a fork preserves the invariant.                           *)
LEMMA ForkNextStep ==
  ASSUME IngestInv, NEW x \in Forks, ForkNext(x), UNCHANGED flusherVars
  PROVE  IngestInv'
<1>1. ASSUME NEW p \in ForkPairs, ReadParent(x, p[1], p[2]) PROVE IngestInv'
  <2>1. p[1] \in Branches /\ p[2] \in Branches
    BY ForkConstants, Zenon
  <2> QED
    BY <1>1, <2>1, ReadParentStep, Zenon
<1> QED
  BY <1>1, WriteTargetStep, AppendEventStep, DeleteTargetStep, ForkOtherStep, Zenon
     DEF ForkNext, ForkStep
-----------------------------------------------------------------------------
(* Every reachable state satisfies the inductive invariant.                *)
THEOREM IngestInvariant == Spec => []IngestInv
<1>1. Init => IngestInv
  BY StartsSafe, Zenon
<1>2. IngestInv /\ [Next]_vars => IngestInv'
  <2> SUFFICES ASSUME IngestInv, [Next]_vars PROVE IngestInv'
    BY Zenon
  <2>1. CASE Client
    BY <2>1, ClientStep, Zenon
  <2>2. ASSUME NEW f \in Flushers, FlusherNext(f), UNCHANGED forkVars PROVE IngestInv'
    BY <2>2, FlusherNextStep, Zenon
  <2>3. ASSUME NEW x \in Forks, ForkNext(x), UNCHANGED flusherVars PROVE IngestInv'
    BY <2>3, ForkNextStep, Zenon
  <2>4. CASE UNCHANGED vars
    BY <2>4, Zenon DEF vars, storeVars, flusherVars, forkVars, IngestInv, TypeOK, StoreType,
       FlusherType, ForkType, StoreInv, FlusherInv, Safe, Cached, VouchedNow
  <2> QED
    BY <2>1, <2>2, <2>3, <2>4, Zenon DEF Next
<1> QED
  BY <1>1, <1>2, PTL DEF Spec

(* What is vouched for is settled.                                         *)
LEMMA VouchedIsSettled ==
  ASSUME NEW n, VouchedNow(n), NEW k \in DOMAIN wal, wal \in Seq(Entry), n \in Nat, k <= n
  PROVE  Settled(k)
<1>1. SettledIn(k, wal, manifests, rolledBack)
  BY DEF VouchedNow, Vouched
<1> QED
  BY <1>1, Zenon DEF SettledIn, Settled, IsMutation, Materialised

(* The inductive invariant implies each of the safety invariants.          *)
LEMMA InvariantsHold ==
  ASSUME IngestInv
  PROVE  TypeOK /\ CheckpointsCover /\ NothingSkipped /\ OnceInOrder /\ SegmentsExist
         /\ DrainCompletes
<1>1. TypeOK /\ StoreType /\ FlusherType /\ wal \in Seq(Entry)
  BY Zenon DEF IngestInv, TypeOK, StoreType
<1>2. CheckpointsCover
  <2> SUFFICES ASSUME NEW b \in Branches, NEW k \in DOMAIN wal, k <= manifests[b].checkpoint
               PROVE  Settled(k)
    BY Zenon DEF CheckpointsCover
  <2>1. manifests[b].checkpoint \in Nat /\ VouchedNow(manifests[b].checkpoint)
    BY <1>1, Zenon DEF IngestInv, StoreInv, Safe, StoreType, Manifest
  <2> QED
    BY <1>1, <2>1, VouchedIsSettled, Zenon
<1>3. NothingSkipped
  <2> SUFFICES ASSUME NEW f \in Flushers, fpc[f] \in PastFirst,
                      NEW k \in DOMAIN wal, k < fseq[f]
               PROVE  Settled(k)
    BY Zenon DEF NothingSkipped
  <2>1. fseq[f] \in Nat /\ k \in Nat
    BY <1>1 DEF FlusherType
  <2>2. fseq[f] >= 1 /\ VouchedNow(fseq[f] - 1)
    BY Zenon DEF IngestInv, FlusherInv
  <2>3. fseq[f] - 1 \in Nat /\ k <= fseq[f] - 1
    BY <2>1, <2>2
  <2> QED
    BY <1>1, <2>2, <2>3, VouchedIsSettled, Zenon
<1>4. OnceInOrder /\ SegmentsExist
  <2>1. \A b \in Branches : WellFormed(manifests[b], wal, segments)
    BY Zenon DEF IngestInv, StoreInv, Safe
  <2> QED
    BY <2>1, Zenon DEF WellFormed, OnceInOrder, SegmentsExist
<1>5. DrainCompletes
  <2> SUFFICES ASSUME NEW f \in Flushers, fpc[f] = "drained",
                      NEW k \in DOMAIN wal, k <= cancelledAt[f]
               PROVE  Settled(k)
    BY Zenon DEF DrainCompletes
  <2>1. cancelledAt[f] \in Nat /\ VouchedNow(cancelledAt[f])
    BY <1>1, Zenon DEF FlusherType, IngestInv, FlusherInv
  <2> QED
    BY <1>1, <2>1, VouchedIsSettled, Zenon
<1> QED
  BY <1>1, <1>2, <1>3, <1>4, <1>5, Zenon

(* Every variable keeps its type.                                          *)
THEOREM TypeCorrect == Spec => []TypeOK
  BY IngestInvariant, InvariantsHold, PTL

(* Every checkpoint vouches for the whole log below it.                    *)
THEOREM CheckpointsAreSafe == Spec => []CheckpointsCover
  BY IngestInvariant, InvariantsHold, PTL

(* No flusher goes past an entry that has not reached its manifest.        *)
THEOREM FlushersSkipNothing == Spec => []NothingSkipped
  BY IngestInvariant, InvariantsHold, PTL

(* No manifest holds an entry twice or out of order.                       *)
THEOREM ManifestsAreOrdered == Spec => []OnceInOrder
  BY IngestInvariant, InvariantsHold, PTL

(* Flushers and forks together lose no entry and repeat none: checkpoints  *)
(* are covered, nothing is skipped, and manifests are in order.            *)
THEOREM ForksAreSafe == Spec => []ForksLoseNothing
<1>1. CheckpointsCover /\ NothingSkipped /\ OnceInOrder => ForksLoseNothing
  BY Zenon DEF ForksLoseNothing
<1> QED
  BY <1>1, CheckpointsAreSafe, FlushersSkipNothing, ManifestsAreOrdered, PTL

(* No manifest refers to a segment that is not stored.                     *)
THEOREM ReferencesResolve == Spec => []SegmentsExist
  BY IngestInvariant, InvariantsHold, PTL

(* A clean shutdown leaves nothing behind that was there when it began.    *)
THEOREM ShutdownDrains == Spec => []DrainCompletes
  BY IngestInvariant, InvariantsHold, PTL

(* Growing by one conditional write, a head advances.                      *)
LEMMA LongerExtends ==
  ASSUME NEW s \in Seq(Nat), NEW t \in Seq(Nat),
         \A i \in DOMAIN s : i \in DOMAIN t /\ t[i] = s[i]
  PROVE  Len(t) >= Len(s)
<1>1. Len(s) \in Nat /\ Len(t) \in Nat /\ DOMAIN s = 1..Len(s) /\ DOMAIN t = 1..Len(t)
  OBVIOUS
<1>2. CASE Len(s) = 0
  BY <1>1, <1>2
<1>3. CASE Len(s) # 0
  BY <1>1, <1>3
<1> QED
  BY <1>2, <1>3, Zenon

(* A step replaces a manifest by an extension of it, unless it is a fork's *)
(* rollback.                                                               *)
LEMMA HeadStep ==
  ASSUME IngestInv, [Next]_vars, NEW b \in Branches
  PROVE  b \in rolledBack' \/ Extends(manifests'[b], manifests[b])
<1>1. StoreType
  BY Zenon DEF IngestInv, TypeOK
<1>2. manifests[b].checkpoint \in Nat /\ manifests[b].segments \in Seq(Nat)
  BY <1>1, Zenon DEF StoreType, Manifest
<1>3. CASE manifests'[b] = manifests[b]
  BY <1>2, <1>3 DEF Extends
<1>4. ASSUME NEW f \in Flushers, Commit(f), manifests'[b] # manifests[b]
      PROVE  Extends(manifests'[b], manifests[b])
  <2>1. PICK n : n = fseq[f]
    BY Zenon
  <2>2. PICK c : c = Current(f)
    BY Zenon
  <2>3. /\ c \in Branches /\ n \in Nat /\ manifests[c] = got[f] /\ got[f].checkpoint < n
        /\ manifests'[c] = [generation |-> generation + 1, checkpoint |-> n,
                            segments |-> Append(got[f].segments, n)]
        /\ \A d \in Branches : d = c \/ manifests'[d] = manifests[d]
    <3>1. Committed(f, c, n)
      BY <1>4, <2>1, <2>2, CommitStore, Zenon
    <3> QED
      BY <3>1, Zenon DEF Committed
  <2>4. b = c
    BY <1>4, <2>3, Zenon
  <2>5. manifests'[b].checkpoint = n /\ manifests'[b].segments = Append(manifests[b].segments, n)
    <3>1. PICK t : t = Append(got[f].segments, n)
      BY Zenon
    <3>2. manifests'[b] = [generation |-> generation + 1, checkpoint |-> n, segments |-> t]
      BY <2>3, <2>4, <3>1, Zenon
    <3>3. manifests'[b].checkpoint = n /\ manifests'[b].segments = t
      BY <3>2
    <3>4. manifests[b] = got[f]
      BY <2>3, <2>4, Zenon
    <3> QED
      BY <3>1, <3>3, <3>4, Zenon
  <2>6. /\ Append(manifests[b].segments, n) \in Seq(Nat)
        /\ \A i \in DOMAIN manifests[b].segments :
             /\ i \in DOMAIN Append(manifests[b].segments, n)
             /\ Append(manifests[b].segments, n)[i] = manifests[b].segments[i]
    BY <1>2, <2>3, OneMore, Zenon
  <2>7. Len(Append(manifests[b].segments, n)) >= Len(manifests[b].segments)
    BY <1>2, <2>6, LongerExtends, Zenon
  <2>8. n >= manifests[b].checkpoint
    BY <1>2, <2>3, <2>4
  <2> QED
    BY <2>5, <2>6, <2>7, <2>8, Zenon DEF Extends
<1>5. ASSUME NEW x \in Forks, WriteTarget(x), manifests'[b] # manifests[b]
      PROVE  Extends(manifests'[b], manifests[b])
  <2>1. Writable(target[x], 0) /\ Write(target[x], copy[x].checkpoint, copy[x].segments)
    BY <1>5, Zenon DEF WriteTarget
  <2>2. b = target[x]
    BY <1>1, <1>5, <2>1, Zenon DEF Write, StoreType
  <2>3. manifests[b] = NoManifest
    BY <2>1, <2>2, Zenon DEF Writable, IngestInv, StoreInv, Cached, CachedIn
  <2>4. copy[x] \in Manifest
    BY Zenon DEF IngestInv, TypeOK, ForkType
  <2>5. /\ manifests'[b].checkpoint = copy[x].checkpoint /\ copy[x].checkpoint \in Nat
        /\ manifests'[b].segments = copy[x].segments /\ copy[x].segments \in Seq(Nat)
    BY <1>1, <2>1, <2>2, <2>4, Zenon DEF Write, StoreType, Manifest
  <2>6. NoManifest.checkpoint = 0 /\ NoManifest.segments = << >>
    BY Zenon DEF NoManifest
  <2>7. Len(copy[x].segments) \in Nat
    BY <2>5
  <2>8. Len(<< >>) = 0 /\ DOMAIN << >> = {}
    OBVIOUS
  <2> QED
    BY <2>3, <2>5, <2>6, <2>7, <2>8 DEF Extends
<1>6. ASSUME NEW x \in Forks, DeleteTarget(x), manifests'[b] # manifests[b]
      PROVE  b \in rolledBack'
  BY <1>1, <1>6, Zenon DEF DeleteTarget, StoreType
<1>7. CASE manifests'[b] # manifests[b]
  <2>1. \/ \E f \in Flushers : Commit(f)
        \/ \E x \in Forks : WriteTarget(x) \/ DeleteTarget(x)
    BY <1>7, Zenon DEF Next, vars, storeVars, Client, Mutate, FlusherNext, FlusherStep, ForkNext, ForkStep,
       Boot, InitList, InitRead, InitDone, ReadFork, ReadMutation, Upload, Fetch, Conflict, Register,
       FlusherError, FlusherCrash, Exit, Cancel, Notice, Drained,
       ReadParent, CheckTarget, ListTarget, AppendEvent, UnlistTarget, ForkError, ForkCrash
  <2> QED
    BY <1>4, <1>5, <1>6, <1>7, <2>1, Zenon
<1> QED
  BY <1>3, <1>7, Zenon

(* Branch heads only advance, but for a fork's rollback.                   *)
THEOREM HeadsOnlyAdvance == Spec => HeadsAdvance
<1>1. IngestInv /\ [Next]_vars =>
        [\A b \in Branches : b \in rolledBack' \/ Extends(manifests'[b], manifests[b])]_vars
  BY HeadStep, Zenon
<1> QED
  BY <1>1, IngestInvariant, PTL DEF Spec, HeadsAdvance
=============================================================================
