------------------------- MODULE IngestInductive ----------------------------
(***************************************************************************)
(* Proofs about Ingest: for any number of branches, flushers, forks and    *)
(* faults, no flusher passes an entry that has not reached its manifest.   *)
(*                                                                         *)
(* The argument is one idea applied everywhere a number is kept: every     *)
(* checkpoint, in the store, in a flusher's memory, in a manifest some     *)
(* process has read and still holds, and every replay position, vouches    *)
(* for the log below it.  What is vouched for stays so, because a          *)
(* conditional write only replaces the manifest it was computed from.      *)
(*                                                                         *)
(* This module states the invariant, shows that it survives the steps of   *)
(* others, and that the steps by which a flusher starts, reads and uploads *)
(* keep it; IngestProofs has its other steps, those of clients and forks,  *)
(* and the theorems.                                                       *)
(***************************************************************************)
EXTENDS Ingest, TLAPS

(* Settled, of the values given instead of the current ones.               *)
SettledIn(k, w, ms, gone) ==
  w[k].kind = "mutation" =>
    \/ w[k].branch \in gone
    \/ \E i \in DOMAIN ms[w[k].branch].segments : ms[w[k].branch].segments[i] = k

(* The first n entries exist and are settled.                              *)
Vouched(n, w, ms, gone) ==
  n <= Len(w) /\ \A k \in 1..n : SettledIn(k, w, ms, gone)

WellFormed(m, w, stored) ==
  /\ \A i, j \in DOMAIN m.segments : i < j => m.segments[i] < m.segments[j]
  /\ \A i \in DOMAIN m.segments :
       /\ m.segments[i] <= m.checkpoint
       /\ m.segments[i] \in DOMAIN w
       /\ w[m.segments[i]] \in stored

VouchedNow(n) == Vouched(n, wal, manifests, rolledBack)

Safe(m) == VouchedNow(m.checkpoint) /\ WellFormed(m, wal, segments)

(* A manifest in somebody's memory is the stored one if the generation is. *)
CachedIn(m, ms, g) ==
  /\ m.generation <= g
  /\ m.generation = 0 => m = NoManifest
  /\ \A b \in Branches : ms[b].generation = m.generation => ms[b] = m

Cached(m) == CachedIn(m, manifests, generation)

StoreInv == \A b \in Branches : Safe(manifests[b]) /\ Cached(manifests[b])

Flushing == {"upload", "fetch", "write", "register"}

FlusherInv(f) ==
  /\ low[f] # -1 => VouchedNow(low[f])
  /\ \A b \in Branches : VouchedNow(checkpoints[f][b])
  /\ Safe(got[f])
  /\ Cached(got[f])
  /\ cancelledAt[f] <= Len(wal)
  /\ fpc[f] \in PastFirst => fseq[f] >= 1 /\ VouchedNow(fseq[f] - 1)
  /\ fpc[f] \in Flushing => fseq[f] <= Len(wal) /\ wal[fseq[f]] \in Mutation
  /\ fpc[f] \in Flushing \ {"upload"} => wal[fseq[f]] \in segments
  /\ fpc[f] = "write" => got[f].checkpoint < fseq[f]
  /\ fpc[f] = "register" => got[f].checkpoint >= fseq[f]
  /\ fpc[f] = "drained" => VouchedNow(cancelledAt[f])

IngestInv ==
  /\ TypeOK
  /\ StoreInv
  /\ \A f \in Flushers : FlusherInv(f)
  /\ \A x \in Forks : Safe(copy[x])

(* What every step does to the store, seen from a process that takes no    *)
(* part in it.                                                             *)
StoreGrows ==
  /\ wal' \in Seq(Entry)
  /\ Len(wal) <= Len(wal')
  /\ \A k \in 1..Len(wal) : wal'[k] = wal[k]
  /\ segments \subseteq segments'
  /\ rolledBack \subseteq rolledBack'
  /\ generation' \in Nat /\ generation <= generation'
  /\ manifests' \in [Branches -> Manifest]
  /\ \A b \in Branches :
       \/ manifests'[b] = manifests[b]
       \/ manifests'[b] = NoManifest /\ b \in rolledBack'
       \/ /\ manifests'[b].generation > generation
          /\ \A i \in DOMAIN manifests[b].segments :
               /\ i \in DOMAIN manifests'[b].segments
               /\ manifests'[b].segments[i] = manifests[b].segments[i]
-----------------------------------------------------------------------------
(* Vouching for n entries is vouching for fewer.                           *)
LEMMA VouchedBelow ==
  ASSUME NEW w, NEW ms, NEW gone, NEW n \in Nat, NEW m \in Nat, m <= n,
         w \in Seq(Entry), Vouched(n, w, ms, gone)
  PROVE  Vouched(m, w, ms, gone)
  BY DEF Vouched

(* There is nothing to vouch for below the first entry.                    *)
LEMMA VouchedZero ==
  ASSUME NEW w, NEW ms, NEW gone, w \in Seq(Entry)
  PROVE  Vouched(0, w, ms, gone)
  BY DEF Vouched

(* A settled entry extends what is vouched for by one.                     *)
LEMMA VouchedNext ==
  ASSUME NEW w, NEW ms, NEW gone, NEW n \in Nat, n + 1 <= Len(w), w \in Seq(Entry),
         Vouched(n, w, ms, gone), SettledIn(n + 1, w, ms, gone)
  PROVE  Vouched(n + 1, w, ms, gone)
<1>1. SUFFICES ASSUME NEW k \in 1..(n + 1) PROVE SettledIn(k, w, ms, gone)
  BY Zenon DEF Vouched
<1>2. CASE k = n + 1
  BY <1>2, Zenon
<1>3. CASE k # n + 1
  BY <1>3 DEF Vouched
<1> QED
  BY <1>2, <1>3, Zenon

(* A missing manifest claims nothing.                                      *)
LEMMA NoManifestSafe ==
  ASSUME TypeOK
  PROVE  NoManifest \in Manifest /\ Safe(NoManifest)
<1>1. NoManifest \in Manifest
  BY DEF NoManifest, Manifest
<1>2. wal \in Seq(Entry)
  BY Zenon DEF TypeOK, StoreType
<1>3. VouchedNow(0)
  BY <1>2, VouchedZero, Zenon DEF VouchedNow
<1>4. WellFormed(NoManifest, wal, segments)
  BY DEF WellFormed, NoManifest
<1> QED
  BY <1>1, <1>3, <1>4, Zenon DEF Safe, NoManifest

(* What is vouched for stays vouched for.                                  *)
LEMMA Stable ==
  ASSUME StoreType, StoreGrows
  PROVE  /\ \A n \in Nat : VouchedNow(n) =>
                 Vouched(n, wal', manifests', rolledBack')
         /\ \A m \in Manifest : WellFormed(m, wal, segments) =>
                 WellFormed(m, wal', segments')
<1> USE DEF StoreType
<1>1. ASSUME NEW n \in Nat, VouchedNow(n), NEW k \in 1..n
      PROVE  SettledIn(k, wal', manifests', rolledBack')
  <2>1. k \in 1..Len(wal) /\ wal[k] \in Entry /\ SettledIn(k, wal, manifests, rolledBack)
    BY <1>1 DEF VouchedNow, Vouched
  <2>2. wal'[k] = wal[k]
    BY <2>1, Zenon DEF StoreGrows
  <2>3. wal[k].branch \in Branches
    BY <2>1, Zenon DEF Entry, Mutation, ForkEvent
  <2>4. CASE wal[k].branch \in rolledBack'
    BY <2>2, <2>4, Zenon DEF SettledIn
  <2>5. CASE wal[k].branch \notin rolledBack'
    <3>1. wal[k].branch \notin rolledBack
      BY <2>5, Zenon DEF StoreGrows
    <3>2. \A i \in DOMAIN manifests[wal[k].branch].segments :
            /\ i \in DOMAIN manifests'[wal[k].branch].segments
            /\ manifests'[wal[k].branch].segments[i] = manifests[wal[k].branch].segments[i]
      BY <2>3, <2>5, Zenon DEF StoreGrows
    <3> QED
      BY <2>1, <2>2, <3>1, <3>2, Zenon DEF SettledIn
  <2> QED
    BY <2>4, <2>5, Zenon
<1>2. ASSUME NEW n \in Nat, VouchedNow(n)
      PROVE  Vouched(n, wal', manifests', rolledBack')
  <2>1. n <= Len(wal')
    BY <1>2 DEF VouchedNow, Vouched, StoreGrows
  <2> QED
    BY <1>1, <1>2, <2>1, Zenon DEF Vouched
<1>3. ASSUME NEW m \in Manifest, WellFormed(m, wal, segments)
      PROVE  WellFormed(m, wal', segments')
  <2>1. ASSUME NEW i \in DOMAIN m.segments
        PROVE  m.segments[i] \in DOMAIN wal' /\ wal'[m.segments[i]] \in segments'
    <3>1. m.segments[i] \in 1..Len(wal) /\ wal[m.segments[i]] \in segments
      BY <1>3 DEF WellFormed
    <3> QED
      BY <3>1 DEF StoreGrows
  <2> QED
    BY <1>3, <2>1, Zenon DEF WellFormed
<1> QED
  BY <1>2, <1>3, Zenon

(* A store that has not changed has grown.                                 *)
LEMMA StoreSame ==
  ASSUME StoreType, UNCHANGED storeVars
  PROVE  StoreGrows
  BY DEF StoreType, StoreGrows, storeVars

(* The others' invariants survive any such step.                           *)
LEMMA ManifestStays ==
  ASSUME TypeOK, StoreGrows, NEW m \in Manifest, Safe(m)
  PROVE  Vouched(m.checkpoint, wal', manifests', rolledBack') /\ WellFormed(m, wal', segments')
<1>1. m.checkpoint \in Nat
  BY Zenon DEF Manifest
<1> QED
  BY <1>1, Stable, Zenon DEF Safe, TypeOK

(* A manifest in memory stays the stored one if the generation is, because *)
(* generations are not used again.                                         *)
LEMMA CacheStays ==
  ASSUME TypeOK, StoreGrows, NEW m \in Manifest, Cached(m)
  PROVE  CachedIn(m, manifests', generation')
<1>1. m.generation \in Nat /\ generation \in Nat /\ generation' \in Nat
  BY Zenon DEF Manifest, TypeOK, StoreType, StoreGrows
<1>2. m.generation <= generation'
  BY <1>1 DEF Cached, CachedIn, StoreGrows
<1>3. ASSUME NEW b \in Branches, manifests'[b].generation = m.generation
      PROVE  manifests'[b] = m
  <2>1. CASE manifests'[b] = manifests[b]
    BY <1>3, <2>1, Zenon DEF Cached, CachedIn
  <2>2. CASE manifests'[b] = NoManifest
    BY <1>3, <2>2 DEF NoManifest, Cached, CachedIn
  <2>3. CASE manifests'[b].generation > generation
    BY <1>1, <1>3, <2>3 DEF Cached, CachedIn
  <2> QED
    BY <2>1, <2>2, <2>3, Zenon DEF StoreGrows
<1> QED
  BY <1>2, <1>3, Zenon DEF Cached, CachedIn

SameFlusher(f) ==
  /\ fpc'[f] = fpc[f] /\ mode'[f] = mode[f] /\ fseq'[f] = fseq[f]
  /\ checkpoints'[f] = checkpoints[f] /\ todo'[f] = todo[f] /\ low'[f] = low[f]
  /\ got'[f] = got[f] /\ cancelledAt'[f] = cancelledAt[f]

(* A step of somebody else leaves what a flusher relies on true.           *)
LEMMA FlusherStays ==
  ASSUME TypeOK, StoreGrows, NEW f \in Flushers, FlusherInv(f), SameFlusher(f)
  PROVE  FlusherInv(f)'
<1> USE DEF SameFlusher
<1>1. /\ got[f] \in Manifest /\ fseq[f] \in Nat /\ low[f] \in Nat \cup {-1}
      /\ cancelledAt[f] \in Nat /\ checkpoints[f] \in [Branches -> Nat]
      /\ wal \in Seq(Entry) /\ wal' \in Seq(Entry)
  BY Zenon DEF TypeOK, FlusherType, StoreType, StoreGrows
<1>2. \A n \in Nat : VouchedNow(n) => Vouched(n, wal', manifests', rolledBack')
  BY Stable, Zenon DEF TypeOK
<1>3. (low[f] # -1 => VouchedNow(low[f]))'
  BY <1>1, <1>2, Zenon DEF FlusherInv, VouchedNow
<1>4. (\A b \in Branches : VouchedNow(checkpoints[f][b]))'
  BY <1>1, <1>2, Zenon DEF FlusherInv, VouchedNow
<1>5. Safe(got[f])' /\ Cached(got[f])'
  <2>1. Safe(got[f]) /\ Cached(got[f])
    BY Zenon DEF FlusherInv
  <2>2. /\ Vouched(got[f].checkpoint, wal', manifests', rolledBack')
        /\ WellFormed(got[f], wal', segments')
    BY <1>1, <2>1, ManifestStays, Zenon
  <2>3. CachedIn(got[f], manifests', generation')
    BY <1>1, <2>1, CacheStays, Zenon
  <2> QED
    BY <2>2, <2>3, Zenon DEF Safe, Cached, VouchedNow
<1>6. cancelledAt'[f] <= Len(wal')
  BY <1>1 DEF FlusherInv, StoreGrows
<1>7. (fpc[f] \in PastFirst => fseq[f] >= 1 /\ VouchedNow(fseq[f] - 1))'
  BY <1>1, <1>2 DEF FlusherInv, VouchedNow
<1>8. (fpc[f] \in Flushing => fseq[f] <= Len(wal) /\ wal[fseq[f]] \in Mutation)'
  BY <1>1 DEF FlusherInv, StoreGrows, PastFirst, Flushing
<1>9. (fpc[f] \in Flushing \ {"upload"} => wal[fseq[f]] \in segments)'
  BY <1>1 DEF FlusherInv, StoreGrows, PastFirst, Flushing
<1>10. (fpc[f] = "drained" => VouchedNow(cancelledAt[f]))'
  BY <1>1, <1>2, Zenon DEF FlusherInv, VouchedNow
<1>11. /\ (fpc[f] = "write" => got[f].checkpoint < fseq[f])'
       /\ (fpc[f] = "register" => got[f].checkpoint >= fseq[f])'
  BY Zenon DEF FlusherInv
<1> QED
  BY <1>3, <1>4, <1>5, <1>6, <1>7, <1>8, <1>9, <1>10, <1>11, Zenon DEF FlusherInv

(* A manifest that a step leaves alone or deletes keeps its part of the    *)
(* invariant.                                                              *)
LEMMA StoreInvStays ==
  ASSUME TypeOK, StoreInv, StoreGrows, NEW b \in Branches,
         manifests'[b] = manifests[b] \/ manifests'[b] = NoManifest
  PROVE  Safe(manifests[b])' /\ Cached(manifests[b])'
<1>1. manifests[b] \in Manifest /\ Safe(manifests[b]) /\ Cached(manifests[b])
  BY Zenon DEF StoreInv, TypeOK, StoreType
<1>2. CASE manifests'[b] = manifests[b]
  <2>1. /\ Vouched(manifests[b].checkpoint, wal', manifests', rolledBack')
        /\ WellFormed(manifests[b], wal', segments')
    BY <1>1, ManifestStays, Zenon
  <2>2. CachedIn(manifests[b], manifests', generation')
    BY <1>1, CacheStays, Zenon
  <2> QED
    BY <1>2, <2>1, <2>2, Zenon DEF Safe, Cached, VouchedNow
<1>3. CASE manifests'[b] = NoManifest
  <2>1. NoManifest \in Manifest /\ Safe(NoManifest) /\ NoManifest.checkpoint = 0
    BY NoManifestSafe, Zenon DEF NoManifest
  <2>2. /\ Vouched(0, wal', manifests', rolledBack')
        /\ WellFormed(NoManifest, wal', segments')
    BY <2>1, ManifestStays, Zenon
  <2>3. Cached(NoManifest)
    BY DEF StoreInv, Cached, CachedIn, NoManifest, TypeOK, StoreType, Manifest
  <2>4. CachedIn(NoManifest, manifests', generation')
    BY <2>1, <2>3, CacheStays, Zenon
  <2> QED
    BY <1>3, <2>1, <2>2, <2>4, Zenon DEF Safe, Cached, VouchedNow
<1> QED
  BY <1>2, <1>3, Zenon

(* It is enough to look at what a step changes.                            *)
LEMMA Assemble ==
  ASSUME IngestInv, TypeOK', StoreGrows,
         \A b \in Branches :
           \/ manifests'[b] = manifests[b] \/ manifests'[b] = NoManifest
           \/ Safe(manifests[b])' /\ Cached(manifests[b])',
         \A f \in Flushers : SameFlusher(f) \/ FlusherInv(f)',
         \A x \in Forks : copy'[x] = copy[x] \/ Safe(copy[x])'
  PROVE  IngestInv'
<1> USE DEF IngestInv
<1>1. ASSUME NEW b \in Branches PROVE Safe(manifests[b])' /\ Cached(manifests[b])'
  BY <1>1, StoreInvStays, Zenon
<1>2. ASSUME NEW f \in Flushers PROVE FlusherInv(f)'
  BY <1>2, FlusherStays, Zenon
<1>3. ASSUME NEW x \in Forks PROVE Safe(copy[x])'
  <2>1. copy[x] \in Manifest /\ Safe(copy[x])
    BY Zenon DEF TypeOK, ForkType
  <2>2. /\ Vouched(copy[x].checkpoint, wal', manifests', rolledBack')
        /\ WellFormed(copy[x], wal', segments')
    BY <2>1, ManifestStays, Zenon
  <2>3. CASE copy'[x] = copy[x]
    BY <2>2, <2>3, Zenon DEF Safe, VouchedNow
  <2> QED
    BY <2>3, Zenon
<1>4. StoreInv'
  BY <1>1, Zenon DEF StoreInv
<1> QED
  BY <1>2, <1>3, <1>4, Zenon

(* The empty store, with no flusher running, satisfies the invariant.      *)
LEMMA StartsSafe ==
  ASSUME Init
  PROVE  IngestInv
<1> USE StoreConstants DEF Init, StoreInit, FlusherInit, ForkInit
<1>1. NoManifest \in Manifest
  BY DEF NoManifest, Manifest
<1>2. TypeOK
  BY <1>1 DEF TypeOK, StoreType, FlusherType, ForkType, Busy, Stopped, ForkWaiting, ForkEnded
<1>3. Safe(NoManifest) /\ NoManifest.checkpoint = 0
  BY <1>2, NoManifestSafe, Zenon DEF NoManifest
<1>4. Cached(NoManifest)
  BY DEF Cached, CachedIn, NoManifest
<1>5. StoreInv
  BY <1>3, <1>4, Zenon DEF StoreInv
<1>6. ASSUME NEW f \in Flushers PROVE FlusherInv(f)
  BY <1>3, <1>4 DEF FlusherInv, PastFirst, Flushing, Safe
<1> QED
  BY <1>2, <1>3, <1>5, <1>6, Zenon DEF IngestInv
-----------------------------------------------------------------------------
(* The steps of a flusher.                                                 *)

(* Holding no manifest is consistent with the store after any step.        *)
LEMMA NothingHeld ==
  ASSUME IngestInv, StoreGrows
  PROVE  /\ NoManifest \in Manifest /\ NoManifest.checkpoint = 0
         /\ Vouched(0, wal', manifests', rolledBack')
         /\ WellFormed(NoManifest, wal', segments')
         /\ CachedIn(NoManifest, manifests', generation')
<1>0. TypeOK
  BY Zenon DEF IngestInv
<1>1. NoManifest \in Manifest /\ Safe(NoManifest) /\ NoManifest.checkpoint = 0
  BY <1>0, NoManifestSafe, Zenon DEF NoManifest
<1>2. Cached(NoManifest)
  BY <1>0 DEF IngestInv, StoreInv, Cached, CachedIn, NoManifest, TypeOK, StoreType, Manifest
<1> QED
  BY <1>0, <1>1, <1>2, ManifestStays, CacheStays, Zenon

(* A flusher that ends keeps nothing that could be wrong later.            *)
LEMMA HaltStep ==
  ASSUME IngestInv, StoreGrows, NEW f \in Flushers, NEW end \in Stopped, Halt(f, end),
         end = "drained" => Vouched(cancelledAt[f], wal', manifests', rolledBack')
  PROVE  /\ FlusherType'
         /\ \A g \in Flushers : SameFlusher(g) \/ FlusherInv(g)'
<1> USE DEF Halt, Goto
<1>1. FlusherType /\ StoreType
  BY Zenon DEF IngestInv, TypeOK
<1>2. /\ NoManifest \in Manifest /\ NoManifest.checkpoint = 0
      /\ Vouched(0, wal', manifests', rolledBack')
      /\ WellFormed(NoManifest, wal', segments')
      /\ CachedIn(NoManifest, manifests', generation')
  BY NothingHeld, Zenon
<1>3. FlusherType'
  <2>1. fpc' \in [Flushers -> Busy \cup Stopped]
    BY <1>1, Zenon DEF FlusherType
  <2>2. /\ mode' \in [Flushers -> {"run", "cancelled", "drain"}]
        /\ fseq' \in [Flushers -> Nat]
        /\ checkpoints' \in [Flushers -> [Branches -> Nat]]
    BY <1>1, Zenon DEF FlusherType
  <2>3. /\ todo' \in [Flushers -> SUBSET Branches]
        /\ low' \in [Flushers -> Nat \cup {-1}]
        /\ got' \in [Flushers -> Manifest]
        /\ cancelledAt' \in [Flushers -> Nat]
    BY <1>1, <1>2, Zenon DEF FlusherType
  <2> QED
    BY <2>1, <2>2, <2>3, Zenon DEF FlusherType
<1>4. ASSUME NEW g \in Flushers, g # f PROVE SameFlusher(g)
  BY <1>1, <1>4, Zenon DEF FlusherType, SameFlusher
<1>5. FlusherInv(f)'
  <2>1. /\ fpc'[f] = end /\ low'[f] = -1 /\ got'[f] = NoManifest
        /\ \A b \in Branches : checkpoints'[f][b] = 0
        /\ cancelledAt'[f] = cancelledAt[f] /\ cancelledAt[f] \in Nat
    BY <1>1, Zenon DEF FlusherType
  <2>2. end \notin PastFirst /\ end \notin Flushing /\ end # "write" /\ end # "register"
    BY Zenon DEF Stopped, PastFirst, Flushing
  <2>3. cancelledAt[f] <= Len(wal')
    BY <1>1, <2>1 DEF IngestInv, FlusherInv, StoreGrows, StoreType
  <2>4. Safe(got[f])' /\ Cached(got[f])'
    BY <1>2, <2>1, Zenon DEF Safe, Cached, VouchedNow
  <2> QED
    BY <1>2, <2>1, <2>2, <2>3, <2>4, Zenon DEF FlusherInv, VouchedNow
<1> QED
  BY <1>3, <1>4, <1>5, Zenon

(* A step that leaves the store alone disturbs nobody else.                *)
LEMMA Quiet ==
  ASSUME IngestInv, UNCHANGED storeVars, UNCHANGED forkVars, NEW f \in Flushers,
         FlusherType', \A g \in Flushers : g = f \/ SameFlusher(g),
         FlusherInv(f)'
  PROVE  IngestInv'
<1>1. StoreType /\ ForkType
  BY Zenon DEF IngestInv, TypeOK
<1>2. TypeOK'
  BY <1>1, Zenon DEF TypeOK, StoreType, ForkType, storeVars, forkVars
<1>3. StoreGrows
  BY <1>1, StoreSame, Zenon
<1>4. /\ \A b \in Branches : manifests'[b] = manifests[b]
      /\ \A x \in Forks : copy'[x] = copy[x]
  BY Zenon DEF storeVars, forkVars
<1> QED
  BY <1>2, <1>3, <1>4, Assemble, Zenon

(* Starting a flusher preserves the invariant.                             *)
LEMMA BootStep ==
  ASSUME IngestInv, NEW f \in Flushers, Boot(f), UNCHANGED forkVars
  PROVE  IngestInv'
<1> USE DEF Boot, Goto, storeVars
<1>1. FlusherType /\ StoreType /\ FlusherInv(f)
  BY Zenon DEF IngestInv, TypeOK
<1>2. FlusherType'
  BY <1>1, Zenon DEF FlusherType, Busy
<1>3. \A g \in Flushers : g = f \/ SameFlusher(g)
  BY <1>1, Zenon DEF FlusherType, SameFlusher
<1>4. fpc'[f] = "list" /\ cancelledAt'[f] = 0
  BY <1>1, Zenon DEF FlusherType
<1>5. FlusherInv(f)'
  BY <1>1, <1>4 DEF FlusherInv, VouchedNow, Safe, Cached, PastFirst, Flushing, StoreType
<1> QED
  BY <1>2, <1>3, <1>5, Quiet, Zenon

(* Listing the branches preserves the invariant: nothing has been read     *)
(* yet.                                                                    *)
LEMMA InitListStep ==
  ASSUME IngestInv, NEW f \in Flushers, InitList(f), UNCHANGED forkVars
  PROVE  IngestInv'
<1> USE DEF InitList, At, Goto, storeVars
<1>1. FlusherType /\ StoreType /\ FlusherInv(f)
  BY Zenon DEF IngestInv, TypeOK
<1>2. ListBranches \subseteq Branches
  BY <1>1, StoreConstants, Zenon DEF ListBranches, StoreType
<1>3. FlusherType'
  BY <1>1, <1>2, Zenon DEF FlusherType, Busy
<1>4. \A g \in Flushers : g = f \/ SameFlusher(g)
  BY <1>1, Zenon DEF FlusherType, SameFlusher
<1>5. fpc'[f] = "init" /\ low'[f] = -1
  BY <1>1, Zenon DEF FlusherType
<1>6. FlusherInv(f)'
  BY <1>1, <1>5, Zenon DEF FlusherInv, VouchedNow, Safe, Cached, PastFirst, Flushing
<1> QED
  BY <1>3, <1>4, <1>6, Quiet, Zenon

(* Reading one more checkpoint preserves the invariant: each vouches for   *)
(* the log below it, so the lowest does.                                   *)
LEMMA InitReadStep ==
  ASSUME IngestInv, NEW f \in Flushers, NEW b \in Branches, InitRead(f, b),
         UNCHANGED forkVars
  PROVE  IngestInv'
<1> USE DEF InitRead, At, Goto, storeVars
<1> DEFINE c == manifests[b].checkpoint
<1>1. FlusherType /\ StoreType /\ FlusherInv(f)
  BY Zenon DEF IngestInv, TypeOK
<1>2. c \in Nat /\ VouchedNow(c)
  BY <1>1, Zenon DEF IngestInv, StoreInv, Safe, StoreType, Manifest
<1>3. /\ checkpoints' \in [Flushers -> [Branches -> Nat]]
      /\ low' \in [Flushers -> Nat \cup {-1}]
      /\ todo' \in [Flushers -> SUBSET Branches]
  <2>1. todo' \in [Flushers -> SUBSET Branches]
    BY <1>1, Zenon DEF FlusherType
  <2>2. CASE Found(manifests[b])
    <3>1. checkpoints' = [checkpoints EXCEPT ![f][b] = c]
      BY <2>2, Zenon
    <3>2. checkpoints' \in [Flushers -> [Branches -> Nat]]
      BY <1>1, <1>2, <3>1, Zenon DEF FlusherType
    <3>3. low' = [low EXCEPT ![f] = IF @ = -1 \/ c < @ THEN c ELSE @]
      BY <2>2, Zenon
    <3>4. low' \in [Flushers -> Nat \cup {-1}]
      BY <1>1, <1>2, <3>3, Zenon DEF FlusherType
    <3> QED
      BY <2>1, <3>2, <3>4, Zenon
  <2>3. CASE ~Found(manifests[b])
    BY <1>1, <2>1, <2>3, Zenon DEF FlusherType
  <2> QED
    BY <2>2, <2>3, Zenon
<1>4. FlusherType'
  BY <1>1, <1>3, Zenon DEF FlusherType
<1>5. \A g \in Flushers : g = f \/ SameFlusher(g)
  BY <1>1, Zenon DEF FlusherType, SameFlusher
<1>6. /\ low'[f] \in {low[f], c}
      /\ \A d \in Branches : checkpoints'[f][d] \in {checkpoints[f][d], c}
  BY <1>1 DEF FlusherType
<1>7. fpc'[f] = "init"
  BY <1>1, Zenon DEF FlusherType
<1>8. FlusherInv(f)'
  <2>1. (low[f] # -1 => VouchedNow(low[f]))'
    BY <1>1, <1>2, <1>6, Zenon DEF FlusherInv, VouchedNow
  <2>2. (\A d \in Branches : VouchedNow(checkpoints[f][d]))'
    BY <1>1, <1>2, <1>6, Zenon DEF FlusherInv, VouchedNow
  <2> QED
    BY <1>1, <1>7, <2>1, <2>2, Zenon DEF FlusherInv, VouchedNow, Safe, Cached, PastFirst, Flushing
<1> QED
  BY <1>4, <1>5, <1>8, Quiet, Zenon

(* Replay may start after the lowest checkpoint read, or at the first      *)
(* entry.                                                                  *)
LEMMA InitDoneStep ==
  ASSUME IngestInv, NEW f \in Flushers, InitDone(f), UNCHANGED forkVars
  PROVE  IngestInv'
<1> USE DEF InitDone, At, Goto, storeVars
<1>1. FlusherType /\ StoreType /\ FlusherInv(f)
  BY Zenon DEF IngestInv, TypeOK
<1>2. FlusherType'
  <2>1. (IF low[f] = -1 THEN 0 ELSE low[f]) + 1 \in Nat
    BY <1>1 DEF FlusherType
  <2>2. fseq' \in [Flushers -> Nat]
    BY <1>1, <2>1, Zenon DEF FlusherType
  <2>3. low' \in [Flushers -> Nat \cup {-1}]
    BY <1>1, Zenon DEF FlusherType
  <2>4. fpc' \in [Flushers -> Busy \cup Stopped]
    BY <1>1, Zenon DEF FlusherType, Busy
  <2> QED
    BY <1>1, <2>2, <2>3, <2>4, Zenon DEF FlusherType
<1>3. \A g \in Flushers : g = f \/ SameFlusher(g)
  BY <1>1, Zenon DEF FlusherType, SameFlusher
<1>4. VouchedNow(0)
  BY <1>1, VouchedZero, Zenon DEF VouchedNow, StoreType
<1>5. low[f] \in Nat \cup {-1}
  BY <1>1, Zenon DEF FlusherType
<1>6. /\ fpc'[f] = "read" /\ low'[f] = -1
      /\ fseq'[f] >= 1 /\ fseq'[f] - 1 = IF low[f] = -1 THEN 0 ELSE low[f]
  <2>1. fpc'[f] = "read" /\ low'[f] = -1
    BY <1>1, Zenon DEF FlusherType
  <2>2. fseq'[f] = (IF low[f] = -1 THEN 0 ELSE low[f]) + 1
    BY <1>1, Zenon DEF FlusherType
  <2> QED
    BY <1>5, <2>1, <2>2
<1>7. VouchedNow(fseq'[f] - 1)
  BY <1>1, <1>4, <1>6, Zenon DEF FlusherInv
<1>8. FlusherInv(f)'
  BY <1>1, <1>6, <1>7, Zenon DEF FlusherInv, VouchedNow, Safe, Cached, PastFirst, Flushing
<1> QED
  BY <1>2, <1>3, <1>8, Quiet, Zenon

(* A fork event has nothing to flush, so the flusher may pass it and count *)
(* it for the child.                                                       *)
LEMMA ReadForkStep ==
  ASSUME IngestInv, NEW f \in Flushers, ReadFork(f), UNCHANGED forkVars
  PROVE  IngestInv'
<1> USE DEF ReadFork, At, Goto, storeVars
<1>1. FlusherType /\ StoreType /\ FlusherInv(f)
  BY Zenon DEF IngestInv, TypeOK
<1>2. /\ fseq[f] \in Nat /\ fseq[f] >= 1 /\ fseq[f] <= Len(wal) /\ VouchedNow(fseq[f] - 1)
      /\ wal \in Seq(Entry)
  BY <1>1, Zenon DEF FlusherType, FlusherInv, PastFirst, StoreType
<1>3. VouchedNow(fseq[f])
  <2>1. SettledIn(fseq[f] - 1 + 1, wal, manifests, rolledBack)
    BY <1>2 DEF SettledIn, IsMutation
  <2>2. Vouched(fseq[f] - 1 + 1, wal, manifests, rolledBack)
    BY <1>2, <2>1, VouchedNext DEF VouchedNow
  <2> QED
    BY <1>2, <2>2 DEF VouchedNow
<1>4. checkpoints' \in [Flushers -> [Branches -> Nat]]
  BY <1>1, <1>2, Zenon DEF FlusherType
<1>5. FlusherType'
  BY <1>1, <1>4 DEF FlusherType
<1>6. \A g \in Flushers : g = f \/ SameFlusher(g)
  BY <1>1, Zenon DEF FlusherType, SameFlusher
<1>7. /\ \A d \in Branches : checkpoints'[f][d] \in {checkpoints[f][d], fseq[f]}
      /\ fpc'[f] = "read" /\ fseq'[f] = fseq[f] + 1
  BY <1>1, Zenon DEF FlusherType
<1>8. (\A d \in Branches : VouchedNow(checkpoints[f][d]))'
  BY <1>1, <1>3, <1>7, Zenon DEF FlusherInv, VouchedNow
<1>9. fseq'[f] >= 1 /\ fseq'[f] - 1 = fseq[f]
  BY <1>2, <1>7
<1>10. FlusherInv(f)'
  BY <1>1, <1>3, <1>7, <1>8, <1>9, Zenon
     DEF FlusherInv, VouchedNow, Safe, Cached, PastFirst, Flushing
<1> QED
  BY <1>5, <1>6, <1>10, Quiet, Zenon

(* A mutation is passed only when the checkpoint in memory vouches for it. *)
LEMMA ReadMutationStep ==
  ASSUME IngestInv, NEW f \in Flushers, ReadMutation(f), UNCHANGED forkVars
  PROVE  IngestInv'
<1> USE DEF ReadMutation, At, Goto, storeVars
<1>1. FlusherType /\ StoreType /\ FlusherInv(f)
  BY Zenon DEF IngestInv, TypeOK
<1>2. /\ fseq[f] \in Nat /\ fseq[f] >= 1 /\ fseq[f] <= Len(wal) /\ VouchedNow(fseq[f] - 1)
      /\ wal \in Seq(Entry)
  BY <1>1, Zenon DEF FlusherType, FlusherInv, PastFirst, StoreType
<1>3. wal[fseq[f]] \in Mutation
  BY <1>2 DEF IsMutation, Entry, ForkEvent
<1>4. FlusherType'
  BY <1>1 DEF FlusherType, Busy
<1>5. \A g \in Flushers : g = f \/ SameFlusher(g)
  BY <1>1, Zenon DEF FlusherType, SameFlusher
<1>6. CASE Covered(f)
  <2>1. Current(f) \in Branches
    BY <1>3, Zenon DEF Current, Mutation
  <2>2. checkpoints[f][Current(f)] \in Nat /\ VouchedNow(checkpoints[f][Current(f)])
    BY <1>1, <2>1 DEF FlusherType, FlusherInv
  <2>3. VouchedNow(fseq[f])
    BY <1>2, <1>6, <2>2, VouchedBelow, Zenon DEF Covered, VouchedNow
  <2>4. fpc'[f] = "read" /\ fseq'[f] = fseq[f] + 1
    BY <1>1, <1>6, Zenon DEF FlusherType
  <2>5. fseq'[f] >= 1 /\ fseq'[f] - 1 = fseq[f]
    BY <1>2, <2>4
  <2>6. FlusherInv(f)'
    BY <1>1, <2>3, <2>4, <2>5, Zenon DEF FlusherInv, VouchedNow, Safe, Cached, PastFirst, Flushing
  <2> QED
    BY <1>4, <1>5, <2>6, Quiet, Zenon
<1>7. CASE ~Covered(f)
  <2>1. fpc'[f] = "upload" /\ fseq'[f] = fseq[f]
    BY <1>1, <1>7, Zenon DEF FlusherType
  <2>2. FlusherInv(f)'
    BY <1>1, <1>2, <1>3, <2>1, Zenon
       DEF FlusherInv, VouchedNow, Safe, Cached, PastFirst, Flushing
  <2> QED
    BY <1>4, <1>5, <2>2, Quiet, Zenon
<1> QED
  BY <1>6, <1>7, Zenon

(* Uploading a segment preserves the invariant.                            *)
LEMMA UploadStep ==
  ASSUME IngestInv, NEW f \in Flushers, Upload(f), UNCHANGED forkVars
  PROVE  IngestInv'
<1> USE DEF Upload, At, Goto
<1>1. FlusherType /\ StoreType /\ ForkType /\ FlusherInv(f) /\ TypeOK
  BY Zenon DEF IngestInv, TypeOK
<1>2. /\ fseq[f] \in Nat /\ fseq[f] <= Len(wal) /\ wal[fseq[f]] \in Mutation
  BY <1>1, Zenon DEF FlusherType, FlusherInv, Flushing
<1>3. StoreType'
  BY <1>1, <1>2, Zenon DEF StoreType
<1>4. FlusherType'
  BY <1>1, Zenon DEF FlusherType, Busy
<1>5. ForkType'
  BY <1>1, Zenon DEF ForkType, forkVars
<1>6. StoreGrows
  BY <1>1 DEF StoreGrows, StoreType
<1>7. \A g \in Flushers : g = f \/ SameFlusher(g)
  BY <1>1, Zenon DEF FlusherType, SameFlusher
<1>8. fpc'[f] = "fetch" /\ wal[fseq[f]] \in segments'
  BY <1>1, Zenon DEF FlusherType
<1>9. FlusherInv(f)'
  <2>1. got[f] \in Manifest /\ Safe(got[f])
    BY <1>1, Zenon DEF FlusherType, FlusherInv
  <2>2. Safe(got[f])'
    BY <1>1, <1>6, <2>1, ManifestStays, Zenon DEF Safe, VouchedNow
  <2> QED
    BY <1>1, <1>8, <2>2, Zenon DEF FlusherInv, VouchedNow, Cached, PastFirst, Flushing
<1>10. /\ \A b \in Branches : manifests'[b] = manifests[b]
       /\ \A x \in Forks : copy'[x] = copy[x]
  BY Zenon DEF forkVars
<1>11. TypeOK'
  BY <1>3, <1>4, <1>5, Zenon DEF TypeOK
<1> QED
  BY <1>6, <1>7, <1>9, <1>10, <1>11, Assemble, Zenon

(* Reading the manifest preserves the invariant, on either side of the     *)
(* comparison with its checkpoint.                                         *)
LEMMA FetchStep ==
  ASSUME IngestInv, NEW f \in Flushers, Fetch(f), UNCHANGED forkVars
  PROVE  IngestInv'
<1> USE DEF Fetch, At, Goto, storeVars
<1>1. FlusherType /\ StoreType /\ FlusherInv(f)
  BY Zenon DEF IngestInv, TypeOK
<1>2. fseq[f] \in Nat /\ fseq[f] <= Len(wal) /\ wal[fseq[f]] \in Mutation
  BY <1>1, Zenon DEF FlusherType, FlusherInv, Flushing
<1> DEFINE m == manifests[Current(f)]
<1>3. Current(f) \in Branches
  BY <1>2, Zenon DEF Current, Mutation
<1>4. m \in Manifest /\ Safe(m) /\ Cached(m)
  BY <1>1, <1>3, Zenon DEF StoreType, IngestInv, StoreInv
<1>5. FlusherType'
  BY <1>1, <1>4, Zenon DEF FlusherType, Busy
<1>6. \A g \in Flushers : g = f \/ SameFlusher(g)
  BY <1>1, Zenon DEF FlusherType, SameFlusher
<1>7. /\ got'[f] = m
      /\ fpc'[f] = IF m.checkpoint >= fseq[f] THEN "register" ELSE "write"
  BY <1>1, Zenon DEF FlusherType
<1>8. Safe(got[f])' /\ Cached(got[f])'
  BY <1>4, <1>7, Zenon DEF Safe, Cached, VouchedNow
<1>9. m.checkpoint \in Nat
  BY <1>4, Zenon DEF Manifest
<1>10. /\ (fpc[f] = "write" => got[f].checkpoint < fseq[f])'
       /\ (fpc[f] = "register" => got[f].checkpoint >= fseq[f])'
  BY <1>2, <1>7, <1>9
<1>11. FlusherInv(f)'
  <2>1. /\ UNCHANGED <<wal, segments, manifests, rolledBack, low, checkpoints, cancelledAt, fseq>>
        /\ fpc[f] = "fetch"
    BY Zenon
  <2> HIDE DEF Fetch, At, Goto, storeVars, m
  <2>2. fpc'[f] \in {"register", "write"}
    BY <1>7, Zenon
  <2> QED
    BY <1>1, <1>8, <1>10, <2>1, <2>2, Zenon DEF FlusherInv, VouchedNow, PastFirst, Flushing
<1> QED
  BY <1>5, <1>6, <1>11, Quiet, Zenon

(* A conditional write that keeps the segments already there.              *)
LEMMA WriteGrows ==
  ASSUME IngestInv, NEW b \in Branches, NEW c \in Nat, NEW segs \in Seq(Nat),
         Write(b, c, segs), UNCHANGED <<wal, segments, rolledBack>>,
         \A i \in DOMAIN manifests[b].segments :
           i \in DOMAIN segs /\ segs[i] = manifests[b].segments[i]
  PROVE  /\ StoreGrows
         /\ manifests'[b] = [generation |-> generation + 1, checkpoint |-> c, segments |-> segs]
         /\ manifests'[b] \in Manifest
         /\ \A d \in Branches : d = b \/ manifests'[d] = manifests[d]
         /\ CachedIn(manifests'[b], manifests', generation')
<1> DEFINE new == [generation |-> generation + 1, checkpoint |-> c, segments |-> segs]
<1>1. StoreType
  BY Zenon DEF IngestInv, TypeOK
<1>2. generation \in Nat /\ generation' = generation + 1
  BY <1>1, Zenon DEF StoreType, Write
<1>3. new \in Manifest
  BY <1>2 DEF Manifest
<1>4. manifests' = [manifests EXCEPT ![b] = new]
  BY Zenon DEF Write
<1>5. /\ manifests'[b] = new
      /\ \A d \in Branches : d = b \/ manifests'[d] = manifests[d]
      /\ manifests' \in [Branches -> Manifest]
  BY <1>1, <1>3, <1>4, Zenon DEF StoreType
<1>6. StoreGrows
  BY <1>1, <1>2, <1>5 DEF StoreGrows, StoreType
<1>7. ASSUME NEW d \in Branches, d # b PROVE manifests'[d].generation # new.generation
  <2>1. manifests[d].generation <= generation /\ manifests[d].generation \in Nat
    BY <1>1, Zenon DEF IngestInv, StoreInv, Cached, CachedIn, StoreType, Manifest
  <2> QED
    BY <1>2, <1>5, <1>7, <2>1
<1>8. CachedIn(new, manifests', generation')
  BY <1>2, <1>5, <1>7 DEF CachedIn
<1> QED
  BY <1>3, <1>5, <1>6, <1>8, Zenon

(* What Append does to a list of segments.                                 *)
LEMMA OneMore ==
  ASSUME NEW s \in Seq(Nat), NEW n \in Nat
  PROVE  /\ Append(s, n) \in Seq(Nat)
         /\ Len(s) + 1 \in DOMAIN Append(s, n) /\ Append(s, n)[Len(s) + 1] = n
         /\ \A i \in DOMAIN s : i \in DOMAIN Append(s, n) /\ Append(s, n)[i] = s[i]
         /\ \A i \in DOMAIN Append(s, n) :
              i \in Nat /\ i <= Len(s) + 1 /\ (i = Len(s) + 1 \/ i \in DOMAIN s)
  OBVIOUS

(* A manifest extended by an entry past its checkpoint is well formed.     *)
LEMMA OneMoreSegment ==
  ASSUME NEW w \in Seq(Entry), NEW stored, NEW m \in Manifest, WellFormed(m, w, stored),
         NEW n \in DOMAIN w, w[n] \in stored, m.checkpoint < n,
         NEW new, new.checkpoint = n, new.segments = Append(m.segments, n)
  PROVE  WellFormed(new, w, stored)
<1> DEFINE s == m.segments
           t == Append(s, n)
<1>1. s \in Seq(Nat) /\ m.checkpoint \in Nat /\ n \in Nat /\ Len(s) \in Nat
  BY DEF Manifest
<1>2. /\ Len(s) + 1 \in DOMAIN t /\ t[Len(s) + 1] = n
      /\ \A i \in DOMAIN s : i \in DOMAIN t /\ t[i] = s[i]
      /\ \A i \in DOMAIN t : i \in Nat /\ i <= Len(s) + 1 /\ (i = Len(s) + 1 \/ i \in DOMAIN s)
  BY <1>1, OneMore, Zenon
<1>3. \A i \in DOMAIN s :
        /\ s[i] \in Nat /\ s[i] <= m.checkpoint
        /\ s[i] \in DOMAIN w /\ w[s[i]] \in stored
  BY <1>1 DEF WellFormed
<1>4. \A i, j \in DOMAIN s : i < j => s[i] < s[j]
  BY Zenon DEF WellFormed
<1> HIDE DEF s, t
<1>5. ASSUME NEW i \in DOMAIN t, NEW j \in DOMAIN t, i < j
      PROVE  t[i] < t[j]
  <2>1. i \in DOMAIN s /\ t[i] = s[i]
    BY <1>1, <1>2, <1>5
  <2>2. CASE j \in DOMAIN s
    BY <1>2, <1>4, <1>5, <2>1, <2>2, Zenon
  <2>3. CASE j = Len(s) + 1
    BY <1>1, <1>2, <1>3, <2>1, <2>3
  <2> QED
    BY <1>2, <2>2, <2>3, Zenon
<1>6. ASSUME NEW i \in DOMAIN t
      PROVE  t[i] <= n /\ t[i] \in DOMAIN w /\ w[t[i]] \in stored
  <2>1. CASE i \in DOMAIN s
    BY <1>1, <1>2, <1>3, <2>1
  <2>2. CASE i = Len(s) + 1
    BY <1>1, <1>2, <2>2
  <2> QED
    BY <1>2, <2>1, <2>2, Zenon
<1>7. new.segments = t
  BY Zenon DEF t, s
<1> QED
  BY <1>5, <1>6, <1>7, Zenon DEF WellFormed

(* What the commit of flusher f, of entry n to branch b, leaves in the     *)
(* store.                                                                  *)
Committed(f, b, n) ==
  /\ b \in Branches /\ n \in Nat /\ n >= 1 /\ n <= Len(wal)
  /\ wal[n] \in Mutation /\ wal[n] \in segments
  /\ manifests[b] = got[f] /\ got[f].checkpoint < n
  /\ StoreGrows
  /\ manifests'[b] = [generation |-> generation + 1, checkpoint |-> n,
                      segments |-> Append(got[f].segments, n)]
  /\ manifests'[b] \in Manifest
  /\ \A d \in Branches : d = b \/ manifests'[d] = manifests[d]
  /\ Vouched(n, wal', manifests', rolledBack')
  /\ WellFormed(manifests'[b], wal', segments')
  /\ CachedIn(manifests'[b], manifests', generation')

(* Commit writes the manifest it was computed from.                        *)
LEMMA CommitStore ==
  ASSUME IngestInv, NEW f \in Flushers, Commit(f),
         NEW b, b = Current(f), NEW n, n = fseq[f]
  PROVE  Committed(f, b, n)
<1>1. FlusherType /\ StoreType /\ FlusherInv(f) /\ fpc[f] = "write"
  BY Zenon DEF IngestInv, TypeOK, Commit, At
<1>2. /\ n \in Nat /\ n >= 1 /\ n <= Len(wal) /\ wal[n] \in Mutation /\ wal[n] \in segments
      /\ VouchedNow(n - 1) /\ got[f] \in Manifest /\ Safe(got[f]) /\ got[f].checkpoint < n
  BY <1>1, Zenon DEF FlusherType, FlusherInv, Flushing, PastFirst
<1>3. wal \in Seq(Entry) /\ got[f].segments \in Seq(Nat)
  BY <1>1, <1>2, Zenon DEF StoreType, Manifest
<1>4. b \in Branches /\ wal[n].branch = b
  BY <1>2, Zenon DEF Current, Mutation
<1>5. manifests[b] = got[f]
  BY <1>1, <1>4, Zenon DEF Commit, Writable, FlusherInv, Cached, CachedIn
<1> DEFINE segs == Append(got[f].segments, n)
<1>6. /\ segs \in Seq(Nat)
      /\ Len(got[f].segments) + 1 \in DOMAIN segs /\ segs[Len(got[f].segments) + 1] = n
      /\ \A i \in DOMAIN got[f].segments : i \in DOMAIN segs /\ segs[i] = got[f].segments[i]
  BY <1>2, <1>3, OneMore, Zenon
<1>7. Write(b, n, segs) /\ UNCHANGED <<wal, segments, rolledBack>>
  BY Zenon DEF Commit
<1> HIDE DEF segs
<1>8. /\ StoreGrows
      /\ manifests'[b] = [generation |-> generation + 1, checkpoint |-> n, segments |-> segs]
      /\ manifests'[b] \in Manifest
      /\ \A d \in Branches : d = b \/ manifests'[d] = manifests[d]
      /\ CachedIn(manifests'[b], manifests', generation')
  <2>1. \A i \in DOMAIN manifests[b].segments :
          i \in DOMAIN segs /\ segs[i] = manifests[b].segments[i]
    BY <1>5, <1>6, Zenon
  <2>2. n \in Nat /\ segs \in Seq(Nat)
    BY <1>2, <1>6, Zenon
  <2> QED
    BY <2>1, <2>2, <1>4, <1>7, WriteGrows, Zenon
<1>9. Vouched(n, wal', manifests', rolledBack')
  <2>1. Vouched(n - 1, wal', manifests', rolledBack')
    BY <1>1, <1>2, <1>8, Stable
  <2>2. SettledIn(n, wal', manifests', rolledBack')
    <3>1. manifests'[b].segments = segs
      BY <1>8
    <3> QED
      BY <1>4, <1>6, <1>7, <3>1, Zenon DEF SettledIn
  <2>3. n - 1 \in Nat /\ n - 1 + 1 = n /\ n <= Len(wal') /\ wal' \in Seq(Entry)
    BY <1>2, <1>3, <1>7
  <2> QED
    BY <2>1, <2>2, <2>3, VouchedNext, Zenon
<1>10. WellFormed(manifests'[b], wal', segments')
  <2>1. n \in DOMAIN wal /\ WellFormed(got[f], wal, segments)
    BY <1>2, <1>3 DEF Safe
  <2>2. manifests'[b].checkpoint = n /\ manifests'[b].segments = Append(got[f].segments, n)
    BY <1>8 DEF segs
  <2>3. WellFormed(manifests'[b], wal, segments)
    BY <1>2, <1>3, <2>1, <2>2, OneMoreSegment, Zenon
  <2> QED
    BY <1>7, <2>3, Zenon
<1> QED
  BY <1>2, <1>4, <1>5, <1>8, <1>9, <1>10, Zenon DEF Committed, segs

(* The compare-and-swap loop goes round: the flusher keeps its place only. *)
LEMMA Again ==
  ASSUME IngestInv, StoreGrows, NEW f \in Flushers, At(f, "write"), Goto(f, "fetch"),
         got' = [got EXCEPT ![f] = NoManifest],
         UNCHANGED <<mode, fseq, checkpoints, todo, low, cancelledAt>>
  PROVE  /\ FlusherType'
         /\ \A g \in Flushers : SameFlusher(g) \/ FlusherInv(g)'
<1> USE DEF At, Goto
<1>1. FlusherType /\ StoreType /\ TypeOK /\ FlusherInv(f)
  BY Zenon DEF IngestInv, TypeOK
<1>2. /\ NoManifest \in Manifest /\ NoManifest.checkpoint = 0
      /\ Vouched(0, wal', manifests', rolledBack')
      /\ WellFormed(NoManifest, wal', segments')
      /\ CachedIn(NoManifest, manifests', generation')
  BY NothingHeld, Zenon
<1>3. FlusherType'
  BY <1>1, <1>2, Zenon DEF FlusherType, Busy
<1>4. ASSUME NEW g \in Flushers, g # f PROVE SameFlusher(g)
  BY <1>1, <1>4, Zenon DEF FlusherType, SameFlusher
<1>5. /\ fpc'[f] = "fetch" /\ got'[f] = NoManifest /\ fseq[f] \in Nat /\ cancelledAt[f] \in Nat
      /\ low[f] \in Nat \cup {-1} /\ checkpoints[f] \in [Branches -> Nat] /\ wal \in Seq(Entry)
      /\ fpc[f] = "write"
  BY <1>1, Zenon DEF FlusherType, StoreType
<1>6. \A n \in Nat : VouchedNow(n) => Vouched(n, wal', manifests', rolledBack')
  BY <1>1, Stable, Zenon
<1>7. Safe(got[f])' /\ Cached(got[f])'
  BY <1>2, <1>5, Zenon DEF Safe, Cached, VouchedNow
<1>8. /\ (low[f] # -1 => VouchedNow(low[f]))'
      /\ (\A b \in Branches : VouchedNow(checkpoints[f][b]))'
  BY <1>1, <1>5, <1>6, Zenon DEF FlusherInv, VouchedNow
<1>9. fseq[f] >= 1 /\ Vouched(fseq[f] - 1, wal', manifests', rolledBack')
  <2>1. fseq[f] >= 1 /\ VouchedNow(fseq[f] - 1) /\ fseq[f] - 1 \in Nat
    BY <1>1, <1>5 DEF FlusherInv, PastFirst
  <2> QED
    BY <1>6, <2>1, Zenon
<1>10. /\ fseq[f] <= Len(wal') /\ wal'[fseq[f]] \in Mutation /\ wal'[fseq[f]] \in segments'
       /\ cancelledAt[f] <= Len(wal')
  <2>1. /\ fseq[f] <= Len(wal) /\ wal[fseq[f]] \in Mutation /\ wal[fseq[f]] \in segments
        /\ cancelledAt[f] <= Len(wal)
    BY <1>1, <1>5, Zenon DEF FlusherInv, Flushing
  <2> QED
    BY <1>5, <1>9, <2>1 DEF StoreGrows
<1>11. FlusherInv(f)'
  BY <1>5, <1>7, <1>8, <1>9, <1>10, Zenon DEF FlusherInv, VouchedNow
<1> QED
  BY <1>3, <1>4, <1>11, Zenon
=============================================================================
