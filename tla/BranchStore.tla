---------------------------- MODULE BranchStore ----------------------------
(***************************************************************************)
(* The objects of one namespace that the ingest tier shares: the           *)
(* write-ahead log, one manifest per branch, the branch catalog and the    *)
(* segments.  Everything that runs (the flushers of Flusher, the fork      *)
(* requests of Fork) holds its own local state and meets the others only   *)
(* here.                                                                   *)
(*                                                                         *)
(* A segment is named by a hash of its content, so the model names it by   *)
(* the log entry it was encoded from: a manifest lists entry numbers, and  *)
(* the segment of entry k is stored under wal[k].  Two entries with equal  *)
(* content share one stored segment.                                       *)
(***************************************************************************)
EXTENDS Integers, Sequences

CONSTANTS
  Branches,   \* the branch names clients use
  Main,       \* "main", the branch an empty catalog stands for
  Batches,    \* the contents of a batch of upserts or deletes
  MaxWal,     \* bound: the log takes no entry beyond this one
  MaxFaults   \* bound: errors, lost answers and crashes in a behaviour

ASSUME StoreConstants ==
  Main \in Branches /\ MaxWal \in Nat /\ MaxFaults \in Nat

VARIABLES
  wal,         \* the entries of the log, as Wal promises them
  manifests,   \* the manifest of each branch; generation 0 when there is none
  catalog,     \* the branches listed in the branch catalog
  segments,    \* the contents of the stored segments
  generation,  \* the generation of the last conditional write
  faults,      \* how many faults have happened
  rolledBack   \* history: branches whose manifest a failed fork has deleted

storeVars == <<wal, manifests, catalog, segments, generation, faults, rolledBack>>

Mutation == [kind : {"mutation"}, branch : Branches, batch : Batches]
ForkEvent == [kind : {"fork"}, branch : Branches, parent : Branches]
Entry     == Mutation \cup ForkEvent
Manifest  == [generation : Nat, checkpoint : Nat, segments : Seq(Nat)]

NoManifest == [generation |-> 0, checkpoint |-> 0, segments |-> << >>]

Found(m) == m.generation # 0

StoreInit ==
  /\ wal = << >>
  /\ manifests = [b \in Branches |-> NoManifest]
  /\ catalog = {}
  /\ segments = {}
  /\ generation = 0
  /\ faults = 0
  /\ rolledBack = {}

StoreType ==
  /\ wal \in Seq(Entry)
  /\ manifests \in [Branches -> Manifest]
  /\ catalog \subseteq Branches
  /\ segments \subseteq Mutation
  /\ generation \in Nat
  /\ faults \in 0..MaxFaults
  /\ rolledBack \subseteq Branches

(* One more thing goes wrong.                                              *)
Fault == faults < MaxFaults /\ faults' = faults + 1

(* manifest.Write: replace the manifest read with generation expected, or  *)
(* create one when none was found.  Generations are never used again.      *)
Writable(b, expected) == manifests[b].generation = expected

Write(b, checkpoint, segs) ==
  /\ generation' = generation + 1
  /\ manifests' = [manifests EXCEPT ![b] =
       [generation |-> generation + 1, checkpoint |-> checkpoint, segments |-> segs]]

(* Scope.AddBranch and RemoveBranch change the catalog by compare-and-swap *)
(* until they succeed, ListBranches reads it.                              *)
AddBranch(b)    == catalog' = catalog \cup {b}
RemoveBranch(b) == catalog' = catalog \ {b}
ListBranches    == IF catalog = {} THEN {Main} ELSE catalog

(* Log.Append, as Wal promises it.                                         *)
WalAppend(e) == Len(wal) < MaxWal /\ wal' = Append(wal, e)

IsMutation(k) == wal[k].kind = "mutation"

(* Entry k has reached the manifest of its branch.                         *)
Materialised(k) ==
  \E i \in DOMAIN manifests[wal[k].branch].segments :
    manifests[wal[k].branch].segments[i] = k

(* Entry k needs no further work: it holds no mutation, it has reached its *)
(* manifest, or a failed fork has since deleted that manifest.             *)
Settled(k) ==
  IsMutation(k) => Materialised(k) \/ wal[k].branch \in rolledBack
-----------------------------------------------------------------------------
(* Ingester.Upsert and Delete: one log entry for a batch on one branch.    *)
(* Whether the caller learns of it makes no difference to what follows.    *)
Mutate(b, batch) ==
  /\ WalAppend([kind |-> "mutation", branch |-> b, batch |-> batch])
  /\ UNCHANGED <<manifests, catalog, segments, generation, faults, rolledBack>>
=============================================================================
