------------------------------- MODULE Engine -------------------------------
(***************************************************************************)
(* The query engine: passes of SyncOnce over the catalogs, one Loader for  *)
(* each branch they have met, and Query on what a loader has published.    *)
(*                                                                         *)
(* A table is the set of its documents (Snapshots shows that it behaves    *)
(* like one).  A pass is split where it asks the store: for the catalogs,  *)
(* and for a manifest, which Sync reads before it takes the loader's lock. *)
(* Under the lock only segments are read, and those never change, so the   *)
(* rest of Sync is one step; where it fails, how many segments and how     *)
(* many mutations of the next one were applied is a choice.                *)
(*                                                                         *)
(* The ingest tier is reduced to what it does to these objects: manifests  *)
(* grow, are copied by a fork and deleted by a fork's rollback.            *)
(***************************************************************************)
EXTENDS Records

CONSTANTS
  Namespaces, Branches,
  DefaultNamespace, DefaultBranch,
  Segments,    \* names of stored segments
  Contents,    \* the mutations in each segment
  Passes,      \* passes of SyncOnce that may run at the same time
  MaxWrites,   \* bound: writes and deletions of manifests
  MaxFaults,   \* bound: failed or cancelled requests
  None         \* a pass has no namespace, key or manifest

Keys == Namespaces \X Branches

VARIABLES
  registered,  \* the namespaces in the tenant's catalog
  listed,      \* the branches in the catalog of each namespace
  manifest,    \* the manifests there are: the generation and segments of a branch
  writes,      \* how many manifests were written or deleted
  loaders,     \* the map of loaders: table, applied and lastGen of a branch
  pass,        \* each pass: where it is and what it still has to visit
  faults,      \* how many requests failed
  history,     \* ghost: the segments of the manifest a branch last had
  reborn       \* ghost: branches whose manifest was deleted and made again

stored == <<registered, listed, manifest, writes, history, reborn>>
vars == <<stored, loaders, pass, faults>>

Set(f, k, v) == Override(f, [x \in {k} |-> v])

Refuses(db, m) == m.op = "put" /\ ~Fits(db, m.vectors)

(* db after all the mutations, one after another.                          *)
State(db, mutations) ==
  LET after[i \in 0..Len(mutations)] == IF i = 0 THEN db ELSE Apply(after[i - 1], mutations[i])
  IN  after[Len(mutations)]

Clean(db, mutations) ==
  \A i \in DOMAIN mutations : ~Refuses(State(db, SubSeq(mutations, 1, i - 1)), mutations[i])

(* The mutations of all the segments.                                      *)
Flat(segs) ==
  LET first[n \in 0..Len(segs)] == IF n = 0 THEN << >> ELSE first[n - 1] \o Contents[segs[n]]
  IN  first[Len(segs)]

ActiveNamespaces == IF registered = {} THEN {DefaultNamespace} ELSE registered

ListBranches(ns) == IF listed[ns] = {} THEN {DefaultBranch} ELSE listed[ns]

Idle == [pc |-> "idle", spaces |-> {}, ns |-> None, branches |-> {}, key |-> None, seen |-> None]

Init ==
  /\ registered = {}
  /\ listed = [ns \in Namespaces |-> {}]
  /\ manifest = << >>
  /\ writes = 0
  /\ loaders = << >>
  /\ pass = [p \in Passes |-> Idle]
  /\ faults = 0
  /\ history = [k \in Keys |-> << >>]
  /\ reborn = {}
-----------------------------------------------------------------------------
(* The ingest tier.                                                        *)

WriteManifest(k, segs) ==
  /\ writes < MaxWrites
  /\ writes' = writes + 1
  /\ manifest' = Set(manifest, k, [gen |-> writes + 1, segs |-> segs])
  /\ reborn' = IF k \notin DOMAIN manifest /\ history[k] # << >> THEN reborn \cup {k} ELSE reborn
  /\ history' = [history EXCEPT ![k] = segs]
  /\ UNCHANGED <<registered, listed, loaders, pass, faults>>

Flush(k, s) ==
  WriteManifest(k, Append(IF k \in DOMAIN manifest THEN manifest[k].segs ELSE << >>, s))

Fork(k, from) ==
  /\ k \notin DOMAIN manifest /\ from \in DOMAIN manifest /\ from[1] = k[1]
  /\ WriteManifest(k, manifest[from].segs)

Rollback(k) ==
  /\ k \in DOMAIN manifest /\ writes < MaxWrites
  /\ writes' = writes + 1
  /\ manifest' = Only(manifest, DOMAIN manifest \ {k})
  /\ UNCHANGED <<registered, listed, history, reborn, loaders, pass, faults>>

AddBranch(k) ==
  /\ k \in DOMAIN manifest /\ k[2] \notin listed[k[1]]
  /\ listed' = [listed EXCEPT ![k[1]] = @ \cup {k[2]}]
  /\ UNCHANGED <<registered, manifest, writes, history, reborn, loaders, pass, faults>>

RemoveBranch(k) ==
  /\ k \notin DOMAIN manifest /\ history[k] # << >> /\ k[2] \in listed[k[1]]
  /\ listed' = [listed EXCEPT ![k[1]] = @ \ {k[2]}]
  /\ UNCHANGED <<registered, manifest, writes, history, reborn, loaders, pass, faults>>

CreateNamespace(ns) ==
  /\ registered' = registered \cup {ns} /\ ns \notin registered
  /\ UNCHANGED <<listed, manifest, writes, history, reborn, loaders, pass, faults>>
-----------------------------------------------------------------------------
(* SyncOnce.                                                               *)

(* Where a pass goes when it is done with a branch or with a namespace.    *)
Onwards(q) ==
  IF q.branches # {} THEN [q EXCEPT !.pc = "branch", !.key = None, !.seen = None]
  ELSE IF q.spaces # {} THEN [q EXCEPT !.pc = "space", !.key = None, !.seen = None]
  ELSE Idle

Begin(p) ==
  /\ pass[p].pc = "idle"
  /\ pass' = [pass EXCEPT ![p] = Onwards([Idle EXCEPT !.spaces = ActiveNamespaces])]
  /\ UNCHANGED <<stored, loaders, faults>>

ListSpace(p, ns) ==
  /\ pass[p].pc = "space" /\ ns \in pass[p].spaces
  /\ pass' = [pass EXCEPT ![p] = Onwards([pass[p] EXCEPT !.spaces = @ \ {ns}, !.ns = ns,
                                                         !.branches = ListBranches(ns)])]
  /\ UNCHANGED <<stored, loaders, faults>>

(* A catalog cannot be read: the rest of the pass is given up.             *)
ListFails(p) ==
  /\ pass[p].pc = "space" /\ faults < MaxFaults
  /\ faults' = faults + 1
  /\ pass' = [pass EXCEPT ![p] = Idle]
  /\ UNCHANGED <<stored, loaders>>

NewLoader == [table |-> NoDocuments, applied |-> 0, lastGen |-> 0]

GetOrCreate(k) == loaders' = IF k \in DOMAIN loaders THEN loaders ELSE Set(loaders, k, NewLoader)

(* The loader of a branch, and the manifest it finds before it locks.      *)
SyncRead(p, b) ==
  LET k    == <<pass[p].ns, b>>
      rest == [pass[p] EXCEPT !.branches = @ \ {b}]
  IN /\ pass[p].pc = "branch" /\ b \in pass[p].branches
     /\ GetOrCreate(k)
     /\ \/ /\ pass' = [pass EXCEPT ![p] = IF k \notin DOMAIN manifest THEN Onwards(rest)
                        ELSE [rest EXCEPT !.pc = "sync", !.key = k, !.seen = manifest[k]]]
           /\ UNCHANGED faults
        \/ /\ faults < MaxFaults /\ faults' = faults + 1
           /\ pass' = [pass EXCEPT ![p] = Onwards(rest)]
     /\ UNCHANGED stored

(* The table after n of the segments rest and j mutations of the next one. *)
Advanced(table, rest, n, j) ==
  State(table, Flat(SubSeq(rest, 1, n))
                 \o (IF n < Len(rest) THEN SubSeq(Contents[rest[n + 1]], 1, j) ELSE << >>))

LoadedCountsFailed(l, gen, rest, n, j) ==
  [table   |-> IF n = 0 THEN l.table ELSE Advanced(l.table, rest, n, j),
   applied |-> l.applied + (IF n < Len(rest) THEN n + 1 ELSE n),
   lastGen |-> IF n = Len(rest) THEN gen ELSE l.lastGen]

LoadedRemembersEarly(l, gen, rest, n, j) ==
  [table   |-> IF n = 0 THEN l.table ELSE Advanced(l.table, rest, n, j),
   applied |-> l.applied + n,
   lastGen |-> gen]

LoadedAlwaysStores(l, gen, rest, n, j) ==
  [table   |-> Advanced(l.table, rest, n, j),
   applied |-> l.applied + n,
   lastGen |-> IF n = Len(rest) THEN gen ELSE l.lastGen]

(* The loader then: a failure before the first whole segment drops the     *)
(* clone, a later one publishes it, and only success remembers gen.        *)
Loaded(l, gen, rest, n, j) ==
  [table   |-> IF n = 0 THEN l.table ELSE Advanced(l.table, rest, n, j),
   applied |-> l.applied + n,
   lastGen |-> IF n = Len(rest) THEN gen ELSE l.lastGen]

(* Sync under the lock.                                                    *)
SyncApply(p) ==
  LET q    == pass[p]
      l    == loaders[q.key]
      rest == SubSeq(q.seen.segs, l.applied + 1, Len(q.seen.segs))
      Applied(n, j) == Flat(SubSeq(rest, 1, n)) \o SubSeq(Contents[rest[n + 1]], 1, j)
  IN /\ q.pc = "sync"
     /\ pass' = [pass EXCEPT ![p] = Onwards(q)]
     /\ \/ /\ q.seen.gen = l.lastGen \/ l.applied > Len(q.seen.segs)
           /\ UNCHANGED <<loaders, faults>>
        \/ /\ q.seen.gen # l.lastGen /\ l.applied <= Len(q.seen.segs)
           /\ \/ /\ Clean(l.table, Flat(rest))
                 /\ loaders' = [loaders EXCEPT ![q.key] = Loaded(l, q.seen.gen, rest, Len(rest), 0)]
                 /\ UNCHANGED faults
              \/ \E n \in 0 .. Len(rest) - 1 : \E j \in 0 .. Len(Contents[rest[n + 1]]) :
                   /\ Clean(l.table, Applied(n, j))
                   /\ \/ /\ faults < MaxFaults /\ faults' = faults + 1
                      \/ /\ j < Len(Contents[rest[n + 1]])
                         /\ Refuses(State(l.table, Applied(n, j)), Contents[rest[n + 1]][j + 1])
                         /\ UNCHANGED faults
                   /\ loaders' = [loaders EXCEPT ![q.key] = Loaded(l, q.seen.gen, rest, n, j)]
     /\ UNCHANGED stored

Query(k) == IF k \in DOMAIN loaders THEN loaders[k].table ELSE NoDocuments
-----------------------------------------------------------------------------
Ingest ==
  \/ \E k \in Keys :
       \/ \E s \in Segments : Flush(k, s)
       \/ \E from \in Keys : Fork(k, from)
       \/ Rollback(k) \/ AddBranch(k) \/ RemoveBranch(k)
  \/ \E ns \in Namespaces : CreateNamespace(ns)

Sync(p) ==
  \/ Begin(p) \/ SyncApply(p)
  \/ \E ns \in Namespaces : ListSpace(p, ns)
  \/ \E b \in Branches : SyncRead(p, b)

Next == Ingest \/ \E p \in Passes : Sync(p) \/ ListFails(p)

Spec == Init /\ [][Next]_vars
-----------------------------------------------------------------------------
(* What a loader shows is the start of its branch's history: the segments  *)
(* it counts as applied and a first part of the next one.  No interleaving *)
(* of passes, no failure half way through a segment and no second          *)
(* application of it makes Sync skip, repeat visibly or mix mutations, as  *)
(* long as the branch's manifest is not made a second time.                *)
PublishedIsPrefix ==
  \A k \in DOMAIN loaders \ reborn :
    LET n == loaders[k].applied
    IN /\ n <= Len(history[k])
       /\ \/ Query(k) = State(NoDocuments, Flat(SubSeq(history[k], 1, n)))
          \/ /\ n < Len(history[k])
             /\ \E j \in DOMAIN Contents[history[k][n + 1]] :
                  Query(k) = State(NoDocuments, Flat(SubSeq(history[k], 1, n))
                                                  \o SubSeq(Contents[history[k][n + 1]], 1, j))

(* What the documents say of Sync and the code does not do: the new table  *)
(* is published once all new segments are applied, so a query never sees a *)
(* part of one.                                                            *)
PublishedInWhole ==
  \A k \in DOMAIN loaders \ reborn :
    Query(k) = State(NoDocuments, Flat(SubSeq(history[k], 1, loaders[k].applied)))

(* The generation a loader remembers vouches for its table: when Sync      *)
(* would skip the manifest as unchanged, all of it has been applied.       *)
SkipIsSafe ==
  \A k \in (DOMAIN loaders \cap DOMAIN manifest) \ reborn :
    loaders[k].lastGen = manifest[k].gen
      => Query(k) = State(NoDocuments, Flat(manifest[k].segs))

(* Successive queries never see a branch go back: a pass that works from   *)
(* an older manifest, or fails, leaves what was published.                 *)
NoRetreat ==
  [][\A k \in DOMAIN loaders :
       /\ k \in DOMAIN loaders'
       /\ loaders'[k].applied >= loaders[k].applied
       /\ loaders'[k].applied = loaders[k].applied => Query(k)' = Query(k)]_vars

(* A query on a listed branch ought to see all of its manifest, unless the *)
(* table refuses one of its mutations; and it does.                        *)
Due(k) ==
  /\ k[1] \in ActiveNamespaces /\ k[2] \in ListBranches(k[1])
  /\ k \in DOMAIN manifest /\ k \notin reborn
  /\ Clean(NoDocuments, Flat(manifest[k].segs))

CaughtUp == \A k \in Keys : Due(k) => Query(k) = State(NoDocuments, Flat(manifest[k].segs))
=============================================================================
