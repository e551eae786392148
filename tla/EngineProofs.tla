---------------------------- MODULE EngineProofs ----------------------------
(***************************************************************************)
(* What the query engine publishes, for every value of the constants:      *)
(* what passes, loaders and manifests know of each other, and what         *)
(* follows for queries.                                                    *)
(***************************************************************************)
EXTENDS EngineTables

Manifests == [gen : Nat, segs : Seq(Segments)]

PassTypes ==
  [pc : {"idle", "space", "branch", "sync"}, spaces : SUBSET QueryNamespaces,
   ns : QueryNamespaces \cup {None}, branches : SUBSET Branches,
   key : Engine!Keys \cup {None}, seen : Manifests \cup {None}]

EngineType ==
  /\ registered \subseteq QueryNamespaces
  /\ listed \in [QueryNamespaces -> SUBSET Branches]
  /\ writes \in Nat
  /\ DOMAIN manifest \subseteq Engine!Keys /\ DOMAIN loaders \subseteq Engine!Keys
  /\ history \in [Engine!Keys -> Seq(Segments)]
  /\ pass \in [Passes -> PassTypes]

(* A manifest is what its branch has come to, under a generation of a      *)
(* write that was made.                                                    *)
ManifestKnows(k) ==
  manifest[k] \in Manifests /\ manifest[k].gen \in 1..writes /\ manifest[k].segs = history[k]

(* The manifest a pass has read may be old, but it is where its branch     *)
(* has been, and one of the present generation is the present one.         *)
PassKnows(q, ls) ==
  /\ q.pc \in {"branch", "sync"} => q.ns \in QueryNamespaces
  /\ q.pc = "sync" =>
       /\ q.key \in DOMAIN ls /\ q.seen \in Manifests /\ q.seen.gen \in 1..writes
       /\ q.key \notin reborn => IsPre(q.seen.segs, history[q.key])
       /\ q.key \in DOMAIN manifest /\ q.seen.gen = manifest[q.key].gen
            => q.seen.segs = manifest[q.key].segs

(* A loader shows a beginning of its branch, and all of it when it has     *)
(* remembered the present generation.                                      *)
LoaderKnows(k, l) ==
  /\ l.applied \in Nat /\ l.lastGen \in 0..writes
  /\ k \notin reborn => Shows(l.table, history[k], l.applied)
  /\ k \notin reborn /\ k \in DOMAIN manifest /\ l.lastGen = manifest[k].gen
       => l.applied = Len(history[k])

EngineInv ==
  /\ EngineType
  /\ \A k \in DOMAIN manifest : ManifestKnows(k)
  /\ \A p \in Passes : PassKnows(pass[p], loaders)
  /\ \A k \in DOMAIN loaders : LoaderKnows(k, loaders[k])

(* The part that Sync applies, as Advanced writes it.                      *)
LEMMA PartIs ==
  ASSUME NEW rest \in Seq(Segments), NEW n \in 0..Len(rest), NEW j \in Nat
  PROVE  /\ n < Len(rest)
              => Part(rest, n, j) = Engine!Flat(SubSeq(rest, 1, n)) \o SubSeq(Contents[rest[n + 1]], 1, j)
         /\ Part(rest, Len(rest), 0) = Engine!Flat(rest)
<1>1. Part(rest, Len(rest), 0) = Engine!Flat(rest)
  <2>1. SubSeq(rest, 1, Len(rest)) = rest
    BY SubSeqFull, Zenon
  <2>2. Engine!Flat(rest) \in Seq(Mutations)
    BY FlatConcat, Zenon
  <2>3. Cat(Engine!Flat(rest), << >>) = Engine!Flat(rest)
    BY <2>2, ConcatEmptySeq, Zenon DEF Cat
  <2> QED
    BY <2>1, <2>3, Zenon DEF Part, Cat
<1>2. ASSUME n < Len(rest), j = 0
      PROVE  SubSeq(Contents[rest[n + 1]], 1, j) = << >>
  <2>1. n + 1 \in 1..Len(rest)
    BY <1>2
  <2>2. Contents[rest[n + 1]] \in Seq(Mutations)
    BY <2>1, ContentsType
  <2> QED
    BY <1>2, <2>2, SubSeqEmpty
<1> QED
  BY <1>1, <1>2, Zenon DEF Part

(* Sync has the rest of a manifest to apply, and stops in it.              *)
IsRest(rest, segments, n) == rest = SubSeq(segments, n + 1, Len(segments))

Stops(rest, n, j) ==
  /\ n = Len(rest) => j = 0
  /\ n < Len(rest) => j <= Len(Contents[rest[n + 1]])

(* What Sync makes of a loader, when it applies all of the rest, or fails  *)
(* after n segments of it and j mutations of the next one.                 *)
LEMMA LoadedKnows ==
  ASSUME EngineType, NEW k \in Engine!Keys, NEW l, LoaderKnows(k, l),
         k \in DOMAIN manifest => ManifestKnows(k),
         NEW seen \in Manifests, seen.gen \in 1..writes,
         k \notin reborn => IsPre(seen.segs, history[k]),
         k \in DOMAIN manifest /\ seen.gen = manifest[k].gen => seen.segs = manifest[k].segs,
         seen.gen # l.lastGen, l.applied <= Len(seen.segs),
         NEW rest, IsRest(rest, seen.segs, l.applied),
         NEW n \in 0..Len(rest), NEW j \in Nat, Stops(rest, n, j),
         Engine!Clean(l.table, Part(rest, n, j))
  PROVE  LoaderKnows(k, Engine!Loaded(l, seen.gen, rest, n, j))
<1>1. /\ seen.segs \in Seq(Segments) /\ Len(seen.segs) \in Nat /\ history[k] \in Seq(Segments)
      /\ Len(history[k]) \in Nat /\ l.applied \in Nat
  BY DEF Manifests, EngineType, LoaderKnows
<1>2. rest \in Seq(Segments) /\ Len(rest) = Len(seen.segs) - l.applied /\ n \in Nat
  BY <1>1, SubSeqProperties DEF IsRest
<1> DEFINE t == Engine!Loaded(l, seen.gen, rest, n, j)
<1>3. /\ t.applied = l.applied + n
      /\ t.lastGen = IF n = Len(rest) THEN seen.gen ELSE l.lastGen
      /\ n = 0 => t.table = l.table
      /\ n # 0 => t.table = Engine!State(l.table, Part(rest, n, j))
  <2>1. n # 0 => t.table = Engine!Advanced(l.table, rest, n, j)
    BY Zenon DEF Engine!Loaded
  <2>2. Engine!Advanced(l.table, rest, n, j) = Engine!State(l.table, Part(rest, n, j))
    <3>1. CASE n < Len(rest)
      BY <3>1, <1>2, PartIs, Zenon DEF Engine!Advanced
    <3>2. CASE n = Len(rest)
      <4>1. ~(n < Len(rest)) /\ j = 0
        BY <3>2, <1>2 DEF Stops
      <4> QED
        BY <4>1, Zenon DEF Engine!Advanced, Part
    <3> QED
      BY <3>1, <3>2, <1>2
  <2> QED
    BY <2>1, <2>2, Zenon DEF Engine!Loaded
<1> HIDE DEF t
<1>4. t.applied \in Nat /\ t.lastGen \in 0..writes
  <2>1. writes \in Nat /\ l.lastGen \in 0..writes
    BY Zenon DEF EngineType, LoaderKnows
  <2>2. t.applied \in Nat
    BY <1>1, <1>2, <1>3
  <2>3. CASE n = Len(rest)
    BY <2>1, <2>2, <2>3, <1>3
  <2>4. CASE n # Len(rest)
    BY <2>1, <2>2, <2>4, <1>3, Zenon
  <2> QED
    BY <2>3, <2>4, Zenon
<1>5. ASSUME k \notin reborn PROVE Shows(t.table, history[k], t.applied)
  <2>1. Shows(l.table, history[k], l.applied) /\ IsPre(seen.segs, history[k])
    BY <1>5, Zenon DEF LoaderKnows
  <2>2. CASE n = 0
    BY <2>1, <2>2, <1>1, <1>3
  <2>3. CASE n # 0
    <3>1. n \in 1..Len(rest)
      BY <2>3, <1>2
    <3>2. j > 0 => n < Len(rest) /\ j <= Len(Contents[rest[n + 1]])
      BY <1>2 DEF Stops
    <3>3. ShowsPart(Engine!State(l.table, Part(rest, n, j)), history[k], l.applied + n, j)
      BY <3>1, <3>2, <2>1, <1>1, Advance, Zenon DEF IsRest
    <3> QED
      BY <3>3, <2>3, <1>3, Zenon DEF Shows
  <2> QED
    BY <2>2, <2>3, Zenon
<1>6. ASSUME k \notin reborn, k \in DOMAIN manifest, t.lastGen = manifest[k].gen
      PROVE  t.applied = Len(history[k])
  <2>1. manifest[k].segs = history[k]
    BY <1>6, Zenon DEF ManifestKnows
  <2>2. CASE n = Len(rest)
    <3>1. seen.segs = history[k]
      <4>1. seen.gen = manifest[k].gen
        BY <2>2, <1>3, <1>6, Zenon
      <4> QED
        BY <4>1, <2>1, <1>6, Zenon
    <3> QED
      BY <3>1, <2>2, <1>1, <1>2, <1>3
  <2>3. CASE n # Len(rest)
    <3>1. l.applied = Len(history[k])
      BY <2>3, <1>3, <1>6, Zenon DEF LoaderKnows
    <3>2. Len(seen.segs) <= Len(history[k])
      BY <1>6, Zenon DEF IsPre
    <3>3. n < Len(rest)
      BY <2>3, <1>2
    <3>4. Len(seen.segs) <= l.applied
      BY <3>1, <3>2, Zenon
    <3>5. Len(rest) <= 0
      BY <3>4, <1>1, <1>2
    <3> QED
      BY <3>3, <3>5, <1>2
  <2> QED
    BY <2>2, <2>3, Zenon
<1> QED
  BY <1>4, <1>5, <1>6, Zenon DEF LoaderKnows, t

(* A pass that is over.                                                    *)
LEMMA IdleKnows == Engine!Idle \in PassTypes /\ \A ls : PassKnows(Engine!Idle, ls)
BY Zenon DEF Engine!Idle, PassTypes, PassKnows

(* Where a pass goes next, it knows what it must.                          *)
LEMMA OnwardsKnows ==
  ASSUME NEW ls, NEW q \in PassTypes, q.branches # {} => q.ns \in QueryNamespaces
  PROVE  Engine!Onwards(q) \in PassTypes /\ PassKnows(Engine!Onwards(q), ls) /\ Engine!Onwards(q).pc # "sync"
<1> DEFINE o == Engine!Onwards(q)
<1>1. CASE q.branches # {}
  <2>1. o = [q EXCEPT !.pc = "branch", !.key = None, !.seen = None]
    BY <1>1, Zenon DEF Engine!Onwards
  <2> HIDE DEF o
  <2>2. o \in PassTypes /\ o.pc = "branch" /\ o.ns = q.ns
    BY <2>1, Zenon DEF PassTypes
  <2> QED
    BY <2>2, <1>1, Zenon DEF PassKnows, o
<1>2. CASE q.branches = {} /\ q.spaces # {}
  <2>1. o = [q EXCEPT !.pc = "space", !.key = None, !.seen = None]
    BY <1>2, Zenon DEF Engine!Onwards
  <2> HIDE DEF o
  <2>2. o \in PassTypes /\ o.pc = "space"
    BY <2>1, Zenon DEF PassTypes
  <2> QED
    BY <2>2, Zenon DEF PassKnows, o
<1>3. CASE q.branches = {} /\ q.spaces = {}
  <2>1. o = Engine!Idle
    BY <1>3, Zenon DEF Engine!Onwards
  <2> QED
    BY <2>1, IdleKnows DEF o, Engine!Idle
<1> QED
  BY <1>1, <1>2, <1>3, Zenon

(* A step of a pass: it leaves what is stored, and every loader stays.     *)
LEMMA SyncStep ==
  ASSUME EngineInv, NEW p \in Passes, NEW q \in PassTypes, pass' = [pass EXCEPT ![p] = q],
         UNCHANGED Engine!stored,
         DOMAIN loaders \subseteq DOMAIN loaders', DOMAIN loaders' \subseteq Engine!Keys,
         \A k \in DOMAIN loaders' : LoaderKnows(k, loaders'[k]),
         PassKnows(q, loaders')
  PROVE  EngineInv'
<1> USE DEF Engine!stored
<1>1. EngineType'
  BY Zenon DEF EngineType, EngineInv, Engine!Keys, PassTypes, Manifests
<1>2. \A k \in DOMAIN manifest' : ManifestKnows(k)'
  BY Zenon DEF EngineInv, ManifestKnows, Manifests
<1>3. ASSUME NEW r \in Passes PROVE PassKnows(pass[r], loaders)'
  <2>1. CASE r = p
    <3>1. pass'[r] = q
      BY <2>1, Zenon DEF EngineInv, EngineType
    <3> QED
      BY <3>1 DEF PassKnows, IsPre, Manifests
  <2>2. CASE r # p
    <3>1. pass'[r] = pass[r]
      BY <2>2, Zenon DEF EngineInv, EngineType
    <3>2. PassKnows(pass[r], loaders)
      BY Zenon DEF EngineInv
    <3> QED
      BY <3>1, <3>2 DEF PassKnows, IsPre, Manifests
  <2> QED
    BY <2>1, <2>2, Zenon
<1>4. ASSUME NEW k \in DOMAIN loaders' PROVE LoaderKnows(k, loaders[k])'
  BY Zenon DEF LoaderKnows
<1> QED
  BY <1>1, <1>2, <1>3, <1>4 DEF EngineInv

(* A step of a pass that leaves the loaders too.                           *)
LEMMA PassStep ==
  ASSUME EngineInv, NEW p \in Passes, NEW q \in PassTypes, pass' = [pass EXCEPT ![p] = q],
         UNCHANGED <<Engine!stored, loaders>>, PassKnows(q, loaders)
  PROVE  EngineInv'
<1>1. PassKnows(q, loaders')
  BY Zenon DEF PassKnows, Engine!stored, IsPre, Manifests
<1>2. DOMAIN loaders \subseteq Engine!Keys /\ \A k \in DOMAIN loaders : LoaderKnows(k, loaders[k])
  BY Zenon DEF EngineInv, EngineType
<1>3. UNCHANGED Engine!stored /\ loaders' = loaders
  BY Zenon
<1> QED
  BY <1>1, <1>2, <1>3, SyncStep, Zenon

(* A pass begins with the namespaces there are.                            *)
LEMMA BeginKeeps ==
  ASSUME EngineInv, NEW p \in Passes, Engine!Begin(p)
  PROVE  EngineInv'
<1> DEFINE i == [Engine!Idle EXCEPT !.spaces = Engine!ActiveNamespaces]
<1>1. Engine!ActiveNamespaces \subseteq QueryNamespaces
  BY EngineConstants, Zenon DEF Engine!ActiveNamespaces, EngineInv, EngineType
<1>2. i \in PassTypes /\ i.branches = {}
  BY <1>1, Zenon DEF PassTypes, Engine!Idle
<1>3. pass' = [pass EXCEPT ![p] = Engine!Onwards(i)] /\ UNCHANGED <<Engine!stored, loaders>>
  BY Zenon DEF Engine!Begin
<1> HIDE DEF i
<1> QED
  BY <1>2, <1>3, OnwardsKnows, PassStep, Zenon

(* A pass lists the branches of a namespace.                               *)
LEMMA ListSpaceKeeps ==
  ASSUME EngineInv, NEW p \in Passes, NEW ns \in QueryNamespaces, Engine!ListSpace(p, ns)
  PROVE  EngineInv'
<1> DEFINE i == [pass[p] EXCEPT !.spaces = @ \ {ns}, !.ns = ns, !.branches = Engine!ListBranches(ns)]
<1>1. Engine!ListBranches(ns) \subseteq Branches
  BY EngineConstants, Zenon DEF Engine!ListBranches, EngineInv, EngineType
<1>2. pass[p] \in PassTypes
  BY Zenon DEF EngineInv, EngineType
<1>3. i \in PassTypes /\ i.ns \in QueryNamespaces
  <2> DEFINE q == pass[p]
             s == q.spaces \ {ns}
             b == Engine!ListBranches(ns)
  <2>1. s \subseteq QueryNamespaces /\ b \subseteq Branches
    BY <1>1, <1>2, Zenon DEF PassTypes
  <2>2. i = [q EXCEPT !.spaces = s, !.ns = ns, !.branches = b]
    BY <1>2, Zenon DEF PassTypes
  <2> HIDE DEF q, s, b, i
  <2>3. q \in PassTypes
    BY <1>2, Zenon DEF q
  <2> QED
    BY <2>1, <2>2, <2>3, Zenon DEF PassTypes
<1>4. pass' = [pass EXCEPT ![p] = Engine!Onwards(i)] /\ UNCHANGED <<Engine!stored, loaders>>
  BY Zenon DEF Engine!ListSpace
<1> HIDE DEF i
<1> QED
  BY <1>3, <1>4, OnwardsKnows, PassStep, Zenon

(* A listing fails and ends the pass.                                      *)
LEMMA ListFailsKeeps ==
  ASSUME EngineInv, NEW p \in Passes, Engine!ListFails(p)
  PROVE  EngineInv'
<1>1. pass' = [pass EXCEPT ![p] = Engine!Idle] /\ UNCHANGED <<Engine!stored, loaders>>
  BY Zenon DEF Engine!ListFails
<1> QED
  BY <1>1, IdleKnows, PassStep, Zenon

(* The loader of a branch is made when it is first met.                    *)
LEMMA GetOrCreateKeeps ==
  ASSUME EngineInv, NEW k \in Engine!Keys, Engine!GetOrCreate(k)
  PROVE  /\ DOMAIN loaders \subseteq DOMAIN loaders' /\ DOMAIN loaders' \subseteq Engine!Keys
         /\ k \in DOMAIN loaders'
         /\ \A x \in DOMAIN loaders' : LoaderKnows(x, loaders'[x])
<1>1. CASE k \in DOMAIN loaders
  BY <1>1, Zenon DEF Engine!GetOrCreate, EngineInv, EngineType
<1>2. CASE k \notin DOMAIN loaders
  <2> DEFINE l == Engine!NewLoader
  <2>1. l.applied = 0 /\ l.lastGen = 0 /\ l.table = Engine!NoDocuments
    BY Zenon DEF Engine!NewLoader
  <2>2. LoaderKnows(k, l)
    <3> HIDE DEF l
    <3>1. history[k] \in Seq(Segments) /\ writes \in Nat
      BY Zenon DEF EngineInv, EngineType
    <3>2. Shows(l.table, history[k], l.applied)
      BY <3>1, <2>1, ShowsNothing, Zenon
    <3>3. k \in DOMAIN manifest => l.lastGen # manifest[k].gen
      BY <2>1 DEF EngineInv, ManifestKnows
    <3> QED
      BY <2>1, <3>1, <3>2, <3>3 DEF LoaderKnows
  <2> HIDE DEF l
  <2>3. loaders' = Engine!Set(loaders, k, l)
    BY <1>2, Zenon DEF Engine!GetOrCreate, l
  <2>4. /\ DOMAIN loaders' = DOMAIN loaders \cup {k} /\ loaders'[k] = l
        /\ \A x \in DOMAIN loaders : loaders'[x] = loaders[x]
    BY <2>3, <1>2, Zenon DEF Engine!Set, Engine!Override
  <2> QED
    BY <2>2, <2>4, Zenon DEF EngineInv, EngineType
<1> QED
  BY <1>1, <1>2, Zenon

(* Sync reads the manifest of a branch, before it locks the loader.        *)
LEMMA SyncReadKeeps ==
  ASSUME EngineInv, NEW p \in Passes, NEW b \in Branches, Engine!SyncRead(p, b)
  PROVE  EngineInv'
<1> DEFINE k    == <<pass[p].ns, b>>
           rest == [pass[p] EXCEPT !.branches = @ \ {b}]
<1>1. pass[p] \in PassTypes /\ pass[p].pc = "branch" /\ PassKnows(pass[p], loaders)
  BY Zenon DEF EngineInv, EngineType, Engine!SyncRead
<1>2. pass[p].ns \in QueryNamespaces /\ k \in Engine!Keys
  BY <1>1, Zenon DEF PassKnows, Engine!Keys
<1>3. rest \in PassTypes /\ rest.ns \in QueryNamespaces
  BY <1>1, <1>2, Zenon DEF PassTypes
<1>4. Engine!GetOrCreate(k) /\ UNCHANGED Engine!stored
  BY Zenon DEF Engine!SyncRead
<1>5. /\ DOMAIN loaders \subseteq DOMAIN loaders' /\ DOMAIN loaders' \subseteq Engine!Keys
      /\ k \in DOMAIN loaders'
      /\ \A x \in DOMAIN loaders' : LoaderKnows(x, loaders'[x])
  <2> HIDE DEF k
  <2> QED
    BY <1>2, <1>4, GetOrCreateKeeps, Zenon
<1> DEFINE o == Engine!Onwards(rest)
           r == [rest EXCEPT !.pc = "sync", !.key = k, !.seen = manifest[k]]
<1>6. \/ pass' = [pass EXCEPT ![p] = o]
      \/ k \in DOMAIN manifest /\ pass' = [pass EXCEPT ![p] = r]
  BY Zenon DEF Engine!SyncRead
<1>7. CASE pass' = [pass EXCEPT ![p] = o]
  <2> HIDE DEF rest
  <2>1. o \in PassTypes /\ PassKnows(o, loaders') /\ o.pc # "sync"
    BY <1>3, OnwardsKnows, Zenon
  <2> HIDE DEF o
  <2> QED
    BY <1>4, <1>5, <1>7, <2>1, SyncStep, Zenon
<1>8. CASE k \in DOMAIN manifest /\ pass' = [pass EXCEPT ![p] = r]
  <2>1. ManifestKnows(k)
    BY <1>8, Zenon DEF EngineInv
  <2> HIDE DEF k, rest
  <2>2. /\ r \in PassTypes /\ r.pc = "sync" /\ r.key = k /\ r.seen = manifest[k]
        /\ r.ns \in QueryNamespaces
    BY <2>1, <1>2, <1>3, Zenon DEF PassTypes, ManifestKnows
  <2> HIDE DEF r
  <2>3. IsPre(manifest[k].segs, history[k])
    BY <2>1, <1>2 DEF ManifestKnows, IsPre, EngineInv, EngineType
  <2>4. PassKnows(r, loaders')
    BY <2>1, <2>2, <2>3, <1>4, <1>5, Zenon DEF PassKnows, ManifestKnows, Engine!stored, IsPre, Manifests
  <2> QED
    BY <1>4, <1>5, <1>8, <2>2, <2>4, SyncStep, Zenon
<1> QED
  BY <1>6, <1>7, <1>8, Zenon

(* What is left of a manifest.                                             *)
LEMMA RestIs ==
  ASSUME NEW s \in Seq(Segments), NEW a \in Nat, a <= Len(s)
  PROVE  /\ SubSeq(s, a + 1, Len(s)) \in Seq(Segments) /\ Len(SubSeq(s, a + 1, Len(s))) \in Nat
         /\ IsRest(SubSeq(s, a + 1, Len(s)), s, a)
<1>1. Len(s) \in Nat
  OBVIOUS
<1>2. SubSeq(s, a + 1, Len(s)) \in Seq(Segments)
  BY <1>1, SubSeqProperties
<1> QED
  BY <1>2 DEF IsRest

(* Sync applies the segments of its manifest that the loader has not.      *)
LEMMA SyncApplyKeeps ==
  ASSUME EngineInv, NEW p \in Passes, Engine!SyncApply(p)
  PROVE  EngineInv'
<1> DEFINE q    == pass[p]
           l    == loaders[q.key]
           rest == SubSeq(q.seen.segs, l.applied + 1, Len(q.seen.segs))
           o    == Engine!Onwards(q)
           c(n) == Contents[rest[n + 1]]
           Loaded(n, j) == Engine!Loaded(l, q.seen.gen, rest, n, j)
<1>1. q \in PassTypes /\ q.pc = "sync" /\ PassKnows(q, loaders)
  BY Zenon DEF EngineInv, EngineType, Engine!SyncApply
<1>2. /\ q.ns \in QueryNamespaces /\ q.key \in DOMAIN loaders /\ q.key \in Engine!Keys
      /\ q.seen \in Manifests /\ q.seen.gen \in 1..writes
      /\ LoaderKnows(q.key, l)
  BY <1>1, Zenon DEF PassKnows, EngineInv, EngineType
<1>3. o \in PassTypes /\ PassKnows(o, loaders) /\ PassKnows(o, loaders')
  <2> HIDE DEF q
  <2> QED
    BY <1>1, <1>2, OnwardsKnows, Zenon
<1>4. pass' = [pass EXCEPT ![p] = o] /\ UNCHANGED Engine!stored
  BY Zenon DEF Engine!SyncApply
<1>5. \/ UNCHANGED loaders
      \/ /\ q.seen.gen # l.lastGen /\ l.applied <= Len(q.seen.segs)
         /\ \/ /\ Engine!Clean(l.table, Engine!Flat(rest))
               /\ loaders' = [loaders EXCEPT ![q.key] = Loaded(Len(rest), 0)]
            \/ \E n \in 0 .. Len(rest) - 1 : \E j \in 0 .. Len(c(n)) :
                 /\ Engine!Clean(l.table, Engine!Flat(SubSeq(rest, 1, n)) \o SubSeq(c(n), 1, j))
                 /\ loaders' = [loaders EXCEPT ![q.key] = Loaded(n, j)]
  BY Zenon DEF Engine!SyncApply
<1>6. CASE UNCHANGED loaders
  <2> HIDE DEF o
  <2> QED
    BY <1>3, <1>4, <1>6, PassStep, Zenon
<1>7. CASE q.seen.gen # l.lastGen /\ l.applied <= Len(q.seen.segs)
  <2>1. rest \in Seq(Segments) /\ Len(rest) \in Nat /\ IsRest(rest, q.seen.segs, l.applied)
    <3>1. q.seen.segs \in Seq(Segments) /\ l.applied \in Nat /\ Len(q.seen.segs) \in Nat
      BY <1>2 DEF Manifests, LoaderKnows
    <3> QED
      BY <3>1, <1>7, RestIs, Zenon
  <2>2. ASSUME NEW n \in 0..Len(rest), NEW j \in Nat, Stops(rest, n, j),
               Engine!Clean(l.table, Part(rest, n, j)),
               loaders' = [loaders EXCEPT ![q.key] = Loaded(n, j)]
        PROVE  EngineInv'
    <3>1. /\ q.key \in DOMAIN manifest => ManifestKnows(q.key)
          /\ q.key \notin reborn => IsPre(q.seen.segs, history[q.key])
          /\ q.key \in DOMAIN manifest /\ q.seen.gen = manifest[q.key].gen
               => q.seen.segs = manifest[q.key].segs
          /\ EngineType
      BY <1>1, Zenon DEF PassKnows, EngineInv
    <3> HIDE DEF q, l, rest
    <3>2. LoaderKnows(q.key, Loaded(n, j))
      BY <3>1, <2>1, <2>2, <1>2, <1>7, LoadedKnows
    <3> HIDE DEF Loaded
    <3>3. /\ DOMAIN loaders' = DOMAIN loaders /\ loaders'[q.key] = Loaded(n, j)
          /\ \A k \in DOMAIN loaders : k # q.key => loaders'[k] = loaders[k]
      BY <2>2, <1>2, Zenon
    <3>4. \A k \in DOMAIN loaders' : LoaderKnows(k, loaders'[k])
      BY <3>2, <3>3, Zenon DEF EngineInv
    <3>5. DOMAIN loaders' \subseteq Engine!Keys
      BY <3>3, Zenon DEF EngineInv, EngineType
    <3> HIDE DEF o
    <3> QED
      BY <3>3, <3>4, <3>5, <1>3, <1>4, SyncStep, Zenon
  <2>3. CASE /\ Engine!Clean(l.table, Engine!Flat(rest))
             /\ loaders' = [loaders EXCEPT ![q.key] = Loaded(Len(rest), 0)]
    <3> HIDE DEF rest, l, q, Loaded
    <3>1. Stops(rest, Len(rest), 0) /\ Len(rest) \in 0..Len(rest)
      BY <2>1 DEF Stops
    <3>2. Part(rest, Len(rest), 0) = Engine!Flat(rest)
      BY <2>1, <3>1, PartIs, Zenon
    <3> QED
      BY <2>2, <2>3, <3>1, <3>2, Zenon
  <2>4. CASE \E n \in 0 .. Len(rest) - 1 : \E j \in 0 .. Len(c(n)) :
               /\ Engine!Clean(l.table, Engine!Flat(SubSeq(rest, 1, n)) \o SubSeq(c(n), 1, j))
               /\ loaders' = [loaders EXCEPT ![q.key] = Loaded(n, j)]
    <3> HIDE DEF rest, l, q, Loaded
    <3>1. PICK n \in 0 .. Len(rest) - 1 : \E j \in 0 .. Len(c(n)) :
               /\ Engine!Clean(l.table, Engine!Flat(SubSeq(rest, 1, n)) \o SubSeq(c(n), 1, j))
               /\ loaders' = [loaders EXCEPT ![q.key] = Loaded(n, j)]
      BY <2>4, Zenon
    <3>2. PICK j \in 0 .. Len(c(n)) :
               /\ Engine!Clean(l.table, Engine!Flat(SubSeq(rest, 1, n)) \o SubSeq(c(n), 1, j))
               /\ loaders' = [loaders EXCEPT ![q.key] = Loaded(n, j)]
      BY <3>1, Zenon
    <3>3. n \in 0..Len(rest) /\ n < Len(rest) /\ j \in Nat /\ Stops(rest, n, j)
      BY <2>1 DEF Stops
    <3>4. Part(rest, n, j) = Engine!Flat(SubSeq(rest, 1, n)) \o SubSeq(c(n), 1, j)
      BY <2>1, <3>3, PartIs, Zenon
    <3> QED
      BY <2>2, <3>2, <3>3, <3>4, Zenon
  <2> QED
    BY <1>5, <1>6, <2>3, <2>4, Zenon
<1> QED
  BY <1>5, <1>6, <1>7, Zenon

-----------------------------------------------------------------------------
(* The ingest tier.                                                        *)

(* A beginning of a beginning is one.                                      *)
LEMMA PreTransitive ==
  ASSUME NEW S, NEW a \in Seq(S), NEW b \in Seq(S), NEW c \in Seq(S), IsPre(a, b), IsPre(b, c)
  PROVE  IsPre(a, c)
BY DEF IsPre

(* Writing a manifest that continues the one there is, or is the first.    *)
LEMMA WriteKeeps ==
  ASSUME EngineInv, NEW k \in Engine!Keys, NEW ss \in Seq(Segments),
         k \in DOMAIN manifest => IsPre(history[k], ss),
         Engine!WriteManifest(k, ss)
  PROVE  EngineInv'
<1>1. /\ writes' = writes + 1
      /\ manifest' = Engine!Set(manifest, k, [gen |-> writes + 1, segs |-> ss])
      /\ reborn' = IF k \notin DOMAIN manifest /\ history[k] # << >> THEN reborn \cup {k} ELSE reborn
      /\ history' = [history EXCEPT ![k] = ss]
      /\ UNCHANGED <<registered, listed, loaders, pass, faults>>
  BY Zenon DEF Engine!WriteManifest
<1>2. EngineType /\ writes \in Nat /\ history \in [Engine!Keys -> Seq(Segments)]
  BY Zenon DEF EngineInv, EngineType
<1>3. /\ DOMAIN manifest' = DOMAIN manifest \cup {k}
      /\ manifest'[k] = [gen |-> writes + 1, segs |-> ss]
      /\ \A x \in DOMAIN manifest : x # k => manifest'[x] = manifest[x]
  BY <1>1, Zenon DEF Engine!Set, Engine!Override
<1>4. history'[k] = ss /\ \A x \in Engine!Keys : x # k => history'[x] = history[x]
  BY <1>1, <1>2, Zenon
<1>5. history' \in [Engine!Keys -> Seq(Segments)]
  BY <1>1, <1>2, Zenon
<1>6. EngineType'
  BY <1>1, <1>2, <1>3, <1>5 DEF EngineType, Engine!Keys, PassTypes, Manifests
<1>7. \A x : x \notin reborn' => x \notin reborn
  BY <1>1, Zenon
<1>8. k \notin reborn' => IsPre(history[k], ss)
  <2>1. CASE k \in DOMAIN manifest
    BY <2>1, Zenon
  <2>2. CASE k \notin DOMAIN manifest
    <3>1. k \notin reborn' => history[k] = << >>
      BY <2>2, <1>1, Zenon
    <3>2. IsPre(<< >>, ss)
      BY DEF IsPre
    <3> QED
      BY <3>1, <3>2, Zenon
  <2> QED
    BY <2>1, <2>2, Zenon
<1>9. ASSUME NEW x \in DOMAIN manifest' PROVE ManifestKnows(x)'
  <2>1. CASE x = k
    BY <2>1, <1>1, <1>2, <1>3, <1>4 DEF ManifestKnows, Manifests
  <2>2. CASE x # k
    <3>1. x \in DOMAIN manifest /\ x \in Engine!Keys /\ ManifestKnows(x)
      BY <2>2, <1>2, <1>3, Zenon DEF EngineInv, EngineType
    <3> QED
      BY <3>1, <2>2, <1>1, <1>2, <1>3, <1>4 DEF ManifestKnows, Manifests
  <2> QED
    BY <2>1, <2>2, Zenon
<1>10. ASSUME NEW r \in Passes PROVE PassKnows(pass[r], loaders)'
  <2> DEFINE q == pass[r]
  <2>1. q \in PassTypes /\ PassKnows(q, loaders) /\ pass'[r] = q /\ loaders' = loaders
    BY <1>1, Zenon DEF EngineInv, EngineType
  <2>2. ASSUME q.pc = "sync"
        PROVE  /\ q.key \in DOMAIN loaders /\ q.seen \in Manifests /\ q.seen.gen \in 1..writes'
               /\ q.key \notin reborn' => IsPre(q.seen.segs, history'[q.key])
               /\ q.key \in DOMAIN manifest' /\ q.seen.gen = manifest'[q.key].gen
                    => q.seen.segs = manifest'[q.key].segs
    <3> HIDE DEF q
    <3>1. /\ q.key \in DOMAIN loaders /\ q.key \in Engine!Keys
          /\ q.seen \in Manifests /\ q.seen.gen \in 1..writes
          /\ q.key \notin reborn => IsPre(q.seen.segs, history[q.key])
          /\ q.key \in DOMAIN manifest /\ q.seen.gen = manifest[q.key].gen
               => q.seen.segs = manifest[q.key].segs
      BY <2>1, <2>2, <1>2 DEF PassKnows, EngineType
    <3>2. q.seen.gen \in 1..writes'
      BY <3>1, <1>1, <1>2
    <3>3. ASSUME q.key \notin reborn' PROVE IsPre(q.seen.segs, history'[q.key])
      <4>1. CASE q.key = k
        <5>1. IsPre(q.seen.segs, history[k]) /\ IsPre(history[k], ss)
          BY <3>1, <3>3, <4>1, <1>7, <1>8
        <5>2. q.seen.segs \in Seq(Segments) /\ history[k] \in Seq(Segments)
          BY <3>1, <1>2, Zenon DEF Manifests
        <5> QED
          BY <5>1, <5>2, <4>1, <1>4, PreTransitive
      <4>2. CASE q.key # k
        BY <3>1, <3>3, <4>2, <1>4, <1>7
      <4> QED
        BY <4>1, <4>2, Zenon
    <3>4. ASSUME q.key \in DOMAIN manifest', q.seen.gen = manifest'[q.key].gen
          PROVE  q.seen.segs = manifest'[q.key].segs
      <4>1. q.key # k
        BY <3>1, <3>4, <1>2, <1>3
      <4> QED
        BY <3>1, <3>4, <4>1, <1>3, Zenon
    <3> QED
      BY <3>1, <3>2, <3>3, <3>4
  <2> HIDE DEF q
  <2> QED
    BY <2>1, <2>2, Zenon DEF PassKnows
<1>11. ASSUME NEW x \in DOMAIN loaders' PROVE LoaderKnows(x, loaders[x])'
  <2> DEFINE l == loaders[x]
  <2>1. x \in Engine!Keys /\ LoaderKnows(x, l) /\ loaders'[x] = l
    BY <1>1, <1>2, Zenon DEF EngineInv, EngineType
  <2> HIDE DEF l
  <2>2. l.applied \in Nat /\ l.lastGen \in 0..writes'
    BY <2>1, <1>1, <1>2 DEF LoaderKnows
  <2>3. ASSUME x \notin reborn' PROVE Shows(l.table, history'[x], l.applied)
    <3>1. Shows(l.table, history[x], l.applied)
      BY <2>1, <2>3, <1>7, Zenon DEF LoaderKnows
    <3>2. CASE x = k
      <4>1. IsPre(history[k], ss) /\ history[k] \in Seq(Segments)
        BY <2>3, <3>2, <1>2, <1>8, Zenon
      <4> QED
        BY <4>1, <3>1, <3>2, <2>2, <1>4, ShowsMore
    <3>3. CASE x # k
      BY <2>1, <3>1, <3>3, <1>4, Zenon
    <3> QED
      BY <3>2, <3>3, Zenon
  <2>4. ASSUME x \notin reborn', x \in DOMAIN manifest', l.lastGen = manifest'[x].gen
        PROVE  l.applied = Len(history'[x])
    <3>1. x # k
      BY <2>1, <2>4, <1>2, <1>3 DEF LoaderKnows
    <3> QED
      BY <3>1, <2>1, <2>4, <1>3, <1>4, <1>7 DEF LoaderKnows
  <2> QED
    BY <2>1, <2>2, <2>3, <2>4, Zenon DEF LoaderKnows
<1> QED
  BY <1>6, <1>9, <1>10, <1>11 DEF EngineInv

(* A flusher extends a manifest.                                           *)
LEMMA FlushKeeps ==
  ASSUME EngineInv, NEW k \in Engine!Keys, NEW s \in Segments, Engine!Flush(k, s)
  PROVE  EngineInv'
<1> DEFINE old == IF k \in DOMAIN manifest THEN manifest[k].segs ELSE << >>
           ss  == Append(old, s)
<1>1. old \in Seq(Segments) /\ (k \in DOMAIN manifest => old = history[k])
  BY DEF EngineInv, ManifestKnows, Manifests
<1>2. Engine!WriteManifest(k, ss)
  BY Zenon DEF Engine!Flush
<1> HIDE DEF old
<1>3. /\ ss \in Seq(Segments) /\ Len(ss) = Len(old) + 1 /\ Len(old) \in Nat
      /\ \A i \in 1..Len(old) : ss[i] = old[i]
  BY <1>1, AppendProperties
<1>4. IsPre(old, ss)
  <2> HIDE DEF ss
  <2> QED
    BY <1>3 DEF IsPre
<1> HIDE DEF ss
<1> QED
  BY <1>1, <1>2, <1>3, <1>4, WriteKeeps

(* A fork copies a manifest.                                               *)
LEMMA ForkKeeps ==
  ASSUME EngineInv, NEW k \in Engine!Keys, NEW from \in Engine!Keys, Engine!Fork(k, from)
  PROVE  EngineInv'
<1>1. /\ k \notin DOMAIN manifest /\ from \in DOMAIN manifest
      /\ Engine!WriteManifest(k, manifest[from].segs)
  BY Zenon DEF Engine!Fork
<1>2. manifest[from].segs \in Seq(Segments)
  BY <1>1, Zenon DEF EngineInv, ManifestKnows, Manifests
<1> QED
  BY <1>1, <1>2, WriteKeeps, Zenon

(* Fewer manifests, and catalogs that change, leave what is known.         *)
LEMMA ForgetKeeps ==
  ASSUME EngineInv, UNCHANGED <<history, reborn, loaders, pass>>,
         registered' \subseteq QueryNamespaces, listed' \in [QueryNamespaces -> SUBSET Branches],
         writes' \in Nat, writes' >= writes, DOMAIN manifest' \subseteq DOMAIN manifest,
         \A k \in DOMAIN manifest' : manifest'[k] = manifest[k]
  PROVE  EngineInv'
<1>1. EngineType /\ writes \in Nat
  BY Zenon DEF EngineInv, EngineType
<1>2. EngineType'
  BY <1>1, Zenon DEF EngineType, Engine!Keys, PassTypes, Manifests
<1>3. ASSUME NEW k \in DOMAIN manifest' PROVE ManifestKnows(k)'
  <2>1. ManifestKnows(k)
    BY Zenon DEF EngineInv
  <2> QED
    BY <2>1, <1>1 DEF ManifestKnows, Manifests
<1>4. ASSUME NEW p \in Passes PROVE PassKnows(pass[p], loaders)'
  <2>1. PassKnows(pass[p], loaders)
    BY Zenon DEF EngineInv
  <2> DEFINE q == pass[p]
  <2>2. pass'[p] = q /\ loaders' = loaders
    BY Zenon
  <2> HIDE DEF q
  <2>3. PassKnows(q, loaders)
    BY <2>1, Zenon DEF q
  <2> QED
    BY <2>2, <2>3, <1>1 DEF PassKnows, IsPre, Manifests
<1>5. ASSUME NEW k \in DOMAIN loaders' PROVE LoaderKnows(k, loaders[k])'
  <2>1. LoaderKnows(k, loaders[k])
    BY Zenon DEF EngineInv
  <2> DEFINE l == loaders[k]
  <2>2. loaders'[k] = l
    BY Zenon
  <2> HIDE DEF l
  <2>3. LoaderKnows(k, l)
    BY <2>1, Zenon DEF l
  <2> QED
    BY <2>2, <2>3, <1>1 DEF LoaderKnows
<1> QED
  BY <1>2, <1>3, <1>4, <1>5 DEF EngineInv

(* The ingest tier changes a catalog or a manifest.                        *)
LEMMA IngestKeeps ==
  ASSUME EngineInv, Engine!Ingest
  PROVE  EngineInv'
<1>1. /\ registered \subseteq QueryNamespaces /\ writes \in Nat
      /\ listed \in [QueryNamespaces -> SUBSET Branches]
  BY Zenon DEF EngineInv, EngineType
<1>2. ASSUME NEW k \in Engine!Keys, NEW s \in Segments, Engine!Flush(k, s) PROVE EngineInv'
  BY <1>2, FlushKeeps, Zenon
<1>3. ASSUME NEW k \in Engine!Keys, NEW from \in Engine!Keys, Engine!Fork(k, from) PROVE EngineInv'
  BY <1>3, ForkKeeps, Zenon
<1>4. ASSUME NEW k \in Engine!Keys, Engine!Rollback(k) PROVE EngineInv'
  <2>1. /\ writes' = writes + 1 /\ manifest' = Engine!Only(manifest, DOMAIN manifest \ {k})
        /\ UNCHANGED <<registered, listed, history, reborn, loaders, pass, faults>>
    BY <1>4, Zenon DEF Engine!Rollback
  <2>2. DOMAIN manifest' \subseteq DOMAIN manifest /\ \A x \in DOMAIN manifest' : manifest'[x] = manifest[x]
    BY <2>1, Zenon DEF Engine!Only
  <2> QED
    BY <2>1, <2>2, <1>1, ForgetKeeps
<1>5. ASSUME NEW k \in Engine!Keys, Engine!AddBranch(k) \/ Engine!RemoveBranch(k) PROVE EngineInv'
  <2>1. k[1] \in QueryNamespaces /\ k[2] \in Branches
    BY Zenon DEF Engine!Keys
  <2>2. listed' \in [QueryNamespaces -> SUBSET Branches]
    BY <2>1, <1>1, <1>5 DEF Engine!AddBranch, Engine!RemoveBranch
  <2>3. UNCHANGED <<registered, manifest, writes, history, reborn, loaders, pass, faults>>
    BY <1>5, Zenon DEF Engine!AddBranch, Engine!RemoveBranch
  <2> QED
    BY <2>2, <2>3, <1>1, ForgetKeeps
<1>6. ASSUME NEW ns \in QueryNamespaces, Engine!CreateNamespace(ns) PROVE EngineInv'
  BY <1>1, <1>6, ForgetKeeps DEF Engine!CreateNamespace
<1> QED
  BY <1>2, <1>3, <1>4, <1>5, <1>6 DEF Engine!Ingest

-----------------------------------------------------------------------------
(* The engine begins without loaders.                                      *)
LEMMA EngineBegins == Engine!Init => EngineInv
<1> SUFFICES ASSUME Engine!Init PROVE EngineInv
  BY Zenon
<1> USE DEF Engine!Init
<1>1. DOMAIN manifest = {} /\ DOMAIN loaders = {}
  OBVIOUS
<1>2. EngineType
  BY <1>1, IdleKnows DEF EngineType
<1>3. \A p \in Passes : PassKnows(pass[p], loaders)
  BY IdleKnows, Zenon
<1> QED
  BY <1>1, <1>2, <1>3, Zenon DEF EngineInv

(* Every step keeps the invariant.                                         *)
LEMMA EngineKeeps ==
  ASSUME EngineInv, [Engine!Next]_(Engine!vars)
  PROVE  EngineInv'
<1>1. Engine!Next \/ UNCHANGED engineVars
  BY Zenon DEF engineVars, Engine!vars, Engine!stored
<1>2. ASSUME NEW p \in Passes, Engine!Sync(p) \/ Engine!ListFails(p) PROVE EngineInv'
  BY <1>2, BeginKeeps, SyncApplyKeeps, ListSpaceKeeps, SyncReadKeeps, ListFailsKeeps DEF Engine!Sync
<1>3. CASE Engine!Next
  BY <1>2, <1>3, IngestKeeps, Zenon DEF Engine!Next
<1>4. CASE UNCHANGED engineVars
  <2>1. /\ UNCHANGED <<history, reborn, loaders, pass>> /\ manifest' = manifest
        /\ writes' = writes /\ registered' = registered /\ listed' = listed
    BY <1>4, Zenon DEF engineVars
  <2> QED
    BY <2>1, ForgetKeeps DEF EngineInv, EngineType
<1> QED
  BY <1>1, <1>3, <1>4

(* The invariant of the query engine holds always.                         *)
LEMMA EngineIsSafe == Engine!Spec => []EngineInv
BY EngineBegins, EngineKeeps, PTL DEF Engine!Spec

(* What it means to show a part, without the empty rest.                   *)
LEMMA ShownIs ==
  ASSUME NEW table, NEW H \in Seq(Segments), NEW n \in Nat, Shows(table, H, n)
  PROVE  /\ n <= Len(H)
         /\ \/ table = Engine!State(Engine!NoDocuments, Engine!Flat(SubSeq(H, 1, n)))
            \/ /\ n < Len(H)
               /\ \E j \in DOMAIN Contents[H[n + 1]] :
                    table = Engine!State(Engine!NoDocuments,
                              Engine!Flat(SubSeq(H, 1, n)) \o SubSeq(Contents[H[n + 1]], 1, j))
<1>1. PICK j \in Nat : ShowsPart(table, H, n, j)
  BY Zenon DEF Shows
<1>2. n <= Len(H) /\ Len(H) \in Nat
  BY <1>1 DEF ShowsPart
<1>3. CASE j = 0
  <2> DEFINE f == Engine!Flat(SubSeq(H, 1, n))
  <2>1. SubSeq(H, 1, n) \in Seq(Segments)
    BY <1>2
  <2>2. f \in Seq(Mutations)
    BY <2>1, FlatConcat, Zenon
  <2>3. Cat(f, << >>) = f
    <3> HIDE DEF f
    <3> QED
      BY <2>2, ConcatEmptySeq, Zenon DEF Cat
  <2>4. Part(H, n, j) = Cat(f, << >>)
    BY <1>3, Zenon DEF Part, Cat
  <2> QED
    BY <1>1, <1>2, <2>3, <2>4 DEF ShowsPart
<1>4. CASE j # 0
  <2>1. n < Len(H) /\ j <= Len(Contents[H[n + 1]]) /\ j > 0
    BY <1>1, <1>4 DEF ShowsPart
  <2>2. n + 1 \in 1..Len(H)
    BY <2>1, <1>2
  <2>3. Contents[H[n + 1]] \in Seq(Mutations)
    BY <2>2, ContentsType
  <2>4. j \in DOMAIN Contents[H[n + 1]]
    BY <2>1, <2>3
  <2>5. Part(H, n, j) = Engine!Flat(SubSeq(H, 1, n)) \o SubSeq(Contents[H[n + 1]], 1, j)
    BY <1>4, Zenon DEF Part
  <2> QED
    BY <1>1, <1>2, <2>1, <2>4, <2>5 DEF ShowsPart
<1> QED
  BY <1>3, <1>4, Zenon

(* What a loader shows is the start of its branch's history, whatever the  *)
(* passes, the failures and the forks: SyncOnce and Loader.Sync.           *)
THEOREM PublishedIsHistory == Engine!Spec => []PublishedIsPrefix
<1>1. EngineInv => PublishedIsPrefix
  <2> SUFFICES ASSUME EngineInv, NEW k \in DOMAIN loaders \ reborn
               PROVE  LET n == loaders[k].applied
                      IN /\ n <= Len(history[k])
                         /\ \/ Engine!Query(k) = Engine!State(Engine!NoDocuments, Engine!Flat(SubSeq(history[k], 1, n)))
                            \/ /\ n < Len(history[k])
                               /\ \E j \in DOMAIN Contents[history[k][n + 1]] :
                                    Engine!Query(k) = Engine!State(Engine!NoDocuments,
                                      Engine!Flat(SubSeq(history[k], 1, n))
                                        \o SubSeq(Contents[history[k][n + 1]], 1, j))
    BY Zenon DEF PublishedIsPrefix, Engine!PublishedIsPrefix
  <2>1. history[k] \in Seq(Segments) /\ LoaderKnows(k, loaders[k])
    BY Zenon DEF EngineInv, EngineType
  <2>2. loaders[k].applied \in Nat /\ Shows(loaders[k].table, history[k], loaders[k].applied)
    BY <2>1, Zenon DEF LoaderKnows
  <2>3. Engine!Query(k) = loaders[k].table
    BY Zenon DEF Engine!Query
  <2> QED
    BY <2>1, <2>2, <2>3, ShownIs
<1> QED
  BY <1>1, EngineIsSafe, PTL

(* When Sync skips a manifest because it remembers its generation, all of  *)
(* the manifest has been applied.                                          *)
THEOREM SkippingIsSafe == Engine!Spec => []SkipIsSafe
<1>1. EngineInv => SkipIsSafe
  <2> SUFFICES ASSUME EngineInv, NEW k \in (DOMAIN loaders \cap DOMAIN manifest) \ reborn,
                      loaders[k].lastGen = manifest[k].gen
               PROVE  Engine!Query(k) = Engine!State(Engine!NoDocuments, Engine!Flat(manifest[k].segs))
    BY Zenon DEF SkipIsSafe, Engine!SkipIsSafe
  <2> DEFINE H == history[k]
             t == loaders[k].table
             n == loaders[k].applied
  <2>1. H \in Seq(Segments) /\ LoaderKnows(k, loaders[k]) /\ manifest[k].segs = H
    BY Zenon DEF EngineInv, EngineType, ManifestKnows
  <2>2. n \in Nat /\ Shows(t, H, n) /\ n = Len(H)
    BY <2>1, Zenon DEF LoaderKnows
  <2>3. Engine!Query(k) = t
    BY Zenon DEF Engine!Query
  <2> HIDE DEF H, t, n
  <2>4. SubSeq(H, 1, n) = H /\ ~(n < Len(H))
    BY <2>1, <2>2, SubSeqFull
  <2>5. t = Engine!State(Engine!NoDocuments, Engine!Flat(SubSeq(H, 1, n)))
    BY <2>1, <2>2, <2>4, ShownIs
  <2> QED
    BY <2>1, <2>3, <2>4, <2>5, Zenon
<1> QED
  BY <1>1, EngineIsSafe, PTL

(* No loader goes back.                                                    *)
Forwards ==
  \A k \in DOMAIN loaders :
    /\ k \in DOMAIN loaders'
    /\ loaders'[k].applied >= loaders[k].applied
    /\ loaders'[k].applied = loaders[k].applied => Engine!Query(k)' = Engine!Query(k)

(* A step that leaves the loaders alone goes back on none of them.         *)
LEMMA SameIsForwards ==
  ASSUME EngineInv, \A k \in DOMAIN loaders : k \in DOMAIN loaders' /\ loaders'[k] = loaders[k]
  PROVE  Forwards
<1>1. \A k \in DOMAIN loaders : loaders[k].applied \in Nat
  BY Zenon DEF EngineInv, LoaderKnows
<1> QED
  BY <1>1 DEF Forwards, Engine!Query

(* Sync shows at least as much of the branch as before.                    *)
LEMMA SyncApplyForwards ==
  ASSUME EngineInv, NEW p \in Passes, Engine!SyncApply(p)
  PROVE  Forwards
<1> DEFINE q    == pass[p]
           l    == loaders[q.key]
           rest == SubSeq(q.seen.segs, l.applied + 1, Len(q.seen.segs))
           Loaded(n, j) == Engine!Loaded(l, q.seen.gen, rest, n, j)
<1>1. PassKnows(q, loaders) /\ q.pc = "sync"
  BY Zenon DEF EngineInv, Engine!SyncApply
<1>2. q.key \in DOMAIN loaders /\ l.applied \in Nat /\ q.seen.segs \in Seq(Segments)
  BY <1>1, Zenon DEF PassKnows, EngineInv, LoaderKnows, Manifests
<1>3. \/ UNCHANGED loaders
      \/ /\ l.applied <= Len(q.seen.segs)
         /\ \E n, j : n \in 0..Len(rest) /\ loaders' = [loaders EXCEPT ![q.key] = Loaded(n, j)]
  <2>1. l.applied <= Len(q.seen.segs) => Len(rest) \in Nat
    BY <1>2, RestIs, Zenon
  <2> HIDE DEF Loaded
  <2>2. \/ UNCHANGED loaders
        \/ /\ l.applied <= Len(q.seen.segs)
           /\ \/ loaders' = [loaders EXCEPT ![q.key] = Loaded(Len(rest), 0)]
              \/ \E n \in 0 .. Len(rest) - 1 : \E j :
                   loaders' = [loaders EXCEPT ![q.key] = Loaded(n, j)]
    BY Zenon DEF Engine!SyncApply, Loaded
  <2> HIDE DEF rest, q, l
  <2> QED
    BY <2>1, <2>2
<1>4. CASE UNCHANGED loaders
  BY <1>4, SameIsForwards, Zenon
<1>5. ASSUME NEW n, NEW j, n \in 0..Len(rest), l.applied <= Len(q.seen.segs),
             loaders' = [loaders EXCEPT ![q.key] = Loaded(n, j)]
      PROVE  Forwards
  <2>1. n \in Nat
    BY <1>2, <1>5, RestIs
  <2>2. /\ Loaded(n, j).applied = l.applied + n
        /\ n = 0 => Loaded(n, j).table = l.table
    BY Zenon DEF Engine!Loaded
  <2> HIDE DEF Loaded, rest
  <2>3. /\ DOMAIN loaders' = DOMAIN loaders /\ loaders'[q.key] = Loaded(n, j)
        /\ \A k \in DOMAIN loaders : k # q.key => loaders'[k] = loaders[k]
    BY <1>2, <1>5, Zenon
  <2>4. ASSUME NEW k \in DOMAIN loaders
        PROVE  /\ loaders'[k].applied >= loaders[k].applied
               /\ loaders'[k].applied = loaders[k].applied => loaders'[k].table = loaders[k].table
    <3>1. loaders[k].applied \in Nat
      BY Zenon DEF EngineInv, LoaderKnows
    <3>2. CASE k = q.key
      <4>1. loaders'[k].applied = loaders[k].applied + n /\ (n = 0 => loaders'[k].table = loaders[k].table)
        BY <3>2, <2>2, <2>3
      <4> QED
        BY <4>1, <3>1, <2>1
    <3>3. CASE k # q.key
      BY <3>1, <3>3, <2>3
    <3> QED
      BY <3>2, <3>3, Zenon
  <2> QED
    BY <2>3, <2>4, Zenon DEF Forwards, Engine!Query
<1> QED
  BY <1>3, <1>4, <1>5, Zenon

(* No step lets a query see less than before.                              *)
LEMMA GoesForwards ==
  ASSUME EngineInv, [Engine!Next]_(Engine!vars)
  PROVE  Forwards
<1>1. Engine!Next \/ UNCHANGED engineVars
  BY Zenon DEF engineVars, Engine!vars, Engine!stored
<1>2. CASE UNCHANGED loaders
  BY <1>2, SameIsForwards, Zenon
<1>3. ASSUME NEW p \in Passes, NEW b \in Branches, Engine!SyncRead(p, b) PROVE Forwards
  <2>1. Engine!GetOrCreate(<<pass[p].ns, b>>)
    BY <1>3, Zenon DEF Engine!SyncRead
  <2>2. \A k \in DOMAIN loaders : k \in DOMAIN loaders' /\ loaders'[k] = loaders[k]
    BY <2>1, Zenon DEF Engine!GetOrCreate, Engine!Set, Engine!Override
  <2> QED
    BY <2>2, SameIsForwards, Zenon
<1>4. CASE Engine!Ingest
  <2>1. UNCHANGED loaders
    BY <1>4, Zenon DEF Engine!Ingest, Engine!Flush, Engine!Fork, Engine!WriteManifest, Engine!Rollback,
                Engine!AddBranch, Engine!RemoveBranch, Engine!CreateNamespace
  <2> QED
    BY <2>1, <1>2, Zenon
<1>5. ASSUME NEW p \in Passes, Engine!Sync(p) \/ Engine!ListFails(p) PROVE Forwards
  <2>1. \/ UNCHANGED loaders \/ Engine!SyncApply(p)
        \/ \E b \in Branches : Engine!SyncRead(p, b)
    BY <1>5, Zenon DEF Engine!Sync, Engine!ListFails, Engine!Begin, Engine!ListSpace
  <2> QED
    BY <2>1, <1>2, <1>3, SyncApplyForwards
<1>6. CASE UNCHANGED engineVars
  BY <1>2, <1>6, Zenon DEF engineVars
<1> QED
  BY <1>1, <1>4, <1>5, <1>6 DEF Engine!Next

(* Successive queries never see a branch go back, whichever pass publishes *)
(* and from whichever manifest.                                            *)
THEOREM QueriesGoForwards == Engine!Spec => NoRetreat
<1>1. EngineInv /\ [Engine!Next]_(Engine!vars)
        => [\A k \in DOMAIN loaders :
              /\ k \in DOMAIN loaders'
              /\ loaders'[k].applied >= loaders[k].applied
              /\ loaders'[k].applied = loaders[k].applied
                   => Engine!Query(k)' = Engine!Query(k)]_(Engine!vars)
  BY GoesForwards, Zenon DEF Forwards
<1> QED
  BY <1>1, EngineIsSafe, PTL DEF Engine!Spec, NoRetreat, Engine!NoRetreat
=============================================================================
