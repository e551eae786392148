# A verification of cloudy-neigh

cloudy-neigh is a vector-search engine that keeps everything on an object
store. Nodes share nothing else: they meet only in objects that are created on
condition that they are absent, or replaced on condition that their generation
has not changed. This directory models the program in TLA+, checks it with TLC
on small instances, and proves the safety of its central protocols for every
instance with TLAPS.

## The system and its parts

| Part | Source (under src/) | State | Modelled by |
|---|---|---|---|
| Write-ahead log | `logstream/log.go` | one object per entry; a hint per node | `LogStream`, `Wal` |
| Manifests | `manifest/manifest.go` | one object per branch: checkpoint, list of segments | `BranchStore` |
| Stream flusher | `ingest/flusher.go` | position, checkpoints in memory | `Flusher` |
| Ingester | `ingest/ingester.go` | the log; requests in flight | `BranchStore` (`Mutate`), `Fork`, `Daemon` (registration) |
| Branch, namespace and tenant catalogs | `namespace/branch.go`, `catalog.go`, `tenant.go` | one object each | `Catalog`, `Roster` |
| Catalog cache | `namespace/catalog.go` | a copy and its generation | `CatalogCache` |
| Query engine, loader | `query/engine.go`, `query/loader.go` | a loader per branch: table, count, generation | `Engine`, `Records` |
| Table, search | `query/table.go` | columns, tombstones, index | `Table`, `Search`, `Snapshots`, `Documents` |
| Object stores | `objectstore/*.go` | files, or a map | `LocalStore`, `MemStore`, `Listing`, `Objects` |
| RecordIO | `recordio/*.go` | frames, buffers, offsets | `RecordIO` |
| Half precision | `vector/format.go`, kernels | none | `Half` |
| gRPC services | `grpcapi/*.go` | one request | `Rpc` |
| Ingest daemon, flusher supervisor | `cmd/cloudy/main.go`, `ingest/flusher.go` | server, streams, stores | `Daemon` |
| Log benchmark and checker | `cmd/walbench/main.go` | channel, goroutines, result arrays | `Walbench` |

A client's batch becomes one log entry. Every ingest node runs a flusher, which
replays the log from the lowest checkpoint of the listed branches; for each
entry it stores a segment, adds it to the branch's manifest and lists the branch
in the catalog. A fork copies a manifest, lists the new branch and logs an
event. The query engine visits the listed branches over and over, applies the
segments it has not applied to a copy of the branch's table, and publishes the
copy.

## The modules

### Log and ingest

* `Wal` is what a log promises: a growing sequence, calls that append at least
  once and learn their number, or fail.
* `LogStream` is `log.go`. A process is one call of `Append`; every request to
  the store is a step. `objects` is the store, `lastKnown` the hint of each
  node, `low`, `high`, `step` the locals of `jump`. A listing returns every
  object present when it began and possibly later ones. An answer to a write
  that took effect may be lost: the caller sees an error, or a failed
  precondition from the client library's own retry.
* `BranchStore` holds the shared objects and the operations on them. A manifest
  lists the numbers of the log entries its segments were made from. Content
  addressing is kept: entries with equal content share a stored segment.
* `Flusher` is a stream flusher: `initCheckpoints` (`InitList`, `InitRead`,
  `InitDone`), `processRecords` (`ReadFork`, `ReadMutation`), `flushBranch`
  (`Upload`, `Fetch`, `Commit`, `Conflict`, `Register`), shutdown (`Cancel`,
  `Notice`, `Drained`), errors and crashes. A stream that has failed or drained
  stays so until its process ends (`Exit`); only a new process begins another
  (`Boot`).
* `Fork` is `Ingester.Fork`, one step per request, with its rollback.
* `Ingest` puts clients, flushers and forks together and states the properties.

### Catalogs

* `Roster` is what a catalog promises: one operation at a time on the list of
  names, where a deleted name stays deleted.
* `Catalog` is the loop that `updateBranches`, `CreateNamespace`,
  `DeleteNamespace` and `AddTenant` share: read, decide, write on condition, go
  round on a conflict; with failed requests and lost answers. It implements
  `Roster`, which is why `BranchStore` and `Engine` may take catalog updates as
  atomic.
* `CatalogCache` has lookups that refresh on a miss, the ticker's refreshes, and
  `Invalidate`. A refresh reads without the lock and stores later.

### Stores and files

* `Objects` is one conditional object: a `Put` creates what is missing or
  replaces exactly the version its caller read. Every other module assumes this.
* `LocalStore` is the store on a directory. Generations are a time and a size,
  taken from a clock that may stand still or go back and from
  `nextLocalModTime`; `Put` is a step per system call, any of which may fail
  (`Fail`), and the deferred unlock then runs. `shared` is chosen at the
  beginning: either processes share the directory and can crash between steps,
  or one process has it alone, and then objects are deleted too and `flock` may
  fail.
* `MemStore` is the store in memory, with the sequence its generations come from.
* `Listing` is `List` while objects come and go: the iterator of the GCS store
  with a tenant's prefix, and the walk of the local store with its sort and cut.
* `RecordIO` is `Writer` and `Scanner` over a stream of cells: a sink that takes
  part of a frame, a stream that is cut off or damaged anywhere, the buffers on
  both sides, and `Skip`, which seeks over what is not buffered. A frame is
  where it begins and how long its payload is.

### Queries

* `Documents` is what a table promises: a map from documents to records,
  a private copy that changes, and a published one.
* `Table` has the columns and `Upsert`, `Delete`, `recordAt` on them; `Search`
  has the scan with its pruning test, its heap and its sort, against the
  definition of the best rows; `Snapshots` adds memory: `Clone` copies some
  slices and shares others, so a table is a set of references into `memory`.
* `Records` is the effect of a mutation on a document; `Engine` is `SyncOnce`,
  `Sync` and `Query` over it, beside an ingest tier that extends, copies and
  deletes manifests. `Sync` reads the manifest before it locks the loader.
* `Half` is the conversion to and from half precision at its real widths.

### Services

* `Rpc` is a request on its way through `TenantInterceptor` and one of the four
  handlers: the checks in their order, the call passed on, the status returned.
  What ingester and engine may return, and whether the request then took
  effect, is read off their code (`IngesterOutcomes`, `EngineOutcomes`).
* `Daemon` is the ingest daemon: `getOrCreateLog` with its registration,
  `Flusher.Run` with discovery, its deadlines (`DiscoverLate` at start-up,
  `TickEnds` later) and shutdown, `Serve` and `serveGRPC`.
* `Walbench` is a benchmark run (producer, channel, writers, deadline) and the
  check of the log it leaves.

### Instances and proofs

`MCLogStream` and `MCIngest` hold the instances of the first group. The other
components do not share state with each other, so a few modules hold several
of them side by side. The part modules declare the constants and variables of
one group, say what its constants are, and state its properties: `StoragePart`
(the two object stores), `CachePart` (the cache of the catalog), `RecordPart`
(record files), `EnginePart` (the query engine) and `ServerPart` (daemon,
requests, log checker); `Defaults` has the names two of them share. `Stores` and
`Services` put the parts together, and the instances are `MCData` (which
extends `Catalog` and `Stores`), `MCServices` (which extends `Services`) and
`MCProgress`. The variable `part` is chosen in the initial state and says which
component a behaviour is about; `Next` is then a step of that component, and
the variables of the others stay as they begin. The states of such a run are the
sum of the components' states. Since every step of `Stores` and `Services` is a
step of one component or leaves its variables alone, what a theorem says of the
component's own specification (`Cache!Spec => []NothingMissed`) is what TLC
checks there on an instance.

The proofs are in modules of their own:

* `LogStreamProofs`: the invariants of the log, and that it implements `Wal`;
* `IngestInductive` (the invariant of the ingest tier, and the steps by which a
  flusher starts, reads and uploads) and `IngestProofs` (its other steps,
  clients, forks, the theorems);
* `StoresProofs`: the two object stores;
* `DataProofs`: the catalogs, their cache, and record files;
* `EngineTables` (what mutations do to a table, and why they may be repeated)
  and `EngineProofs` (what queries see);
* `ServicesProofs`: the daemon, the handlers and the log checker.

A leaf that needs no arithmetic names `Zenon`: the translation to SMT costs
`tlapm` more than the proof does, and in a module of a thousand lines more than
it allows for an obligation.
The modules that proofs reach write a few helpers out (`Override`, `Only`,
`UpTo`, `Least`) instead of taking them from the community modules, whose
definitions the provers do not see through.

Operators introduced as mutants are plausible mistakes; each property is known
to fail when its mutant replaces the original.

## What is checked

| Run | Instance | Distinct states |
|---|---|---|
| `log_search` | two calls on two nodes; logs of 0, 3 or 6 entries; numbers up to 7; pages of 2 | 214,772 |
| `log_race` | two calls sharing a hint; logs of 0 or 3 entries, growing to at most 5; with fairness | 32,953 |
| `flush` | two flushers, two branches, three entries, one fault | 1,257,318 |
| `fork` | one flusher, one fork, four entries, two faults | 848,708 |
| `flush_progress` | one flusher, one fork, three entries, two faults, with fairness | 182,949 |
| `data` | catalogs, cache, stores, listings, record files, tables, searches, half precision | 673,124 |
| `services` | query engine, daemon, requests, log checker | 1,757,985 |
| `progress` | catalog, cache, store, engine, daemon, benchmark, with fairness | 145,839 |

**Log.** The log has no gap (`Contiguous`), entries never change and appear only
at the end (`AppendOnly`), an acknowledged number holds the caller's batch
(`AcknowledgedIsDurable`), a batch is written once unless an answer was lost
(`OnceUnlessLost`), the head search is right while the log grows
(`HeadWasCurrent`), the log implements `Wal` (`ImplementsWal`) and calls end
(`CallsEnd`). `RaceIsSafe` is three of these together for calls that share a
hint.

**Ingest.** Every checkpoint vouches for the whole log below it
(`CheckpointsCover`), no flusher passes an entry that has not reached its
manifest (`NothingSkipped`), manifests hold entries once and in order
(`OnceInOrder`) and refer to stored segments only (`SegmentsExist`), a clean
shutdown leaves nothing behind (`DrainCompletes`), heads only advance
(`HeadsAdvance`) and every entry is flushed in the end, as long as some stream
runs again and again (`EverythingFlushed`). `ForksLoseNothing` is
`CheckpointsCover`, `NothingSkipped` and `OnceInOrder` together beside a fork;
`flush` itself has no forks. Branches whose manifest a fork's rollback deleted
are excepted, from then on, from `CheckpointsCover`, `NothingSkipped`,
`DrainCompletes`, `HeadsAdvance` and `EverythingFlushed`; the exception is
needed, as the second finding shows.

**Data** (`MCData`).

* `ImplementsRoster`: overlapping catalog operations never undo each other.
  `NeverReused`: no call that read the catalog before a deletion brings the name
  back. `CreatedOnce`: one creation of a name succeeds, lost answers included.
* `NothingMissed`: a lookup never misses a namespace that existed when it began,
  however many refreshes overlap and set the cache back.
* `StoresImplementObjects`: the local and the memory store implement `Objects`:
  with two processes and crashes where nothing is deleted, and with one process
  where objects are deleted and made again and `flock` fails. A `Put` that
  replaces returns its own generation, not that of a later one.
* `ListIsExact`: a listing is sound and complete while the bucket changes.
* `RecordsSurvive`: records come back in order, the end of a scan tells whether
  the stream ended, was cut off or is damaged, and what was flushed is read.
* `ImplementsDocuments`: tables with shared memory behave like a map that is
  copied, changed privately and published at once, and their columns stay
  parallel. `SearchIsTopK`: every search of the instance returns the best rows.
* `HalfIsNearest`: rounding to the nearest even half, overflow and the way back,
  at every exponent and every mantissa at which rounding turns. Components
  above 65504 and below 2^16 are left out.

**Services** (`MCServices`).

* `PublishedIsPrefix`: what queries see is a first part of the branch's
  history. `SkipIsSafe`: when the remembered generation lets `Sync` skip a
  manifest, all of it is in the table. `NoRetreat`: a branch never goes back.
  The first two except branches whose manifest was deleted and made again, and
  the first part may end inside a segment, as the run `partial_publish` shows.
* `ShutdownLosesNothing`: when the daemon has stopped, streams that ended well
  have flushed everything that was acknowledged, and the stores were closed
  after the streams. It excepts daemons whose listener broke or whose discovery
  ran into a deadline.
* `StatusTellsEffect`: OK means the effect took place; a complaint about the
  request, its tenant or its source means that it left no trace. `Canceled`,
  `DeadlineExceeded`, `Internal` and `AlreadyExists` leave the effect open, and
  the property says nothing of them.
* `VerdictIsRight`: the checker passes a log only if it is whole and holds every
  acknowledged record, and fails one without repeated records only if the bucket
  lost or damaged something.

**Progress** (`MCProgress`). Catalog calls, store calls and benchmark runs end
(`CallsReturn`), the cache and the queries catch up (`CacheCatchesUp`,
`QueriesCatchUp`; a branch with a mutation that its table refuses is excepted
and does not keep others back), the daemon stops when told to, also when a handler hangs
(`ServeReturns`), and every live namespace gets a stream unless the flusher is
stopping or has returned (`LiveGetsStream`).

### Where code and documents disagree

Four runs end in a counterexample.

* `unregistered`: an empty catalog is read as `[main]`. If a flusher stops
  between main's first manifest and its registration, replay starts after the
  entry and main is not registered. Once another branch is, main is unlisted
  until its next mutation. `docs/design/storage.md:379` excludes this.
* `rollback_loss`: a fork's rollback deletes the target's manifest
  unconditionally, with whatever a flusher has added to it; replay can start
  after the lost entry. `docs/design/storage.md:380` excludes this.
* `rollback_retry`: a retry succeeds between the two halves of a rollback, which
  then unlists the new branch. `docs/design/storage.md:324` promises clean
  retries.
* `partial_publish`: when a segment fails after an earlier one of the same pass
  was loaded, `Sync` publishes the first mutations of the failed one
  (`query/loader.go:131`). `docs/design/query.md:100` has it publish when all
  segments are applied (`PublishedInWhole`). `PublishedIsPrefix` shows what is
  left: applying the segment again repairs it.

More disagreements were met while the other modules were written. No run
repeats them, and no property asks for either side.

* `query/loader.go:67`: only the number of segments tells whether a manifest
  continues the last one. One that was deleted and made again is taken for a
  continuation of the old. `docs/design/query.md:88` relies on this guard.
* `query/engine.go:70`: a loader outlives its branch's catalog entry and goes on
  answering. `docs/design/storage.md:339` says such a branch is invisible;
  `TODO.md` lists it.
* `namespace/catalog.go:265`: a slow refresh replaces a newer cached version.
  `TODO.md:185` lists it. `NothingMissed` holds in spite of it.
* `ingest/ingester.go:53`: an error of `CreateNamespace` is dropped and the
  namespace counts as registered, so a write can be acknowledged into a log that
  no flusher discovers. `docs/design/storage.md:168`: "The ingester creates a
  namespace on the first write."
* `ingest/flusher.go:138`: a stream that failed keeps its place in the map and
  is not started again. `docs/design/ingestion.md:452` calls it persistent.
* `ingest/flusher.go:65`: when the first discovery exceeds its five seconds,
  `Run` drains and returns nil, and the daemon serves without a flusher;
  `docs/design/ingestion.md:448` has the flusher poll every 100 ms. A later
  discovery that ends in `DeadlineExceeded`, be it the store's own, does the
  same (`ingest/flusher.go:96`).
* `ingest/flusher.go:89`: on shutdown `Run` does not look for namespaces whose
  first write came after the last discovery, so their log is not drained.
  `docs/design/ingestion.md:543` speaks of planned restarts.
* `objectstore/local.go:53`: without `flock`, `lock` goes on with the mutex of
  its own process, and two processes can both replace one version.
  `docs/architecture.md:95` promises atomic preconditions; `TODO.md:190` lists it.
* `objectstore/local.go:302`: `Put` syncs neither file nor directory.
  `TODO.md:176` lists it. Loss of power is not modelled.
* `recordio/writer.go:67`: a record of any length is written, and no reader gets
  past one above its maximum. `TODO.md:193` lists it.
* `cmd/walbench/main.go:669`: the check counts duplicates but passes in spite of
  them; `docs/benchmarks/wal.md:28` lists "no record returns twice" among what
  it checks. `VerdictIsRight` lets either be said of such a log.
* `vector/format.go:53`: components above 65504 and below 65520 are stored as
  65504; `docs/design/query.md:326` says they are refused. `HalfIsNearest` does
  not speak of them.
* `grpcapi/interceptor.go:21`: a request without a tenant is answered
  `Unauthenticated`, as `docs/design/ingestion.md:154` has it;
  `docs/design/storage.md:101` says `NotFound`.

All of these are results about models whose steps follow the source; they have
not been reproduced by running the Go program.

### Bounds

`MaxSeq` scales the width of sequence numbers down to 7, so that strides reach
the last number and are clamped; `ListLimit` scales a page of 1000 down to 2.
`MaxEntries` bounds the store: the model never creates the entry that would
follow the last number, where the code's addition wraps to 0, since that takes
2^64 - 1 entries. `MaxWal` bounds the log of the ingest tier, `MaxFaults` the
errors, lost answers and crashes. Three entries let two flushers be at
different entries and branches; four let a client write to the target of a fork
before and after its event.

In `data`: five catalog calls on two names with two faults, so that a creation
and a deletion of one name can each lose a race and an answer; three catalog
changes under two readers and the ticker; three `Put`s on a directory and four in memory, so
that a version can be replaced twice under a holder of the first; two changes
of the bucket during a listing with a limit of at most 2; two records of lengths 0, 1, the maximum
and one more, with buffers no larger than one record; three changes of a table with eight
mutations, and four of one with seven, for every search with `topK` up to 2,
three metrics and three filters. In `services`: three
manifest writes, two passes and one fault; two requests, two namespaces and two
log entries each; every request with at most two tenant headers and two items;
three records, one lost and two damaged. `progress` has the same components, mostly with one bound lower;
two manifest writes are enough for a branch that is refused and one that is not.

Symmetry is used between interchangeable calls, threads or passes, and never
with a liveness property. Deadlock is not checked: when all calls have ended
and the bounds are reached, nothing is left to do.

### Fairness

`CallsEnd` assumes that a call that began runs on and that the store answers.
It rests on there being finitely many calls: the code itself gives up only when
its context ends. `EverythingFlushed` assumes that the goroutine of a running
stream runs on and that faults are finite. It does not assume that anything is
started again: a stream that ended keeps its place in the map of streams
(`ingest/flusher.go:138`) until an operator starts a new process, so the
property is about behaviours in which some stream runs again and again.

In `MCProgress`, every goroutine that can take a step takes it sooner or later,
which the Go scheduler gives, and every request to the store returns. Strong
fairness is assumed in two places: a thread that waits for a mutex or a `flock`
gets it if it is free again and again (Go's mutex hands over after a
millisecond; the operating system queues `flock`), and a refresh of the cache
does not fail for ever. A handler returns once its context is done. Nothing is
assumed about clients, failures or signals: they come or do not.

## What is proved

For every set of calls and nodes, every width and page size (`LogStreamProofs`,
from `ConstantsOK`): `TypeOK`, `Contiguous`, `AcknowledgedIsDurable`,
`OnceUnlessLost`, `HeadWasCurrent`, `AppendOnly` and `RaceIsSafe`. `Contiguous` is not inductive:
a call could write anywhere its number points. `LogInv` adds that every number
a call may start from (a hint, the place of a collision, the lower end of a
search) exists, and that no entry noted at the start of a search lies beyond its
upper end. From it follows that the log implements `Wal`
(`LogRefinesWal`, the property `ImplementsWal`). The mapping turns the entries
into a sequence, so the proof needs `Packed`: they are the numbers 1 to k for
some k. The write of a call is then `Wal`'s append, and every other step an
acknowledgement, a failure or a stutter.

For every set of branches, flushers and forks and any bounds (`IngestProofs`,
from `StoreConstants` and `ForkConstants`): `TypeOK`, `CheckpointsCover`,
`NothingSkipped`, `OnceInOrder`, `SegmentsExist`, `DrainCompletes`,
`HeadsAdvance` and `ForksLoseNothing`. `IngestInv` says of every checkpoint, wherever it is held, that
the log below it is settled, and of every manifest in a flusher's memory that
it is the stored one if the generation is. The first survives other processes'
steps because manifests only grow; the second is why the conditional write is
enough.

For every set of names and calls and any number of faults (`DataProofs`,
from `CatalogConstants` and `KindsApart`): the catalog implements `Roster`
(`CatalogIsAtomic`, the property `ImplementsRoster`), a deleted name stays
deleted (`NamesAreNotReused`, `NeverReused`), and one creation takes effect
(`OneCreation`, `CreatedOnce`). The inductive invariant says of every copy a
call holds that its generation is not newer than the stored one, that it is the
stored catalog if the generations are equal, and that the call still has
something to do in it. A write that meets its condition is then an operation on
the catalog as it is, so the step maps to a step of `Roster` and every other
step to a stutter. `KindsApart` says that a name that is created or deleted is
not also added or removed: namespaces are in `ns.json` and branches in lists of
their own. With it `NamesAreNotReused` adds that only namespaces are marked as
deleted, and `OneCreation` that a namespace nobody has made is absent.

The theorems on parts of `Stores` rest on what the part says of its constants.
`StorageConstants`: threads have processes and times are numbers.
`RecordConstants`: lengths are numbers and a frame has a header and a footer.
`CacheConstants`: the ticker is not a reader, and catalogs are created in,
deleted from and added to.

For every set of names, calls and readers (`DataProofs`): a lookup misses
nothing that existed when it began (`LookupsMissNothing`, the property `NothingMissed`). The
invariant says that the catalog a waiting lookup will read, or has read, lists
every name that was listed when it began, because a deletion leaves an entry.

For every set of keys, callers and sizes and any number of Puts: the store in
memory implements `Objects` on every key (`MemoryKeepsPromise`). The invariant
says that a generation belongs to one version, because `genSeq` never gives a
number out again, not even after a deletion.

For every set of processes and threads, every clock and any number of Puts,
deletions and crashes: the store on a directory implements `Objects`, and a
`Put` that replaces returns its own generation (`DirectoryKeepsPromise`).
`LocalInv` has three parts. The locks: a thread between `lock` and its release
holds the mutex of its process, and the `flock` where processes share the
directory, so there is one such thread. The versions: a generation somebody
holds belongs to the file if the two agree, and what a `Put` in the lock has
checked is still there when it renames. The times: where the directory is
shared every later file has a later time, because a `Put` that replaces takes a
time above the file's; where one process has it alone, `last` is above every
time given out, so a file that is deleted and made again cannot carry an old
generation. The rename of a `Put`, or its link, is then the write of `Objects`,
and every other step a stutter or a deletion. With the store in memory this is
`StoresKeepPromise`, the property `StoresImplementObjects`.

For records of any length and every size of header, footer, buffer and largest
record (`DataProofs`): `RecordsAreSafe`, the property `RecordsSurvive`. `RecordInv` says that
frames follow each other without a gap, that the sink holds what was flushed and
lacks the end of the last frame once the Writer has failed, and that the Scanner
is at the beginning of the next frame with a buffer that ends within the stream.
Then a header is read where one was written, a frame is whole exactly if its end
has reached the sink, and `Skip` ends where `Scan` would, whatever is buffered.

The rest is proved from `EngineConstants` and `ServerConstants`: a segment holds
a sequence of mutations, the default namespace and branch are among the others,
and the marks for a missing record, a hole and damage are not records.

For every set of branches, segments and passes and any number of writes and
faults (`EngineTables`, `EngineProofs`): `PublishedIsPrefix` (`PublishedIsHistory`),
`SkipIsSafe` (`SkippingIsSafe`) and `NoRetreat` (`QueriesGoForwards`).
`EngineInv` says of every manifest that it is what its branch has come to; of
the manifest a pass has read that it is where its branch has been; of every
loader that its table is the history up to what it counts as applied, with a
first part of the next segment at most, and that it has applied all when the
generation it remembers is the present one. That a segment applied in part may
be applied again from its beginning is the lemma `Replay`, a comparison of the
two runs cell by cell: a put overwrites what it gives and a deletion forgets
what it finds, so after the last mutation that touches a cell the runs agree.

For every set of requests, namespaces, tenants, names, writers and readers
(`ServicesProofs`): `ShutdownLosesNothing` (`ShutdownIsSafe`),
`StatusTellsEffect` (`StatusIsTrue`) and `VerdictIsRight` (`CheckIsRight`). The
first needs that a stream that was told to drain saw the end of a log to which
no handler can still append; the last that a reader's result, once written, says what is in
the bucket.

What is computed by recursion over a sequence, the tables after so many
mutations and the mutations of so many segments, is proved about by induction
on the length, stated for a set of numbers: a set that has 0 and with each
number the next has them all.

Only model-checked: every liveness property (out of the prover's reach), and of
the safety properties `ListIsExact`, `ImplementsDocuments`, `SearchIsTopK` and
`HalfIsNearest`. Their modules sort and fold with the community modules, which
the provers do not see through, and `Half` computes with powers of two, of which
the provers know nothing.

## What is not modelled

The modules stand for 2,967 of the roughly 5,900 lines of Go outside tests. The
rest is, by component:

* Encodings: JSON of manifests and catalogs, protobuf of records, the segment
  reader and writer. CRCs are taken as ideal.
* Floating point: the rounding of float32 sums and the assembly kernels; the
  components in `Search` are small integers and NaN.
* The GCS client beyond `List`: `Put`, `Get`, `Delete` and `Stat` are single
  requests; their lost answers and own retries are part of every module that
  writes.
* `ReadRange`, which has no caller, and `open.go`, which picks a store.
* Loss of power under the local store.
* Tenants after start-up: they are constant and prefix every key, so every
  module but `Listing` and `Rpc` has one tenant.
* The wiring of the daemons, flags, logging, the query daemon (which stops in
  the same order as the ingest daemon and has nothing to drain), and the
  benchmarks' reports.

Not composed: the engine runs beside an abstract ingest tier that extends,
copies and deletes manifests, not beside `Ingest` itself; and `Ingest` uses
`Objects` and `Roster` through their atomic effect, not the modules that
implement them. The product of either would be beyond TLC.
