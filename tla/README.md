# A verification project for ROOT4DuckDB

ROOT4DuckDB is a DuckDB extension that reads CERN ROOT files as relations, builds
sidecar metadata indexes over them, publishes those indexes as Parquet snapshots or
Iceberg tables, and prunes later scans with them.  This directory holds TLA+ models
of the parts whose correctness depends on order: threads that share counters,
checkpoints and publications that crashes interrupt, readers that change their mind
half way through an entry, metadata that must never prune a row a query would have
returned, and decoders of bytes whose layout changes from file to file.  TLC checks the
models on small instances; for the threads of a build, the catalog, both kinds of scan and
the Iceberg publication, TLAPS proves the same properties for every size.

Paths below are those of the repository (`src/index/...` is the directory
`src/index` at the repository's root, `src/src/index/...` in `PROJECT.json`).
`PROJECT.json` lists, for every definition, the lines of the code it translates.

## 1. Inventory of the system

| component | code | state it keeps | operations | modelled in |
|---|---|---|---|---|
| index build: threads and segment writer | `src/index/root_index_coordinator.cpp` (`BuildFiles`), `root_index_metadata.cpp`, `root_index_builder.cpp` | claim counter, per-file statuses; per thread: in-memory buffers, `written_columns`, staged files; on disk: `parts/worker-N/segment-M` | claim, build, append, flush, finish | `IndexWorkers` |
| index build: coordinator and local publication | `root_index_coordinator.cpp` (`Run`), `root_index_publish.cpp` | staging, failed and snapshot directories, `request.json`, `current.json`, `_SUCCESS.json`, the advisory lock | resume, inspect, restore, validate, compact, publish, clean up | `IndexCatalog`, `Generations` |
| Iceberg publication and evolution | `src/iceberg/`, `src/index/root_index_evolution.cpp` | staged Parquet parts; the tables of a SQLite-catalog Iceberg warehouse: data files, snapshots, the record in `commits` | prepare the paths, table commits, resume of an interrupted publication, extend, clean up, resolve | `IcebergPublish`, `Generations` |
| index rows: statistics, Bloom filters, filters, binding | `src/index/root_bloom.cpp`, `root_filter.cpp`, `root_scalar_actual.cpp`, `root_index_builder.cpp`, `root_index_bind.cpp` | none | accumulate, hash, conclude from a clause, bind options | `PruneMetadata`, as operators; binding not |
| direct scan | `src/direct/` | file claims, entry claims, counters of the scan; per thread: the open file and a cursor | bind paths, claim, open, read, fill a chunk, record | `DirectScan`, `EntryReader`, `LogicalPath` |
| dataset scan | `src/dataset/` | the plan: tasks and file groups; next group, rows granted, stop flag; per thread: a task, an entry, a value buffer or a cursor | plan, prune, join, claim, read, filter, reserve rows, return | `DatasetScan`, `PruneMetadata` |
| serialized readers | `src/serialized/` | per column: the plan and the layouts of the last version; per branch: one shared basket; a page cursor | plan, load a basket, decode an entry or a page, give up | `SerializedReader`; result and cursor in `EntryReader` |
| object readers | `src/reader/` | validation budget, active route, traversal cursor, the object in memory, enabled branches | resolve a path, project branches, read an entry or a page, validate, fall back | `LogicalPath`, `BranchResolver`, `PathReader`; routes in `EntryReader` |
| histograms | `src/histogram/` | none | conversion to rows | no |
| core: opener, inputs, settings, dictionaries | `src/core/` | none | open a file with retries | retry loop, in `DirectScan` |
| entry points and SQL macros | `src/root_*.cpp`, `sql/` | none | registration | no |
| production chunk pipeline | `scripts/production/` | chunk directories, attempts, success markers | index, validate, commit, clean up | no |
| Dagster definitions, tests, build scripts | `orchestration/`, `test/`, `scripts/` | none | | no |

How they interact.

- *Build.*  `RootIndexCoordinator::Run` takes a snapshot id from the wall clock, resolves
  its inputs, then takes a non-blocking `flock` on the output directory; it may adopt a
  directory an earlier run left.  `InspectFiles` gives each file a plan; `BuildFiles`
  starts threads which share only a claim counter, the statuses and a counter under a
  mutex, and which own a writer each.  The durable hand-over from the threads to the
  coordinator, and from a killed run to its successor, is the set of `segment-M`
  directories: complete when renamed, with a receipt.
- *Publication.*  The coordinator compacts the segments table by table, renames the
  staging directory to `snapshots/<id>`, replaces `current.json`, then `_SUCCESS.json`.
  Readers resolve `current.json` and nothing else.
- *Iceberg publication.*  In the catalog mode `sqlite` the compacted tables are appended to the
  tables of a warehouse instead, one native commit a table, then the mapping of tables to
  native snapshots, then the record in `commits`.  Readers take the latest record and read every
  table at the snapshot its mapping names.  An extension takes over the paths of the latest
  generation.
- *Dataset scan.*  `read_root_dataset` resolves a generation and plans from its metadata: what
  is not pruned becomes tasks, the tasks of a file a group.  Threads claim groups, share a
  count of rows against one limit, and read through the same path readers as the index build.
- *A column's values.*  `RootPathReader` resolves a logical path to levels, finds the branch that
  stores it and asks the serialized reader for an entry or a page; when that has no plan, fails,
  or differs from the object while entries are validated, `TTree::GetEntry` fills an object which a
  resumable traversal walks.  The serialized readers of a branch share one decompressed basket.
- *Scan.*  DuckDB calls `RootScanExecutor::Execute` from several threads, a chunk per
  call, until a call returns no rows.  Threads share `RootDirectFileScheduler` (several
  files) or `next_row` (one file).  Inside a file, `ReadAndCacheEntry` and
  `ReadCursorPage` choose between serialized decoding and object reconstruction, column
  by column, with fallbacks.

What is hard, and which properties answer it.

| behaviour | where it bites | properties |
|---|---|---|
| threads claim while restored files are skipped | `root_index_coordinator.cpp:606` | `ExactlyOnce`, `NoDuplicateRows` |
| a writer fails with files in its buffer | `root_index_coordinator.cpp:664` | `OKIsDurable`, `CurrentIsWhole` |
| rows written once per thread, in a thread some of whose files fail | `root_index_builder.cpp:402` | `SchemaCovered`, `CurrentIsWhole` |
| a run is killed between any two steps, and resumed | `root_index_coordinator.cpp:107`, `:199` | `NoDuplicateRows`, `EventRangesDisjoint`, `NoCheckpointCollision` |
| publication is three renames | `root_index_publish.cpp:141` | `CurrentIsComplete`, `ImplementsGenerations` |
| ids are taken before the lock | `root_index_coordinator.cpp:730`, `:757` | `ImplementsGenerations` |
| the lock must be given back | `root_index_coordinator.cpp:752` | `LockIsReleased`, `BuildTerminates` |
| threads claim files and batches of entries of a scan | `root_direct_scheduler.cpp:81`, `root_scan_state.cpp:29` | `RowsAtMostOnce`, `ResultIsComplete` |
| an empty chunk ends a thread for good | `root_scan_execute.cpp:613` | `ResultIsComplete` |
| four counters added up while others change them | `root_direct_scheduler.cpp:171` | `EveryFileIsAccounted`, `FinishedIsQuiet` |
| a fallback after rows were returned | `root_scan_execute.cpp:115` | `EntryIsComplete` |
| state of a reader that outlives an entry | `root_path_reader.cpp:367` | `ValidatedRowsAreReference`, `EntryIsComplete` |
| siblings are put together by position | `root_scan_execute.cpp:414` | `SerializedRowsAgree` |
| a publication of seven table commits is interrupted | `root_iceberg_publish.cpp:260` | `AppendedOnce`, `CommittedIsReadable` |
| another build advances a table in between | `root_iceberg_publish.cpp:309` | none: the refusal is modelled (`SnapshotOriginChanged`), but the saved mapping would serve readers as well |
| a resume compacts again, and keeps the time of a receipt | `root_iceberg_publish.cpp:216`, `:366` | `ImplementsGenerations` |
| an extension is resumed after its parent was overtaken | `root_index_evolution.cpp:125` | `ExtensionKeepsPaths` |
| threads reserve rows of one limit without a lock | `root_dataset_execute.cpp:526` | `LimitIsExact` |
| a plan that ends at the limit counts values, not rows | `root_dataset_plan.cpp:307` | `LimitIsExact` |
| the value buffer of a thread outlives its task | `root_dataset_execute.cpp:176` | `RowsAtMostOnce` |
| what has no order is not between min and max; baskets are not in entry order | `root_dataset_plan.cpp:256`, `:394` | `ResultIsComplete` |
| a page resumes an object traversal from coordinates | `root_offset_reader.cpp:243` | `EntryIsReference` |
| a branch is found by a part of its name | `root_branch_resolver.cpp:161` | `EntryIsReference`, for the columns that are not misled (section 3) |
| a fallback half way, over a tree with pruned branches | `root_path_reader.cpp:412` | `EntryIsReference` |
| children of a prefix become columns of one row | `root_path_resolver.cpp:541` | `SiblingsShareIndices` |
| layouts of the last version, one basket for several columns | `root_serialized_reader.cpp:579`, `root_serialized_basket_cache.cpp:77` | `DecodedIsStored` |
| counts and lengths come from the file | `root_serialized_nested_codec.cpp:95` | `DamageIsContained` |

The complete list, with the hazards no property covers and why, is in `PROJECT.json`.

## 2. The modules

| module | what it is |
|---|---|
| `IndexWorkers` | the threads of one build |
| `IndexWorkersProofs` | theorems about it |
| `IndexCatalog` | runs over one output directory; EXTENDS `IndexWorkers`, whose steps are the run's phase "index" |
| `IndexCatalogProofs` | theorems about it: the order of a run's steps, the promise to readers, what its tables hold |
| `Generations` | what readers of a catalog are promised; `IndexCatalog` and `IcebergPublish` implement it |
| `IcebergPublish` | builds that publish to an Iceberg warehouse |
| `IcebergPublishProofs` | theorems about it: the order of the appends, what readers find |
| `DirectScan` | the threads of a direct scan |
| `DirectScanProofs` | theorems about it |
| `EntryReader` | how one thread turns an entry into rows |
| `EntryReaderProofs` | theorems about it |
| `NumberLemmas` | least and greatest numbers of a set, induction and recursion over an interval, for the proofs |
| `PruneMetadata` | what the index keeps of a basket and what a query concludes from it; operators |
| `DatasetScan` | `read_root_dataset`: planning and threads; EXTENDS `PruneMetadata` |
| `DatasetPlanProofs` | theorems about it: what pruning concludes, what the plan holds |
| `DatasetScanProofs` | theorems about it: the threads; EXTENDS `DatasetPlanProofs` |
| `LogicalPath` | from a path to levels, from a prefix to a relation; operators |
| `BranchResolver` | from a path to a branch, by the names of branches; operators; EXTENDS `LogicalPath` |
| `PathReader` | one relation read entry by entry, through decoded bytes or objects; EXTENDS `BranchResolver` |
| `SerializedReader` | plans, basket cache and decoders of the columns of a branch; EXTENDS `LogicalPath` |
| `MC*` | the instances TLC checks |

### IndexWorkers

`BuildFiles` and the `RootIndexMetadataWriter` of each thread.  A thread's `pc` names the
call it is about to make: the constructor of the writer (`OpenWriter`), one
`next.fetch_add` (`Claim`), `RootIndexBuilder::Build` followed by `Append`
(`BuildFileFails`, `Append`, `AppendFails`, `AppendAndFlush`), the flush
(`CommitFlush`, `FlushFails`, `FlushFailsLate`) and `Finish`.  The tail of the thread body
after a failing writer, which turns the file in hand and every staged file into an
error, is `WriterFails`, part of each action that fails.

Durable state is `segs`, `pending` and `dirs`: the completed segments, the `.pending-M`
directories and the `worker-N` directories below `parts/`.  A segment is its names, the
files of its receipt, the columns in its schema table, and `errors`, the files that had no
plan when it was written: all `event_base` needs.  The rest of the metadata is abstracted to
the file it describes.  Of the four tables of a segment only the schema rows are kept apart,
because only they are not written for every file.  Whether `Append` crosses
`flush_bytes` is a free choice.

`BuildInit` is what `RestoreCheckpoints` can leave: any files without a plan, any of the
others restored from one segment.  (`IndexCatalog` starts the same threads from what its
own steps leave.)

### IndexCatalog

`RootIndexCoordinator::Run` in the catalog modes `local` and `external`.  The directory of a
snapshot id is in one place at a time since the code only moves it by rename: `place` says
which.  `request`, `tables`, `current` and `success` are `request.json`, the compacted
tables (each with the set of segments it was copied from), `current.json` and
`_SUCCESS.json`.  `run`, `phase`, `todo` are the run that owns the lock.

| action | code |
|---|---|
| `Begin` | `TimestampId` and the resolution of the inputs, before the lock |
| `Lock`, `LockBusy` | `IndexBuildLock`, which does not wait |
| `Select` | `FindResumeCandidate` and the rename of the chosen directory back to staging |
| `CreateStaging`, `WriteResumeRequest` | a run that resumes nothing |
| `InspectFiles` | the preflight; any files may be impossible to inspect |
| `RestoreCheckpoint` | one segment: kept and its files marked OK, or quarantined |
| `StartIndexing`, `BuildFiles`, `ValidateBuild` | the worker numbers, the threads, the tests after the join |
| `CompactParquet` | `CompactRootIndexParquet`, one action per table; a table that exists is kept |
| `CommitRename`, `CommitCurrent`, `CommitSuccess` | `CommitParquetSnapshot` |
| `CleanupParts` | `remove_all(parts)`, which may leave some of it |
| `Abort`, `Fail`, `ValidateBuildThrows` | an exception before, or inside, the try block: there `PreserveFailedStaging`, whose own failure is ignored |
| `Kill` | the process is killed between any two steps; at most `MaxTorn` segments become unreadable, since nothing is synced |

Restoring in any order is a superset of the code's directory order.  A new run's snapshot
directory never exists already (ids increase), so that test of `CommitParquetSnapshot` and
`overwrite=true` are left out.

The catalog mode `sqlite` is `IcebergPublish`.

`Generations` is the abstract specification: one current generation; `Publish` makes a
generation visible with all its tables at once, and may publish one again, but never with
other contents.  `IndexCatalog` implements it with `generation <- current` and
`store <- Visible`, the tables of the ids `current.json` has ever named.

### DirectScan

Threads call `Execute` for one chunk at a time.  Over several files a call goes through
`EnsureReady` (`Ready`, `Claim`, `Skip`, `Drained`, `Open...`, `RecordFailure`) and the loop
that fills the chunk (`ReadEntry`, `TakeRow`, `EndChunk`, `Return`); over one file the loop
takes entries with `ClaimEntryBatch`.  Steps are as fine as the shared state is: one atomic
counter, or one mutex, each.  `RecordFailure` is a step of its own because
`RootDirectFileScheduler::RecordFailure` increments an atomic before it takes the mutex of
the messages.  `AllFilesFinished` reads its four counters in one step of the model; no thread
decreases them.

An entry is a number of rows and a filter the set of positions it keeps, so that a chunk
can end anywhere inside an entry and a file may be filtered out as a whole.  A query can
have a range of sources, a range of entries, or one that is empty (`entry_range_impossible`).
Any claimed file can fail to open, once or at the last of `Attempts`, or be rejected once
open; any entry can fail to be read.  `Cancel` is external: DuckDB stops calling the other
threads after one has thrown.  The failure of the file opened in `CreateLocal` of a
single-file scan is left out: the query has not started.

### EntryReader

`ReadAndCacheEntry` and `ReadCursorPage` over one `RootPathReader` per value column.  What the
file holds for a column is chosen freely when an entry begins (`cell`): the shape of the
object, and what decoding yields, which can be the same, other values, another shape, or a
failure.  A shape is the sequence of index tuples of the values.  Two columns may differ
in any way.  `active` and `validation` are `serialized_active` and `validation_remaining`,
which outlive an entry.

The routes are those of the code: all projected columns page in lockstep (`StartLockstep`,
`LockstepRefused`), one column pages alone (`StartPages`), whole entries are decoded and
compared (`ReadWhole`, `WholeRefused`), object pages (`ReadPage` with `route = "object"`).
`PageMismatch` is the comparison of the siblings' index tuples, which may fall back as long as
no page has been returned.  A fixed member of a container has consecutive indices; a scalar
relation has one row for an entry without values; a null object is an entry without values.

### IcebergPublish

`RootIndexCoordinator::Run` with `catalog_mode` `sqlite`, by the run that owns the lock.  `identity` and
`part` are the staging directories: `request.json`, and the compacted or written Parquet part of each
table.  `data`, `created` and `log` are the warehouse: data files, tables, and for each table
the generations whose file its snapshots appended, in order.  `pinned` is `result.tables`.

| action | code |
|---|---|
| `StartFresh`, `Resume` | an id and a staging directory, or that of a run of the same identity |
| `PrepareReplace`, `PrepareExtend`, `PrepareCommitted` | `PrepareRootIcebergPathSources` and `WritePaths`, with the tests of the parent, its manifest, the original files and the new paths |
| `BuildFiles` | the threads and the compaction, one step here; a table that is there is kept, one built again may have other bytes |
| `AppendParquet`, `AppendInterrupted` | `AppendParquet` of one table: the data file by rename, `GetOrCreateTable`, `FastAppend` unless a snapshot has the file |
| `WriteSnapshotsParquet`, `SnapshotOriginChanged` | the mapping of tables to native snapshots, written once, compared on a resume |
| `WriteCommitParquet` | the receipt, with the time of the first attempt |
| `Cleanup`, `CleanupFails` | `remove_all(staging)`, all, some or none of it |
| `Stop` | any call throws, or the process is killed: the directory stays either way |
| `SourceChanges` | the ROOT files change between two runs |

The initial state is an empty warehouse, or one with a generation of before `path_sources` existed.
`Latest`, `Origins` and `PinnedIds` are what `ResolveSources` reads.  The warehouse implements
`Generations` with `generation <- Latest`.

### PruneMetadata and DatasetScan

`PruneMetadata` has no state.  `Stats`, `FileStats` and `Bloom` are what the index build
accumulates; `ZonemapClause`, `BloomMayContainFilter`, `ExactStringFilterClause`,
`ExtractRootUnsignedRange` and `PredicateMetadataMayMatch` what a query concludes; `Holds` and
`PathPredicateEventMatches` what the row filters answer.  A value is its rank in the order DuckDB
gives doubles (`-inf`, numbers, `+inf`, NaN), since nothing but comparisons and hashes depends on it;
a filter is a tree given as the sequence of its nodes, children first, and each operator says what one
node makes of the answers of its children (`HoldsAt`, `ZonemapClauseAt`, `RangeAt`).  A SQL clause is its truth value.

`DatasetScan` plans and reads.  `PlanBasket` is one turn of the loop of `DatasetTaskPlanner::Plan`: the
tests of `Kept`, the parts of the basket that lie in candidate intervals (`Clip`), and joining
with the task before (`Coalesce`).  `PlanGroups` ends it; `RejectStale` is `require_fresh_index`.
A thread's steps are those of `Scan`: `ClaimGroup` and `ClaimTask` (one `fetch_add`; the
task is clipped to ranges), `SkipEntry`, `BeginEntry` and `NextPage` (`LoadNextEntry`), `TakeValue`
(`PassesFilters`), `Reserve`, `ReserveUnlimited` and `RequestStop` (`ReserveOutputRows`, with the
load and the compare-exchange apart), `Return`.  `CountRows` is the branch of `COUNT(*)` that only
looks at metadata.  The index describes its files, which the catalogs' properties are about.

### LogicalPath, BranchResolver and PathReader

`LogicalPath` has ROOT's type system as a parameter (`Types`, `Streamers`) and the code's operators:
`FindStreamerField` and `ResolvePath` (`PathResolver`), `Selection` (`SelectSemanticPath`: the children
of a prefix that share its geometry) and `IndexColumns`.

`BranchResolver` is `ResolvePhysicalBranch`: the scores of branch names, the longest stored prefix, the
object, a proxy.  The code looks for the components of a path *inside* names (`ContainsTokensInOrder`), so a
name is a text: a sequence of pieces, as fine as the names of an instance are told apart (`Spelling`), in
which another sequence of pieces may be found.  `pos` is `p` `os`, `position` is `p` `os` `itio` `n`.

`PathReader` has a `RootPathReader` for each numeric column of a relation and one reader of entries
for all. `memory` is the object `TTree::GetEntry` fills; what the enabled branches do not store it
keeps from before. `OpenFile` is `StartSerialized` of each column and the branch projection;
`BeginPages`, `BeginValues`, `BeginFallback` and `BeginObject` are the outcomes of
`BeginNumericEntry`; `ReadBytesPage`, `ReadObjectPage` and `EndNumericPage` those of
`ReadNumericPage`. Decoding is right, wrong, or fails; a wrong column that nobody compared is put in
`wrong` and held to nothing. (That includes a column read from the branch of another member:
`ConfigureLeafProjection` asks for no name, so `run` that is found in the branch `runs` is decoded
from it.) `Traverse` is `CollectValuesRecursive` over the page sink, with its resumption behind
coordinates.

### SerializedReader

The readers of up to four columns of one branch.  What is written (`EntryCells`) is external: a
vector of objects streamed member by member, with frames, versions or checksums, counts, vectors
inside objects, of the versions that wrote each entry.  A cell is 16 bits, and every number
shows its own width, so a value that is read with another width or at another place is seen.
`BuildSerializedReadPlan` is the choice of a decoder from path, branch and streamers; `PrepareFixed`,
`AcceptFound` and their neighbours keep what the code keeps of the last header and version;
`LoadBasket` and `Slice` are `SerializedBasketCache`; `DecodeFixed`, `DecodeNested` and
`NestedFixedColumn` decode bytes; `DecodeRoot` and `DecodeLeaf` go through ROOT, which is taken to read
intact bytes as they were written and to fail on damaged ones.  A branch that is read through ROOT has
one version, from which the plan of a collection or an object in place takes the member's place
(`BranchPlan`); that of an unsplit event takes the dictionary's.  Actions: `NextEntry` (perhaps past
entries the scan does not select), `Decode`, `LoadFails`, `LeafFails` (ROOT cannot read a leaf's branch, or
one that counts its objects; a leaf with a second such branch fails at its first entry, which is one of
these behaviours), `BeginPagedEntry`, `ReadPage`, of any column in any order.

## 3. What the runs check

Every run but the four of `DatasetScan` sets `CHECK_DEADLOCK FALSE`: builds, scans and files end, and a
catalog stops when the ids of the instance are used up.  `DatasetScan` has a step for a query that
is done (`Terminated`), so that there TLC also shows that threads never block one another.

| run | instance | states |
|---|---|---|
| `index_workers` | two threads, three files, every restored checkpoint, every failure | 14 400 |
| `index_catalog` | two runs, strict or with `allow_partial`, with and without resume, two files, one torn segment | 273 000 |
| `generations` | three runs over one file, one torn segment: refinement, readers, release of the lock | 278 000 |
| `direct_scan` | two threads; three files, two files or one; chunks of two rows, batches of two entries, two attempts | 52 000 |
| `entry_reader` | two numeric columns and a string, pages of two values, all pairs of shapes up to three values | 360 000 |
| `iceberg` | three ids, two paths, replace and extend, two states of the ROOT files, two interruptions | 468 000 |
| `dataset_scan` | about two thousand queries on two files, one or two threads, chunks of two rows | 102 000 |
| `path_reader` | eleven relations, two branch layouts, three modes, files of two entries, pages of one or two values | 156 000 |
| `serialized_reader` | columns of every kind of plan over merged, newer, odd and damaged baskets | 20 000 |

`index_workers`: `ExactlyOnce` (no file in two segments: compaction does not remove
duplicates), `OKIsDurable` (what is reported OK after the join is on disk, whichever writer
failed and when), `SchemaCovered` (each thread with a segment has the schema rows in one), and
`BuildTerminates`.

`index_catalog`: `CurrentIsWhole` (without `allow_partial`, the current snapshot describes every
file, in the files and the baskets table, and has every schema row), `NoDuplicateRows`,
`EventRangesDisjoint` (the global event numbers of the files in a table do not overlap although
the runs that contributed could inspect different files) and `NoCheckpointCollision` (a resumed
build never meets a name of an earlier one).

`generations`: `CurrentIsComplete`, `ImplementsGenerations`, `LockIsReleased`.  Three ids are
needed so that an older orphan can be published after a newer snapshot and a third run
can then resume.

`direct_scan`: `RowsAtMostOnce` and `ResultIsComplete` (together: a scan that ends without an
error has returned each selected row once), `EveryFileIsAccounted` and `FinishedIsQuiet` (the
four counters and the files in hand add up between any two steps, so `AllFilesFinished` is only
true when nobody reads), `ScanEnds`.  Chunks of two rows and entries of up to three make
chunks end inside an entry; batches of two over five entries, and a range that begins at the
second, make the last batch short.

`entry_reader`: `EntryIsComplete` (an entry that ended has returned all rows of one source, in
order, through page boundaries and fallbacks; and a query only fails after rows of
the entry were returned, or where the mode forbids the fallback), `SerializedRowsAgree` (rows decoded
from bytes are aligned, and never stand beside object values in an entry),
`ValidatedRowsAreReference` (while every active column is validated, what is returned is what the
object holds) and `ScanEnds`.  Pages of two and shapes of zero to three values give no page, a
short one, a full one, and a full one with a remainder; one entry with validation left,
followed by one without, gives the change of route.

`iceberg`: `AppendedOnce` (no data file is in a table twice, or every metadata row of it would be
returned twice), `CommittedIsReadable` (a committed generation has its mapping, and under the
snapshot pinned there every table has the file of each path's origin, all built from
the same state of the ROOT files), `ExtensionKeepsPaths` (an extension that becomes visible keeps
every path of the generation that was the latest, with the rows it had) and
`ImplementsGenerations` (a generation appears at once and its rows never change).  Three ids are a
generation, an extension of it that is interrupted, and one that overtakes it; two
interruptions allow a resume to be interrupted in its turn.  Two base tables are enough to have one
appended and one not; three receipts are one for each id.

`dataset_scan`: `ResultIsComplete` (metadata drop only what no row filter would have kept),
`RowsAtMostOnce`, `LimitIsExact` (threads that race for the last rows neither exceed the limit nor leave
rows out, although the plan stops at the limit) and `ScanEnds`.  The queries are every comparison, BETWEEN, IN and unknown
expression on the value, `event_fk`, `entry_id` and `source_id`, AND and OR of pairs and some trees of
three, each optional or not; entry selections and path predicates; limits below, at and above what there
is; `COUNT(*)`.  The files have entries without a value, baskets of NaN alone, entries longer than a
chunk, baskets out of order and with a gap.  Words are four bits wide, so that the ends of the
unsigned range are among the constants.

`path_reader`: `EntryIsReference` (a column of an entry that was read is what its class declares, each
value once and in order, whatever was validated, paged, fallen back from or read before; a read fails
only in forced mode) and `SiblingsShareIndices` (the same element has the same coordinates in each
column of a relation, only a null pointer's is missing, and the index columns tell the rows of an
entry apart). The event has inherited and shadowed members, fixed arrays of one and two dimensions,
containers of classes, containers of containers, pairs, and pointers, null and not. The reference is
defined by recursion over the declarations and knows nothing of offsets or cursors. Branch names
contain one another: `run` in `runs`, `id` in `grid`, and `pos`, a member of the base that has no
branch of its own, in `position`. A column whose prefix was found in the branch of another member
(`Misled`: `pos.x` and its siblings over the split layout) is left out of both properties, for the
reason given below; every other column of the same trees is not.

`serialized_reader`: `DecodedIsStored` (what is accepted of an intact entry is what was written, with its
coordinates; a page is the beginning of it; and no entry is left to the object reader without
a reason) and `DamageIsContained` (with one damaged cell, no value comes from outside the entry or from a
basket that was dropped, and an accepted nested column has as many values at each place as were written).
Three versions of two classes let members move, come, go, grow and become wider; a file written with
checksums, object-wise vectors and an old collection version, and entries with too many values, give every
reason to be rejected.  Damage is -1, 1 or 4 on any cell of the entries of a column.  The versions
of the nested class have different strides, as versions with different members have.

### Where the code and its documentation part

Each of these runs checks one statement and violates it.

| run | statement | what happens |
|---|---|---|
| `dataset_typed` | `docs/sql-interface.md:534` row identity is `source_id`, `entry_id` and the indices | `ClaimTask` (`root_dataset_execute.cpp:176`) empties `values` and resets the offset, but leaves `typed_values`, the buffer of 64-bit columns: the last entry of a task is returned again at the start of the thread's next one |
| `dataset_infinity` | `docs/sql-interface.md:477`, `:571` the index eliminates what is irrelevant, then the exact predicate is evaluated | the clause on a value (`root_dataset_plan.cpp:256`) spares baskets with NaN, not those with infinities, which are in neither min nor max: `value > 3` loses `+inf` |
| `serialized_wider` | `docs/root-reading-pipeline.md:542` "Both must produce the same SQL relation." | an array of floats in nested objects that the dictionary has as doubles: the layout is accepted with the width on file, the values are decoded with the dictionary's (`root_serialized_nested_fixed.cpp:194`) |

Other places where a comment or a document says something else than the models show.  No run
is kept for them: each of them is behaviour the models have, and the properties above are stated so
that they hold with it.

- `docs/sql-interface.md:606` says of path predicates "Sidecar statistics are used only for conservative
  rejection."  The row test (`root_path_predicates.cpp:179`) has only `<` and `>` of doubles, so NaN equals
  every number; the pruning of the same predicate (`root_dataset_predicates.cpp:553`) has it equal none.
  Whether an event with NaN is returned depends on the other values of its basket.  `ResultIsComplete`
  is violated with `Queries <- MCNaN` in place of `MCInfinite` in `MCDatasetInfinite.cfg`; the queries of
  `dataset_scan` leave NaN out of such paths, as `Ordinary` does in the theorems.
- `docs/reading-root-files.md:547` "Find the physical branch | Application knowledge | Nearest
  physical ancestor", and `:435` "It reads the smallest self-contained physical ancestor and returns
  only the requested logical value." `FindPhysicalBranch` accepts a branch that contains the
  components of a path as parts of its name (`ContainsTokensInOrder`, `root_branch_resolver.cpp:117`,
  used at `:161`). The prefix `pos` of a member of an unsplit base is found in the unrelated branch
  `position`, which is then the "ancestor"; where the columns of a query are all found in such
  branches, the projection enables no other, and an object reader gets the values that the object held
  before: those of its construction, as nothing else is read. `reader_mode` object of both scans comes
  to that; so does the index build, which does not enable all branches on a fallback. The two scans do
  so in the other modes (`enable_all_branches_on_fallback`), and read the right values, unless the
  branch holds plain numbers, which are then decoded as the column's. `EntryIsReference` is violated
  by the relation `<<"pos">>` over `Split` in `MCPathReader` when `Misled` is the empty set.
- `root_index_coordinator.cpp:669` says of staged files "Never discard them on a later writer/worker
  failure"; the loop at `:671` turns all files the thread ever staged into errors, also those in durable
  segments, which `allow_partial` then compacts and publishes.
- `root_index_coordinator.cpp:147` "Historical snapshots are immutable": when an older orphan is
  resumed and published, `current.json` goes back, and at `:151` the newer snapshot is then taken for an
  orphan and can be renamed to staging.
- `root_index_coordinator.cpp:125` "An unreferenced snapshot is staging.": without a `current.json` no
  snapshot is a candidate, so the orphan of a first publication is not resumed.
- `docs/sql-interface.md:401` "A failed or interrupted publication retains the previously committed
  generation.": `CommitParquetSnapshot` throws when `_SUCCESS.json` cannot be renamed, after
  `current.json` was replaced.
- `docs/sql-interface.md:755` "All six tables for one ROOT snapshot are committed as one coordinated
  publication boundary.": a partial build that stopped between two tables is resumed, indexes
  files that had failed, and keeps the tables already compacted (`root_index_metadata.cpp:354`).
- `docs/sql-interface.md:503` speaks of the latest committed generation: the receipt keeps the time of
  its first attempt (`root_iceberg_publish.cpp:366`), so a generation that is resumed and recorded
  after another one can be older than it and not become the latest.
- `docs/direct-multifile-scan.md:231`: forced serialized mode must not "silently switch to object
  reconstruction"; a projection of indices alone, or with a string, does (`root_scan_execute.cpp:442`).
- `docs/root-reading-pipeline.md:673` "A geometry mismatch is treated as a correctness problem rather than
  silently zipping unrelated sequences.": object pages of siblings are put together by position
  (`root_scan_execute.cpp:173`), and a column that skips an element behind a null pointer
  (`root_offset_reader.cpp:337`) has its later values in other elements' rows.
- `docs/reading-root-files.md:607` adds an index column for every level of variable size; two levels
  `value` of nested vectors share the name `value_idx` and `root_scan_bind.cpp:109` keeps one. (The
  relations of `path_reader` therefore go down to the first such level only.)
- Smaller ones met on the way: of a member `Int_t *p; //[n]` only the first element is read; a member
  called `value` of a class in a vector cannot be addressed, since the component is taken for the
  element; value columns whose names differ in case only are reduced to one
  (`root_scan_bind.cpp:64`).

## 4. Fairness

- `IndexWorkers`: weak fairness of every thread's next step.  The threads are `std::thread`s the
  coordinator joins, and none waits for another: they run, or the process is killed.  Failing
  is one of the outcomes of a step and is not excluded; no particular outcome is assumed.
- `IndexCatalog`: weak fairness of `RunStep`, what the owner of the lock does by itself.  That runs
  begin, that calls fail and that the process is killed is never assumed.  A build has an end
  since `next` only grows.
- `DirectScan`: weak fairness of each thread's `Proceed`: DuckDB calls a thread until it is done, has
  thrown or is cancelled.  Failures and retries are not in `Proceed`; the retries of an open are
  bounded by `Attempts`, as in the code.
- `EntryReader`: weak fairness of `Next`; a single thread that DuckDB pulls to the end.
- `DatasetScan`: weak fairness of `Next`.  DuckDB calls the scan of some thread until each has
  returned an empty chunk, and no thread waits for another, so nothing is assumed of which.
- `IcebergPublish`, `PathReader` and `SerializedReader` state none: nothing in them has to happen without
  somebody asking for it, and their properties are about what is seen whenever it does.

## 5. What is proved

Each theorem holds for every value of the constants that its component's assumption allows.  The
assumptions say what the constants stand for, and no more: sizes are numbers, ids are taken in
order and without gaps, there is at least one thread, one base table is `files` and one is `schemas`.  An
invariant is proved from an inductive one that TLC checked first on the component's own run; below, what
that invariant adds and why it is needed.

### IndexWorkersProofs: one build

For every `NFiles` and `NWorkers` in `Nat`, every set `Columns` and every non-empty `Ids`
(`SizeAssumption`, `IdsAssumption`), from every initial state of `BuildInit`:

| theorem | states | inductive invariant |
|---|---|---|
| `TypeCorrect` | `[]BuildTypeOK` | `TInv`: the types, and where in its code a thread has a file in hand |
| `FilesAreWrittenOnce` | `[]ExactlyOnce` | `OnceInv`: what a thread holds (in hand, or buffered) was claimed, is held by no other thread, is in no segment; what is in a segment of this staging directory is claimed already or was restored as OK |
| `ReportedFilesAreDurable` | `[]OKIsDurable` | `DurableInv`: a file that is OK is in a segment or in the buffer of a thread that staged it; a thread that is done has an empty buffer, or has taken its files back |
| `SchemaIsCovered` | `[]SchemaCovered` | `SchemaInv`: a column in a thread's `written_columns` is in its buffered rows or in one of its segments; a thread that flushes has something to flush |
| `NamesNeverCollide` | `[]NoCheckpointCollision` | the ids of the workers are past those on disk, and a thread's next segment number is past all it has used |

`ExactlyOnce` is not inductive: that two segments are disjoint says nothing about a file that is
in one of them and in a buffer that will become the next.  `OnceInv` adds the missing half, and
rests on the claim counter: a file below `next` is never claimed again.  `OKIsDurable` speaks of the
state after the join, so the invariant has to say where a file that is OK is before it.
`SchemaCovered` needs `written_columns`, the volatile state that decides what the next append leaves
out, to be backed by rows that are buffered or durable.

### IndexCatalogProofs: one output directory

For any number of runs, ids, files and threads, any requests and any number of torn segments
(`CatalogAssumption`, with those of `IndexWorkers`):

| theorem | states | inductive invariant |
|---|---|---|
| `CatalogTypeCorrect` | `[]CatalogTypeOK` | `CatalogInv` and `OrderInv` |
| `CurrentStaysComplete` | `[]CurrentIsComplete` | `OrderInv`: an id without a directory has nothing in the catalog; the id of a waiting run is nobody else's; for each phase, where the directory of the owner of the lock is, whose request it records and which tables it has |
| `CatalogImplementsGenerations` | `Spec => ImplementsGenerations` | the same: a step of the catalog changes what readers resolve only by a publication, or leaves it |
| `TablesHoldFilesOnce` | `[]NoDuplicateRows` | `ContentsInv` |
| `EventNumbersAreDistinct` | `[]EventRangesDisjoint` | `ContentsInv` |
| `ResumeNeverCollides` | `[]NoCheckpointCollision` | `ContentsInv` and `DirsAreBounded` |
| `CurrentStaysWhole` | `[]CurrentIsWhole` | `ContentsInv` and `OrderInv` |

`ContentsInv` joins three parts.  `SegmentsInv` is about what is on disk in every directory, also
between runs: no two segments share a file, names are taken, and segments that together cover all files
carry all schema rows, which is what a later resume relies on.  `OwnerInv` follows the run that
owns the lock: what `RestoreCheckpoints` has kept so far agrees with one set of unreadable files and is what
it marked; in phase "index" the invariants of `IndexWorkersProofs` hold (the run's threads start from a
restored state, which is a state of `BuildInit`'s kind, and their steps are reused lemma by lemma); when
tables are compacted, the segments are those of one plan.  `TablesInv` says the same of every compacted
table, of whatever run, because a resumed run keeps the tables it finds.

### DirectScanProofs: the threads of `read_root`

For every finite non-empty set of threads, every set of queries, and any capacity, batch size and
number of attempts (`DirectAssumption`):

| theorem | states | inductive invariant |
|---|---|---|
| `FilesAreAccounted` | `[]EveryFileIsAccounted` | `AccountInv`: the counters are numbers, a thread between two files has none open, and the sum itself |
| `FinishedScanIsQuiet` | `[]FinishedIsQuiet` | follows from the sum: it cannot exceed the number of files, so no file is in hand when the counters alone reach it |
| `ScanTypeCorrect` | `[]TypeOK` | `AccountInv` and `RowsInv`: the bound of `next_file_` counts the threads that found no file |
| `RowsReturnedAtMostOnce` | `[]RowsAtMostOnce` | `RowsInv` |
| `ScanReturnsAll` | `[]ResultIsComplete` | `RowsInv` |

`RowsInv` says where each row is.  Unclaimed, it is nowhere.  Claimed, with its file or its batch of
entries, it is ahead of the cursor of exactly one thread (`Pending`), or out: returned once, or at one
place of one chunk; or the filters drop it, or a thread has failed.  Every action moves rows
along this line and none back: `Claim` and `ClaimEntryBatch` from the counters to a thread, `TakeRow` from a
thread to its chunk, `Return` to DuckDB, and the failures out of the scan, which is then `Broken`.
`ThreadInv` adds that a thread which stopped has nothing left to do, and that it saw the counter of
files, or of entries, at its end: that is what a thread that gives up on an empty chunk too early would break.

### EntryReaderProofs: one entry

For every finite set of columns, page size, set of queries and content of the file
(`EntryAssumption`):

| theorem | states | inductive invariant |
|---|---|---|
| `EntryTypeCorrect` | `[]TypeOK` | `EntryInv` |
| `EntriesAreComplete` | `[]EntryIsComplete` | `EntryInv` |
| `DecodedRowsAgree` | `[]SerializedRowsAgree` | `EntryInv` |
| `ValidationProtects` | `[]ValidatedRowsAreReference` | `EntryInv` |

`EntryInv` relates what was returned of an entry, the page in hand and the cursors: together the rows
are a prefix of the columns of one source (`Taken`), cut where the cursors are.  The four properties speak of
entries that have ended; why an entry that ended is complete is only visible page by page: a page is
short only at the end of a column, and a fallback to objects happens only while nothing was returned, or
`escaped` records that the query had to fail.

### IcebergPublishProofs: the warehouse

For every sequence of base tables, every set of ids without gaps, and any paths, requests and
bounds (`IcebergAssumption`):

| theorem | states | inductive invariant |
|---|---|---|
| `FilesAreAppendedOnce` | `[]AppendedOnce` | `AppendInv`: the same, and that `log` is a sequence for each table |
| `CommitRecordIsLast` | `[]CommitIsLast`: a generation with a record has its file in every table but `path_sources`, which old generations lack | `OrderInv`: also, a publishing run has appended to every table before the one in hand |
| `WarehouseTypeCorrect` | `[]TypeOK` | `WarehouseInv` |
| `CommittedGenerationsAreReadable` | `[]CommittedIsReadable` | `WarehouseInv` |
| `ExtensionsKeepPaths` | `ExtensionKeepsPaths`, an action property | `WarehouseInv` |
| `WarehouseImplementsGenerations` | `Spec => ImplementsGenerations` | `WarehouseInv` |

The first two rest on `StepShape`: whatever a step is, it changes `log` by one `FastAppend` of the
publishing run or not at all, so that only the appends have to be looked at.  `WarehouseInv` adds what the files
say: the rows staged and published for a directory are those of its identity; the origins recorded for
a path lead to a generation that has the path in every base table, built from the same state of the ROOT
files (`Reaches`, `Described`); a mapping pins snapshots that hold all the origins (`Pins`), and origins that
are pinned do not change any more (`Settled`).  The order of the publication is what makes it inductive: origins
are settled before the mapping pins them, and both are durable before the commit record is.

### DatasetPlanProofs and DatasetScanProofs: `read_root_dataset`

For any queries, files, filter trees, selections, predicates, Bloom filter sizes, threads and chunk
size (`PruneAssumption`, `DatasetAssumption`: the index describes the files, trees are well formed,
entries and events are numbered with 64 bits, a filter is a tree for one column):

| theorem | states | inductive invariant |
|---|---|---|
| `MatchingIsKept` | a basket with an entry that has a matching row passes every test of the metadata | none: the lemmas on clauses, ranges, Bloom filters and predicates |
| `ScanInvariant` | `[]ScanInv` | `ScanInv` itself |
| `ScanTypeCorrect` | `[]TypeOK` | `ScanInv` |
| `ScanRowsOnce` | `[](~q.typed => RowsAtMostOnce)` | `ScanInv` |
| `ScanIsComplete` | `[](Ordinary => ResultIsComplete)` | `ScanInv` |
| `ScanGrantsAreCounted` | `[]((Limited => emitted <= q.limit) /\ (~q.typed => GrantsAreCounted))` | `ScanInv` |
| `ScanLimitIsExact` | `[](~q.typed /\ Ordinary /\ Cardinality(AllRows) <= MaxWord => LimitIsExact)` | `ScanInv` |

The hypotheses are those the code needs.  `q.typed` are the 64-bit values of `dataset_typed`, which are
returned twice; that the grants stay below the limit holds of them too.  `Ordinary` leaves out what
`dataset_infinity` and the queries `MCNaN` (section 3) show to be lost: infinities in the column of a value
filter, and NaN in the path of a predicate.  The number of rows is bounded only for an unlimited query, whose limit is
the largest 64-bit number.

The argument has two halves.  *The plan* (`PlanInv`): filters are recursive functions over the nodes of a
tree, so each fact about them goes by induction over the places of the nodes (`IntervalInduction`,
`RecursionExists` of `NumberLemmas`): a clause that is false for a zone excludes every value of it
(`ZonemapClauseSound`), a range admits every value that passes, a Bloom filter has the bits of its values.
Then `Clip` cuts a basket into disjoint tasks with exactly its candidate entries, `Coalesce` joins tasks
without adding or losing an entry, whatever the order of offsets, and the groups partition the tasks.
`PlanInv` says that after any number of baskets the tasks are disjoint, hold the candidates of every kept
basket that was fetched, and nothing else; and that the counted values never exceed the rows of the tasks.

*The threads* (`Run`): a task is in no group that is still to be claimed and in the hands of one thread
at most (`OwnerOK`); a row that was returned is behind the cursor of whoever has its task (`OnceOK`);
a row that matches was returned, or is ahead of a cursor, in hand at a reservation, or in an unclaimed group,
unless the limit is reached (`CompleteOK`); the buffer and the page cursor hold the end of one entry, in order
(`BufferOK`); where each thread is says what it has seen of the counters (`PlaceOK`), and the rows
granted are the rows returned (`RowsOK`).  A step of a thread is shown once, for that thread, to move
on: it takes no task, goes back to no row and drops none that matches (`MovesOn`, `KeepsRow`); one lemma
(`RunMoves`) lifts this to all threads.  The claims and the grants, which change a shared counter, have a
lemma of their own each (`RunClaims`, `RunEmits`, `RunCounts`).

Completeness of a scan that ended then needs both halves: no task is left, so a row that is covered was
returned; and the plan covers every row that matches, unless it stopped early, and then the rows of its
tasks are at least as many as the limit, and all of them match.

### Only model-checked

- Every liveness property: fairness and `ENABLED` are beyond the prover.
- All properties of `PathReader` and `SerializedReader`: `LogicalPath`, `BranchResolver` and both
  readers are written with recursive operators over class declarations and nested containers, which
  the prover does not take.
- That the operators of `PruneMetadata` are those of the code is read, not proved; what they conclude is.

## 6. What is not modelled

- Contents of the metadata rows, Parquet and JSON encoding, checksums: a segment, a part and a data file
  are intact or not, equal or not.
- The catalog mode `tables`, `overwrite=true`, the inference of schemas and the listing of an Iceberg catalog.
- Files that change during a run: the code compares size and modification time at restore; the
  plan's event count is not compared with the one `Build` reads again.
- Streams whose write errors the code does not check (`current.json.tmp`).
- Histogram and browse modes, SQL binding, EXPLAIN, progress reports, and the text of the queries that
  a dataset scan puts to its metadata.
- Path reading: vectors of pointers, fixed arrays of containers; container classes are assumed to have
  dictionaries.
- Serialized reading: compressed floats (`Float16_t`, `Double32_t`), arrays below a member that ROOT reads
  whose extent changed, the basket a reader loads for itself when no cache is attached, the reader
  mode taken from the environment.  A page cursor points into the basket it was opened in; that no other
  column loads another one before the pages are read is the calling protocol's part (an entry is finished
  before the next begins), which `NextEntry` has.  Pages are not bound by `max_values_per_entry`, and the
  fixed decoder does not ask whether its payload was used up; neither is stated as a property.
- The production chunk pipeline (`scripts/production/`) and the Dagster definitions over it: separate
  programs that call the extension.
- Calls into ROOT and DuckDB, except for what the code relies on.

## 7. What could follow

1. `ChunkPipeline`: chunk workers, attempts, success markers, validation, the commit and the orphan
   cleanup of `scripts/production`, over the generations of `IcebergPublish`.
2. `PathReader` and `LogicalPath` with recursive functions in place of recursive operators, as
   `PruneMetadata` has them, and then proofs: first that an index column's coordinates grow strictly along
   an entry, of which `SiblingsShareIndices` is a consequence.
