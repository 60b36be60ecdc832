--------------------------- MODULE IcebergPublish ---------------------------
(***************************************************************************)
(* Builds with catalog_mode 'sqlite': RootIndexCoordinator::Run over an    *)
(* Iceberg warehouse with a SQLite catalog.  A generation is a data file   *)
(* in each of seven tables; every table is committed by itself, in a fixed *)
(* order, and the record in "commits", appended last, is what readers look *)
(* for.  A run that is killed or throws leaves its staging directory, and  *)
(* a run of the same request resumes it.                                   *)
(*                                                                         *)
(* The run below owns the lock of the output directory (IndexCatalog       *)
(* models the lock, the threads and the segments; here the files of a      *)
(* build are one step).                                                    *)
(***************************************************************************)
EXTENDS Naturals, Sequences, SequencesExt

CONSTANTS
    Base,       \* the metadata tables of an index, in the order they are published:
                \* files, schemas, access and baskets
    Ids,        \* snapshot ids, in the order TimestampId returns them
    Paths,      \* logical paths
    Requests,   \* build requests
    Sources,    \* states of the ROOT files (size and mtime)
    MaxTime,    \* bound: commit receipts written
    MaxStops,   \* bound: runs that end before they have published
    Nothing     \* no part, no data file, no run

NoId == 0

Tables    == Base \o <<"path_sources", "snapshots", "commits">>
BaseSet   == ToSet(Base)
TableSet  == ToSet(Tables)
PinnedSet == BaseSet \cup {"path_sources"}

\* What the Parquet files hold: the rows of the paths of a base table, built from one
\* state of the ROOT files; the physical generation of each path; the native
\* snapshots of a generation; its receipt.  request.json holds an identity.
Rows        == [paths: SUBSET Paths, source: Sources, rebuilt: BOOLEAN]
PathSources == [parent: Ids \cup {NoId}, origin: UNION {[P -> Ids] : P \in SUBSET Paths}]
Mappings    == [BaseSet -> Nat] \cup [PinnedSet -> Nat]
Receipts    == [manifest: Sources \cup {0}, at: 1 .. MaxTime]
Identities  == [request: Requests, source: Sources]
Contents    == Rows \cup PathSources \cup Mappings \cup Receipts

ASSUME IcebergAssumption ==
    /\ Base \in Seq(BaseSet)
    /\ BaseSet \cap {"path_sources", "snapshots", "commits"} = {}
    /\ {"files", "schemas"} \subseteq BaseSet
    /\ Ids \subseteq Nat \ {NoId} /\ \E i \in Ids : \A j \in Ids : i <= j
    /\ \A i, j \in Ids : i .. j \subseteq Ids
    /\ Requests \subseteq [mode: {"replace", "extend"}, paths: (SUBSET Paths) \ {{}}, given: BOOLEAN]
    /\ \E q \in Requests : q.mode = "replace"
    /\ Sources \subseteq Nat \ {0} /\ \E s \in Sources : \A u \in Sources : s <= u
    /\ MaxTime \in Nat \ {0} /\ MaxStops \in Nat
    /\ Nothing \notin Contents \cup Identities

VARIABLES
    identity,   \* durable: the identity in request.json of the directory of the id
    part,       \* durable: [Ids -> [TableSet -> its staged Parquet part, or Nothing]]
    data,       \* durable: the immutable data files of the warehouse, by table and id
    created,    \* durable: the tables of the catalog
    log,        \* durable: [TableSet -> the ids whose file its snapshots appended]
    source,     \* the ROOT files as they are now
    clock,      \* the last id, and the last time of a receipt
    run,        \* the run that owns the lock
    phase,      \* what it does next
    k,          \* the table it is publishing
    pinned,     \* result.tables: the native snapshot of each table it has appended to
    stops,      \* runs that ended before they had published
    result      \* history: how the last run ended

staged  == <<identity, part>>
catalog == <<data, created, log>>
stack   == <<run, phase, k, pinned>>
vars    == <<staged, catalog, source, clock, stack, stops, result>>

-----------------------------------------------------------------------------
(* What the code reads from the catalog.                                   *)

T == Tables[k]

Appended(t) == ToSet(log[t])

Committed == Appended("commits")

\* ORDER BY committed_at_ns DESC LIMIT 1
Latest ==
    IF Committed = {} THEN NoId
    ELSE CHOOSE i \in Committed : \A j \in Committed : data["commits"][j].at <= data["commits"][i].at

\* The physical generation of each path of generation i.  A generation of before
\* path_sources existed has only its own.
Origins(i) ==
    IF i \in Appended("path_sources") THEN data["path_sources"][i].origin
    ELSE [p \in data["schemas"][i].paths |-> i]

OriginSet(i) == {Origins(i)[p] : p \in DOMAIN Origins(i)}

\* IndexBuildIdentity: the request and the files it resolves to, as they are now.
Identity(q) == [request |-> q, source |-> source]

\* The manifest fingerprint of a request: given with it, or computed from the files.
Manifest(q) == IF q.given THEN 0 ELSE source

\* FindResumeCandidate: the directories, staging or failed, of the same identity.
\* (Which of several is chosen depends on their names; here it can be any.)
Candidates(q) == {i \in Ids : identity[i] = Identity(q)}

-----------------------------------------------------------------------------
(* A run.                                                                  *)

\* The run has returned or is dead; its lock is free.
Ended(how) ==
    /\ run' = Nothing /\ phase' = "idle" /\ k' = 1
    /\ pinned' = [t \in TableSet |-> 0]
    /\ result' = how
    /\ IF how = "published" THEN UNCHANGED stops ELSE stops < MaxStops /\ stops' = stops + 1

Goto(p) == phase' = p /\ UNCHANGED <<run, k, pinned, stops, result>>

\* A run takes an id and creates its directory; with resume it adopts that of a
\* run of the same identity instead, if there is one.  (The id of a run that adopts
\* another is not used, and not counted here.)
Start(q, id) ==
    /\ phase = "idle"
    /\ run' = [id |-> id, request |-> q]
    /\ identity' = [identity EXCEPT ![id] = Identity(q)]
    /\ phase' = "prepare"
    /\ UNCHANGED <<part, catalog, source, k, pinned, stops, result>>

StartFresh(q) ==
    /\ clock.id + 1 \in Ids
    /\ clock' = [clock EXCEPT !.id = @ + 1]
    /\ Start(q, clock'.id)

Resume(q) == \E id \in Candidates(q) : Start(q, id) /\ UNCHANGED clock

\* mutant: the original files are not looked at again
ValidateNoFiles(parent) == TRUE

\* Every origin of the previous paths was built from the files as they are now.
ValidateOriginalFiles(parent) == \A o \in OriginSet(parent) : data["files"][o].source = source

\* mutant: the parent of a staged part is not compared
WritePathsAnyParent(parent, origin) ==
    IF part[run.id]["path_sources"] = Nothing
    THEN /\ part' = [part EXCEPT ![run.id]["path_sources"] = [parent |-> parent, origin |-> origin]]
         /\ Goto("build")
    ELSE Goto("build") /\ UNCHANGED part

\* WritePaths keeps a part that is staged, if it has the same parent.
WritePaths(parent, origin) ==
    LET old == part[run.id]["path_sources"]
    IN  IF old = Nothing
        THEN /\ part' = [part EXCEPT ![run.id]["path_sources"] = [parent |-> parent, origin |-> origin]]
             /\ Goto("build")
        ELSE /\ old.parent = parent
             /\ Goto("build") /\ UNCHANGED part

\* mutant: a new path is recorded with the previous generation
OwnPathsOfParent == [p \in run.request.paths |-> Latest]

OwnPaths == [p \in run.request.paths |-> run.id]

\* PrepareRootIcebergPathSources of a new, independent generation.
PrepareReplace ==
    /\ phase = "prepare" /\ run.request.mode = "replace"
    /\ WritePaths(NoId, OwnPaths)
    /\ UNCHANGED <<identity, catalog, source, clock>>

\* ... of an extension: the paths of the latest generation with their origins,
\* and the new paths, which must be new.
PrepareExtend ==
    /\ phase = "prepare" /\ run.request.mode = "extend"
    /\ LET parent == Latest
       IN  /\ parent \notin {NoId, run.id}
           /\ data["commits"][parent].manifest = Manifest(run.request)
           /\ "path_sources" \in created => log["path_sources"] # <<>>
           /\ ValidateOriginalFiles(parent)
           /\ DOMAIN Origins(parent) \cap run.request.paths = {}
           /\ WritePaths(parent,
                [p \in DOMAIN Origins(parent) \cup run.request.paths |->
                    IF p \in run.request.paths THEN run.id ELSE Origins(parent)[p]])
    /\ UNCHANGED <<identity, catalog, source, clock>>

\* ... of an extension that is already the latest generation.
PrepareCommitted ==
    /\ phase = "prepare" /\ run.request.mode = "extend"
    /\ Latest = run.id /\ part[run.id]["path_sources"] # Nothing
    /\ Goto("build")
    /\ UNCHANGED <<staged, catalog, source, clock>>

Prepare == PrepareReplace \/ PrepareExtend \/ PrepareCommitted

\* The threads, ValidateBuild and CompactRootIndexParquet: a compacted table that
\* exists is kept.  One that is built again has the same bytes, or not.
BuildFiles ==
    /\ phase = "build"
    /\ \E e \in {FALSE} \cup {data["files"][run.id] # Nothing} :
        part' = [part EXCEPT ![run.id] = [t \in TableSet |->
                    IF t \in BaseSet /\ @[t] = Nothing
                    THEN [paths |-> run.request.paths, source |-> source, rebuilt |-> e]
                    ELSE @[t]]]
    /\ Goto("append")
    /\ UNCHANGED <<identity, catalog, source, clock>>

-----------------------------------------------------------------------------
(* PublishRootIndexStagingToIceberg.                                       *)

Step(p) == IF Tables[p] \in {"snapshots", "commits"} THEN "write" ELSE "append"

NextTable ==
    /\ phase' = IF k = Len(Tables) THEN "cleanup" ELSE Step(k + 1)
    /\ k' = IF k = Len(Tables) THEN 1 ELSE k + 1
    /\ UNCHANGED <<run, stops, result>>

Mapping == [t \in PinnedSet |-> pinned[t]]

\* The mapping to native snapshots is written once; a resumed run must find the
\* tables as the interrupted one left them.
WriteSnapshotsParquet ==
    /\ phase = "write" /\ T = "snapshots"
    /\ part[run.id][T] \in {Nothing, Mapping}
    /\ part' = [part EXCEPT ![run.id][T] = Mapping]
    /\ Goto("append")
    /\ UNCHANGED <<identity, catalog, source, clock>>

SnapshotOriginChanged ==
    /\ phase = "write" /\ T = "snapshots"
    /\ part[run.id][T] \notin {Nothing, Mapping}
    /\ Ended("origin changed")
    /\ UNCHANGED <<staged, catalog, source, clock>>

\* The time of the commit is that of the first attempt.
WriteCommitParquet ==
    /\ phase = "write" /\ T = "commits"
    /\ IF part[run.id][T] = Nothing
       THEN /\ clock.time < MaxTime
            /\ clock' = [clock EXCEPT !.time = @ + 1]
            /\ part' = [part EXCEPT ![run.id][T] = [manifest |-> Manifest(run.request), at |-> clock'.time]]
       ELSE /\ part[run.id][T].manifest = Manifest(run.request)
            /\ UNCHANGED <<clock, part>>
    /\ Goto("append")
    /\ UNCHANGED <<identity, catalog, source>>

\* mutant: a data file that exists is replaced
CopyDataFileOver == data' = [data EXCEPT ![T][run.id] = part[run.id][T]]

\* AppendParquet, first: the data file, by rename; one that exists must be equal.
CopyDataFile ==
    /\ data[T][run.id] \in {Nothing, part[run.id][T]}
    /\ data' = [data EXCEPT ![T][run.id] = part[run.id][T]]

\* mutant: the files of the table are not looked at
AppendAgain ==
    /\ log' = [log EXCEPT ![T] = Append(@, run.id)]
    /\ pinned' = [pinned EXCEPT ![T] = Len(log'[T])]

\* ... last: FastAppend, unless a snapshot of the table has the file already; in
\* both cases the table's current snapshot is the one to pin.
FastAppend ==
    /\ log' = [log EXCEPT ![T] = IF run.id \in ToSet(@) THEN @ ELSE Append(@, run.id)]
    /\ pinned' = [pinned EXCEPT ![T] = Len(log'[T])]

AppendParquet ==
    /\ phase = "append"
    /\ CopyDataFile
    /\ created' = created \cup {T}
    /\ FastAppend
    /\ NextTable
    /\ UNCHANGED <<staged, source, clock>>

\* The run ends in the middle, after the copy or after GetOrCreateTable.  (Nobody
\* else writes, so the steps of one table need no states of their own.)
AppendInterrupted ==
    /\ phase = "append"
    /\ CopyDataFile
    /\ created' \in {created, created \cup {T}}
    /\ Ended("stopped")
    /\ UNCHANGED <<staged, log, source, clock>>

\* remove_all(staging)
Cleanup ==
    /\ phase = "cleanup"
    /\ identity' = [identity EXCEPT ![run.id] = Nothing]
    /\ part' = [part EXCEPT ![run.id] = [t \in TableSet |-> Nothing]]
    /\ Ended("published")
    /\ UNCHANGED <<catalog, source, clock>>

\* ... which throws, or is killed, with some of it done.  (The four base tables
\* are removed together or not at all.)
CleanupFails ==
    /\ phase = "cleanup"
    /\ \E gone \in SUBSET {BaseSet, {"path_sources"}, {"snapshots"}, {"commits"}} :
        part' = [part EXCEPT ![run.id] = [t \in TableSet |-> IF t \in UNION gone THEN Nothing ELSE @[t]]]
    /\ Ended("stopped")
    /\ UNCHANGED <<identity, catalog, source, clock>>

\* Any call may throw, and does when one of the tests above does not hold, or the
\* process is killed: either way the directory stays (PreserveFailedStaging only
\* renames it) and can be resumed.
Stop ==
    /\ phase # "idle"
    /\ Ended("stopped")
    /\ UNCHANGED <<staged, catalog, source, clock>>

\* The ROOT files change between two runs.
SourceChanges ==
    /\ phase = "idle"
    /\ \E s \in Sources : s > source /\ source' = s
    /\ UNCHANGED <<staged, catalog, clock, stack, stops, result>>

Publish ==
    \/ WriteSnapshotsParquet \/ SnapshotOriginChanged \/ WriteCommitParquet
    \/ AppendParquet \/ AppendInterrupted
    \/ Cleanup \/ CleanupFails

Next ==
    \/ \E q \in Requests : StartFresh(q) \/ Resume(q)
    \/ Prepare \/ BuildFiles \/ Publish
    \/ Stop \/ SourceChanges

\* An empty catalog, or one with a generation of before path_sources existed.
Legacy(id) ==
    LET rows == [paths |-> (CHOOSE q \in Requests : q.mode = "replace").paths, source |-> source,
                 rebuilt |-> FALSE]
        old(t) == CASE t \in BaseSet -> rows
                    [] t = "path_sources" -> Nothing
                    [] t = "snapshots" -> [b \in BaseSet |-> 1]
                    [] t = "commits" -> [manifest |-> source, at |-> 1]
    IN  /\ data = [t \in TableSet |-> [i \in Ids |-> IF i = id THEN old(t) ELSE Nothing]]
        /\ created = TableSet \ {"path_sources"}
        /\ log = [t \in TableSet |-> IF t = "path_sources" THEN <<>> ELSE <<id>>]
        /\ clock = [id |-> id, time |-> 1]

Init ==
    /\ identity = [i \in Ids |-> Nothing]
    /\ part = [i \in Ids |-> [t \in TableSet |-> Nothing]]
    /\ source = CHOOSE s \in Sources : \A u \in Sources : s <= u
    /\ run = Nothing /\ phase = "idle" /\ k = 1 /\ pinned = [t \in TableSet |-> 0]
    /\ stops = 0 /\ result = "none"
    /\ \/ /\ data = [t \in TableSet |-> [i \in Ids |-> Nothing]] /\ created = {} /\ log = [t \in TableSet |-> <<>>]
          /\ clock = [id |-> NoId, time |-> 0]
       \/ Legacy(CHOOSE i \in Ids : \A j \in Ids : i <= j)

Spec == Init /\ [][Next]_vars
-----------------------------------------------------------------------------
(* Properties.                                                             *)

ContentOf(t) ==
    {Nothing} \cup CASE t \in BaseSet        -> Rows
                     [] t = "path_sources" -> PathSources
                     [] t = "snapshots"    -> Mappings
                     [] t = "commits"      -> Receipts

TypeOK ==
    /\ identity \in [Ids -> Identities \cup {Nothing}]
    /\ part \in [Ids -> [TableSet -> Contents \cup {Nothing}]]
    /\ data \in [TableSet -> [Ids -> Contents \cup {Nothing}]]
    /\ \A i \in Ids, t \in TableSet : part[i][t] \in ContentOf(t) /\ data[t][i] \in ContentOf(t)
    /\ created \subseteq TableSet
    /\ log \in [TableSet -> Seq(Ids)]
    /\ source \in Sources
    /\ clock \in [id: Ids \cup {NoId}, time: 0 .. MaxTime]
    /\ run \in [id: Ids, request: Requests] \cup {Nothing}
    /\ phase \in {"idle", "prepare", "build", "write", "append", "cleanup"}
    /\ k \in 1 .. Len(Tables)
    /\ pinned \in [TableSet -> Nat]
    /\ stops \in 0 .. MaxStops
    /\ result \in {"none", "published", "stopped", "origin changed"}

\* No data file is in a table twice, however often a publication is interrupted
\* and resumed: a duplicate would return every metadata row of it twice.
AppendedOnce == \A t \in TableSet : \A i, j \in 1 .. Len(log[t]) : log[t][i] = log[t][j] => i = j

\* What ResolveSources and PathSnapshot find for a committed generation: its
\* mapping, and under the snapshot pinned there, in every base table, the file of
\* each path's origin, which describes the path; and all origins describe the same
\* state of the ROOT files, so their rows can be joined.
PinnedIds(i, t) == ToSet(SubSeq(log[t], 1, data["snapshots"][i][t]))

CommittedIsReadable ==
    \A i \in Committed :
        /\ i \in Appended("snapshots")
        /\ \A p \in DOMAIN Origins(i), t \in BaseSet :
            /\ Origins(i)[p] \in PinnedIds(i, t)
            /\ p \in data[t][Origins(i)[p]].paths
        /\ \A o, u \in OriginSet(i) : data["files"][o].source = data["files"][u].source

\* An extension keeps every path of the generation that was the latest, with the
\* rows it had.
ExtensionKeepsPaths ==
    [][ \A i \in Ids :
          i \in ToSet(log'["commits"]) \ Committed /\ data["path_sources"][i].parent # NoId =>
            \A p \in DOMAIN Origins(Latest) :
                p \in DOMAIN Origins(i) /\ Origins(i)[p] = Origins(Latest)[p] ]_vars

\* The warehouse implements Generations: a generation appears at once, in all base
\* tables, and the rows that readers of it find do not change afterwards, whatever
\* is appended to the tables later.
Visible ==
    [i \in Ids |-> [t \in BaseSet |->
        IF i \in Committed THEN {data[t][o] : o \in OriginSet(i) \cap PinnedIds(i, t)} ELSE {}]]

Readers == INSTANCE Generations WITH generation <- Latest, store <- Visible, TableSet <- BaseSet

ImplementsGenerations == Readers!HistorySpec
=============================================================================
