------------------------ MODULE IcebergPublishProofs ------------------------
(***************************************************************************)
(* Theorems about IcebergPublish for every sequence of base tables, set of *)
(* ids, of requests and of paths, and number of interruptions: a table has *)
(* a data file once, and what a table has is never taken back or replaced; *)
(* a committed generation can be read, an extension keeps the paths of its *)
(* parent, and what was visible does not change.                           *)
(***************************************************************************)
EXTENDS IcebergPublish, SequenceTheorems, NumberLemmas

\* A history without repetitions.
Distinct(s) == \A i, j \in 1 .. Len(s) : s[i] = s[j] => i = j

\* The types that the appends need: a run has an id, and there is a table in hand.
Shaped ==
    /\ log \in [TableSet -> Seq(Ids)]
    /\ k \in 1 .. Len(Tables)
    /\ phase # "idle" => run.id \in Ids

\* The inductive invariant of the histories.
AppendInv == Shaped /\ AppendedOnce

\* The names of the last three tables, and of all.
LastTables == <<"path_sources", "snapshots", "commits">>
Names      == BaseSet \cup ToSet(LastTables)

\* The base tables come first, then the three that every publication ends with.
LEMMA TablesShape ==
    /\ Len(Base) \in Nat /\ Len(Tables) = Len(Base) + 3 /\ DOMAIN Tables = 1 .. Len(Base) + 3
    /\ \A i \in 1 .. Len(Base) + 3 :
          Tables[i] = IF i <= Len(Base) THEN Base[i] ELSE LastTables[i - Len(Base)]
<1>1. Base \in Seq(Names)
  BY IcebergAssumption, SeqMonotonic DEF IcebergAssumption, Names
<1>2. LastTables \in Seq(Names) /\ Len(LastTables) = 3
  BY DEF LastTables, Names, ToSet
<1>3. QED BY <1>1, <1>2, ConcatProperties DEF Tables, LastTables

LEMMA TablesAreASequence ==
    /\ Len(Tables) \in Nat \ {0}
    /\ \A i \in 1 .. Len(Tables) : Tables[i] \in TableSet
BY TablesShape DEF TableSet, ToSet

\* The oldest id, that of the generation of before path_sources.
LEMMA OldestId == (CHOOSE i \in Ids : \A j \in Ids : i <= j) \in Ids
BY IcebergAssumption DEF IcebergAssumption

\* FastAppend keeps a history free of repetitions.
LEMMA AppendKeepsDistinct ==
    ASSUME NEW s \in Seq(Ids), NEW i \in Ids, Distinct(s), i \notin ToSet(s)
    PROVE  Distinct(Append(s, i))
<1>1. \A n \in 1 .. Len(s) : s[n] # i
  BY DEF ToSet
<1>2. Len(Append(s, i)) = Len(s) + 1 /\ \A n \in 1 .. Len(s) + 1 : Append(s, i)[n] = IF n = Len(s) + 1 THEN i ELSE s[n]
  OBVIOUS
<1>3. QED BY <1>1, <1>2 DEF Distinct

\* AppendedOnce by tables.
LEMMA HistoriesAreDistinct == AppendedOnce <=> \A t \in TableSet : Distinct(log[t])
BY DEF AppendedOnce, Distinct

\* An empty catalog, or one with a single generation, has no repetitions.
LEMMA InitHistories == Init => AppendInv
<1> SUFFICES ASSUME Init PROVE AppendInv
  OBVIOUS
<1>1. k \in 1 .. Len(Tables) /\ phase = "idle"
  BY TablesAreASequence DEF Init
<1>2. CASE log = [t \in TableSet |-> <<>>]
  BY <1>1, <1>2 DEF AppendInv, Shaped, AppendedOnce
<1>3. CASE \E id \in Ids : Legacy(id)
  <2>1. PICK id \in Ids : Legacy(id)
    BY <1>3
  <2>2. log = [t \in TableSet |-> IF t = "path_sources" THEN <<>> ELSE <<id>>]
    BY <2>1 DEF Legacy
  <2>3. log \in [TableSet -> Seq(Ids)]
    BY <2>2
  <2>4. AppendedOnce
    BY <2>2 DEF AppendedOnce
  <2>5. QED BY <1>1, <2>3, <2>4 DEF AppendInv, Shaped
<1>4. log = [t \in TableSet |-> <<>>] \/ Legacy(CHOOSE i \in Ids : \A j \in Ids : i <= j)
  BY DEF Init
<1>5. QED BY <1>2, <1>3, <1>4, OldestId

\* What a step may do to the histories: nothing, or one append for the run in hand.
LEMMA StepShape ==
    ASSUME Shaped, [Next]_vars
    PROVE  /\ \/ log' = log
              \/ phase = "append" /\ FastAppend
           /\ k' \in 1 .. Len(Tables)
           /\ phase' # "idle" => run'.id \in Ids
<1> USE DEF Shaped
<1>a. k \in 1 .. Len(Tables) /\ 1 \in 1 .. Len(Tables)
  BY TablesAreASequence
<1>b. ASSUME NEW p, Goto(p), phase # "idle"
      PROVE  k' = k /\ run' = run /\ run'.id \in Ids
  BY <1>b DEF Goto
<1>c. ASSUME NEW how, Ended(how)
      PROVE  k' = 1 /\ phase' = "idle"
  BY <1>c DEF Ended
<1>1. ASSUME NEW q \in Requests, StartFresh(q) PROVE log' = log /\ k' = k /\ run'.id \in Ids
  BY <1>1 DEF StartFresh, Start, catalog
<1>2. ASSUME NEW q \in Requests, Resume(q) PROVE log' = log /\ k' = k /\ run'.id \in Ids
  BY <1>2 DEF Resume, Start, Candidates, catalog
<1>3. CASE Prepare
  <2>1. log' = log
    BY <1>3 DEF Prepare, PrepareReplace, PrepareExtend, PrepareCommitted, catalog
  <2>2. phase # "idle" /\ Goto("build")
    BY <1>3 DEF Prepare, PrepareReplace, PrepareExtend, PrepareCommitted, WritePaths
  <2>3. QED BY <1>a, <1>b, <2>1, <2>2
<1>4. CASE BuildFiles
  BY <1>4, <1>a, <1>b DEF BuildFiles, catalog
<1>5. CASE WriteSnapshotsParquet
  BY <1>5, <1>a, <1>b DEF WriteSnapshotsParquet, catalog
<1>6. CASE SnapshotOriginChanged
  BY <1>6, <1>a, <1>c DEF SnapshotOriginChanged, catalog
<1>7. CASE WriteCommitParquet
  BY <1>7, <1>a, <1>b DEF WriteCommitParquet, catalog
<1>8. CASE AppendParquet
  <2>1. phase = "append" /\ FastAppend /\ NextTable
    BY <1>8 DEF AppendParquet
  <2>2. k' \in 1 .. Len(Tables)
    BY <2>1, TablesAreASequence DEF NextTable
  <2>3. run'.id \in Ids
    BY <2>1 DEF NextTable
  <2>4. QED BY <2>1, <2>2, <2>3
<1>9. CASE AppendInterrupted
  BY <1>9, <1>a, <1>c DEF AppendInterrupted
<1>10. CASE Cleanup
  BY <1>10, <1>a, <1>c DEF Cleanup, catalog
<1>11. CASE CleanupFails
  BY <1>11, <1>a, <1>c DEF CleanupFails, catalog
<1>12. CASE Stop
  BY <1>12, <1>a, <1>c DEF Stop, catalog
<1>13. CASE SourceChanges
  BY <1>13, <1>a DEF SourceChanges, catalog, stack
<1>14. CASE UNCHANGED vars
  BY <1>14, <1>a DEF vars, catalog, stack
<1>15. QED
  BY <1>a, <1>1, <1>2, <1>3, <1>4, <1>5, <1>6, <1>7, <1>8, <1>9, <1>10, <1>11, <1>12, <1>13, <1>14
  DEF Next, Publish

\* A resumed run that meets its own file in a table leaves the history alone.
LEMMA StepHistories == ASSUME AppendInv, [Next]_vars PROVE AppendInv'
<1>1. Shaped /\ \A t \in TableSet : Distinct(log[t])
  BY HistoriesAreDistinct DEF AppendInv
<1>2. k' \in 1 .. Len(Tables) /\ (phase' # "idle" => run'.id \in Ids)
  BY <1>1, StepShape
<1>3. CASE log' = log
  BY <1>1, <1>2, <1>3 DEF AppendInv, Shaped, AppendedOnce, Distinct
<1>4. CASE phase = "append" /\ FastAppend
  <2>1. T \in TableSet /\ run.id \in Ids /\ log \in [TableSet -> Seq(Ids)]
    BY <1>1, <1>4, TablesAreASequence DEF T, Shaped
  <2>2. log' = [log EXCEPT ![T] = IF run.id \in ToSet(@) THEN @ ELSE Append(@, run.id)]
    BY <1>4 DEF FastAppend
  <2>3. log' \in [TableSet -> Seq(Ids)]
    BY <2>1, <2>2
  <2>4. ASSUME NEW t \in TableSet PROVE Distinct(log'[t])
    <3>1. CASE t = T /\ run.id \notin ToSet(log[T])
      BY <3>1, <2>1, <2>2, <1>1, AppendKeepsDistinct
    <3>2. CASE t # T \/ run.id \in ToSet(log[T])
      BY <3>2, <2>1, <2>2, <1>1
    <3>3. QED BY <3>1, <3>2
  <2>5. AppendedOnce'
    BY <2>4 DEF AppendedOnce, Distinct
  <2>6. QED BY <1>2, <2>3, <2>5 DEF AppendInv, Shaped
<1>5. QED BY <1>1, <1>3, <1>4, StepShape

\* AppendParquet: however often a publication is interrupted, resumed or repeated,
\* no table gets the data file of a generation a second time.
THEOREM FilesAreAppendedOnce == Spec => []AppendedOnce
<1>1. AppendInv /\ [Next]_vars => AppendInv'
  BY StepHistories
<1>2. AppendInv => AppendedOnce
  BY DEF AppendInv
<1>3. QED BY InitHistories, <1>1, <1>2, PTL DEF Spec
-----------------------------------------------------------------------------
\* The commit record is the last file of a generation: once it is appended, so are
\* the generation's files in all other tables.  (One of before path_sources existed
\* has none there.)
CommitIsLast == \A t \in TableSet \ {"path_sources"} : Committed \subseteq Appended(t)

\* A run that publishes has appended to the tables before the one in hand.
OrderInv ==
    /\ AppendInv
    /\ phase \notin {"write", "append"} => k = 1
    /\ phase \in {"write", "append"} => \A j \in 1 .. Len(Tables) : j < k => run.id \in Appended(Tables[j])
    /\ CommitIsLast

\* A run that appends to "commits" has passed every other table.
LEMMA CommitsAreLast ==
    \A n \in 1 .. Len(Tables) : Tables[n] = "commits" =>
        \A t \in TableSet \ {"commits"} : \E j \in 1 .. Len(Tables) : j < n /\ Tables[j] = t
<1>1. \A i \in 1 .. Len(Base) : Base[i] # "commits"
  BY IcebergAssumption DEF IcebergAssumption, BaseSet, ToSet
<1>2. SUFFICES ASSUME NEW n \in 1 .. Len(Tables), Tables[n] = "commits"
               PROVE  n = Len(Tables)
  BY TablesShape DEF TableSet, ToSet
<1>3. CASE n <= Len(Base)
  BY <1>1, <1>2, <1>3, TablesShape
<1>4. CASE n > Len(Base)
  <2>1. n - Len(Base) \in 1 .. 3 /\ LastTables[n - Len(Base)] = "commits"
    BY <1>2, <1>4, TablesShape
  <2>2. n - Len(Base) = 3
    BY <2>1 DEF LastTables
  <2>3. QED BY <2>2, TablesShape
<1>5. QED BY <1>3, <1>4, TablesShape

\* What has been appended to a table stays there.
LEMMA HistoriesGrow ==
    ASSUME AppendInv, [Next]_vars
    PROVE  \A t \in TableSet : Appended(t) \subseteq Appended(t)'
<1>1. CASE log' = log
  BY <1>1 DEF Appended
<1>2. CASE phase = "append" /\ FastAppend
  <2>1. log \in [TableSet -> Seq(Ids)] /\ T \in TableSet /\ run.id \in Ids
    BY <1>2, TablesAreASequence DEF AppendInv, Shaped, T
  <2>2. log' = [log EXCEPT ![T] = IF run.id \in ToSet(@) THEN @ ELSE Append(@, run.id)]
    BY <1>2 DEF FastAppend
  <2>3. \A x \in Seq(Ids) : ToSet(x) \subseteq ToSet(Append(x, run.id))
    BY <2>1 DEF ToSet
  <2>4. QED BY <2>1, <2>2, <2>3 DEF Appended
<1>3. QED BY <1>1, <1>2, StepShape DEF AppendInv

\* What a sequence holds after an append.
LEMMA AppendAddsOne ==
    ASSUME NEW x \in Seq(Ids), NEW i \in Ids
    PROVE  ToSet(Append(x, i)) = ToSet(x) \cup {i}
<1>1. /\ DOMAIN Append(x, i) = 1 .. Len(x) + 1 /\ DOMAIN x = 1 .. Len(x) /\ Len(x) \in Nat
      /\ \A n \in 1 .. Len(x) + 1 : Append(x, i)[n] = IF n = Len(x) + 1 THEN i ELSE x[n]
  OBVIOUS
<1>2. ToSet(Append(x, i)) \subseteq ToSet(x) \cup {i}
  BY <1>1 DEF ToSet
<1>3. ToSet(x) \subseteq ToSet(Append(x, i))
  BY <1>1 DEF ToSet
<1>4. i \in ToSet(Append(x, i))
  BY <1>1 DEF ToSet
<1>5. QED BY <1>2, <1>3, <1>4

\* FastAppend adds the id of the run to the table in hand and touches no other.
LEMMA FastAppendAppends ==
    ASSUME AppendInv, phase = "append", FastAppend
    PROVE  \A t \in TableSet :
             Appended(t)' = IF t = T THEN Appended(t) \cup {run.id} ELSE Appended(t)
<1>1. log \in [TableSet -> Seq(Ids)] /\ T \in TableSet /\ run.id \in Ids
  BY TablesAreASequence DEF AppendInv, Shaped, T
<1>2. log' = [log EXCEPT ![T] = IF run.id \in ToSet(@) THEN @ ELSE Append(@, run.id)]
  BY DEF FastAppend
<1>3. ASSUME NEW t \in TableSet
      PROVE  Appended(t)' = IF t = T THEN Appended(t) \cup {run.id} ELSE Appended(t)
  <2>1. CASE t = T /\ run.id \notin ToSet(log[T])
    <3>1. log'[t] = Append(log[t], run.id) /\ log[t] \in Seq(Ids)
      BY <1>1, <1>2, <2>1
    <3>2. QED BY <3>1, <2>1, <1>1, AppendAddsOne DEF Appended
  <2>2. CASE t # T \/ run.id \in ToSet(log[T])
    BY <1>1, <1>2, <2>2 DEF Appended
  <2>3. QED BY <2>1, <2>2
<1>4. QED BY <1>3

\* "commits" is one of the tables.
LEMMA CommitsIsATable == "commits" \in TableSet
<1>1. Tables[Len(Tables)] = "commits" /\ Len(Tables) \in DOMAIN Tables
  BY TablesShape DEF LastTables
<1>2. QED BY <1>1 DEF TableSet, ToSet

\* A catalog of before path_sources has its generation in every other table.
LEMMA InitOrder == Init => OrderInv
<1> SUFFICES ASSUME Init PROVE OrderInv
  OBVIOUS
<1>1. phase = "idle" /\ k = 1
  BY DEF Init
<1>2. CASE log = [t \in TableSet |-> <<>>]
  <2>1. "commits" \in TableSet
    BY CommitsIsATable
  <2>2. Committed = {}
    BY <1>2, <2>1 DEF Committed, Appended, ToSet
  <2>3. QED BY <1>1, <2>2, InitHistories DEF OrderInv, CommitIsLast
<1>3. CASE \E id \in Ids : Legacy(id)
  <2>1. PICK id \in Ids : log = [t \in TableSet |-> IF t = "path_sources" THEN <<>> ELSE <<id>>]
    BY <1>3 DEF Legacy
  <2>2. \A t \in TableSet \ {"path_sources"} : Appended(t) = ToSet(<<id>>)
    BY <2>1 DEF Appended
  <2>3. CommitIsLast
    BY <2>2, CommitsIsATable DEF CommitIsLast, Committed
  <2>4. QED BY <1>1, <2>3, InitHistories DEF OrderInv
<1>4. QED BY <1>2, <1>3, OldestId DEF Init

\* One step: NextTable leaves a table only after its append.
LEMMA StepOrder == ASSUME OrderInv, [Next]_vars PROVE OrderInv'
<1>1. AppendInv /\ AppendInv'
  BY StepHistories DEF OrderInv
<1>2. \A t \in TableSet : Appended(t) \subseteq Appended(t)'
  BY <1>1, HistoriesGrow
<1>3. /\ phase' \notin {"write", "append"} => k' = 1
      /\ phase' \in {"write", "append"} =>
            \/ k' = 1
            \/ phase \in {"write", "append"} /\ k' = k /\ run' = run
            \/ AppendParquet /\ k' = k + 1
  BY <1>1 DEF OrderInv, Next, Publish, Prepare, PrepareReplace, PrepareExtend, PrepareCommitted, WritePaths,
       StartFresh, Resume, Start, BuildFiles, WriteSnapshotsParquet, SnapshotOriginChanged, WriteCommitParquet,
       AppendParquet, NextTable, Step, AppendInterrupted, Cleanup, CleanupFails, Stop, SourceChanges, Ended,
       Goto, vars, stack
<1>4. ASSUME phase' \in {"write", "append"}, NEW j \in 1 .. Len(Tables), j < k'
      PROVE  run'.id \in Appended(Tables[j])'
  <2>1. k \in 1 .. Len(Tables) /\ k' \in 1 .. Len(Tables) /\ Len(Tables) \in Nat
    BY <1>1, TablesAreASequence DEF AppendInv, Shaped
  <2>2. Tables[j] \in TableSet
    BY TablesAreASequence
  <2>3. CASE k' = 1
    BY <2>3, <1>4
  <2>4. CASE phase \in {"write", "append"} /\ k' = k /\ run' = run
    BY <2>4, <2>2, <1>2, <1>4 DEF OrderInv
  <2>5. CASE AppendParquet /\ k' = k + 1
    <3>1. phase = "append" /\ FastAppend /\ run' = run
      BY <2>5 DEF AppendParquet, NextTable
    <3>2. CASE j = k
      BY <3>1, <3>2, <2>2, <1>1, FastAppendAppends DEF T
    <3>3. CASE j < k
      BY <3>1, <3>3, <2>2, <1>2 DEF OrderInv
    <3>4. QED BY <3>2, <3>3, <2>1, <2>5, <1>4
  <2>6. QED BY <2>3, <2>4, <2>5, <1>3, <1>4
<1>5. CommitIsLast'
  <2>1. CASE log' = log
    BY <2>1 DEF OrderInv, CommitIsLast, Committed, Appended
  <2>2. CASE phase = "append" /\ FastAppend /\ T # "commits"
    <3>1. Committed' = Committed
      BY <2>2, <1>1, CommitsIsATable, FastAppendAppends DEF Committed
    <3>2. QED BY <3>1, <1>2 DEF OrderInv, CommitIsLast
  <2>3. CASE phase = "append" /\ FastAppend /\ T = "commits"
    <3>1. Committed' = Committed \cup {run.id}
      BY <2>3, <1>1, CommitsIsATable, FastAppendAppends DEF Committed
    <3>2. ASSUME NEW t \in TableSet \ {"path_sources", "commits"} PROVE run.id \in Appended(t)
      <4>1. k \in 1 .. Len(Tables) /\ Tables[k] = "commits"
        BY <2>3, <1>1 DEF T, AppendInv, Shaped
      <4>2. PICK j \in 1 .. Len(Tables) : j < k /\ Tables[j] = t
        BY <4>1, CommitsAreLast
      <4>3. QED BY <4>2, <2>3 DEF OrderInv
    <3>3. ASSUME NEW t \in TableSet \ {"path_sources"} PROVE Committed' \subseteq Appended(t)'
      <4>1. CASE t = "commits"
        BY <4>1 DEF Committed
      <4>2. CASE t # "commits"
        BY <4>2, <3>1, <3>2, <1>2 DEF OrderInv, CommitIsLast
      <4>3. QED BY <4>1, <4>2
    <3>4. QED BY <3>3 DEF CommitIsLast
  <2>4. QED BY <2>1, <2>2, <2>3, <1>1, StepShape DEF AppendInv
<1>6. QED BY <1>1, <1>3, <1>4, <1>5 DEF OrderInv

\* PublishRootIndexStagingToIceberg commits each table by itself, and readers look
\* for the record in "commits": whatever interrupts a publication, and whoever
\* resumes it, a generation with a record has its files in all tables.
THEOREM CommitRecordIsLast == Spec => []CommitIsLast
<1>1. OrderInv /\ [Next]_vars => OrderInv'
  BY StepOrder
<1>2. OrderInv => CommitIsLast
  BY DEF OrderInv
<1>3. QED BY InitOrder, <1>1, <1>2, PTL DEF Spec

\* A generation whose directory is there.
Known(i) == identity[i] # Nothing

(***************************************************************************)
(* The inductive invariant.                                                *)
(***************************************************************************)

\* An id that was not taken has nothing.
FreshIsEmpty ==
    \A i \in Ids : i > clock.id =>
        /\ identity[i] = Nothing
        /\ \A t \in TableSet :
             part[i][t] = Nothing /\ data[t][i] = Nothing /\ i \notin Appended(t)

AppendedHasFile == \A t \in TableSet : \A i \in Appended(t) : data[t][i] # Nothing

\* The ROOT files do not change under a run.
OwnerIsKnown ==
    phase # "idle" =>
        run \in [id: Ids, request: Requests] /\ identity[run.id] = Identity(run.request)

\* The rows staged or published for a directory are those its identity asks for.
RowsOf(i, r) == r # Nothing => r.paths = identity[i].request.paths /\ r.source = identity[i].source

RowsAreRequested ==
    \A i \in Ids, t \in BaseSet : Known(i) => RowsOf(i, part[i][t]) /\ RowsOf(i, data[t][i])

\* Generation o has rows of path x in every base table, from state s of the ROOT files.
Described(o, x, s) ==
    /\ data["files"][o].source = s
    /\ \A t \in BaseSet : o \in Appended(t) /\ x \in data[t][o].paths

\* The paths P records for a directory: the requested ones are its own, the others
\* those of its parent, each with the generation the parent has for it.
Reaches(i, P) ==
    P # Nothing =>
        /\ identity[i].request.paths \subseteq DOMAIN P.origin
        /\ \A x \in DOMAIN P.origin :
             IF x \in identity[i].request.paths
             THEN P.origin[x] = i
             ELSE Described(P.origin[x], x, identity[i].source)
        /\ P.parent # NoId =>
             /\ P.parent \in Committed
             /\ \A x \in DOMAIN Origins(P.parent) :
                  x \in DOMAIN P.origin /\ P.origin[x] = Origins(P.parent)[x]

PathsAreReached ==
    \A i \in Ids : Known(i) =>
        Reaches(i, part[i]["path_sources"]) /\ Reaches(i, data["path_sources"][i])

\* The origins of generation i do not change any more.
Settled(i) == i \in Appended("path_sources") \/ (i \in Committed /\ ~ Known(i))

\* The native snapshots of a mapping m of generation i hold every origin.
Holds(i, m, t) == m[t] \in 0 .. Len(log[t]) /\ \A o \in OriginSet(i) : \E j \in 1 .. m[t] : log[t][j] = o

Pins(i, m) == m # Nothing => Settled(i) /\ \A t \in BaseSet : Holds(i, m, t)

MappingsPin ==
    \A i \in Ids : Pins(i, part[i]["snapshots"]) /\ Pins(i, data["snapshots"][i])

\* The rows of all paths of a committed generation were built from one state of the
\* ROOT files.
CommittedDescribed ==
    \A i \in Committed : \E s \in Sources : \A x \in DOMAIN Origins(i) : Described(Origins(i)[x], x, s)

\* What the run has staged, and what it has pinned so far.
InHand ==
    /\ phase \in {"build", "append", "write"} =>
         /\ part[run.id]["path_sources"] # Nothing
         /\ run.id \notin Committed => part[run.id]["path_sources"].parent \in {NoId, Latest}
    /\ phase \in {"append", "write"} =>
         /\ \A t \in BaseSet : part[run.id][t] # Nothing
         /\ \A j \in 1 .. Len(Tables) : j < k =>
              /\ Tables[j] = "path_sources" =>
                   data["path_sources"][run.id] = part[run.id]["path_sources"]
              /\ Tables[j] \in PinnedSet => pinned[Tables[j]] = Len(log[Tables[j]])
    /\ phase = "append" => part[run.id][T] # Nothing
    /\ phase = "write" => T \in {"snapshots", "commits"}

\* The times of the receipts of a directory; no two directories share one.
Times(i) == {r.at : r \in {part[i]["commits"], data["commits"][i]} \ {Nothing}}

TimesDiffer ==
    \A i \in Ids : \A a \in Times(i) : a <= clock.time /\ \A j \in Ids : j # i => a \notin Times(j)

WarehouseInv ==
    /\ TypeOK /\ OrderInv
    /\ FreshIsEmpty /\ AppendedHasFile /\ OwnerIsKnown
    /\ RowsAreRequested /\ PathsAreReached /\ CommittedDescribed /\ MappingsPin /\ InHand /\ TimesDiffer

(***************************************************************************)
(* The tables and what they hold.                                          *)
(***************************************************************************)

LEMMA TableNames ==
    /\ TableSet = BaseSet \cup {"path_sources", "snapshots", "commits"}
    /\ \A t \in BaseSet : t \notin {"path_sources", "snapshots", "commits"}
    /\ PinnedSet = BaseSet \cup {"path_sources"}
    /\ "files" \in BaseSet /\ "schemas" \in BaseSet
<1>1. \A t \in TableSet : t \in BaseSet \cup {"path_sources", "snapshots", "commits"}
  <2> SUFFICES ASSUME NEW n \in 1 .. Len(Base) + 3
               PROVE  Tables[n] \in BaseSet \cup {"path_sources", "snapshots", "commits"}
    BY TablesShape DEF TableSet, ToSet
  <2>1. CASE n <= Len(Base)
    BY <2>1, TablesShape, IcebergAssumption DEF IcebergAssumption
  <2>2. CASE n > Len(Base)
    <3>1. n - Len(Base) \in 1 .. 3 /\ Tables[n] = LastTables[n - Len(Base)]
      BY <2>2, TablesShape
    <3>2. QED BY <3>1 DEF LastTables
  <2>3. QED BY <2>1, <2>2, TablesShape
<1>2. BaseSet \subseteq TableSet
  <2> SUFFICES ASSUME NEW n \in 1 .. Len(Base) PROVE Base[n] \in TableSet
    BY IcebergAssumption DEF IcebergAssumption, BaseSet, ToSet
  <2>1. Tables[n] = Base[n] /\ n \in DOMAIN Tables
    BY TablesShape
  <2>2. QED BY <2>1 DEF TableSet, ToSet
<1>3. {"path_sources", "snapshots", "commits"} \subseteq TableSet
  <2>1. /\ Tables[Len(Base) + 1] = "path_sources" /\ Tables[Len(Base) + 2] = "snapshots"
        /\ Tables[Len(Base) + 3] = "commits"
        /\ Len(Base) + 1 \in DOMAIN Tables /\ Len(Base) + 2 \in DOMAIN Tables
        /\ Len(Base) + 3 \in DOMAIN Tables
    BY TablesShape DEF LastTables
  <2>2. QED BY <2>1 DEF TableSet, ToSet
<1>4. QED BY <1>1, <1>2, <1>3, IcebergAssumption DEF IcebergAssumption, PinnedSet

\* Where the last three tables are.
LEMMA LastPlaces ==
    ASSUME NEW n \in 1 .. Len(Tables)
    PROVE  /\ Tables[n] \in BaseSet <=> n <= Len(Base)
           /\ Tables[n] = "path_sources" <=> n = Len(Base) + 1
           /\ Tables[n] = "snapshots" <=> n = Len(Base) + 2
           /\ Tables[n] = "commits" <=> n = Len(Base) + 3
<1>1. CASE n <= Len(Base)
  <2>1. Tables[n] \in BaseSet
    BY <1>1, TablesShape DEF BaseSet, ToSet
  <2>2. QED BY <1>1, <2>1, TablesShape, TableNames
<1>2. CASE n > Len(Base)
  <2>1. n - Len(Base) \in 1 .. 3 /\ Tables[n] = LastTables[n - Len(Base)]
    BY <1>2, TablesShape
  <2>2. QED BY <1>2, <2>1, TablesShape, TableNames DEF LastTables
<1>3. QED BY <1>1, <1>2, TablesShape

\* A run has appended to every table that comes before the last three.
LEMMA EarlierTables ==
    ASSUME NEW n \in 1 .. Len(Tables), NEW t \in PinnedSet, Tables[n] \in {"snapshots", "commits"}
    PROVE  \E j \in 1 .. Len(Tables) : j < n /\ Tables[j] = t
<1>1. t \in TableSet
  BY TableNames
<1>2. PICK j \in 1 .. Len(Tables) : Tables[j] = t
  BY <1>1, TablesShape DEF TableSet, ToSet
<1>3. j <= Len(Base) + 1
  BY <1>2, LastPlaces, TableNames
<1>4. n >= Len(Base) + 2
  BY LastPlaces, TablesShape
<1>5. QED BY <1>2, <1>3, <1>4, TablesShape

LEMMA ContentTypes ==
    /\ \A t \in BaseSet : ContentOf(t) = {Nothing} \cup Rows
    /\ ContentOf("path_sources") = {Nothing} \cup PathSources
    /\ ContentOf("snapshots") = {Nothing} \cup Mappings
    /\ ContentOf("commits") = {Nothing} \cup Receipts
    /\ Rows \subseteq Contents /\ PathSources \subseteq Contents /\ Mappings \subseteq Contents
    /\ Receipts \subseteq Contents
    /\ Nothing \notin Rows \cup PathSources \cup Mappings \cup Receipts \cup Identities
<1>1. ASSUME NEW t \in BaseSet PROVE ContentOf(t) = {Nothing} \cup Rows
  BY TableNames DEF ContentOf
<1>2. /\ ContentOf("path_sources") = {Nothing} \cup PathSources
      /\ ContentOf("snapshots") = {Nothing} \cup Mappings
      /\ ContentOf("commits") = {Nothing} \cup Receipts
  BY TableNames DEF ContentOf
<1>3. QED BY <1>1, <1>2, IcebergAssumption DEF IcebergAssumption, Contents

LEMMA TypedContent ==
    ASSUME NEW t \in TableSet, NEW v \in ContentOf(t) PROVE v \in Contents \cup {Nothing}
BY ContentTypes, TableNames

-----------------------------------------------------------------------------
(***************************************************************************)
(* What a step changes.                                                    *)
(***************************************************************************)

LEMMA RunIsPast ==
    ASSUME WarehouseInv, phase # "idle"
    PROVE  /\ run.id \in Ids /\ run.request \in Requests /\ Known(run.id)
           /\ ~ (run.id > clock.id)
           /\ identity[run.id].request = run.request /\ identity[run.id].source = source
<1>1. run \in [id: Ids, request: Requests] /\ identity[run.id] = Identity(run.request)
  BY DEF WarehouseInv, OwnerIsKnown
<1>2. Identity(run.request) \in Identities
  BY <1>1 DEF Identity, Identities, WarehouseInv, TypeOK
<1>3. Known(run.id)
  BY <1>1, <1>2, ContentTypes DEF Known
<1>4. ~ (run.id > clock.id)
  BY <1>1, <1>3 DEF WarehouseInv, FreshIsEmpty, Known
<1>5. QED BY <1>1, <1>3, <1>4 DEF Identity

\* A run takes the next id, or that of a directory with its identity.
LEMMA StartEffect ==
    ASSUME TypeOK, NEW q, StartFresh(q) \/ Resume(q)
    PROVE  \E id \in Ids :
             /\ Start(q, id)
             /\ clock' \in [id: Ids \cup {NoId}, time: 0 .. MaxTime] /\ clock'.time = clock.time
             /\ \/ id = clock.id + 1 /\ clock'.id = id
                \/ identity[id] = Identity(q) /\ clock' = clock
<1>0. clock \in [id: Ids \cup {NoId}, time: 0 .. MaxTime]
  BY DEF TypeOK
<1>1. CASE StartFresh(q)
  <2>1. clock.id + 1 \in Ids /\ clock' = [clock EXCEPT !.id = @ + 1] /\ Start(q, clock'.id)
    BY <1>1 DEF StartFresh
  <2>2. /\ clock'.id = clock.id + 1 /\ clock'.time = clock.time
        /\ clock' \in [id: Ids \cup {NoId}, time: 0 .. MaxTime]
    BY <1>0, <2>1
  <2>3. QED BY <2>1, <2>2
<1>2. CASE Resume(q)
  BY <1>0, <1>2 DEF Resume, Candidates
<1>3. QED BY <1>1, <1>2

\* A data file is written once.
LEMMA DataStep ==
    ASSUME TypeOK, [Next]_vars
    PROVE  \/ data' = data
           \/ phase = "append" /\ CopyDataFile /\ UNCHANGED <<staged, source, clock>>
BY DEF Next, Publish, Prepare, PrepareReplace, PrepareExtend, PrepareCommitted, StartFresh, Resume, Start,
       BuildFiles, WriteSnapshotsParquet, SnapshotOriginChanged, WriteCommitParquet, AppendParquet,
       AppendInterrupted, Cleanup, CleanupFails, Stop, SourceChanges, vars, catalog

LEMMA DataStays ==
    ASSUME WarehouseInv, [Next]_vars
    PROVE  /\ data' \in [TableSet -> [Ids -> Contents \cup {Nothing}]]
           /\ \A t \in TableSet, i \in Ids :
                /\ data'[t][i] \in ContentOf(t)
                /\ data[t][i] # Nothing => data'[t][i] = data[t][i]
                /\ data'[t][i] # data[t][i] =>
                     phase = "append" /\ i = run.id /\ t = T /\ data'[t][i] = part[run.id][T]
<1>0. /\ data \in [TableSet -> [Ids -> Contents \cup {Nothing}]]
      /\ \A i \in Ids, t \in TableSet : part[i][t] \in ContentOf(t) /\ data[t][i] \in ContentOf(t)
  BY DEF WarehouseInv, TypeOK
<1>1. CASE data' = data
  BY <1>0, <1>1
<1>2. CASE phase = "append" /\ CopyDataFile
  <2>1. run.id \in Ids /\ T \in TableSet
    BY <1>2, RunIsPast, TablesAreASequence DEF T, WarehouseInv, TypeOK
  <2>2. /\ data' = [data EXCEPT ![T][run.id] = part[run.id][T]]
        /\ data[T][run.id] \in {Nothing, part[run.id][T]}
    BY <1>2 DEF CopyDataFile
  <2>3. part[run.id][T] \in ContentOf(T) /\ part[run.id][T] \in Contents \cup {Nothing}
    BY <1>0, <2>1, TypedContent
  <2> HIDE DEF T
  <2>4. QED BY <1>0, <1>2, <2>1, <2>2, <2>3
<1>3. QED BY <1>1, <1>2, DataStep DEF WarehouseInv

\* Histories only grow at their end, by the run in hand.
LEMMA LogStays ==
    ASSUME WarehouseInv, [Next]_vars
    PROVE  \A t \in TableSet :
             /\ log[t] \in Seq(Ids) /\ log'[t] \in Seq(Ids) /\ Len(log[t]) <= Len(log'[t])
             /\ \A j \in 1 .. Len(log[t]) : log'[t][j] = log[t][j]
             /\ Appended(t) \subseteq Appended(t)'
             /\ Appended(t)' # Appended(t) =>
                  phase = "append" /\ t = T /\ Appended(t)' = Appended(t) \cup {run.id}
             /\ log'[t] # log[t] => phase = "append" /\ t = T
<1>0. AppendInv /\ AppendInv' /\ Shaped /\ log \in [TableSet -> Seq(Ids)] /\ log' \in [TableSet -> Seq(Ids)]
  BY StepHistories DEF WarehouseInv, OrderInv, AppendInv, Shaped
<1>1. CASE log' = log
  BY <1>0, <1>1 DEF Appended
<1>2. CASE phase = "append" /\ FastAppend
  <2>1. T \in TableSet /\ run.id \in Ids
    BY <1>0, <1>2, TablesAreASequence DEF T, Shaped
  <2>2. log' = [log EXCEPT ![T] = IF run.id \in ToSet(@) THEN @ ELSE Append(@, run.id)]
    BY <1>2 DEF FastAppend
  <2>3. \A t \in TableSet : Appended(t)' = IF t = T THEN Appended(t) \cup {run.id} ELSE Appended(t)
    BY <1>0, <1>2, FastAppendAppends
  <2> HIDE DEF T
  <2>4. ASSUME NEW t \in TableSet
        PROVE  /\ Len(log[t]) <= Len(log'[t]) /\ \A j \in 1 .. Len(log[t]) : log'[t][j] = log[t][j]
               /\ log'[t] # log[t] => t = T
    <3>1. log[t] \in Seq(Ids)
      BY <1>0
    <3>2. log'[t] = log[t] \/ (log'[t] = Append(log[t], run.id) /\ t = T)
      BY <1>0, <2>1, <2>2
    <3>3. QED BY <2>1, <3>1, <3>2
  <2>5. QED BY <1>0, <1>2, <2>3, <2>4
<1>3. QED BY <1>0, <1>1, <1>2, StepShape

\* Whoever is not in hand keeps what it has.
LEMMA OnlyTheRun ==
    ASSUME WarehouseInv, Next
    PROVE  \/ \E q \in Requests : StartFresh(q) \/ Resume(q)
           \/ SourceChanges
           \/ /\ phase # "idle" /\ clock'.id = clock.id /\ source' = source
              /\ identity'[run.id] \in {identity[run.id], Nothing}
              /\ \A i \in Ids : i # run.id => identity'[i] = identity[i] /\ part'[i] = part[i]
<1>0. clock \in [id: Ids \cup {NoId}, time: 0 .. MaxTime]
      /\ identity \in [Ids -> Identities \cup {Nothing}]
      /\ part \in [Ids -> [TableSet -> Contents \cup {Nothing}]]
  BY DEF WarehouseInv, TypeOK
<1>1. CASE Prepare
  BY <1>0, <1>1 DEF Prepare, PrepareReplace, PrepareExtend, PrepareCommitted, WritePaths, staged
<1>2. CASE BuildFiles
  BY <1>0, <1>2 DEF BuildFiles
<1>3. CASE WriteSnapshotsParquet \/ SnapshotOriginChanged
  BY <1>0, <1>3 DEF WriteSnapshotsParquet, SnapshotOriginChanged, staged
<1>4. CASE WriteCommitParquet
  BY <1>0, <1>4 DEF WriteCommitParquet
<1>5. CASE AppendParquet \/ AppendInterrupted \/ Stop
  BY <1>0, <1>5 DEF AppendParquet, AppendInterrupted, Stop, staged
<1>6. CASE Cleanup
  <2>1. phase = "cleanup" /\ run.id \in Ids
    BY <1>6, RunIsPast DEF Cleanup
  <2>2. QED BY <1>0, <1>6, <2>1 DEF Cleanup
<1>7. CASE CleanupFails
  <2>1. PICK r : part' = [part EXCEPT ![run.id] = r]
    BY <1>7 DEF CleanupFails
  <2>2. \A i \in Ids : i # run.id => part'[i] = part[i]
    BY <1>0, <2>1
  <2>3. phase = "cleanup" /\ UNCHANGED <<identity, source, clock>>
    BY <1>7 DEF CleanupFails
  <2>4. QED BY <2>2, <2>3
<1>8. QED BY <1>1, <1>2, <1>3, <1>4, <1>5, <1>6, <1>7 DEF Next, Publish

-----------------------------------------------------------------------------
(***************************************************************************)
(* The latest generation and the origins of committed ones.                *)
(***************************************************************************)

\* What is committed has a file in every table, path_sources apart.
LEMMA CommittedFiles ==
    ASSUME WarehouseInv, NEW i \in Committed
    PROVE  /\ i \in Ids
           /\ \A t \in TableSet \ {"path_sources"} : i \in Appended(t) /\ data[t][i] # Nothing
           /\ data["commits"][i] \in Receipts /\ data["schemas"][i] \in Rows
           /\ data["snapshots"][i] \in Mappings /\ Settled(i)
<1>1. log["commits"] \in Seq(Ids)
  BY CommitsIsATable DEF WarehouseInv, TypeOK
<1>2. i \in Ids
  BY <1>1 DEF Committed, Appended, ToSet
<1>3. \A t \in TableSet \ {"path_sources"} : i \in Appended(t) /\ data[t][i] # Nothing
  BY DEF WarehouseInv, OrderInv, CommitIsLast, AppendedHasFile
<1>4. \A t \in TableSet : data[t][i] \in ContentOf(t)
  BY <1>2 DEF WarehouseInv, TypeOK
<1>5. data["commits"][i] \in Receipts /\ data["schemas"][i] \in Rows /\ data["snapshots"][i] \in Mappings
  BY <1>3, <1>4, TableNames, ContentTypes
<1>6. Settled(i)
  BY <1>2, <1>3, TableNames DEF WarehouseInv, MappingsPin, Pins
<1>7. QED BY <1>2, <1>3, <1>5, <1>6

\* ORDER BY committed_at_ns DESC LIMIT 1 has a first row when there are rows.
LEMMA LatestIsCommitted ==
    ASSUME WarehouseInv, Committed # {}
    PROVE  /\ Latest \in Committed
           /\ \A j \in Committed : data["commits"][j].at <= data["commits"][Latest].at
<1> DEFINE At(j) == data["commits"][j].at
           S == {At(j) : j \in Committed}
<1>1. \A j \in Committed : At(j) \in 1 .. MaxTime
  BY CommittedFiles DEF Receipts
<1>2. S \subseteq Nat /\ S # {} /\ MaxTime \in Nat /\ \A a \in S : a <= MaxTime
  BY <1>1, IcebergAssumption DEF IcebergAssumption
<1> HIDE DEF S
<1>3. PICK a \in S : \A b \in S : b <= a
  BY <1>2, GreatestNumber
<1> USE DEF S
<1>4. \E i \in Committed : \A j \in Committed : At(j) <= At(i)
  BY <1>3
<1>5. Latest = CHOOSE i \in Committed : \A j \in Committed : At(j) <= At(i)
  BY DEF Latest
<1>6. QED BY <1>4, <1>5

LEMMA LatestType == ASSUME WarehouseInv PROVE Latest \in Ids \cup {NoId}
BY LatestIsCommitted, CommittedFiles DEF Latest

Origin == UNION {[P -> Ids] : P \in SUBSET Paths}

LEMMA OriginsType ==
    ASSUME WarehouseInv, NEW i \in Ids, Settled(i) PROVE Origins(i) \in Origin
<1>1. CASE i \in Appended("path_sources")
  <2>1. data["path_sources"][i] \in PathSources
    BY <1>1, TableNames, ContentTypes DEF WarehouseInv, TypeOK, AppendedHasFile
  <2>2. QED BY <1>1, <2>1 DEF Origins, PathSources, Origin
<1>2. CASE i \notin Appended("path_sources")
  <2>1. i \in Committed
    BY <1>2 DEF Settled
  <2>2. data["schemas"][i].paths \in SUBSET Paths
    BY <2>1, CommittedFiles DEF Rows
  <2>3. [x \in data["schemas"][i].paths |-> i] \in [data["schemas"][i].paths -> Ids]
    OBVIOUS
  <2>4. QED BY <1>2, <2>2, <2>3 DEF Origins, Origin
<1>3. QED BY <1>1, <1>2

\* The path_sources part of an extension.
LEMMA ExtendedType ==
    ASSUME NEW O \in Origin, NEW R \in SUBSET Paths, NEW i \in Ids
    PROVE  [x \in DOMAIN O \cup R |-> IF x \in R THEN i ELSE O[x]] \in Origin
<1>1. PICK P \in SUBSET Paths : O \in [P -> Ids]
  BY DEF Origin
<1>2. [x \in P \cup R |-> IF x \in R THEN i ELSE O[x]] \in [P \cup R -> Ids] /\ P \cup R \in SUBSET Paths
  BY <1>1
<1>3. DOMAIN O = P
  BY <1>1
<1>4. QED BY <1>2, <1>3 DEF Origin

-----------------------------------------------------------------------------
(***************************************************************************)
(* The types.                                                              *)
(***************************************************************************)

Typed(X) ==
    /\ X \in [Ids -> [TableSet -> Contents \cup {Nothing}]]
    /\ \A i \in Ids, t \in TableSet : X[i][t] \in ContentOf(t)

LEMMA SetPartType ==
    ASSUME Typed(part), NEW i \in Ids, NEW t \in TableSet, NEW v \in ContentOf(t),
           part' = [part EXCEPT ![i][t] = v]
    PROVE  Typed(part')
BY TypedContent DEF Typed

LEMMA SetPartsType ==
    ASSUME Typed(part), NEW i \in Ids, NEW r, part' = [part EXCEPT ![i] = r],
           r = [t \in TableSet |-> r[t]], \A t \in TableSet : r[t] \in ContentOf(t)
    PROVE  Typed(part')
<1>1. \A t \in TableSet : r[t] \in Contents \cup {Nothing}
  BY TypedContent
<1>2. r \in [TableSet -> Contents \cup {Nothing}]
  BY <1>1
<1>3. QED BY <1>2 DEF Typed

\* The part that WritePaths stages.
LEMMA WritePathsType ==
    ASSUME WarehouseInv, phase # "idle", NEW p \in Ids \cup {NoId}, NEW o \in Origin, WritePaths(p, o)
    PROVE  Typed(part')
<1>1. Typed(part) /\ run.id \in Ids /\ "path_sources" \in TableSet
  BY RunIsPast, TableNames DEF WarehouseInv, TypeOK, Typed
<1>2. [parent |-> p, origin |-> o] \in ContentOf("path_sources")
  BY ContentTypes DEF PathSources, Origin
<1>3. QED BY <1>1, <1>2, SetPartType DEF WritePaths

LEMMA PartsType == ASSUME WarehouseInv, [Next]_vars PROVE Typed(part')
<1>0. /\ Typed(part) /\ data \in [TableSet -> [Ids -> Contents \cup {Nothing}]]
      /\ source \in Sources /\ pinned \in [TableSet -> Nat]
      /\ clock \in [id: Ids \cup {NoId}, time: 0 .. MaxTime]
  BY DEF WarehouseInv, TypeOK, Typed
<1>r. ASSUME phase # "idle"
      PROVE  run.id \in Ids /\ run.request.paths \in SUBSET Paths
  BY <1>r, RunIsPast, IcebergAssumption DEF IcebergAssumption
<1>1. CASE part' = part
  BY <1>0, <1>1
<1>2. CASE PrepareReplace
  <2>1. run.id \in Ids /\ run.request.paths \in SUBSET Paths /\ phase # "idle"
    BY <1>2, <1>r DEF PrepareReplace
  <2>2. OwnPaths \in Origin /\ NoId \in Ids \cup {NoId} /\ WritePaths(NoId, OwnPaths)
    BY <1>2, <2>1 DEF PrepareReplace, OwnPaths, Origin
  <2>3. QED BY <2>1, <2>2, WritePathsType
<1>3. CASE PrepareExtend
  <2> DEFINE O == Origins(Latest)
             R == run.request.paths
  <2>1. run.id \in Ids /\ R \in SUBSET Paths /\ phase # "idle" /\ Latest # NoId
    BY <1>3, <1>r DEF PrepareExtend
  <2>2. Latest \in Committed /\ Latest \in Ids
    BY <2>1, LatestIsCommitted, CommittedFiles DEF Latest
  <2>3. O \in Origin
    BY <2>2, OriginsType, CommittedFiles
  <2>4. WritePaths(Latest, [x \in DOMAIN O \cup R |-> IF x \in R THEN run.id ELSE O[x]])
    BY <1>3 DEF PrepareExtend
  <2> HIDE DEF O, R
  <2>5. QED BY <2>1, <2>2, <2>3, <2>4, ExtendedType, WritePathsType
<1>4. CASE BuildFiles
  <2>1. run.id \in Ids /\ run.request.paths \in SUBSET Paths
    BY <1>4, <1>r DEF BuildFiles
  <2>2. PICK e \in {FALSE} \cup {data["files"][run.id] # Nothing} :
          part' = [part EXCEPT ![run.id] = [t \in TableSet |->
                    IF t \in BaseSet /\ part[run.id][t] = Nothing
                    THEN [paths |-> run.request.paths, source |-> source, rebuilt |-> e]
                    ELSE part[run.id][t]]]
    BY <1>0, <1>4, <2>1 DEF BuildFiles, Typed
  <2> DEFINE v == [paths |-> run.request.paths, source |-> source, rebuilt |-> e]
             r == [t \in TableSet |-> IF t \in BaseSet /\ part[run.id][t] = Nothing THEN v ELSE part[run.id][t]]
  <2>3. e \in BOOLEAN
    OBVIOUS
  <2>4. v \in Rows
    BY <1>0, <2>1, <2>3 DEF Rows
  <2>5. \A t \in TableSet : r[t] \in ContentOf(t)
    BY <1>0, <2>1, <2>4, ContentTypes DEF Typed
  <2>6. r = [t \in TableSet |-> r[t]] /\ part' = [part EXCEPT ![run.id] = r]
    BY <2>2
  <2> HIDE DEF r
  <2>7. QED BY <1>0, <2>1, <2>5, <2>6, SetPartsType
<1>5. CASE WriteSnapshotsParquet
  <2>1. run.id \in Ids /\ T = "snapshots" /\ part' = [part EXCEPT ![run.id][T] = Mapping]
    BY <1>5, <1>r DEF WriteSnapshotsParquet
  <2>2. Mapping \in [PinnedSet -> Nat]
    BY <1>0, TableNames DEF Mapping
  <2>3. Mapping \in ContentOf("snapshots") /\ "snapshots" \in TableSet
    BY <2>2, ContentTypes, TableNames DEF Mappings
  <2>4. QED BY <1>0, <2>1, <2>3, SetPartType
<1>6. CASE WriteCommitParquet
  <2>1. run.id \in Ids /\ run.request \in Requests /\ T = "commits"
    BY <1>6, RunIsPast DEF WriteCommitParquet
  <2>2. CASE part' = part
    BY <1>0, <2>2
  <2>3. CASE /\ clock.time < MaxTime /\ clock' = [clock EXCEPT !.time = @ + 1]
             /\ part' = [part EXCEPT ![run.id][T] = [manifest |-> Manifest(run.request), at |-> clock'.time]]
    <3>1. Manifest(run.request) \in Sources \cup {0}
      BY <1>0 DEF Manifest
    <3>2. clock'.time \in 1 .. MaxTime
      BY <1>0, <2>3, IcebergAssumption DEF IcebergAssumption
    <3>3. [manifest |-> Manifest(run.request), at |-> clock'.time] \in ContentOf("commits")
      BY <3>1, <3>2, ContentTypes DEF Receipts
    <3>4. QED BY <1>0, <2>1, <2>3, <3>3, SetPartType, TableNames
  <2>4. QED BY <1>6, <2>2, <2>3 DEF WriteCommitParquet
<1>7. CASE Cleanup
  <2> DEFINE r == [t \in TableSet |-> Nothing]
  <2>1. run.id \in Ids /\ part' = [part EXCEPT ![run.id] = r]
    BY <1>7, <1>r DEF Cleanup
  <2>2. \A t \in TableSet : r[t] \in ContentOf(t)
    BY DEF ContentOf
  <2>3. r = [t \in TableSet |-> r[t]]
    OBVIOUS
  <2> HIDE DEF r
  <2>4. QED BY <1>0, <2>1, <2>2, <2>3, SetPartsType
<1>8. CASE CleanupFails
  <2>1. run.id \in Ids
    BY <1>8, <1>r DEF CleanupFails
  <2>2. PICK gone : part' = [part EXCEPT ![run.id] =
                      [t \in TableSet |-> IF t \in UNION gone THEN Nothing ELSE part[run.id][t]]]
    BY <1>0, <1>8, <2>1 DEF CleanupFails, Typed
  <2> DEFINE r == [t \in TableSet |-> IF t \in UNION gone THEN Nothing ELSE part[run.id][t]]
  <2>3. \A t \in TableSet : r[t] \in ContentOf(t)
    BY <1>0, <2>1 DEF ContentOf, Typed
  <2>4. r = [t \in TableSet |-> r[t]] /\ part' = [part EXCEPT ![run.id] = r]
    BY <2>2
  <2> HIDE DEF r
  <2>5. QED BY <1>0, <2>1, <2>3, <2>4, SetPartsType
<1>9. PrepareCommitted \/ SnapshotOriginChanged \/ AppendParquet \/ AppendInterrupted \/ Stop
      \/ SourceChanges \/ (\E q \in Requests : StartFresh(q) \/ Resume(q)) \/ UNCHANGED vars => part' = part
  BY DEF PrepareCommitted, SnapshotOriginChanged, AppendParquet, AppendInterrupted, Stop, SourceChanges,
         StartFresh, Resume, Start, vars, staged
<1>10. QED
  BY <1>1, <1>2, <1>3, <1>4, <1>5, <1>6, <1>7, <1>8, <1>9 DEF Next, Publish, Prepare

LEMMA NextIsWithin ==
    ASSUME NEW b \in Nat, NEW n \in 0 .. b, n < b PROVE n + 1 \in 0 .. b
OBVIOUS

LEMMA WarehouseTypeStep == ASSUME WarehouseInv, [Next]_vars PROVE TypeOK'
<1>0. TypeOK
  BY DEF WarehouseInv
<1>1. Typed(part')
  BY PartsType
<1>2. /\ data' \in [TableSet -> [Ids -> Contents \cup {Nothing}]]
      /\ \A i \in Ids, t \in TableSet : data'[t][i] \in ContentOf(t)
  BY DataStays
<1>3. log' \in [TableSet -> Seq(Ids)] /\ k' \in 1 .. Len(Tables)
  BY StepHistories DEF WarehouseInv, OrderInv, AppendInv, Shaped
<1>4. created' \subseteq TableSet
  <2>1. T \in TableSet
    BY <1>0, TablesAreASequence DEF TypeOK, T
  <2>2. QED BY <1>0, <2>1 DEF TypeOK, Next, Publish, Prepare, PrepareReplace, PrepareExtend,
       PrepareCommitted, StartFresh, Resume, Start, BuildFiles, WriteSnapshotsParquet, SnapshotOriginChanged,
       WriteCommitParquet, AppendParquet, AppendInterrupted, Cleanup, CleanupFails, Stop, SourceChanges,
       vars, catalog
<1>5. source' \in Sources
  BY <1>0 DEF TypeOK, Next, Publish, Prepare, PrepareReplace, PrepareExtend, PrepareCommitted,
       StartFresh, Resume, Start, BuildFiles, WriteSnapshotsParquet, SnapshotOriginChanged,
       WriteCommitParquet, AppendParquet, AppendInterrupted, Cleanup, CleanupFails, Stop, SourceChanges, vars
<1>6. clock' \in [id: Ids \cup {NoId}, time: 0 .. MaxTime]
  <2>1. CASE \E q \in Requests : StartFresh(q)
    BY <1>0, <2>1, StartEffect DEF TypeOK
  <2>2. CASE WriteCommitParquet
    <3>1. clock' = clock \/ (clock.time < MaxTime /\ clock' = [clock EXCEPT !.time = @ + 1])
      BY <2>2 DEF WriteCommitParquet
    <3>2. clock.time \in 0 .. MaxTime /\ MaxTime \in Nat
      BY <1>0, IcebergAssumption DEF TypeOK, IcebergAssumption
    <3>3. clock.time < MaxTime => clock.time + 1 \in 0 .. MaxTime
      BY <3>2
    <3>4. QED BY <1>0, <3>1, <3>3 DEF TypeOK
  <2>3. ~ (\E q \in Requests : StartFresh(q)) /\ ~ WriteCommitParquet => clock' = clock
    BY DEF Next, Publish, Prepare, PrepareReplace, PrepareExtend, PrepareCommitted,
       Resume, BuildFiles, WriteSnapshotsParquet, SnapshotOriginChanged,
       AppendParquet, AppendInterrupted, Cleanup, CleanupFails, Stop, SourceChanges, vars
  <2>4. QED BY <1>0, <2>1, <2>2, <2>3 DEF TypeOK
<1>7. identity' \in [Ids -> Identities \cup {Nothing}]
  <2>1. CASE \E q \in Requests : StartFresh(q) \/ Resume(q)
    <3>1. PICK q \in Requests, id \in Ids : identity' = [identity EXCEPT ![id] = Identity(q)]
      BY <1>0, <2>1, StartEffect DEF Start
    <3>2. Identity(q) \in Identities
      BY <1>0 DEF TypeOK, Identity, Identities
    <3>3. QED BY <1>0, <3>1, <3>2 DEF TypeOK
  <2>2. CASE Cleanup
    BY <1>0, <2>2 DEF TypeOK, Cleanup
  <2>3. ~ (\E q \in Requests : StartFresh(q) \/ Resume(q)) /\ ~ Cleanup => identity' = identity
    BY DEF Next, Publish, Prepare, PrepareReplace, PrepareExtend, PrepareCommitted, WritePaths,
       BuildFiles, WriteSnapshotsParquet, SnapshotOriginChanged, WriteCommitParquet,
       AppendParquet, AppendInterrupted, CleanupFails, Stop, SourceChanges, vars, staged
  <2>4. QED BY <1>0, <2>1, <2>2, <2>3 DEF TypeOK
<1>8. /\ run' \in [id: Ids, request: Requests] \cup {Nothing}
      /\ phase' \in {"idle", "prepare", "build", "write", "append", "cleanup"}
      /\ stops' \in 0 .. MaxStops
      /\ result' \in {"none", "published", "stopped", "origin changed"}
  <2>1. CASE \E q \in Requests : StartFresh(q) \/ Resume(q)
    <3>1. PICK q \in Requests, id \in Ids : run' = [id |-> id, request |-> q]
                /\ phase' = "prepare" /\ UNCHANGED <<stops, result>>
      BY <1>0, <2>1, StartEffect DEF Start
    <3>2. QED BY <1>0, <3>1 DEF TypeOK
  <2>2. CASE \E how \in {"published", "stopped", "origin changed"} : Ended(how)
    <3>1. PICK how \in {"published", "stopped", "origin changed"} : Ended(how)
      BY <2>2
    <3>2. stops' = stops \/ (stops < MaxStops /\ stops' = stops + 1)
      BY <3>1 DEF Ended
    <3>3. MaxStops \in Nat
      BY IcebergAssumption DEF IcebergAssumption
    <3>4. stops \in 0 .. MaxStops
      BY <1>0 DEF TypeOK
    <3>5. stops' \in 0 .. MaxStops
      BY <3>2, <3>3, <3>4, NextIsWithin
    <3>6. QED BY <3>1, <3>5 DEF Ended
  <2>3. CASE \E p \in {"build", "append"} : Goto(p)
    BY <1>0, <2>3 DEF TypeOK, Goto
  <2>4. CASE NextTable
    BY <1>0, <2>4 DEF TypeOK, NextTable, Step
  <2>5. CASE UNCHANGED stack /\ UNCHANGED <<stops, result>>
    BY <1>0, <2>5 DEF TypeOK, stack
  <2>6. QED
    BY <2>1, <2>2, <2>3, <2>4, <2>5 DEF Next, Publish, Prepare, PrepareReplace, PrepareExtend,
       PrepareCommitted, WritePaths, BuildFiles, WriteSnapshotsParquet, SnapshotOriginChanged,
       WriteCommitParquet, AppendParquet, AppendInterrupted, Cleanup, CleanupFails, Stop, SourceChanges, vars
<1>9. pinned' \in [TableSet -> Nat]
  <2>1. CASE \E how : Ended(how)
    BY <2>1 DEF Ended
  <2>2. CASE FastAppend
    <3>1. log'[T] \in Seq(Ids)
      BY <1>0, <1>3, TablesAreASequence DEF TypeOK, T
    <3>2. Len(log'[T]) \in Nat /\ pinned' = [pinned EXCEPT ![T] = Len(log'[T])]
      BY <2>2, <3>1 DEF FastAppend
    <3>3. QED BY <1>0, <3>2 DEF TypeOK
  <2>3. CASE pinned' = pinned
    BY <1>0, <2>3 DEF TypeOK
  <2>4. QED
    BY <2>1, <2>2, <2>3 DEF Next, Publish, Prepare, PrepareReplace, PrepareExtend,
       PrepareCommitted, WritePaths, BuildFiles, WriteSnapshotsParquet, SnapshotOriginChanged,
       WriteCommitParquet, AppendParquet, AppendInterrupted, Cleanup, CleanupFails, Stop, SourceChanges, vars,
       StartFresh, Resume, Start, Goto, stack
<1>10. QED
  BY <1>1, <1>2, <1>3, <1>4, <1>5, <1>6, <1>7, <1>8, <1>9 DEF TypeOK, Typed

-----------------------------------------------------------------------------
(***************************************************************************)
(* What a step does to one directory.                                      *)
(***************************************************************************)

\* A directory gets its identity when its id is taken, and loses it at the end.
LEMMA IdentityStep ==
    ASSUME WarehouseInv, [Next]_vars, NEW i \in Ids
    PROVE  /\ i > clock'.id => i > clock.id /\ identity'[i] = identity[i]
           /\ Known(i)' =>
                \/ Known(i) /\ identity'[i] = identity[i]
                \/ i > clock.id /\ part' = part /\ data' = data /\ log' = log
           /\ ~ Known(i) /\ ~ (i > clock.id) => ~ Known(i)'
<1>0. /\ TypeOK /\ clock.id \in Nat /\ i \in Nat
      /\ identity \in [Ids -> Identities \cup {Nothing}] /\ Nothing \notin Identities
  <2>1. TypeOK /\ Ids \subseteq Nat /\ NoId \in Nat
    BY IcebergAssumption DEF IcebergAssumption, WarehouseInv, NoId
  <2>2. clock.id \in Ids \cup {NoId} /\ identity \in [Ids -> Identities \cup {Nothing}]
    BY <2>1 DEF TypeOK
  <2>3. QED BY <2>1, <2>2, ContentTypes
<1>1. CASE \E q \in Requests : StartFresh(q) \/ Resume(q)
  <2>1. PICK q \in Requests, id \in Ids :
          /\ identity' = [identity EXCEPT ![id] = Identity(q)]
          /\ part' = part /\ data' = data /\ log' = log
          /\ (id = clock.id + 1 /\ clock'.id = id) \/ (identity[id] = Identity(q) /\ clock' = clock)
    <3>1. PICK q \in Requests : StartFresh(q) \/ Resume(q)
      BY <1>1
    <3>2. PICK id \in Ids : 
             /\ Start(q, id)
             /\ (id = clock.id + 1 /\ clock'.id = id) \/ (identity[id] = Identity(q) /\ clock' = clock)
      BY <1>0, <3>1, StartEffect
    <3>3. QED BY <3>2 DEF Start, catalog
  <2>2. Identity(q) \in Identities
    BY <1>0 DEF TypeOK, Identity, Identities
  <2>3. i # id => identity'[i] = identity[i]
    BY <1>0, <2>1
  <2>4. identity'[id] = Identity(q)
    BY <1>0, <2>1
  <2>5. CASE id = clock.id + 1 /\ clock'.id = id
    BY <1>0, <2>1, <2>2, <2>3, <2>5 DEF Known
  <2>6. CASE identity[id] = Identity(q) /\ clock' = clock
    BY <1>0, <2>1, <2>2, <2>3, <2>4, <2>6 DEF Known
  <2>7. QED BY <2>1, <2>5, <2>6
<1>2. CASE UNCHANGED <<identity, clock>>
  BY <1>2 DEF Known
<1>3. CASE /\ phase # "idle" /\ clock'.id = clock.id
           /\ identity'[run.id] \in {identity[run.id], Nothing}
           /\ \A j \in Ids : j # run.id => identity'[j] = identity[j] /\ part'[j] = part[j]
  <2>1. run.id \in Ids /\ ~ (run.id > clock.id) /\ Known(run.id)
    BY <1>3, RunIsPast
  <2>2. QED BY <1>3, <2>1 DEF Known
<1>4. QED BY <1>1, <1>2, <1>3, OnlyTheRun DEF SourceChanges, vars, staged

\* While a run is on, its request and the ROOT files do not change.
LEMMA RunStays ==
    ASSUME [Next]_vars, phase' # "idle"
    PROVE  \/ \E q \in Requests : StartFresh(q) \/ Resume(q)
           \/ phase # "idle" /\ ~ Cleanup /\ UNCHANGED <<run, identity, source>>
BY DEF Next, Publish, Prepare, PrepareReplace, PrepareExtend, PrepareCommitted, WritePaths, BuildFiles,
       WriteSnapshotsParquet, SnapshotOriginChanged, WriteCommitParquet, AppendParquet, AppendInterrupted,
       Cleanup, CleanupFails, Stop, SourceChanges, vars, stack, staged, Goto, Ended, NextTable

LEMMA OwnerStep == ASSUME WarehouseInv, [Next]_vars PROVE OwnerIsKnown'
<1> SUFFICES ASSUME phase' # "idle"
             PROVE  run' \in [id: Ids, request: Requests] /\ identity'[run'.id] = Identity(run.request)'
  BY DEF OwnerIsKnown
<1>1. CASE \E q \in Requests : StartFresh(q) \/ Resume(q)
  <2>1. PICK q \in Requests : StartFresh(q) \/ Resume(q)
    BY <1>1
  <2>2. PICK id \in Ids : Start(q, id)
    BY <2>1, StartEffect DEF WarehouseInv
  <2>3. run' = [id |-> id, request |-> q] /\ identity' = [identity EXCEPT ![id] = Identity(q)] /\ source' = source
    BY <2>2 DEF Start
  <2>4. identity'[id] = Identity(q)
    BY <2>3 DEF WarehouseInv, TypeOK
  <2>5. QED BY <2>3, <2>4 DEF Identity
<1>2. CASE phase # "idle" /\ UNCHANGED <<run, identity, source>>
  BY <1>2 DEF WarehouseInv, OwnerIsKnown, Identity
<1>3. QED BY <1>1, <1>2, RunStays

LEMMA FreshStep == ASSUME WarehouseInv, [Next]_vars PROVE FreshIsEmpty'
<1> SUFFICES ASSUME NEW i \in Ids, i > clock'.id
             PROVE  /\ identity'[i] = Nothing
                    /\ \A t \in TableSet :
                         part'[i][t] = Nothing /\ data'[t][i] = Nothing /\ i \notin Appended(t)'
  BY DEF FreshIsEmpty
<1>1. i > clock.id /\ identity'[i] = identity[i]
  BY IdentityStep
<1>2. /\ identity[i] = Nothing
      /\ \A t \in TableSet : part[i][t] = Nothing /\ data[t][i] = Nothing /\ i \notin Appended(t)
  BY <1>1 DEF WarehouseInv, FreshIsEmpty
<1>3. phase # "idle" => i # run.id
  BY <1>1, RunIsPast
<1>4. \A t \in TableSet : data'[t][i] = Nothing /\ i \notin Appended(t)'
  <2> SUFFICES ASSUME NEW t \in TableSet PROVE data'[t][i] = Nothing /\ i \notin Appended(t)'
    OBVIOUS
  <2>1. data'[t][i] = data[t][i]
    BY <1>3, DataStays
  <2>2. Appended(t)' # Appended(t) => phase # "idle" /\ Appended(t)' = Appended(t) \cup {run.id}
    BY LogStays
  <2>3. QED BY <1>2, <1>3, <2>1, <2>2
<1>5. part'[i] = part[i]
  <2>1. part' = part \/ (phase # "idle" /\ \A j \in Ids : j # run.id => part'[j] = part[j])
    <3>1. CASE \E q \in Requests : StartFresh(q) \/ Resume(q)
      BY <3>1 DEF StartFresh, Resume, Start
    <3>2. CASE SourceChanges \/ UNCHANGED vars
      BY <3>2 DEF SourceChanges, vars, staged
    <3>3. QED BY <3>1, <3>2, OnlyTheRun
  <2>2. QED BY <1>3, <2>1
<1>6. QED BY <1>1, <1>2, <1>4, <1>5

\* A history gets an id only from AppendParquet.
LEMMA AppendStep ==
    ASSUME [Next]_vars
    PROVE  \/ log' = log
           \/ AppendParquet
BY DEF Next, Publish, Prepare, PrepareReplace, PrepareExtend, PrepareCommitted, WritePaths, BuildFiles,
       WriteSnapshotsParquet, SnapshotOriginChanged, WriteCommitParquet, AppendInterrupted,
       Cleanup, CleanupFails, Stop, SourceChanges, vars, catalog, StartFresh, Resume, Start

\* What AppendParquet puts into the catalog.
LEMMA AppendEffect ==
    ASSUME WarehouseInv, AppendParquet
    PROVE  /\ run.id \in Ids /\ T \in TableSet /\ part[run.id][T] # Nothing
           /\ data'[T][run.id] = part[run.id][T] /\ run.id \in ToSet(log'[T])
           /\ \A t \in TableSet : t # T => data'[t] = data[t] /\ log'[t] = log[t]
<1>1. run.id \in Ids /\ T \in TableSet /\ part[run.id][T] # Nothing
  BY RunIsPast, TablesAreASequence DEF AppendParquet, WarehouseInv, TypeOK, T, InHand
<1>2. data' = [data EXCEPT ![T][run.id] = part[run.id][T]]
  BY DEF AppendParquet, CopyDataFile
<1>3. log' = [log EXCEPT ![T] = IF run.id \in ToSet(@) THEN @ ELSE Append(@, run.id)]
  BY DEF AppendParquet, FastAppend
<1>4. run.id \in ToSet(log'[T])
  <2>1. AppendInv /\ phase = "append" /\ FastAppend
    BY DEF AppendParquet, WarehouseInv, OrderInv
  <2>2. \A t \in TableSet : Appended(t)' = IF t = T THEN Appended(t) \cup {run.id} ELSE Appended(t)
    BY <2>1, FastAppendAppends
  <2> HIDE DEF T
  <2>3. QED BY <1>1, <2>2 DEF Appended
<1> HIDE DEF T
<1>5. data'[T][run.id] = part[run.id][T]
  BY <1>1, <1>2 DEF WarehouseInv, TypeOK
<1>6. \A t \in TableSet : t # T => data'[t] = data[t] /\ log'[t] = log[t]
  BY <1>1, <1>2, <1>3 DEF WarehouseInv, TypeOK
<1>7. QED BY <1>1, <1>4, <1>5, <1>6

LEMMA FileStep == ASSUME WarehouseInv, [Next]_vars PROVE AppendedHasFile'
<1> SUFFICES ASSUME NEW t \in TableSet, NEW i \in Appended(t)' PROVE data'[t][i] # Nothing
  BY DEF AppendedHasFile
<1>0. log'[t] \in Seq(Ids)
  BY LogStays
<1>i. i \in Ids
  BY <1>0 DEF Appended, ToSet
<1>1. CASE i \in Appended(t)
  BY <1>i, <1>1, DataStays DEF WarehouseInv, AppendedHasFile
<1>2. CASE i \notin Appended(t)
  <2>1. t = T /\ i = run.id /\ log' # log
    BY <1>2, LogStays DEF Appended
  <2>2. QED BY <2>1, AppendStep, AppendEffect
<1>3. QED BY <1>1, <1>2

-----------------------------------------------------------------------------
(***************************************************************************)
(* What is committed, appended or recorded stays.                          *)
(***************************************************************************)

LEMMA DescribedStays ==
    ASSUME WarehouseInv, [Next]_vars, NEW o, NEW x, NEW s, Described(o, x, s)
    PROVE  Described(o, x, s)'
<1>1. "files" \in BaseSet /\ BaseSet \subseteq TableSet
  BY TableNames
<1>2. ASSUME NEW t \in BaseSet
      PROVE  o \in Ids /\ o \in Appended(t)' /\ data'[t][o] = data[t][o]
  <2>1. o \in Appended(t) /\ log[t] \in Seq(Ids)
    BY <1>1, LogStays DEF Described
  <2>2. o \in Ids
    BY <2>1 DEF Appended, ToSet
  <2>3. data[t][o] # Nothing
    BY <1>1, <2>1 DEF WarehouseInv, AppendedHasFile
  <2>4. QED BY <1>1, <2>1, <2>2, <2>3, LogStays, DataStays
<1>3. QED BY <1>1, <1>2 DEF Described

LEMMA SettledStays ==
    ASSUME WarehouseInv, [Next]_vars, NEW i \in Ids, Settled(i)
    PROVE  Settled(i)' /\ Origins(i)' = Origins(i) /\ OriginSet(i)' = OriginSet(i)
<1>0. "path_sources" \in TableSet /\ "commits" \in TableSet /\ "schemas" \in TableSet
  BY TableNames
<1>1. CASE i \in Appended("path_sources")
  <2>1. i \in Appended("path_sources")'
    BY <1>0, <1>1, LogStays
  <2>2. data'["path_sources"][i] = data["path_sources"][i]
    BY <1>0, <1>1, DataStays DEF WarehouseInv, AppendedHasFile
  <2>3. QED BY <1>1, <2>1, <2>2 DEF Settled, Origins, OriginSet
<1>2. CASE i \notin Appended("path_sources") /\ i \in Committed /\ ~ Known(i)
  <2>1. ~ (i > clock.id)
    BY <1>0, <1>2 DEF WarehouseInv, FreshIsEmpty, Committed
  <2>2. ~ Known(i)'
    BY <1>2, <2>1, IdentityStep
  <2>3. i \in Committed'
    BY <1>0, <1>2, LogStays DEF Committed
  <2>4. i \notin Appended("path_sources")'
    <3>1. phase # "idle" => i # run.id
      BY <1>2, RunIsPast
    <3>2. QED BY <1>0, <1>2, <3>1, LogStays
  <2>5. data'["schemas"][i] = data["schemas"][i]
    BY <1>0, <1>2, CommittedFiles, DataStays
  <2>6. QED BY <1>2, <2>2, <2>3, <2>4, <2>5 DEF Settled, Origins, OriginSet
<1>3. QED BY <1>1, <1>2 DEF Settled

LEMMA ReachesStays ==
    ASSUME WarehouseInv, [Next]_vars, NEW i \in Ids, NEW P, identity'[i] = identity[i], Reaches(i, P)
    PROVE  Reaches(i, P)'
<1>1. ASSUME P # Nothing, P.parent # NoId
      PROVE  P.parent \in Committed' /\ Origins(P.parent)' = Origins(P.parent)
  <2>1. P.parent \in Committed
    BY <1>1 DEF Reaches
  <2>2. PICK p : p = P.parent
    OBVIOUS
  <2>3. p \in Ids /\ Settled(p)
    BY <2>1, <2>2, CommittedFiles
  <2>4. Origins(p)' = Origins(p)
    BY <2>3, SettledStays
  <2>5. p \in Committed'
    BY <2>1, <2>2, LogStays, TableNames DEF Committed
  <2>6. QED BY <2>2, <2>4, <2>5
<1>2. ASSUME P # Nothing, NEW x \in DOMAIN P.origin, x \notin identity[i].request.paths
      PROVE  Described(P.origin[x], x, identity[i].source)'
  <2>1. PICK s, o : s = identity[i].source /\ o = P.origin[x]
    OBVIOUS
  <2>2. Described(o, x, s)'
    BY <1>2, <2>1, DescribedStays DEF Reaches
  <2>3. QED BY <2>1, <2>2 DEF Described
<1>3. QED BY <1>1, <1>2 DEF Reaches

\* The origins that an extension of the latest generation records.
ExtendedPaths ==
    [x \in DOMAIN Origins(Latest) \cup run.request.paths |->
        IF x \in run.request.paths THEN run.id ELSE Origins(Latest)[x]]

\* A part stays, goes, or is written by the run in hand.
LEMMA PartStep ==
    ASSUME WarehouseInv, [Next]_vars, NEW i \in Ids, NEW t \in TableSet
    PROVE  \/ part'[i][t] \in {part[i][t], Nothing}
           \/ /\ i = run.id /\ phase # "idle"
              /\ \/ BuildFiles /\ t \in BaseSet /\ RowsOf(i, part'[i][t])
                 \/ PrepareReplace /\ t = "path_sources" /\ part'[i][t] = [parent |-> NoId, origin |-> OwnPaths]
                 \/ PrepareExtend /\ t = "path_sources" /\ part'[i][t] = [parent |-> Latest, origin |-> ExtendedPaths]
                 \/ WriteSnapshotsParquet /\ t = "snapshots" /\ part'[i][t] = Mapping
                 \/ /\ WriteCommitParquet /\ t = "commits"
                    /\ clock' = [clock EXCEPT !.time = @ + 1] /\ part'[i][t].at = clock'.time
<1>0. part \in [Ids -> [TableSet -> Contents \cup {Nothing}]]
  BY DEF WarehouseInv, TypeOK
<1>1. CASE PrepareReplace
  <2>1. run.id \in Ids /\ phase # "idle"
    BY <1>1, RunIsPast DEF PrepareReplace
  <2>2. part' = part \/ part' = [part EXCEPT ![run.id]["path_sources"] = [parent |-> NoId, origin |-> OwnPaths]]
    BY <1>1 DEF PrepareReplace, WritePaths
  <2>3. QED BY <1>0, <1>1, <2>1, <2>2
<1>2. CASE PrepareExtend
  <2>1. run.id \in Ids /\ phase # "idle"
    BY <1>2, RunIsPast DEF PrepareExtend
  <2>2. part' = part \/ part' = [part EXCEPT ![run.id]["path_sources"] = [parent |-> Latest, origin |-> ExtendedPaths]]
    BY <1>2 DEF PrepareExtend, WritePaths, ExtendedPaths
  <2>3. QED BY <1>0, <1>2, <2>1, <2>2
<1>3. CASE BuildFiles
  <2>1. run.id \in Ids /\ phase # "idle" /\ identity[run.id].request = run.request /\ identity[run.id].source = source
    BY <1>3, RunIsPast DEF BuildFiles
  <2>2. PICK e : part' = [part EXCEPT ![run.id] = [u \in TableSet |->
                    IF u \in BaseSet /\ part[run.id][u] = Nothing
                    THEN [paths |-> run.request.paths, source |-> source, rebuilt |-> e]
                    ELSE part[run.id][u]]]
    BY <1>0, <1>3, <2>1 DEF BuildFiles
  <2>3. QED BY <1>0, <1>3, <2>1, <2>2 DEF RowsOf
<1>4. CASE WriteSnapshotsParquet
  <2>1. run.id \in Ids /\ phase # "idle"
    BY <1>4, RunIsPast DEF WriteSnapshotsParquet
  <2>2. part' = [part EXCEPT ![run.id][T] = Mapping] /\ T = "snapshots"
    BY <1>4 DEF WriteSnapshotsParquet
  <2>3. QED BY <1>0, <1>4, <2>1, <2>2
<1>5. CASE WriteCommitParquet
  <2>1. run.id \in Ids /\ phase # "idle"
    BY <1>5, RunIsPast DEF WriteCommitParquet
  <2>2. T = "commits" /\ (part' = part
             \/ /\ clock' = [clock EXCEPT !.time = @ + 1]
                /\ part' = [part EXCEPT ![run.id][T] = [manifest |-> Manifest(run.request), at |-> clock'.time]])
    BY <1>5 DEF WriteCommitParquet
  <2>3. QED BY <1>0, <1>5, <2>1, <2>2
<1>6. CASE Cleanup
  <2>1. run.id \in Ids /\ phase # "idle"
    BY <1>6, RunIsPast DEF Cleanup
  <2>2. QED BY <1>0, <1>6, <2>1 DEF Cleanup
<1>7. CASE CleanupFails
  <2>1. run.id \in Ids /\ phase # "idle"
    BY <1>7, RunIsPast DEF CleanupFails
  <2>2. PICK gone : part' = [part EXCEPT ![run.id] =
                      [u \in TableSet |-> IF u \in UNION gone THEN Nothing ELSE part[run.id][u]]]
    BY <1>0, <1>7, <2>1 DEF CleanupFails
  <2>3. QED BY <1>0, <2>1, <2>2
<1>8. PrepareCommitted \/ SnapshotOriginChanged \/ AppendParquet \/ AppendInterrupted \/ Stop
      \/ SourceChanges \/ (\E q \in Requests : StartFresh(q) \/ Resume(q)) \/ UNCHANGED vars => part' = part
  BY DEF PrepareCommitted, SnapshotOriginChanged, AppendParquet, AppendInterrupted, Stop, SourceChanges,
         StartFresh, Resume, Start, vars, staged
<1>9. part' = part => part'[i][t] \in {part[i][t], Nothing}
  OBVIOUS
<1>10. QED
  BY <1>1, <1>2, <1>3, <1>4, <1>5, <1>6, <1>7, <1>8, <1>9 DEF Next, Publish, Prepare

LEMMA RowsStep == ASSUME WarehouseInv, [Next]_vars PROVE RowsAreRequested'
<1> SUFFICES ASSUME NEW i \in Ids, NEW t \in BaseSet, Known(i)'
             PROVE  RowsOf(i, part[i][t])' /\ RowsOf(i, data[t][i])'
  BY DEF RowsAreRequested
<1>0. t \in TableSet /\ t \notin {"path_sources", "snapshots", "commits"}
  BY TableNames
<1>1. CASE i > clock.id /\ part' = part /\ data' = data
  BY <1>0, <1>1 DEF WarehouseInv, FreshIsEmpty, RowsOf
<1>2. CASE Known(i) /\ identity'[i] = identity[i]
  <2>1. RowsOf(i, part[i][t]) /\ RowsOf(i, data[t][i])
    BY <1>2 DEF WarehouseInv, RowsAreRequested
  <2>2. data'[t][i] \in {data[t][i], part[i][t]}
    BY <1>0, DataStays
  <2>3. part'[i][t] \in {part[i][t], Nothing} \/ RowsOf(i, part'[i][t])
    BY <1>0, PartStep
  <2>4. QED BY <1>2, <2>1, <2>2, <2>3 DEF RowsOf
<1>3. QED BY <1>1, <1>2, IdentityStep

-----------------------------------------------------------------------------
(***************************************************************************)
(* The paths of a generation and where their rows are.                     *)
(***************************************************************************)

\* Once the base tables have the rows of a directory, all paths it records have theirs.
LEMMA OwnPathsDescribed ==
    ASSUME WarehouseInv, NEW i \in Ids, Known(i), NEW P, P # Nothing, Reaches(i, P),
           \A t \in BaseSet : i \in Appended(t)
    PROVE  \A x \in DOMAIN P.origin : Described(P.origin[x], x, identity[i].source)
<1> SUFFICES ASSUME NEW x \in DOMAIN P.origin PROVE Described(P.origin[x], x, identity[i].source)
  OBVIOUS
<1>1. CASE x \in identity[i].request.paths
  <2>1. P.origin[x] = i
    BY <1>1 DEF Reaches
  <2>2. \A t \in BaseSet : data[t][i] # Nothing
    BY TableNames DEF WarehouseInv, AppendedHasFile
  <2>3. \A t \in BaseSet : data[t][i].paths = identity[i].request.paths /\ data[t][i].source = identity[i].source
    BY <2>2 DEF WarehouseInv, RowsAreRequested, RowsOf
  <2>4. QED BY <1>1, <2>1, <2>3, TableNames DEF Described
<1>2. CASE x \notin identity[i].request.paths
  BY <1>2 DEF Reaches
<1>3. QED BY <1>1, <1>2

\* What an extension records is reached, from the files as they are now.
LEMMA ExtensionReaches ==
    ASSUME WarehouseInv, PrepareExtend
    PROVE  /\ Reaches(run.id, [parent |-> Latest, origin |-> ExtendedPaths])
           /\ [parent |-> Latest, origin |-> ExtendedPaths] # Nothing
<1> DEFINE O == Origins(Latest)
           R == run.request.paths
           P == [parent |-> Latest, origin |-> ExtendedPaths]
<1>1. /\ identity[run.id].request.paths = R /\ identity[run.id].source = source
      /\ Latest # NoId /\ ValidateOriginalFiles(Latest) /\ DOMAIN O \cap R = {}
  BY RunIsPast DEF PrepareExtend
<1>2. Latest \in Committed
  BY <1>1, LatestIsCommitted DEF Latest
<1>3. P # Nothing /\ P.parent = Latest /\ P.origin = ExtendedPaths /\ DOMAIN ExtendedPaths = DOMAIN O \cup R
  <2>1. P \in PathSources
    <3>1. run.id \in Ids /\ R \in SUBSET Paths
      BY RunIsPast, IcebergAssumption DEF PrepareExtend, IcebergAssumption
    <3>2. Latest \in Ids /\ O \in Origin
      BY <1>2, CommittedFiles, OriginsType
    <3>3. ExtendedPaths \in Origin
      BY <3>1, <3>2, ExtendedType DEF ExtendedPaths
    <3>4. QED BY <3>2, <3>3 DEF PathSources, Origin
  <2>2. QED BY <2>1, ContentTypes DEF ExtendedPaths
<1>4. \A x \in DOMAIN O : Described(O[x], x, source)
  <2>1. PICK s \in Sources : \A x \in DOMAIN O : Described(O[x], x, s)
    BY <1>2 DEF WarehouseInv, CommittedDescribed
  <2>2. \A x \in DOMAIN O : data["files"][O[x]].source = source
    BY <1>1 DEF ValidateOriginalFiles, OriginSet
  <2>3. QED BY <2>1, <2>2 DEF Described
<1>5. \A x \in R : ExtendedPaths[x] = run.id
  BY DEF ExtendedPaths
<1>6. \A x \in DOMAIN O : ExtendedPaths[x] = O[x]
  BY <1>1 DEF ExtendedPaths
<1> HIDE DEF P, O, R
<1>7. \A x \in DOMAIN P.origin :
         IF x \in R THEN P.origin[x] = run.id ELSE Described(P.origin[x], x, source)
  BY <1>3, <1>4, <1>5, <1>6
<1>8. \A x \in DOMAIN O : x \in DOMAIN P.origin /\ P.origin[x] = O[x]
  BY <1>3, <1>6
<1>9. QED
  <2>1. Reaches(run.id, P)
    BY <1>1, <1>2, <1>3, <1>7, <1>8 DEF Reaches, O
  <2>2. QED BY <1>3, <2>1 DEF P

LEMMA ReplacementReaches ==
    ASSUME WarehouseInv, PrepareReplace
    PROVE  /\ Reaches(run.id, [parent |-> NoId, origin |-> OwnPaths])
           /\ [parent |-> NoId, origin |-> OwnPaths] # Nothing
<1>1. run.id \in Ids /\ run.request.paths \in SUBSET Paths
  BY RunIsPast, IcebergAssumption DEF PrepareReplace, IcebergAssumption
<1>2. OwnPaths \in Origin
  BY <1>1 DEF OwnPaths, Origin
<1>3. [parent |-> NoId, origin |-> OwnPaths] \in PathSources
  BY <1>2 DEF PathSources, Origin
<1>4. QED BY <1>3, RunIsPast, ContentTypes DEF PrepareReplace, OwnPaths, Reaches

LEMMA PathsStep == ASSUME WarehouseInv, [Next]_vars PROVE PathsAreReached'
<1> SUFFICES ASSUME NEW i \in Ids, Known(i)'
             PROVE  Reaches(i, part[i]["path_sources"])' /\ Reaches(i, data["path_sources"][i])'
  BY DEF PathsAreReached
<1>0. "path_sources" \in TableSet /\ "path_sources" \notin BaseSet
  BY TableNames
<1>1. CASE i > clock.id /\ part' = part /\ data' = data
  BY <1>0, <1>1 DEF WarehouseInv, FreshIsEmpty, Reaches
<1>2. CASE Known(i) /\ identity'[i] = identity[i]
  <2>1. Reaches(i, part[i]["path_sources"]) /\ Reaches(i, data["path_sources"][i])
    BY <1>2 DEF WarehouseInv, PathsAreReached
  <2>2. Reaches(i, data'["path_sources"][i]) /\ Reaches(i, part'[i]["path_sources"])
    <3>1. data'["path_sources"][i] \in {data["path_sources"][i], part[i]["path_sources"]}
      BY <1>0, DataStays
    <3>2. \/ part'[i]["path_sources"] \in {part[i]["path_sources"], Nothing}
          \/ Reaches(i, part'[i]["path_sources"])
      BY <1>0, PartStep, ExtensionReaches, ReplacementReaches
    <3>3. Reaches(i, Nothing)
      BY DEF Reaches
    <3>4. QED BY <2>1, <3>1, <3>2, <3>3
  <2>3. PICK P, Q : P = data'["path_sources"][i] /\ Q = part'[i]["path_sources"]
    OBVIOUS
  <2>4. Reaches(i, P)' /\ Reaches(i, Q)'
    BY <1>2, <2>2, <2>3, ReachesStays
  <2>5. QED BY <2>3, <2>4 DEF Reaches
<1>3. QED BY <1>1, <1>2, IdentityStep

\* A generation is committed by the run that has appended all its other files.
LEMMA CommitStep ==
    ASSUME WarehouseInv, [Next]_vars, NEW i \in Committed', i \notin Committed
    PROVE  /\ AppendParquet /\ i = run.id /\ T = "commits" /\ i \in Ids /\ Known(i)
           /\ \A t \in TableSet \ {"commits"} :
                i \in Appended(t) /\ data'[t] = data[t] /\ log'[t] = log[t]
           /\ data["path_sources"][i] # Nothing
           /\ data["path_sources"][i] = part[i]["path_sources"]
<1>0. "commits" \in TableSet /\ "path_sources" \in TableSet
  BY TableNames
<1>1. phase = "append" /\ T = "commits" /\ Committed' = Committed \cup {run.id} /\ log'["commits"] # log["commits"]
  BY <1>0, LogStays DEF Committed, Appended
<1>2. i = run.id /\ AppendParquet
  BY <1>1, AppendStep
<1>3. i \in Ids /\ Known(i)
  BY <1>1, <1>2, RunIsPast
<1>4. k \in 1 .. Len(Tables) /\ Tables[k] = "commits"
  BY <1>1 DEF WarehouseInv, TypeOK, T
<1>5. \A t \in TableSet \ {"commits"} : i \in Appended(t)
  BY <1>1, <1>2, <1>4, CommitsAreLast DEF WarehouseInv, OrderInv
<1>6. \A t \in TableSet \ {"commits"} : data'[t] = data[t] /\ log'[t] = log[t]
  BY <1>1, <1>2, AppendEffect
<1>7. data["path_sources"][i] = part[i]["path_sources"]
  <2>1. PICK j \in 1 .. Len(Tables) : j < k /\ Tables[j] = "path_sources"
    BY <1>0, <1>4, CommitsAreLast
  <2>2. QED BY <1>1, <1>2, <2>1 DEF WarehouseInv, InHand
<1>8. data["path_sources"][i] # Nothing
  BY <1>0, <1>5 DEF WarehouseInv, AppendedHasFile
<1>9. QED BY <1>1, <1>2, <1>3, <1>5, <1>6, <1>7, <1>8

LEMMA CommittedDescribedStep == ASSUME WarehouseInv, [Next]_vars PROVE CommittedDescribed'
<1> SUFFICES ASSUME NEW i \in Committed'
             PROVE  \E s \in Sources : \A x \in DOMAIN Origins(i)' : Described(Origins(i)[x], x, s)'
  BY DEF CommittedDescribed
<1>1. \E s \in Sources : i \in Ids /\ Settled(i) /\ \A x \in DOMAIN Origins(i) : Described(Origins(i)[x], x, s)
  <2>1. CASE i \in Committed
    BY <2>1, CommittedFiles DEF WarehouseInv, CommittedDescribed
  <2>2. CASE i \notin Committed
    <3> DEFINE P == data["path_sources"][i]
    <3>1. /\ i \in Ids /\ Known(i) /\ P # Nothing
          /\ \A t \in TableSet \ {"commits"} : i \in Appended(t)
      BY <2>2, CommitStep
    <3>2. Reaches(i, P)
      BY <3>1 DEF WarehouseInv, PathsAreReached
    <3>3. \A x \in DOMAIN P.origin : Described(P.origin[x], x, identity[i].source)
      BY <3>1, <3>2, OwnPathsDescribed, TableNames
    <3>4. Settled(i) /\ Origins(i) = P.origin
      BY <3>1, TableNames DEF Settled, Origins
    <3>5. identity[i].source \in Sources
      BY <3>1 DEF WarehouseInv, TypeOK, Known, Identities
    <3>6. QED BY <3>1, <3>3, <3>4, <3>5
  <2>3. QED BY <2>1, <2>2
<1>2. PICK s \in Sources : i \in Ids /\ Settled(i) /\ \A x \in DOMAIN Origins(i) : Described(Origins(i)[x], x, s)
  BY <1>1
<1>3. PICK O : O = Origins(i)
  OBVIOUS
<1>4. Origins(i)' = O
  BY <1>2, <1>3, SettledStays
<1>5. \A x \in DOMAIN O : Described(O[x], x, s)'
  BY <1>2, <1>3, DescribedStays
<1>6. QED BY <1>4, <1>5 DEF Described

LEMMA PinsStay ==
    ASSUME WarehouseInv, [Next]_vars, NEW i \in Ids, NEW m, Pins(i, m)
    PROVE  Pins(i, m)'
<1> SUFFICES ASSUME m # Nothing PROVE Pins(i, m)'
  BY DEF Pins
<1>1. Settled(i)' /\ OriginSet(i)' = OriginSet(i)
  BY SettledStays DEF Pins
<1>2. ASSUME NEW t \in BaseSet PROVE Holds(i, m, t)'
  <2>1. /\ m[t] \in 0 .. Len(log[t])
        /\ \A o \in OriginSet(i) : \E j \in 1 .. m[t] : log[t][j] = o
    BY DEF Pins, Holds
  <2>2. /\ log[t] \in Seq(Ids) /\ log'[t] \in Seq(Ids) /\ Len(log[t]) <= Len(log'[t])
        /\ \A j \in 1 .. Len(log[t]) : log'[t][j] = log[t][j]
    BY LogStays, TableNames
  <2>3. Len(log[t]) \in Nat /\ Len(log'[t]) \in Nat
    BY <2>2
  <2>4. m[t] \in 0 .. Len(log'[t]) /\ \A j \in 1 .. m[t] : log'[t][j] = log[t][j]
    BY <2>1, <2>2, <2>3
  <2>5. QED BY <1>1, <2>1, <2>4 DEF Holds
<1>3. QED BY <1>1, <1>2 DEF Pins

\* The mapping is written when the run has appended to all tables it pins.
LEMMA MappingPins == ASSUME WarehouseInv, WriteSnapshotsParquet PROVE Pins(run.id, Mapping)
<1> DEFINE i == run.id
           P == data["path_sources"][i]
<1>0. /\ i \in Ids /\ Known(i) /\ k \in 1 .. Len(Tables) /\ Tables[k] = "snapshots" /\ phase = "write"
  BY RunIsPast DEF WriteSnapshotsParquet, WarehouseInv, TypeOK, T
<1>1. \A t \in PinnedSet : i \in Appended(t) /\ pinned[t] = Len(log[t])
  BY <1>0, EarlierTables DEF WarehouseInv, OrderInv, InHand
<1>2. P # Nothing /\ Settled(i) /\ Origins(i) = P.origin
  BY <1>1, TableNames DEF WarehouseInv, AppendedHasFile, Settled, Origins
<1>3. Reaches(i, P)
  BY <1>0 DEF WarehouseInv, PathsAreReached
<1>4. \A x \in DOMAIN P.origin : Described(P.origin[x], x, identity[i].source)
  BY <1>0, <1>1, <1>2, <1>3, OwnPathsDescribed, TableNames
<1>5. \A o \in OriginSet(i), t \in BaseSet : o \in Appended(t)
  BY <1>2, <1>4 DEF OriginSet, Described
<1> HIDE DEF P, i
<1>6. ASSUME NEW t \in BaseSet PROVE Holds(i, Mapping, t)
  <2>1. log[t] \in Seq(Ids) /\ t \in PinnedSet
    BY TableNames DEF WarehouseInv, TypeOK
  <2>2. Mapping[t] = Len(log[t])
    BY <1>1, <2>1 DEF Mapping
  <2>3. \A o \in OriginSet(i) : \E j \in 1 .. Len(log[t]) : log[t][j] = o
    BY <1>5, <2>1 DEF Appended, ToSet
  <2>4. QED BY <2>1, <2>2, <2>3 DEF Holds
<1>7. QED BY <1>2, <1>6 DEF Pins, i

LEMMA MappingsStep == ASSUME WarehouseInv, [Next]_vars PROVE MappingsPin'
<1> SUFFICES ASSUME NEW i \in Ids
             PROVE  Pins(i, part[i]["snapshots"])' /\ Pins(i, data["snapshots"][i])'
  BY DEF MappingsPin
<1>0. "snapshots" \in TableSet /\ "snapshots" \notin BaseSet
  BY TableNames
<1>1. Pins(i, part[i]["snapshots"]) /\ Pins(i, data["snapshots"][i])
  BY DEF WarehouseInv, MappingsPin
<1>2. data'["snapshots"][i] \in {data["snapshots"][i], part[i]["snapshots"]}
  BY <1>0, DataStays
<1>3. part'[i]["snapshots"] \in {part[i]["snapshots"], Nothing} \/ Pins(i, part'[i]["snapshots"])
  BY <1>0, PartStep, MappingPins
<1>4. Pins(i, Nothing)
  BY DEF Pins
<1>5. PICK m, n : m = data'["snapshots"][i] /\ n = part'[i]["snapshots"]
  OBVIOUS
<1>6. Pins(i, m) /\ Pins(i, n)
  BY <1>1, <1>2, <1>3, <1>4, <1>5
<1>7. Pins(i, m)' /\ Pins(i, n)'
  BY <1>6, PinsStay
<1>8. QED BY <1>5, <1>7 DEF Pins, Holds

-----------------------------------------------------------------------------
(***************************************************************************)
(* Receipts, and the generation that is the latest.                        *)
(***************************************************************************)

LEMMA TimesStep == ASSUME WarehouseInv, [Next]_vars PROVE TimesDiffer'
<1>0. /\ "commits" \in TableSet /\ "commits" \notin BaseSet
      /\ clock \in [id: Ids \cup {NoId}, time: 0 .. MaxTime] /\ MaxTime \in Nat
  BY TableNames, IcebergAssumption DEF WarehouseInv, TypeOK, IcebergAssumption
<1>1. ASSUME NEW i \in Ids
      PROVE  data'["commits"][i] \in {data["commits"][i], part[i]["commits"]}
  BY <1>0, DataStays
<1>2. CASE \A i \in Ids : part'[i]["commits"] \in {part[i]["commits"], Nothing}
  <2>1. \A i \in Ids : Times(i)' \subseteq Times(i)
    BY <1>1, <1>2 DEF Times
  <2>2. clock'.time \in Nat /\ clock.time \in Nat /\ clock.time <= clock'.time
    <3>1. clock' = clock \/ clock' = [clock EXCEPT !.time = @ + 1] \/ clock'.time = clock.time
      BY StartEffect DEF Next, Publish, Prepare, PrepareReplace, PrepareExtend, PrepareCommitted, Resume,
         BuildFiles, WriteSnapshotsParquet, SnapshotOriginChanged, WriteCommitParquet, AppendParquet,
         AppendInterrupted, Cleanup, CleanupFails, Stop, SourceChanges, vars, WarehouseInv
    <3>2. QED BY <1>0, <3>1
  <2>3. \A i \in Ids : \A a \in Times(i) : a <= clock.time
    BY DEF WarehouseInv, TimesDiffer
  <2>4. \A i \in Ids : \A a \in Times(i) : a \in Nat
    <3>1. \A i \in Ids : part[i]["commits"] \in {Nothing} \cup Receipts /\ data["commits"][i] \in {Nothing} \cup Receipts
      BY <1>0, ContentTypes DEF WarehouseInv, TypeOK
    <3>2. QED BY <1>0, <3>1 DEF Times, Receipts
  <2>5. \A i \in Ids : \A a \in Times(i)' : a <= clock'.time
    BY <2>1, <2>2, <2>3, <2>4
  <2>6. QED BY <2>1, <2>5 DEF WarehouseInv, TimesDiffer
<1>3. ASSUME NEW i \in Ids, ~ (part'[i]["commits"] \in {part[i]["commits"], Nothing}) PROVE TimesDiffer'
  <2>1. /\ i = run.id /\ WriteCommitParquet
        /\ clock' = [clock EXCEPT !.time = @ + 1] /\ part'[i]["commits"].at = clock'.time
    BY <1>0, <1>3, PartStep
  <2>2. clock'.time = clock.time + 1 /\ clock.time \in Nat /\ clock'.time \in Nat
    BY <1>0, <2>1
  <2>3. data' = data /\ \A j \in Ids : j # i => part'[j] = part[j]
    <3>1. data' = data /\ (part' = part \/ \E v : part' = [part EXCEPT ![run.id][T] = v])
      BY <2>1 DEF WriteCommitParquet, catalog
    <3>2. QED BY <2>1, <3>1 DEF WarehouseInv, TypeOK
  <2>4. Times(i)' \subseteq Times(i) \cup {clock'.time} /\ \A j \in Ids : j # i => Times(j)' = Times(j)
    BY <2>1, <2>3 DEF Times
  <2>5. \A j \in Ids : \A a \in Times(j) : a <= clock.time /\ a \in Nat
    <3>1. \A j \in Ids : part[j]["commits"] \in {Nothing} \cup Receipts /\ data["commits"][j] \in {Nothing} \cup Receipts
      BY <1>0, ContentTypes DEF WarehouseInv, TypeOK
    <3>2. QED BY <1>0, <3>1 DEF Times, Receipts, WarehouseInv, TimesDiffer
  <2>6. \A j \in Ids : \A a \in Times(j)' : a <= clock'.time
    BY <2>2, <2>4, <2>5
  <2>7. \A j \in Ids : clock'.time \notin Times(j)
    BY <2>2, <2>5
  <2>8. ASSUME NEW j \in Ids, NEW a \in Times(j)', NEW l \in Ids, l # j PROVE a \notin Times(l)'
    <3>1. \A m, n \in Ids : \A b \in Times(m) : m # n => b \notin Times(n)
      BY DEF WarehouseInv, TimesDiffer
    <3>2. a \in Times(j) \/ (a = clock'.time /\ j = i)
      BY <2>4
    <3>3. CASE l = i
      <4>1. a \in Times(j) /\ a # clock'.time
        BY <2>7, <2>8, <3>2, <3>3
      <4>2. QED BY <2>4, <2>8, <3>1, <3>3, <4>1
    <3>4. CASE l # i
      <4>1. Times(l)' = Times(l)
        BY <2>4, <3>4
      <4>2. QED BY <2>7, <2>8, <3>1, <3>2, <4>1
    <3>5. QED BY <3>3, <3>4
  <2>9. QED BY <2>6, <2>8 DEF TimesDiffer
<1>4. QED BY <1>2, <1>3

\* Two committed generations have different times.
LEMMA ReceiptsDiffer ==
    ASSUME WarehouseInv, NEW i \in Committed, NEW j \in Committed,
           data["commits"][i].at = data["commits"][j].at
    PROVE  i = j
<1>1. i \in Ids /\ j \in Ids /\ data["commits"][i] # Nothing /\ data["commits"][j] # Nothing
  BY CommittedFiles, CommitsIsATable, TableNames
<1>2. data["commits"][i].at \in Times(i) /\ data["commits"][j].at \in Times(j)
  BY <1>1 DEF Times
<1>3. QED BY <1>1, <1>2 DEF WarehouseInv, TimesDiffer

\* A warehouse that satisfies the invariant after the step; the latest generation is
\* the one it was or one that the step commits.
LEMMA LatestStep ==
    ASSUME WarehouseInv, [Next]_vars,
           TypeOK' /\ TimesDiffer' /\ AppendedHasFile' /\ OrderInv'
    PROVE  Latest' = Latest \/ (Latest' \in Committed' /\ Latest' \notin Committed)
<1>0. "commits" \in TableSet /\ Committed \subseteq Committed'
  BY CommitsIsATable, LogStays DEF Committed
<1>1. \A i \in Committed : i \in Ids /\ data'["commits"][i] = data["commits"][i]
  BY <1>0, CommittedFiles, DataStays
<1>2. CASE Committed' = {}
  BY <1>0, <1>2 DEF Latest
<1>3. CASE Committed' # {}
  <2> DEFINE At(j) == data'["commits"][j].at
             S == {At(j) : j \in Committed'}
  <2>1. \A j \in Committed' : At(j) \in 1 .. MaxTime
    <3>1. log'["commits"] \in Seq(Ids)
      BY <1>0, LogStays
    <3>2. \A j \in Committed' : j \in Ids /\ j \in Appended("commits")'
      BY <3>1 DEF Committed, Appended, ToSet
    <3>3. \A j \in Committed' : data'["commits"][j] \in Receipts
      BY <1>0, <3>2, ContentTypes DEF TypeOK, AppendedHasFile
    <3>4. QED BY <3>3 DEF Receipts
  <2>2. S \subseteq Nat /\ S # {} /\ MaxTime \in Nat /\ \A a \in S : a <= MaxTime
    BY <1>3, <2>1, IcebergAssumption DEF IcebergAssumption
  <2> HIDE DEF S
  <2>3. PICK a \in S : \A b \in S : b <= a
    BY <2>2, GreatestNumber
  <2> USE DEF S
  <2>4. \E i \in Committed' : \A j \in Committed' : At(j) <= At(i)
    BY <2>3
  <2>5. Latest' = CHOOSE i \in Committed' : \A j \in Committed' : At(j) <= At(i)
    BY <1>3 DEF Latest
  <2>6. Latest' \in Committed' /\ \A j \in Committed' : At(j) <= At(Latest')
    BY <2>4, <2>5
  <2>7. CASE Latest' \in Committed
    <3>1. Latest \in Committed /\ \A j \in Committed : data["commits"][j].at <= data["commits"][Latest].at
      BY <2>7, LatestIsCommitted
    <3>2. PICK l, m : l = Latest /\ m = Latest'
      OBVIOUS
    <3>3. l \in Committed' /\ m \in Committed' /\ At(l) <= At(m) /\ At(m) <= At(l)
      BY <1>0, <1>1, <2>6, <2>7, <3>1, <3>2
    <3>4. At(l) = At(m)
      BY <2>1, <3>3
    <3>5. data["commits"][l].at = data["commits"][m].at
      BY <1>1, <2>7, <3>1, <3>2, <3>4
    <3>6. QED BY <2>7, <3>1, <3>2, <3>5, ReceiptsDiffer
  <2>8. QED BY <2>6, <2>7
<1>4. QED BY <1>2, <1>3

-----------------------------------------------------------------------------
(***************************************************************************)
(* The run in hand.                                                        *)
(***************************************************************************)

LEMMA PrepareStep ==
    ASSUME WarehouseInv, Prepare
    PROVE  /\ phase' = "build" /\ run' = run /\ data' = data /\ log' = log
           /\ part'[run.id]["path_sources"] # Nothing
           /\ run.id \notin Committed => part'[run.id]["path_sources"].parent \in {NoId, Latest}
<1>0. part \in [Ids -> [TableSet -> Contents \cup {Nothing}]] /\ "path_sources" \in TableSet
  BY TableNames DEF WarehouseInv, TypeOK
<1>1. ASSUME NEW p, NEW o, WritePaths(p, o), phase = "prepare", [parent |-> p, origin |-> o] # Nothing
      PROVE  /\ phase' = "build" /\ run' = run
             /\ part'[run.id]["path_sources"] # Nothing
             /\ part'[run.id]["path_sources"].parent = p
  <2>1. run.id \in Ids
    BY <1>1, RunIsPast
  <2>2. QED BY <1>0, <1>1, <2>1 DEF WritePaths, Goto
<1>2. CASE PrepareReplace
  BY <1>1, <1>2, ReplacementReaches DEF PrepareReplace, catalog
<1>3. CASE PrepareExtend
  <2>1. WritePaths(Latest, ExtendedPaths) /\ phase = "prepare"
    BY <1>3 DEF PrepareExtend, ExtendedPaths
  <2>2. QED BY <1>1, <1>3, <2>1, ExtensionReaches DEF PrepareExtend, catalog
<1>4. CASE PrepareCommitted
  <2>1. run.id \in Ids /\ Latest = run.id /\ NoId \notin Ids
    BY <1>4, RunIsPast, IcebergAssumption DEF PrepareCommitted, IcebergAssumption
  <2>2. run.id \in Committed
    BY <2>1, LatestIsCommitted DEF Latest
  <2>3. QED BY <1>4, <2>2 DEF PrepareCommitted, Goto, staged, catalog
<1>5. QED BY <1>2, <1>3, <1>4 DEF Prepare

LEMMA BuildStep ==
    ASSUME WarehouseInv, BuildFiles
    PROVE  /\ phase' = "append" /\ run' = run /\ data' = data /\ log' = log /\ k' = 1
           /\ part'[run.id]["path_sources"] = part[run.id]["path_sources"]
           /\ \A t \in BaseSet : part'[run.id][t] # Nothing
<1>0. /\ part \in [Ids -> [TableSet -> Contents \cup {Nothing}]] /\ source \in Sources
      /\ run.id \in Ids /\ run.request.paths \in SUBSET Paths
  BY RunIsPast, IcebergAssumption DEF WarehouseInv, TypeOK, IcebergAssumption, BuildFiles
<1>1. PICK e \in {FALSE} \cup {data["files"][run.id] # Nothing} :
          part' = [part EXCEPT ![run.id] = [t \in TableSet |->
                    IF t \in BaseSet /\ part[run.id][t] = Nothing
                    THEN [paths |-> run.request.paths, source |-> source, rebuilt |-> e]
                    ELSE part[run.id][t]]]
  BY <1>0 DEF BuildFiles
<1>2. [paths |-> run.request.paths, source |-> source, rebuilt |-> e] # Nothing
  <2>1. e \in BOOLEAN
    OBVIOUS
  <2>2. [paths |-> run.request.paths, source |-> source, rebuilt |-> e] \in Rows
    BY <1>0, <2>1 DEF Rows
  <2>3. QED BY <2>2, ContentTypes
<1>3. k = 1
  BY DEF BuildFiles, WarehouseInv, OrderInv
<1>4. QED BY <1>0, <1>1, <1>2, <1>3, TableNames DEF BuildFiles, Goto, catalog

LEMMA WriteStep ==
    ASSUME WarehouseInv, WriteSnapshotsParquet \/ WriteCommitParquet
    PROVE  /\ phase = "write" /\ phase' = "append" /\ data' = data /\ log' = log
           /\ run' = run /\ k' = k /\ pinned' = pinned
           /\ part'[run.id][T] # Nothing
           /\ \A t \in TableSet : t # T => part'[run.id][t] = part[run.id][t]
<1>0. /\ part \in [Ids -> [TableSet -> Contents \cup {Nothing}]] /\ source \in Sources
      /\ clock \in [id: Ids \cup {NoId}, time: 0 .. MaxTime] /\ MaxTime \in Nat
      /\ pinned \in [TableSet -> Nat] /\ T \in {"snapshots", "commits"} /\ T \in TableSet
      /\ run.id \in Ids
  BY RunIsPast, IcebergAssumption, TableNames
     DEF WarehouseInv, TypeOK, IcebergAssumption, WriteSnapshotsParquet, WriteCommitParquet
<1>1. CASE WriteSnapshotsParquet
  <2>1. Mapping # Nothing
    <3>1. Mapping \in [PinnedSet -> Nat]
      BY <1>0, TableNames DEF Mapping
    <3>2. QED BY <3>1, ContentTypes DEF Mappings
  <2>2. part' = [part EXCEPT ![run.id][T] = Mapping]
    BY <1>1 DEF WriteSnapshotsParquet
  <2> HIDE DEF T
  <2>3. QED BY <1>0, <1>1, <2>1, <2>2 DEF WriteSnapshotsParquet, Goto, catalog
<1>2. CASE WriteCommitParquet
  <2>1. phase = "write" /\ Goto("append") /\ UNCHANGED catalog
    BY <1>2 DEF WriteCommitParquet
  <2>2. CASE part[run.id][T] = Nothing
    <3> DEFINE v == [manifest |-> Manifest(run.request), at |-> clock'.time]
    <3>1. clock.time < MaxTime /\ clock' = [clock EXCEPT !.time = @ + 1] /\ part' = [part EXCEPT ![run.id][T] = v]
      BY <1>2, <2>2 DEF WriteCommitParquet
    <3>2. clock'.time \in 1 .. MaxTime
      BY <1>0, <3>1
    <3>3. v # Nothing
      <4>1. Manifest(run.request) \in Sources \cup {0}
        BY <1>0 DEF Manifest
      <4>2. v \in Receipts
        BY <3>2, <4>1 DEF Receipts
      <4>3. QED BY <4>2, ContentTypes
    <3> HIDE DEF v, T
    <3>4. QED BY <1>0, <2>1, <3>1, <3>3 DEF Goto, catalog
  <2>3. CASE part[run.id][T] # Nothing
    <3>1. part' = part
      BY <1>2, <2>3 DEF WriteCommitParquet
    <3>2. QED BY <2>1, <2>3, <3>1 DEF Goto, catalog
  <2>4. QED BY <2>2, <2>3
<1>3. QED BY <1>1, <1>2

\* A run that goes on to the next table.
LEMMA NextTableStep ==
    ASSUME WarehouseInv, AppendParquet, phase' \in {"append", "write"}
    PROVE  /\ run' = run /\ part' = part /\ T # "commits" /\ k' = k + 1 /\ k' \in 1 .. Len(Tables)
           /\ phase' = "append" => Tables[k'] \in BaseSet \cup {"path_sources"}
           /\ phase' = "write" => Tables[k'] \in {"snapshots", "commits"}
           /\ \A j \in 1 .. k :
                /\ Tables[j] = "path_sources" =>
                     data'["path_sources"][run.id] = part[run.id]["path_sources"]
                /\ Tables[j] \in PinnedSet => pinned'[Tables[j]] = Len(log'[Tables[j]])
<1>0. /\ k \in 1 .. Len(Tables) /\ Len(Tables) \in Nat /\ phase = "append"
      /\ pinned \in [TableSet -> Nat] /\ log \in [TableSet -> Seq(Ids)]
      /\ PinnedSet \subseteq TableSet
  <2>1. Len(Tables) \in Nat /\ PinnedSet \subseteq TableSet
    BY TablesAreASequence, TableNames
  <2>2. TypeOK
    BY DEF WarehouseInv
  <2>3. k \in 1 .. Len(Tables) /\ pinned \in [TableSet -> Nat] /\ log \in [TableSet -> Seq(Ids)]
    BY <2>2 DEF TypeOK
  <2>4. QED BY <2>1, <2>3 DEF AppendParquet
<1>1. k # Len(Tables) /\ phase' = Step(k + 1) /\ k' = k + 1 /\ run' = run /\ part' = part
  BY DEF AppendParquet, NextTable, staged
<1>2. k' \in 1 .. Len(Tables)
  BY <1>0, <1>1
<1>3. T # "commits"
  BY <1>0, <1>1, LastPlaces, TablesShape DEF T
<1>4. /\ phase' = "append" => Tables[k'] \in BaseSet \cup {"path_sources"}
      /\ phase' = "write" => Tables[k'] \in {"snapshots", "commits"}
  BY <1>1, <1>2, TablesAreASequence, TableNames DEF Step
<1>5. \A j \in 1 .. Len(Tables) : j < k =>
         /\ Tables[j] = "path_sources" =>
              data["path_sources"][run.id] = part[run.id]["path_sources"]
         /\ Tables[j] \in PinnedSet => pinned[Tables[j]] = Len(log[Tables[j]])
  BY <1>0 DEF WarehouseInv, InHand
<1>6. /\ run.id \in Ids /\ T \in TableSet /\ data'[T][run.id] = part[run.id][T]
      /\ \A t \in TableSet : t # T => data'[t] = data[t] /\ log'[t] = log[t]
  BY AppendEffect
<1>7. /\ pinned'[T] = Len(log'[T])
      /\ \A t \in TableSet : t # T => pinned'[t] = pinned[t]
  BY <1>0, <1>6 DEF AppendParquet, FastAppend
<1>8. ASSUME NEW j \in 1 .. k
      PROVE  /\ Tables[j] = "path_sources" =>
                  data'["path_sources"][run.id] = part[run.id]["path_sources"]
             /\ Tables[j] \in PinnedSet => pinned'[Tables[j]] = Len(log'[Tables[j]])
  <2>1. j \in 1 .. Len(Tables) /\ (j < k \/ Tables[j] = T)
    BY <1>0 DEF T
  <2>2. CASE Tables[j] = T
    BY <1>6, <1>7, <2>2
  <2>3. CASE Tables[j] # T
    <3>1. j < k
      BY <2>1, <2>3
    <3>2. QED BY <1>0, <1>5, <1>6, <1>7, <2>1, <2>3, <3>1, TableNames
  <2>4. QED BY <2>2, <2>3
<1>9. QED BY <1>1, <1>2, <1>3, <1>4, <1>8

LEMMA InHandStep ==
    ASSUME WarehouseInv, [Next]_vars,
           Latest' = Latest \/ (Latest' \in Committed' /\ Latest' \notin Committed)
    PROVE  InHand'
<1> USE TableNames
<1>0. TypeOK /\ InHand /\ part \in [Ids -> [TableSet -> Contents \cup {Nothing}]]
  BY DEF WarehouseInv, TypeOK
<1>c. ASSUME log'["commits"] = log["commits"] PROVE Committed' = Committed /\ Latest' = Latest
  BY <1>c DEF Committed, Appended
<1>1. CASE Prepare
  <2>1. PICK P, i : P = part'[run.id]["path_sources"] /\ i = run.id
    OBVIOUS
  <2>2. QED BY <1>1, <1>c, <2>1, PrepareStep DEF InHand
<1>2. CASE BuildFiles
  <2>1. /\ phase = "build" /\ phase' = "append" /\ run' = run /\ data' = data /\ log' = log /\ k' = 1
        /\ part'[run.id]["path_sources"] = part[run.id]["path_sources"]
        /\ \A t \in BaseSet : part'[run.id][t] # Nothing
    BY <1>2, BuildStep DEF BuildFiles
  <2>2. Tables[1] \in BaseSet
    <3>1. Len(Base) >= 1
      <4>1. DOMAIN Base # {}
        BY DEF BaseSet, ToSet
      <4>2. Base \in Seq(BaseSet)
        BY IcebergAssumption DEF IcebergAssumption
      <4>3. QED BY <4>1, <4>2
    <3>2. QED BY <3>1, LastPlaces, TablesShape
  <2>3. /\ part[run.id]["path_sources"] # Nothing
        /\ run.id \notin Committed => part[run.id]["path_sources"].parent \in {NoId, Latest}
    BY <1>0, <2>1 DEF InHand
  <2>4. \A j \in 1 .. Len(Tables) : ~ (j < 1)
    OBVIOUS
  <2>5. QED BY <1>c, <2>1, <2>2, <2>3, <2>4 DEF InHand, T
<1>3. CASE WriteSnapshotsParquet \/ WriteCommitParquet
  <2>1. /\ phase = "write" /\ phase' = "append" /\ data' = data /\ log' = log
        /\ run' = run /\ k' = k /\ pinned' = pinned
        /\ part'[run.id][T] # Nothing
        /\ \A t \in TableSet : t # T => part'[run.id][t] = part[run.id][t]
    BY <1>3, WriteStep
  <2>2. T \in {"snapshots", "commits"}
    BY <1>0, <2>1 DEF InHand
  <2>3. /\ part'[run.id]["path_sources"] = part[run.id]["path_sources"]
        /\ \A t \in BaseSet : part'[run.id][t] = part[run.id][t]
    BY <2>1, <2>2
  <2>4. QED BY <1>0, <1>c, <2>1, <2>3 DEF InHand, T
<1>4. CASE AppendParquet /\ phase' \in {"append", "write"}
  <2>1. /\ run' = run /\ part' = part /\ T # "commits" /\ k' = k + 1 /\ k' \in 1 .. Len(Tables)
        /\ phase' = "append" => Tables[k'] \in BaseSet \cup {"path_sources"}
        /\ phase' = "write" => Tables[k'] \in {"snapshots", "commits"}
        /\ \A j \in 1 .. k :
             /\ Tables[j] = "path_sources" =>
                  data'["path_sources"][run.id] = part[run.id]["path_sources"]
             /\ Tables[j] \in PinnedSet => pinned'[Tables[j]] = Len(log'[Tables[j]])
    BY <1>4, NextTableStep
  <2>2. phase = "append" /\ log'["commits"] = log["commits"] /\ Committed' = Committed /\ Latest' = Latest
    BY <1>4, <1>c, <2>1, AppendEffect DEF AppendParquet
  <2>3. /\ part[run.id]["path_sources"] # Nothing /\ \A t \in BaseSet : part[run.id][t] # Nothing
        /\ run.id \notin Committed => part[run.id]["path_sources"].parent \in {NoId, Latest}
    BY <1>0, <2>2 DEF InHand
  <2>4. \A j \in 1 .. Len(Tables) : j < k' => j \in 1 .. k
    <3>1. k \in 1 .. Len(Tables) /\ Len(Tables) \in Nat
      BY <1>0, TablesAreASequence DEF TypeOK
    <3>2. k' = k + 1
      BY <2>1
    <3>3. QED BY <3>1, <3>2
  <2>5. QED BY <2>1, <2>2, <2>3, <2>4 DEF InHand, T
<1>5. CASE UNCHANGED vars
  BY <1>0, <1>5 DEF InHand, vars, staged, catalog, stack, T, Committed, Appended, Latest
<1>6. CASE phase' \in {"idle", "prepare", "cleanup"}
  BY <1>6 DEF InHand
<1>7. Prepare \/ BuildFiles \/ WriteSnapshotsParquet \/ WriteCommitParquet
      \/ (AppendParquet /\ phase' \in {"append", "write"}) \/ UNCHANGED vars
      \/ phase' \in {"idle", "prepare", "cleanup"}
  BY DEF Next, Publish, StartFresh, Resume, Start, SnapshotOriginChanged, AppendParquet, NextTable, Step,
         AppendInterrupted, Cleanup, CleanupFails, Stop, SourceChanges, Ended, stack
<1>8. QED BY <1>1, <1>2, <1>3, <1>4, <1>5, <1>6, <1>7

-----------------------------------------------------------------------------
(***************************************************************************)
(* The initial states.                                                     *)
(***************************************************************************)

LEMMA InitRun ==
    ASSUME Init
    PROVE  /\ identity \in [Ids -> Identities \cup {Nothing}] /\ \A i \in Ids : identity[i] = Nothing
           /\ part \in [Ids -> [TableSet -> Contents \cup {Nothing}]]
           /\ \A i \in Ids, t \in TableSet : part[i][t] = Nothing
           /\ source \in Sources /\ run = Nothing /\ phase = "idle" /\ k \in 1 .. Len(Tables)
           /\ pinned \in [TableSet -> Nat] /\ stops \in 0 .. MaxStops /\ result = "none"
<1>1. source \in Sources
  BY IcebergAssumption DEF Init, IcebergAssumption
<1>2. k \in 1 .. Len(Tables)
  BY TablesAreASequence DEF Init
<1>3. stops \in 0 .. MaxStops
  BY IcebergAssumption DEF Init, IcebergAssumption
<1>4. QED BY <1>1, <1>2, <1>3 DEF Init

\* A warehouse whose catalog is empty.
LEMMA InitEmpty ==
    ASSUME Init, NEW c \in Ids \cup {NoId},
           data = [t \in TableSet |-> [i \in Ids |-> Nothing]] /\ created = {},
           log = [t \in TableSet |-> <<>>], clock = [id |-> c, time |-> 0]
    PROVE  WarehouseInv
<1>1. \A t \in TableSet : log[t] = <<>> /\ Appended(t) = {}
  BY DEF Appended, ToSet
<1>2. Committed = {} /\ Appended("path_sources") = {}
  BY <1>1, TableNames DEF Committed
<1>3. \A i \in Ids, t \in TableSet : data[t][i] = Nothing
  OBVIOUS
<1>4. TypeOK
  <2>1. clock \in [id: Ids \cup {NoId}, time: 0 .. MaxTime]
    BY IcebergAssumption DEF IcebergAssumption
  <2>2. data \in [TableSet -> [Ids -> Contents \cup {Nothing}]] /\ created \subseteq TableSet
        /\ log \in [TableSet -> Seq(Ids)]
    OBVIOUS
  <2>3. \A i \in Ids, t \in TableSet : part[i][t] \in ContentOf(t) /\ data[t][i] \in ContentOf(t)
    BY <1>3, InitRun DEF ContentOf
  <2>4. QED BY <2>1, <2>2, <2>3, InitRun DEF TypeOK
<1>5. RowsAreRequested /\ PathsAreReached /\ OwnerIsKnown /\ InHand
  BY InitRun DEF RowsAreRequested, PathsAreReached, OwnerIsKnown, InHand, Known
<1>6. FreshIsEmpty /\ AppendedHasFile /\ CommittedDescribed
  BY <1>1, <1>2, <1>3, InitRun DEF FreshIsEmpty, AppendedHasFile, CommittedDescribed
<1>7. MappingsPin /\ TimesDiffer
  BY <1>3, InitRun, TableNames DEF MappingsPin, Pins, TimesDiffer, Times
<1>8. QED BY <1>4, <1>5, <1>6, <1>7, InitOrder DEF WarehouseInv

\* A catalog of before path_sources: generation id, which has only its own paths.
LEMMA InitLegacy ==
    ASSUME Init, NEW id \in Ids, Legacy(id)
    PROVE  WarehouseInv
<1> DEFINE Q == (CHOOSE q \in Requests : q.mode = "replace").paths
           rows == [paths |-> Q, source |-> source, rebuilt |-> FALSE]
<1>q. Q \in SUBSET Paths
  <2>1. (CHOOSE q \in Requests : q.mode = "replace") \in Requests
    BY IcebergAssumption DEF IcebergAssumption
  <2>2. QED BY <2>1, IcebergAssumption DEF IcebergAssumption
<1> HIDE DEF Q
<1>1. /\ \A t \in TableSet, i \in Ids : i # id => data[t][i] = Nothing
      /\ \A t \in BaseSet : data[t][id] = rows
      /\ data["path_sources"][id] = Nothing
      /\ data["snapshots"][id] = [b \in BaseSet |-> 1]
      /\ data["commits"][id] = [manifest |-> source, at |-> 1]
      /\ DOMAIN data = TableSet /\ \A t \in TableSet : DOMAIN data[t] = Ids
      /\ data = [t \in TableSet |-> [i \in Ids |-> data[t][i]]]
  BY TableNames DEF Legacy, Q
<1>2. /\ log = [t \in TableSet |-> IF t = "path_sources" THEN <<>> ELSE <<id>>]
      /\ created \subseteq TableSet /\ clock = [id |-> id, time |-> 1]
  BY DEF Legacy
<1>3. /\ Appended("path_sources") = {}
      /\ \A t \in TableSet \ {"path_sources"} : log[t] = <<id>> /\ Appended(t) = {id}
  <2>1. ToSet(<<>>) = {} /\ ToSet(<<id>>) = {id}
    BY DEF ToSet
  <2>2. QED BY <1>2, <2>1, TableNames DEF Appended
<1>4. Committed = {id} /\ \A t \in BaseSet : Appended(t) = {id} /\ log[t] = <<id>>
  BY <1>3, TableNames DEF Committed
<1>5. \A i \in Ids : ~ Known(i)
  BY InitRun DEF Known
<1>6. rows \in Rows /\ source \in Sources
  BY <1>q, InitRun DEF Rows
<1>7. /\ \A t \in BaseSet : data[t][id] \in ContentOf(t)
      /\ data["snapshots"][id] \in Mappings /\ data["commits"][id] \in Receipts
  <2>1. 1 \in 1 .. MaxTime
    BY IcebergAssumption DEF IcebergAssumption
  <2>2. data["commits"][id] \in Receipts
    BY <1>1, <1>6, <2>1 DEF Receipts
  <2>3. data["snapshots"][id] \in Mappings
    BY <1>1 DEF Mappings
  <2>4. \A t \in BaseSet : data[t][id] \in ContentOf(t)
    <3> HIDE DEF rows
    <3>1. QED BY <1>1, <1>6, ContentTypes
  <2>5. QED BY <2>2, <2>3, <2>4
<1>8. \A i \in Ids, t \in TableSet : data[t][i] \in ContentOf(t)
  <2> SUFFICES ASSUME NEW i \in Ids, NEW t \in TableSet PROVE data[t][i] \in ContentOf(t)
    OBVIOUS
  <2>1. CASE i # id
    BY <1>1, <2>1 DEF ContentOf
  <2>2. CASE i = id
    BY <1>1, <1>7, <2>2, TableNames, ContentTypes
  <2>3. QED BY <2>1, <2>2
<1>9. TypeOK
  <2>1. clock \in [id: Ids \cup {NoId}, time: 0 .. MaxTime]
    BY <1>2, IcebergAssumption DEF IcebergAssumption
  <2>2. \A i \in Ids, t \in TableSet : data[t][i] \in Contents \cup {Nothing}
    BY <1>8, TypedContent
  <2>3. data \in [TableSet -> [Ids -> Contents \cup {Nothing}]]
    BY <1>1, <2>2
  <2>4. log \in [TableSet -> Seq(Ids)]
    BY <1>2
  <2>5. \A i \in Ids, t \in TableSet : part[i][t] \in ContentOf(t)
    BY InitRun DEF ContentOf
  <2>6. QED BY <1>2, <1>8, <2>1, <2>3, <2>4, <2>5, InitRun DEF TypeOK
<1>10. FreshIsEmpty
  <2>1. \A i \in Ids : i > clock.id => i # id
    <3>1. id \in Nat /\ clock.id = id
      BY <1>2, IcebergAssumption DEF IcebergAssumption
    <3>2. QED BY <3>1
  <2>2. ASSUME NEW i \in Ids, i # id, NEW t \in TableSet PROVE i \notin Appended(t)
    BY <1>3, <2>2
  <2>3. QED BY <1>1, <2>1, <2>2, InitRun DEF FreshIsEmpty
<1>11. AppendedHasFile
  <2>1. \A t \in TableSet : Appended(t) \subseteq {id} /\ Appended("path_sources") = {}
    BY <1>3
  <2>2. \A t \in TableSet \ {"path_sources"} : data[t][id] # Nothing
    BY <1>1, <1>6, <1>7, TableNames, ContentTypes
  <2>3. QED BY <2>1, <2>2 DEF AppendedHasFile
<1>12. Origins(id) = [x \in Q |-> id]
  BY <1>1, <1>3, TableNames DEF Origins
<1>13. CommittedDescribed
  <2>1. \A x \in Q : Described(id, x, source)
    BY <1>1, <1>4, TableNames DEF Described
  <2>2. QED BY <1>4, <1>6, <1>12, <2>1 DEF CommittedDescribed
<1>14. MappingsPin
  <2> DEFINE m == data["snapshots"][id]
  <2>1. Settled(id)
    BY <1>4, <1>5 DEF Settled
  <2>2. ASSUME NEW t \in BaseSet PROVE Holds(id, m, t)
    <3>1. m[t] = 1 /\ log[t] = <<id>> /\ OriginSet(id) \subseteq {id}
      BY <1>1, <1>4, <1>12 DEF OriginSet
    <3>2. QED BY <3>1 DEF Holds
  <2>3. Pins(id, m)
    BY <2>1, <2>2 DEF Pins
  <2>4. \A i \in Ids : i # id => data["snapshots"][i] = Nothing
    BY <1>1, TableNames
  <2>5. \A i \in Ids : Pins(i, Nothing)
    BY DEF Pins
  <2>6. QED BY <2>3, <2>4, <2>5, InitRun, TableNames DEF MappingsPin
<1>15. TimesDiffer
  <2>1. \A i \in Ids : i # id => Times(i) = {}
    <3>1. \A i \in Ids : i # id => part[i]["commits"] = Nothing /\ data["commits"][i] = Nothing
      BY <1>1, InitRun, TableNames
    <3>2. QED BY <3>1 DEF Times
  <2>2. Times(id) \subseteq {1}
    BY <1>1, InitRun, TableNames DEF Times
  <2>3. QED BY <1>2, <2>1, <2>2 DEF TimesDiffer
<1>16. RowsAreRequested /\ PathsAreReached /\ OwnerIsKnown /\ InHand
  BY <1>5, InitRun DEF RowsAreRequested, PathsAreReached, OwnerIsKnown, InHand
<1>17. QED BY <1>9, <1>10, <1>11, <1>13, <1>14, <1>15, <1>16, InitOrder DEF WarehouseInv

LEMMA InitWarehouse == Init => WarehouseInv
<1> SUFFICES ASSUME Init PROVE WarehouseInv
  OBVIOUS
<1>1. NoId \in Ids \cup {NoId}
  OBVIOUS
<1>2. \/ /\ data = [t \in TableSet |-> [i \in Ids |-> Nothing]] /\ created = {}
         /\ log = [t \in TableSet |-> <<>>] /\ clock = [id |-> NoId, time |-> 0]
      \/ Legacy(CHOOSE i \in Ids : \A j \in Ids : i <= j)
  BY DEF Init
<1>3. QED BY <1>1, <1>2, InitEmpty, InitLegacy, OldestId

LEMMA WarehouseStep == ASSUME WarehouseInv, [Next]_vars PROVE WarehouseInv'
<1>1. TypeOK' /\ OrderInv'
  BY WarehouseTypeStep, StepOrder DEF WarehouseInv
<1>2. FreshIsEmpty' /\ AppendedHasFile' /\ OwnerIsKnown' /\ TimesDiffer'
  BY FreshStep, FileStep, OwnerStep, TimesStep
<1>3. RowsAreRequested' /\ PathsAreReached' /\ CommittedDescribed' /\ MappingsPin'
  BY RowsStep, PathsStep, CommittedDescribedStep, MappingsStep
<1>4. InHand'
  BY <1>1, <1>2, LatestStep, InHandStep
<1>5. QED BY <1>1, <1>2, <1>3, <1>4 DEF WarehouseInv

LEMMA WarehouseIsKept == Spec => []WarehouseInv
<1>1. WarehouseInv /\ [Next]_vars => WarehouseInv'
  BY WarehouseStep
<1>2. QED BY InitWarehouse, <1>1, PTL DEF Spec

-----------------------------------------------------------------------------
(***************************************************************************)
(* The theorems.                                                           *)
(***************************************************************************)

\* What the code stages and publishes has the shape that its readers expect, through
\* every resumed, refused and interrupted run.
THEOREM WarehouseTypeCorrect == Spec => []TypeOK
<1>1. WarehouseInv => TypeOK
  BY DEF WarehouseInv
<1>2. QED BY WarehouseIsKept, <1>1, PTL

\* The native snapshot that a mapping pins holds the first files of the table.
LEMMA PinnedPrefix ==
    ASSUME NEW S, NEW s \in Seq(S), NEW m \in 0 .. Len(s)
    PROVE  ToSet(SubSeq(s, 1, m)) = {s[j] : j \in 1 .. m}
<1>1. /\ Len(s) \in Nat /\ m \in Int /\ 1 \in Int /\ m \in Nat
      /\ \A j \in 1 .. m : s[j] \in S
  OBVIOUS
<1>2. /\ SubSeq(s, 1, m) \in Seq(S)
      /\ Len(SubSeq(s, 1, m)) = IF 1 <= m THEN m - 1 + 1 ELSE 0
      /\ \A j \in 1 .. m - 1 + 1 : SubSeq(s, 1, m)[j] = s[1 + j - 1]
  BY <1>1, SubSeqProperties
<1>3. DOMAIN SubSeq(s, 1, m) = 1 .. m /\ \A j \in 1 .. m : SubSeq(s, 1, m)[j] = s[j]
  BY <1>1, <1>2
<1>4. QED BY <1>3 DEF ToSet

\* The files of all origins of a committed generation are under its native snapshots.
OriginsArePinned ==
    \A i \in Committed, t \in BaseSet :
        /\ data["snapshots"][i][t] \in 0 .. Len(log[t])
        /\ PinnedIds(i, t) = {log[t][j] : j \in 1 .. data["snapshots"][i][t]}
        /\ OriginSet(i) \subseteq PinnedIds(i, t)

LEMMA CommittedIsPinned == WarehouseInv => OriginsArePinned
<1> SUFFICES ASSUME WarehouseInv, NEW i \in Committed, NEW t \in BaseSet
             PROVE  /\ data["snapshots"][i][t] \in 0 .. Len(log[t])
                    /\ PinnedIds(i, t) = {log[t][j] : j \in 1 .. data["snapshots"][i][t]}
                    /\ OriginSet(i) \subseteq PinnedIds(i, t)
  BY DEF OriginsArePinned
<1>1. i \in Ids /\ data["snapshots"][i] # Nothing
  BY CommittedFiles, ContentTypes
<1>2. Holds(i, data["snapshots"][i], t)
  BY <1>1 DEF WarehouseInv, MappingsPin, Pins
<1>3. log[t] \in Seq(Ids)
  BY TableNames DEF WarehouseInv, TypeOK
<1>4. PinnedIds(i, t) = {log[t][j] : j \in 1 .. data["snapshots"][i][t]}
  BY <1>2, <1>3, PinnedPrefix DEF Holds, PinnedIds
<1>5. QED BY <1>2, <1>4 DEF Holds

\* A committed generation can be read, however many runs were interrupted, refused or
\* resumed while it and its ancestors were published: ResolveSources and PathSnapshot
\* find, under the native snapshots its mapping pins, the rows of every path in every
\* base table, all built from one state of the ROOT files.
THEOREM CommittedGenerationsAreReadable == Spec => []CommittedIsReadable
<1>1. WarehouseInv => CommittedIsReadable
  <2> SUFFICES ASSUME WarehouseInv, NEW i \in Committed
               PROVE  /\ i \in Appended("snapshots")
                      /\ \A p \in DOMAIN Origins(i), t \in BaseSet :
                           /\ Origins(i)[p] \in PinnedIds(i, t)
                           /\ p \in data[t][Origins(i)[p]].paths
                      /\ \A o, u \in OriginSet(i) : data["files"][o].source = data["files"][u].source
    BY DEF CommittedIsReadable
  <2>1. i \in Appended("snapshots")
    BY CommittedFiles, TableNames
  <2>2. PICK s \in Sources : \A x \in DOMAIN Origins(i) : Described(Origins(i)[x], x, s)
    BY DEF WarehouseInv, CommittedDescribed
  <2>3. \A t \in BaseSet : OriginSet(i) \subseteq PinnedIds(i, t)
    BY CommittedIsPinned DEF OriginsArePinned
  <2>4. QED BY <2>1, <2>2, <2>3 DEF OriginSet, Described
<1>2. QED BY WarehouseIsKept, <1>1, PTL

\* PrepareRootIcebergPathSources: what is committed as an extension has every path of
\* the generation that was the latest until then, with the rows it had there, also
\* when the run that prepared it is not the one that commits it.
THEOREM ExtensionsKeepPaths == Spec => ExtensionKeepsPaths
<1>1. ASSUME WarehouseInv, [Next]_vars
      PROVE  [\A i \in Ids :
                i \in ToSet(log'["commits"]) \ Committed /\ data["path_sources"][i].parent # NoId =>
                  \A p \in DOMAIN Origins(Latest) :
                      p \in DOMAIN Origins(i) /\ Origins(i)[p] = Origins(Latest)[p] ]_vars
  <2> SUFFICES ASSUME NEW i \in Ids, i \in Committed', i \notin Committed,
                      data["path_sources"][i].parent # NoId, NEW p \in DOMAIN Origins(Latest)
               PROVE  p \in DOMAIN Origins(i) /\ Origins(i)[p] = Origins(Latest)[p]
    BY DEF Committed, Appended
  <2> DEFINE P == data["path_sources"][i]
  <2>1. /\ phase = "append" /\ i = run.id /\ Known(i) /\ P # Nothing
        /\ P = part[i]["path_sources"] /\ i \in Appended("path_sources")
    BY <1>1, CommitStep, TableNames DEF AppendParquet
  <2>2. P.parent = Latest
    BY <2>1, <1>1 DEF WarehouseInv, InHand
  <2>3. Reaches(i, P)
    BY <1>1, <2>1 DEF WarehouseInv, PathsAreReached
  <2>4. QED BY <2>1, <2>2, <2>3 DEF Reaches, Origins
<1>2. QED BY WarehouseIsKept, <1>1, PTL DEF Spec, ExtensionKeepsPaths

-----------------------------------------------------------------------------
(***************************************************************************)
(* The warehouse implements Generations.                                   *)
(***************************************************************************)

LEMMA VisibleRows ==
    \A i \in Ids, t \in BaseSet :
        Visible[i][t] = IF i \in Committed THEN {data[t][o] : o \in OriginSet(i) \cap PinnedIds(i, t)} ELSE {}
BY DEF Visible

\* The rows of a committed generation stay, whatever is appended to the tables.
LEMMA VisibleStays ==
    ASSUME WarehouseInv, WarehouseInv', [Next]_vars, NEW i \in Ids, i \in Committed \/ i \notin Committed'
    PROVE  Visible'[i] = Visible[i]
<1>0. "commits" \in TableSet /\ Committed \subseteq Committed' /\ BaseSet \subseteq TableSet
  BY TableNames, LogStays DEF Committed
<1>1. CASE i \notin Committed'
  BY <1>0, <1>1 DEF Visible
<1>2. CASE i \in Committed
  <2>1. OriginSet(i)' = OriginSet(i)
    BY <1>2, CommittedFiles, SettledStays
  <2>2. OriginsArePinned /\ OriginsArePinned'
    BY CommittedIsPinned, PTL
  <2>3. data'["snapshots"][i] = data["snapshots"][i]
    BY <1>2, CommittedFiles, DataStays, TableNames
  <2>4. ASSUME NEW t \in BaseSet
        PROVE  /\ PinnedIds(i, t)' = PinnedIds(i, t)
               /\ \A o \in PinnedIds(i, t) : data'[t][o] = data[t][o]
    <3> DEFINE m == data["snapshots"][i][t]
    <3>1. /\ m \in 0 .. Len(log[t]) /\ PinnedIds(i, t) = {log[t][j] : j \in 1 .. m}
          /\ PinnedIds(i, t)' = {log'[t][j] : j \in 1 .. m}
      BY <1>0, <1>2, <2>2, <2>3 DEF OriginsArePinned
    <3>2. log[t] \in Seq(Ids) /\ \A j \in 1 .. Len(log[t]) : log'[t][j] = log[t][j]
      BY <1>0, LogStays
    <3> HIDE DEF m
    <3>3. \A j \in 1 .. m : j \in 1 .. Len(log[t])
      BY <3>1, <3>2
    <3>4. \A o \in PinnedIds(i, t) : o \in Ids /\ o \in Appended(t)
      BY <3>1, <3>2, <3>3 DEF Appended, ToSet
    <3>5. \A o \in PinnedIds(i, t) : data'[t][o] = data[t][o]
      BY <1>0, <3>4, DataStays DEF WarehouseInv, AppendedHasFile
    <3>6. QED BY <3>1, <3>2, <3>3, <3>5
  <2>5. QED BY <1>0, <1>2, <2>1, <2>4 DEF Visible
<1>3. QED BY <1>1, <1>2

\* A catalog is empty, or has one generation with rows in all base tables.
LEMMA GenerationsInit == Init => Readers!Init
<1> SUFFICES ASSUME Init PROVE Readers!Init
  OBVIOUS
<1>1. WarehouseInv /\ NoId \notin Ids /\ NoId = 0 /\ BaseSet # {}
  BY InitWarehouse, IcebergAssumption DEF IcebergAssumption, NoId
<1>2. CASE Committed = {}
  <2>1. Latest = 0
    BY <1>1, <1>2 DEF Latest
  <2>2. \A i \in Ids, t \in BaseSet : Visible[i][t] = {}
    BY <1>2, VisibleRows
  <2>3. QED BY <1>1, <2>1, <2>2 DEF Readers!Init
<1>3. CASE \E id \in Ids : Legacy(id)
  <2>1. PICK id \in Ids : Legacy(id)
    BY <1>3
  <2> DEFINE Q == (CHOOSE q \in Requests : q.mode = "replace").paths
  <2>2. /\ log = [t \in TableSet |-> IF t = "path_sources" THEN <<>> ELSE <<id>>]
        /\ data["schemas"][id].paths = Q
    BY <2>1, TableNames DEF Legacy
  <2>3. Q # {}
    <3>1. (CHOOSE q \in Requests : q.mode = "replace") \in Requests
      BY IcebergAssumption DEF IcebergAssumption
    <3>2. QED BY <3>1, IcebergAssumption DEF IcebergAssumption
  <2>4. Committed = {id} /\ id \notin Appended("path_sources")
    BY <2>2, TableNames DEF Committed, Appended, ToSet
  <2>5. OriginSet(id) # {}
    BY <2>2, <2>3, <2>4 DEF OriginSet, Origins
  <2>6. Latest = id
    BY <1>1, <2>4, LatestIsCommitted
  <2>7. \A t \in BaseSet : OriginSet(id) \subseteq PinnedIds(id, t)
    BY <1>1, <2>4, CommittedIsPinned DEF OriginsArePinned
  <2>8. \A t \in BaseSet : Visible[id][t] # {}
    <3>1. PICK o \in OriginSet(id) : TRUE
      BY <2>5
    <3>2. ASSUME NEW t \in BaseSet PROVE data[t][o] \in Visible[id][t]
      <4>1. Visible[id][t] = {data[t][u] : u \in OriginSet(id) \cap PinnedIds(id, t)}
        BY <2>4, VisibleRows
      <4>2. o \in OriginSet(id) \cap PinnedIds(id, t)
        BY <2>7, <3>1
      <4>3. QED BY <4>1, <4>2
    <3>3. QED BY <3>2
  <2>9. \A i \in Ids, t \in BaseSet : i # id => Visible[i][t] = {}
    BY <2>4, VisibleRows
  <2>10. QED BY <2>6, <2>8, <2>9 DEF Readers!Init, Readers!Whole
<1>4. QED
  <2>1. CASE Legacy(CHOOSE i \in Ids : \A j \in Ids : i <= j)
    BY <1>3, <2>1, OldestId
  <2>2. CASE log = [t \in TableSet |-> <<>>]
    <3>1. Committed = {}
      BY <2>2, TableNames DEF Committed, Appended, ToSet
    <3>2. QED BY <1>2, <3>1
  <2>3. QED BY <2>1, <2>2 DEF Init

\* The append of a commit record publishes a generation or, if a later receipt is
\* committed already, records it; no other step is visible.
LEMMA GenerationsStep ==
    WarehouseInv /\ WarehouseInv' /\ [Next]_vars =>
        [\E i \in Ids : Readers!Publish(i) \/ Readers!Record(i)]_<<Latest, Visible>>
<1> SUFFICES ASSUME WarehouseInv, WarehouseInv', [Next]_vars
             PROVE  (\E i \in Ids : Readers!Publish(i) \/ Readers!Record(i)) \/ UNCHANGED <<Latest, Visible>>
  OBVIOUS
<1>0. /\ Committed \subseteq Committed'
      /\ Latest' = Latest \/ (Latest' \in Committed' /\ Latest' \notin Committed)
  BY TableNames, LogStays, LatestStep DEF Committed, WarehouseInv
<1>1. CASE Committed' = Committed
  <2>1. \A i \in Ids : Visible'[i] = Visible[i]
    BY <1>1, VisibleStays
  <2>2. Visible' = Visible
    BY <2>1 DEF Visible
  <2>3. QED BY <1>0, <1>1, <2>2
<1>2. CASE Committed' # Committed
  <2>1. PICK i \in Committed' : i \notin Committed
    BY <1>0, <1>2
  <2>2. /\ i = run.id /\ i \in Ids /\ Known(i) /\ data["path_sources"][i] # Nothing
        /\ i \in Appended("path_sources")
    BY <2>1, CommitStep, TableNames
  <2>3. \A j \in Committed' : j # i => j \in Committed
    BY <2>1, <2>2, CommitStep
  <2>4. \A j \in Ids : j # i => Visible'[j] = Visible[j]
    BY <2>3, VisibleStays
  <2>5. \A t \in BaseSet : Visible[i][t] = {}
    BY <2>1, <2>2, VisibleRows
  <2>6. OriginSet(i)' # {}
    <3>1. identity[i].request.paths # {}
      <4>1. identity[i] \in Identities
        BY <2>2 DEF WarehouseInv, TypeOK, Known
      <4>2. identity[i].request \in Requests
        BY <4>1 DEF Identities
      <4>3. QED BY <4>2, IcebergAssumption DEF IcebergAssumption
    <3>2. Reaches(i, data["path_sources"][i])
      BY <2>2 DEF WarehouseInv, PathsAreReached
    <3>3. DOMAIN Origins(i) # {}
      <4>1. Origins(i) = data["path_sources"][i].origin
        BY <2>2 DEF Origins
      <4>2. identity[i].request.paths \subseteq DOMAIN data["path_sources"][i].origin
        BY <2>2, <3>2 DEF Reaches
      <4>3. QED BY <3>1, <4>1, <4>2
    <3>4. OriginSet(i)' = OriginSet(i)
      BY <2>2, SettledStays DEF Settled
    <3>5. QED BY <3>3, <3>4 DEF OriginSet
  <2>7. \A t \in BaseSet : Visible'[i][t] # {}
    <3>1. OriginsArePinned'
      BY CommittedIsPinned, PTL
    <3>2. \A t \in BaseSet : OriginSet(i)' \subseteq PinnedIds(i, t)'
      BY <2>1, <3>1 DEF OriginsArePinned
    <3>3. \A t \in BaseSet :
             Visible'[i][t] = {data'[t][o] : o \in OriginSet(i)' \cap PinnedIds(i, t)'}
      BY <2>1, <2>2 DEF Visible
    <3>4. QED BY <2>6, <3>2, <3>3
  <2>8. BaseSet # {}
    BY TableNames
  <2>9. CASE Latest' = Latest
    BY <2>2, <2>4, <2>5, <2>7, <2>8, <2>9 DEF Readers!Record, Readers!Whole
  <2>10. CASE Latest' = i
    BY <2>2, <2>4, <2>5, <2>7, <2>8, <2>10 DEF Readers!Publish, Readers!Whole
  <2>11. QED BY <1>0, <2>2, <2>3, <2>9, <2>10
<1>3. QED BY <1>1, <1>2

\* The warehouse implements what Generations promises to readers: a generation appears
\* at once, by its commit record and in all base tables, and the rows that readers of
\* it find do not change, whatever is appended, resumed or interrupted later.
THEOREM WarehouseImplementsGenerations == Spec => ImplementsGenerations
<1>1. QED
  BY GenerationsInit, GenerationsStep, WarehouseIsKept, PTL
     DEF Spec, ImplementsGenerations, Readers!HistorySpec

=============================================================================
