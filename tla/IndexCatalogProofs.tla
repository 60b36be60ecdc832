------------------------- MODULE IndexCatalogProofs -------------------------
(***************************************************************************)
(* Theorems about IndexCatalog for every number of runs, snapshot ids,     *)
(* files and threads: the types, the order of the steps of a run, the      *)
(* promise of the catalog to its readers, and what its tables hold: each   *)
(* file once, with its event range, all of them when the request is        *)
(* strict, whatever was killed, failed, resumed or published again in      *)
(* between.                                                                *)
(***************************************************************************)
EXTENDS IndexCatalog, IndexWorkersProofs, NumberLemmas, FiniteSetTheorems


-----------------------------------------------------------------------------
(***************************************************************************)
(* Type correctness.                                                       *)
(***************************************************************************)

CatalogInv == CatalogTypeOK /\ ws \in [Workers -> Thread]

LEMMA TableNames ==
    /\ TableSet = {"files", "schemas", "access_levels", "baskets"}
    /\ Tables[1] = "files" /\ Tables[2] = "schemas"
    /\ Tables[3] = "access_levels" /\ Tables[4] = "baskets"
<1>1. 1 .. 4 = {1, 2, 3, 4}
  OBVIOUS
<1>2. QED BY <1>1 DEF TableSet, Tables

LEMMA CatalogBuild == CatalogInv => TInv
BY DEF CatalogInv, CatalogTypeOK, TInv

LEMMA FreshIsThread == FreshWorker \in Thread /\ FreshWorker \in WorkerState
BY DEF FreshWorker, WorkerState, Thread, NoFile

\* What is left of a run that is over.
LEMMA ReleaseType ==
    ASSUME Release
    PROVE  /\ sid' \in Ids /\ planErr' = {} /\ status' = [f \in Files |-> "none"]
           /\ indexed' = 0 /\ next' = 1 /\ base' = 0
           /\ ws' \in [Workers -> Thread] /\ ws' \in [Workers -> WorkerState]
           /\ run' = NoRun /\ phase' = "free" /\ todo' = {} /\ published' = published
BY IdsAssumption, FreshIsThread DEF Release

LEMMA CatalogTypeInit == Init => CatalogInv
<1> SUFFICES ASSUME Init PROVE CatalogInv
  OBVIOUS
<1>1. BuildTypeOK /\ ws \in [Workers -> Thread]
  BY IdsAssumption, FreshIsThread DEF Init, BuildTypeOK
<1>2. /\ tables \in [Ids -> [TableSet -> SUBSET Segment]]
      /\ request \in [Ids -> Requests \cup {NoRequest}]
      /\ place \in [Ids -> {"none", "staging", "failed", "snapshots"}]
  BY DEF Init, Absent
<1>3. torn \in 0 .. MaxTorn
  BY CatalogAssumption DEF Init
<1>4. QED BY <1>1, <1>2, <1>3 DEF Init, CatalogInv, CatalogTypeOK

\* Whatever a run that throws or is killed leaves, its end keeps the types.
LEMMA ReleaseKeepsType ==
    ASSUME CatalogInv, Release,
           segs' \in [Ids -> SUBSET Segment], pending' \in [Ids -> SUBSET (Nat \X Nat)],
           dirs' \in [Ids -> SUBSET Nat],
           place' \in [Ids -> {"none", "staging", "failed", "snapshots"}],
           UNCHANGED <<request, tables, current, success, clock, waiting>>,
           torn' \in 0 .. MaxTorn
    PROVE  CatalogInv'
<1>1. BuildTypeOK' /\ ws' \in [Workers -> Thread]
  BY ReleaseType DEF BuildTypeOK
<1>2. QED BY <1>1, ReleaseType DEF CatalogInv, CatalogTypeOK

LEMMA FailureType ==
    ASSUME CatalogInv, PreserveFailedStaging
    PROVE  place' \in [Ids -> {"none", "staging", "failed", "snapshots"}]
BY DEF PreserveFailedStaging, CatalogInv, CatalogTypeOK, BuildTypeOK

\* A failing run moves its staging directory away and is over.
LEMMA ThrowsType == ASSUME CatalogInv, Throws PROVE CatalogInv'
BY ReleaseKeepsType, FailureType
   DEF Throws, durable, worldVars, CatalogInv, CatalogTypeOK, BuildTypeOK

-----------------------------------------------------------------------------
(***************************************************************************)
(* The order of the steps of Run: the inductive invariant.                 *)
(***************************************************************************)

\* An id without a directory has nothing in the catalog.
Untouched(i) ==
    /\ segs[i] = {} /\ pending[i] = {} /\ dirs[i] = {}
    /\ request[i] = NoRequest /\ \A t \in TableSet : tables[i][t] = Absent
    /\ i \notin published

FreshIsUntouched == \A i \in Ids : place[i] = "none" => Untouched(i)
UsedIsPast       == \A i \in Ids : place[i] # "none" => i <= clock

\* The ids of the runs that wait for the lock are their own.
WaitingIsFresh ==
    /\ \A p \in waiting : place[p.id] = "none" /\ p.id <= clock
    /\ \A p, q \in waiting : p # q => p.id # q.id

\* So is the id of the run that owns it, until it has found its directory.
OwnerIsAlone ==
    phase # "free" =>
        /\ run \in Run /\ run.id <= clock
        /\ \A p \in waiting : p.id # run.id
        /\ phase \in {"select", "create"} => sid = run.id /\ place[sid] = "none"
        /\ phase = "select" => run.resume

StagingPhases == {"request", "inspect", "restore", "index", "compact1", "compact2", "compact3",
                  "compact4", "rename"}

\* Where its directory is, and whose it is.
OwnerHasPlace ==
    /\ phase \in StagingPhases => place[sid] = "staging"
    /\ phase \in {"current", "success", "cleanup"} => place[sid] = "snapshots"
    /\ phase = "request" => Untouched(sid)
    /\ phase \in TryPhases \cup {"cleanup"} => request[sid] = run.request
    /\ phase = "inspect" /\ ~run.resume => segs[sid] = {}

\* The tables it has compacted so far.
Compacted ==
    /\ phase \in {"compact2", "compact3", "compact4"} => tables[sid]["files"] # Absent
    /\ phase \in {"compact3", "compact4"} => tables[sid]["schemas"] # Absent
    /\ phase = "compact4" => tables[sid]["access_levels"] # Absent
    /\ phase \in {"rename", "current", "success", "cleanup"} => Complete(sid)

PublishedIsComplete == \A i \in published : Complete(i) /\ request[i] # NoRequest
CurrentIsPublished  == current # NoId => current \in published /\ place[current] = "snapshots"

\* A directory has finitely many worker directories.
DirsAreBounded == \A i \in Ids : \E b \in Nat : \A n \in dirs[i] : n <= b

OrderInv ==
    /\ DirsAreBounded
    /\ FreshIsUntouched /\ UsedIsPast
    /\ WaitingIsFresh /\ OwnerIsAlone /\ OwnerHasPlace
    /\ Compacted /\ PublishedIsComplete /\ CurrentIsPublished

LEMMA OrderInit == Init => OrderInv
<1> SUFFICES ASSUME Init PROVE OrderInv
  OBVIOUS
<1>1. phase = "free" /\ waiting = {} /\ published = {} /\ current = NoId
  BY DEF Init
<1>2. FreshIsUntouched /\ UsedIsPast
  BY DEF Init, FreshIsUntouched, Untouched, UsedIsPast
<1>6. DirsAreBounded
  <2>1. 0 \in Nat /\ \A i \in Ids : dirs[i] = {}
    BY DEF Init
  <2>2. QED BY <2>1 DEF DirsAreBounded
<1>3. WaitingIsFresh /\ OwnerIsAlone /\ PublishedIsComplete /\ CurrentIsPublished
  BY <1>1 DEF WaitingIsFresh, OwnerIsAlone, PublishedIsComplete, CurrentIsPublished
<1>4. OwnerHasPlace /\ Compacted
  BY <1>1 DEF OwnerHasPlace, Compacted, StagingPhases, TryPhases
<1>5. QED BY <1>2, <1>3, <1>4, <1>6 DEF OrderInv

\* The directories that FindResumeCandidate returns have a first one.
LEMMA ChosenExists ==
    ASSUME CatalogInv, OrderInv, Candidates # {}
    PROVE  Chosen \in Candidates
<1> DEFINE Ranked(r) == {i \in Candidates : Rank(i) = r}
<1>1. \A i \in Candidates : i \in Nat /\ i <= clock /\ Rank(i) \in {0, 1, 2}
  BY CatalogAssumption DEF Candidates, OrderInv, UsedIsPast, Rank
<1>2. clock \in Nat
  BY CatalogAssumption DEF CatalogInv, CatalogTypeOK, NoId
<1>3. ASSUME NEW r \in {0, 1, 2}, Ranked(r) # {}, \A i \in Candidates : Rank(i) <= r
      PROVE  \E i \in Candidates : \A j \in Candidates : Before(i, j)
  <2>1. Ranked(r) \subseteq Nat /\ \A i \in Ranked(r) : i <= clock
    BY <1>1
  <2>2. PICK i \in Ranked(r) : \A j \in Ranked(r) : j <= i
    BY <1>2, <1>3, <2>1, GreatestNumber
  <2>3. ASSUME NEW j \in Candidates PROVE Before(i, j)
    BY <1>1, <1>3, <2>2 DEF Before
  <2>4. QED BY <2>2, <2>3
<1>4. \E i \in Candidates : \A j \in Candidates : Before(i, j)
  <2>1. CASE Ranked(2) # {}
    BY <1>1, <1>3, <2>1
  <2>2. CASE Ranked(2) = {} /\ Ranked(1) # {}
    BY <1>1, <1>3, <2>2
  <2>3. CASE Ranked(2) = {} /\ Ranked(1) = {}
    <3>1. Ranked(0) # {} /\ \A i \in Candidates : Rank(i) <= 0
      BY <1>1, <2>3
    <3>2. QED BY <1>3, <3>1
  <2>4. QED BY <2>1, <2>2, <2>3
<1>5. QED BY <1>4 DEF Chosen

-----------------------------------------------------------------------------
(***************************************************************************)
(* The names of the worker directories.                                    *)
(***************************************************************************)

\* The id NextCheckpointWorkerId returns is larger than those in use.
LEMMA NextWorkerIdIsFresh ==
    ASSUME NEW N, N \subseteq Nat, NEW b \in Nat, \A n \in N : n <= b
    PROVE  NextWorkerId(N) \in Nat /\ \A n \in N : n < NextWorkerId(N)
<1>1. CASE N = {}
  BY <1>1 DEF NextWorkerId
<1>2. CASE N # {}
  <2>1. PICK n \in N : \A m \in N : m <= n
    BY <1>2, GreatestNumber
  <2>2. n + 1 \in {m + 1 : m \in N} /\ \A m \in N : m < n + 1
    BY <2>1
  <2>3. NextWorkerId(N) \in {m + 1 : m \in N} /\ \A m \in N : m < NextWorkerId(N)
    BY <1>2, <2>2 DEF NextWorkerId
  <2>4. QED BY <2>3
<1>3. QED BY <1>1, <1>2

-----------------------------------------------------------------------------
(***************************************************************************)
(* What the steps of Run leave alone.                                      *)
(***************************************************************************)

\* A thread only touches the directory of its build, and removes no segment.
LEMMA BuildFrame ==
    ASSUME CatalogInv, BuildNext
    PROVE  /\ sid' = sid /\ planErr' = planErr /\ base' = base
           /\ \A i \in Ids : i # sid =>
                 segs'[i] = segs[i] /\ pending'[i] = pending[i] /\ dirs'[i] = dirs[i]
           /\ \E n \in Nat : dirs'[sid] \subseteq dirs[sid] \cup {n}
<1>0. /\ base \in Nat /\ \A w \in Workers : w \in Nat
  BY SizeAssumption DEF CatalogInv, CatalogTypeOK, BuildTypeOK, Workers
<1>a. /\ sid \in Ids /\ segs \in [Ids -> SUBSET Segment]
      /\ pending \in [Ids -> SUBSET (Nat \X Nat)] /\ dirs \in [Ids -> SUBSET Nat]
  BY DEF CatalogInv, CatalogTypeOK, BuildTypeOK
<1>1. PICK w \in Workers : WorkerStep(w)
  BY DEF BuildNext
<1>2. sid' = sid /\ planErr' = planErr /\ base' = base
  BY <1>1 DEF WorkerStep, OpenWriter, OpenWriterFails, Claim, BuildFileFails, Append, AppendFails,
              AppendAndFlush, Finish, CommitFlush, FlushFails, FlushFailsLate
<1>3. /\ segs' = segs \/ CommitSegment(w)
      /\ dirs' = dirs \/ dirs' = [dirs EXCEPT ![sid] = @ \cup {base + w}]
      /\ \/ pending' = pending \/ CommitSegment(w)
         \/ \E r : pending' = [pending EXCEPT ![sid] = @ \cup {<<base + w, r>>}]
  BY <1>1 DEF WorkerStep, OpenWriter, OpenWriterFails, Claim, BuildFileFails, Append, AppendFails,
              AppendAndFlush, Finish, CommitFlush, FlushFails, FlushFailsLate, StartFlush
<1>4. base + w \in Nat
  BY <1>0
<1>5. QED BY <1>a, <1>2, <1>3, <1>4 DEF CommitSegment

\* One of the disjuncts of Next, by name.
LEMMA CatalogSteps ==
    ASSUME Next
    PROVE  \/ Begin \/ LockBusy \/ Lock
           \/ Select \/ CreateStaging \/ WriteResumeRequest
           \/ InspectFiles \/ RestoreCheckpoint \/ StartIndexing \/ BuildFiles \/ ValidateBuild
           \/ CompactTable(1, "compact1", "compact2") \/ CompactTable(2, "compact2", "compact3")
           \/ CompactTable(3, "compact3", "compact4") \/ CompactTable(4, "compact4", "rename")
           \/ CommitRename \/ CommitCurrent \/ CommitSuccess \/ CleanupParts
           \/ Abort \/ (Throws /\ phase \in TryPhases) \/ Kill
BY DEF Next, RunStep, CompactParquet, ValidateBuildThrows, Fail, TryPhases

\* A torn segment still says what it held.
LEMMA TornSegment ==
    ASSUME NEW s \in Segment
    PROVE  /\ [s EXCEPT !.intact = FALSE] \in Segment
           /\ [s EXCEPT !.intact = FALSE].files = s.files
           /\ [s EXCEPT !.intact = FALSE].schema = s.schema
           /\ [s EXCEPT !.intact = FALSE].errors = s.errors
           /\ [s EXCEPT !.intact = FALSE].worker = s.worker
BY DEF Segment

\* Of the segments of a directory only those of a live build are torn or
\* removed, when its run is over.
LEMMA KillFrame ==
    ASSUME CatalogInv, Kill
    PROVE  /\ segs' \in [Ids -> SUBSET Segment] /\ torn' \in 0 .. MaxTorn
           /\ \A i \in Ids : segs[i] = {} => segs'[i] = {}
           /\ \A i \in Ids : i # sid => segs'[i] = segs[i]
           /\ segs' = segs \/
                 \E s \in segs[sid] : segs'[sid] = (segs[sid] \ {s}) \cup {[s EXCEPT !.intact = FALSE]}
<1>0. /\ sid \in Ids /\ segs \in [Ids -> SUBSET Segment] /\ torn \in 0 .. MaxTorn /\ MaxTorn \in Nat
  BY CatalogAssumption DEF CatalogInv, CatalogTypeOK, BuildTypeOK
<1>1. CASE UNCHANGED <<segs, torn>>
  BY <1>0, <1>1
<1>2. CASE ~ UNCHANGED <<segs, torn>>
  <2>1. torn' \in 0 .. MaxTorn
    BY <1>0, <1>2 DEF Kill
  <2>2. PICK s \in segs[sid] :
          segs' = [segs EXCEPT ![sid] = (@ \ {s}) \cup {[s EXCEPT !.intact = FALSE]}]
    BY <1>2 DEF Kill
  <2>3. [s EXCEPT !.intact = FALSE] \in Segment
    BY <1>0, TornSegment
  <2>4. QED BY <1>0, <2>1, <2>2, <2>3
<1>3. QED BY <1>1, <1>2

LEMMA CleanupFrame ==
    ASSUME CatalogInv, CleanupParts
    PROVE  /\ segs' \in [Ids -> SUBSET Segment] /\ pending' \in [Ids -> SUBSET (Nat \X Nat)]
           /\ dirs' \in [Ids -> SUBSET Nat]
           /\ \A i \in Ids : segs'[i] \subseteq segs[i]
           /\ \A i \in Ids : i # sid =>
                 segs'[i] = segs[i] /\ pending'[i] = pending[i] /\ dirs'[i] = dirs[i]
           /\ \/ pending' = pending /\ dirs' = dirs
              \/ segs'[sid] = {} /\ pending'[sid] = {} /\ dirs'[sid] = {}
BY DEF CleanupParts, CatalogInv, CatalogTypeOK, BuildTypeOK

\* Segments a thread adds, and the directories it names, keep their types.
LEMMA CatalogTypeStep == CatalogInv /\ OrderInv /\ [Next]_vars => CatalogInv'
<1> SUFFICES ASSUME CatalogInv, OrderInv, [Next]_vars PROVE CatalogInv'
  OBVIOUS
<1> USE DEF durable, catalogVars, worldVars
<1>a. /\ CatalogTypeOK /\ BuildTypeOK /\ ws \in [Workers -> Thread]
      /\ ws \in [Workers -> WorkerState] /\ sid \in Ids
  BY DEF CatalogInv, CatalogTypeOK, BuildTypeOK
<1>b. ASSUME UNCHANGED buildVars PROVE BuildTypeOK' /\ ws' \in [Workers -> Thread]
  BY <1>a, <1>b DEF buildVars, BuildTypeOK
<1>0. CASE UNCHANGED vars
  BY <1>0, <1>a, <1>b DEF vars, CatalogInv, CatalogTypeOK
<1>1. CASE Begin
  <2>1. clock' \in Ids /\ waiting' \subseteq Run
    BY <1>1, <1>a DEF Begin, CatalogTypeOK, Run
  <2>2. QED BY <1>1, <1>a, <1>b, <2>1 DEF Begin, CatalogInv, CatalogTypeOK
<1>2. CASE LockBusy
  BY <1>2, <1>a, <1>b DEF LockBusy, CatalogInv, CatalogTypeOK
<1>3. CASE Lock
  <2>1. PICK p \in waiting : /\ waiting' = waiting \ {p} /\ run' = p /\ sid' = p.id
                             /\ phase' = IF p.resume THEN "select" ELSE "create"
    BY <1>3 DEF Lock
  <2>2. p \in Run /\ p.id \in Ids
    BY <1>a, <2>1 DEF CatalogTypeOK, Run
  <2>3. BuildTypeOK' /\ ws' \in [Workers -> Thread]
    BY <1>3, <1>a, <2>1, <2>2 DEF Lock, BuildTypeOK
  <2>4. QED BY <1>3, <1>a, <2>1, <2>2, <2>3 DEF Lock, CatalogInv, CatalogTypeOK
<1>4. CASE Select
  <2>1. Candidates # {} => Chosen \in Ids
    BY ChosenExists DEF Candidates
  <2>2. sid' \in Ids
    BY <1>4, <1>a, <2>1 DEF Select
  <2>3. BuildTypeOK' /\ ws' \in [Workers -> Thread]
    BY <1>4, <1>a, <2>2 DEF Select, BuildTypeOK
  <2>4. place' \in [Ids -> {"none", "staging", "failed", "snapshots"}]
    BY <1>4, <1>a, <2>1 DEF Select, CatalogTypeOK
  <2>5. phase' \in {"create", "inspect"}
    BY <1>4 DEF Select
  <2>6. QED BY <1>4, <1>a, <2>3, <2>4, <2>5 DEF Select, CatalogInv, CatalogTypeOK, TryPhases
<1>5. CASE CreateStaging
  BY <1>5, <1>a, <1>b DEF CreateStaging, CatalogInv, CatalogTypeOK
<1>6. CASE WriteResumeRequest
  <2>1. run.request \in Requests \cup {NoRequest}
    BY <1>a DEF CatalogTypeOK, Run, NoRun
  <2>2. QED BY <1>6, <1>a, <1>b, <2>1 DEF WriteResumeRequest, CatalogInv, CatalogTypeOK, TryPhases
<1>7. CASE InspectFiles
  <2>1. BuildTypeOK' /\ ws' \in [Workers -> Thread]
    BY <1>7, <1>a DEF InspectFiles, BuildTypeOK
  <2>2. todo' \subseteq Segment
    BY <1>7, <1>a DEF InspectFiles, BuildTypeOK
  <2>3. QED BY <1>7, <1>a, <2>1, <2>2 DEF InspectFiles, CatalogInv, CatalogTypeOK, TryPhases
<1>8. CASE RestoreCheckpoint
  <2>1. /\ segs' \in [Ids -> SUBSET Segment] /\ status' \in [Files -> {"none", "OK", "ERROR"}]
        /\ todo' \subseteq Segment
    BY <1>8, <1>a DEF RestoreCheckpoint, BuildTypeOK, CatalogTypeOK
  <2>2. QED BY <1>8, <1>a, <2>1 DEF RestoreCheckpoint, CatalogInv, CatalogTypeOK, BuildTypeOK
<1>9. CASE StartIndexing
  <2>1. base' \in Nat
    <3>1. dirs[sid] \subseteq Nat
      BY <1>a DEF BuildTypeOK
    <3>2. PICK b \in Nat : \A n \in dirs[sid] : n <= b
      BY <1>a DEF OrderInv, DirsAreBounded
    <3>3. NextWorkerId(dirs[sid]) \in Nat
      BY <3>1, <3>2, NextWorkerIdIsFresh
    <3>4. QED BY <1>9, <3>3 DEF StartIndexing, StartWorkers
  <2>2. indexed' \in Nat
    <3>1. IsFiniteSet(Files)
      BY SizeAssumption, FS_Interval DEF Files
    <3>2. QED BY <1>9, <3>1, FS_Subset, FS_CardinalityType DEF StartIndexing
  <2>3. ws' \in [Workers -> Thread] /\ ws' \in [Workers -> WorkerState] /\ next' = 1
    BY <1>9, FreshIsThread DEF StartIndexing, StartWorkers
  <2>4. BuildTypeOK'
    BY <1>9, <1>a, <2>1, <2>2, <2>3 DEF StartIndexing, BuildTypeOK
  <2>5. QED BY <1>9, <1>a, <2>3, <2>4 DEF StartIndexing, CatalogInv, CatalogTypeOK, TryPhases
<1>10. CASE BuildFiles
  <2>1. TInv'
    BY <1>10, CatalogBuild, TypeStep DEF BuildFiles
  <2>2. QED BY <1>10, <1>a, <2>1 DEF BuildFiles, CatalogInv, CatalogTypeOK, TInv
<1>11. CASE ValidateBuild
  BY <1>11, <1>a, <1>b DEF ValidateBuild, CatalogInv, CatalogTypeOK, TryPhases
<1>12. ASSUME NEW k \in 1 .. 4, NEW here, NEW after \in TryPhases, CompactTable(k, here, after)
       PROVE  CatalogInv'
  <2>1. Tables[k] \in TableSet
    BY DEF TableSet
  <2>2. tables' \in [Ids -> [TableSet -> SUBSET Segment]]
    BY <1>12, <1>a, <2>1 DEF CompactTable, CatalogTypeOK, BuildTypeOK
  <2>3. QED BY <1>12, <1>a, <1>b, <2>2 DEF CompactTable, CatalogInv, CatalogTypeOK
<1>13. CASE CommitRename \/ CommitCurrent \/ CommitSuccess
  BY <1>13, <1>a, <1>b
     DEF CommitRename, CommitCurrent, CommitSuccess, CatalogInv, CatalogTypeOK, TryPhases
<1>14. CASE CleanupParts
  BY <1>14, <1>a, CleanupFrame, ReleaseKeepsType DEF CleanupParts, CatalogTypeOK
<1>15. CASE Abort
  BY <1>15, <1>a, ReleaseKeepsType DEF Abort, CatalogTypeOK, BuildTypeOK
<1>16. CASE Throws
  BY <1>16, ThrowsType
<1>17. CASE Kill
  BY <1>17, <1>a, KillFrame, ReleaseKeepsType DEF Kill, CatalogTypeOK, BuildTypeOK
<1>18. ASSUME NEW k, NEW h, NEW a, CompactTable(k, h, a),
              <<k, a>> \in {<<1, "compact2">>, <<2, "compact3">>, <<3, "compact4">>, <<4, "rename">>}
       PROVE  CatalogInv'
  BY <1>12, <1>18 DEF TryPhases
<1>19. QED
  BY <1>0, <1>1, <1>2, <1>3, <1>4, <1>5, <1>6, <1>7, <1>8, <1>9, <1>10, <1>11, <1>13, <1>14,
     <1>15, <1>16, <1>17, <1>18, CatalogSteps

-----------------------------------------------------------------------------
(***************************************************************************)
(* The order of the steps of Run: every step keeps it.                     *)
(***************************************************************************)

\* A run that ends, however it ends, leaves a catalog in order: at most its
\* own staging directory becomes a failed one.
LEMMA EndKeepsOrder ==
    ASSUME CatalogInv, OrderInv, Release,
           UNCHANGED <<request, tables, current, clock, waiting>>,
           \A i \in Ids : place'[i] = place[i] \/ (place[i] = "staging" /\ place'[i] = "failed"),
           \A i \in Ids : segs[i] = {} => segs'[i] = {},
           \A i \in Ids : pending'[i] \subseteq pending[i] /\ dirs'[i] \subseteq dirs[i]
    PROVE  OrderInv'
<1>1. /\ phase' = "free" /\ published' = published
      /\ UNCHANGED <<request, tables, current, clock, waiting>>
      /\ current # NoId => current \in Ids
  BY ReleaseType DEF CatalogInv, CatalogTypeOK
<1>2. \A i \in Ids : place'[i] = "none" => place[i] = "none"
  OBVIOUS
<1>3. ASSUME NEW i \in Ids, Untouched(i) PROVE Untouched(i)'
  BY <1>1, <1>3 DEF Untouched
<1>4. FreshIsUntouched' /\ UsedIsPast'
  BY <1>1, <1>2, <1>3 DEF OrderInv, FreshIsUntouched, UsedIsPast
<1>5. WaitingIsFresh'
  <2>1. \A p \in waiting : p.id \in Ids
    BY DEF CatalogInv, CatalogTypeOK, Run
  <2>2. QED BY <1>1, <2>1 DEF OrderInv, WaitingIsFresh
<1>6. OwnerIsAlone' /\ OwnerHasPlace' /\ Compacted'
  BY <1>1 DEF OwnerIsAlone, OwnerHasPlace, Compacted, StagingPhases, TryPhases
<1>7. PublishedIsComplete' /\ CurrentIsPublished'
  BY <1>1 DEF OrderInv, PublishedIsComplete, CurrentIsPublished, Complete
<1>8. DirsAreBounded'
  BY DEF OrderInv, DirsAreBounded
<1>9. QED BY <1>4, <1>5, <1>6, <1>7, <1>8 DEF OrderInv

\* A step of the owner of the lock that moves no directory and gives it no
\* request: it may write below its own directory and compact its tables.
LEMMA InsideKeepsOrder ==
    ASSUME CatalogInv, OrderInv, phase \in TryPhases, phase' \in TryPhases \cup {"cleanup"},
           phase' \in StagingPhases => phase \in StagingPhases,
           phase' \in {"success", "cleanup"} => phase \in {"current", "success"},
           phase' \notin {"current", "inspect"},
           UNCHANGED <<place, request, clock, waiting, run, sid>>,
           \A i \in Ids : i # sid => segs'[i] = segs[i] /\ pending'[i] = pending[i]
                                     /\ dirs'[i] = dirs[i] /\ tables'[i] = tables[i],
           \A t \in TableSet : tables[sid][t] # Absent => tables'[sid][t] # Absent,
           \E n \in Nat : dirs'[sid] \subseteq dirs[sid] \cup {n},
           Compacted', published \subseteq published', published' \subseteq published \cup {sid},
           published' # published => Complete(sid),
           current' = current \/ (current' = sid /\ sid \in published' /\ place[sid] = "snapshots")
    PROVE  OrderInv'
<1>1. /\ sid \in Ids /\ request[sid] # NoRequest /\ place[sid] # "none"
      /\ phase # "request" /\ phase' # "request" /\ phase \notin {"free", "select", "create"}
      /\ phase' \notin {"free", "select", "create"}
  <2>1. sid \in Ids /\ run \in Run /\ request[sid] = run.request
    BY DEF CatalogInv, CatalogTypeOK, BuildTypeOK, OrderInv, OwnerIsAlone, OwnerHasPlace, TryPhases
  <2>2. request[sid] # NoRequest
    BY <2>1, CatalogAssumption DEF Run
  <2>3. place[sid] # "none"
    BY DEF OrderInv, OwnerHasPlace, StagingPhases, TryPhases
  <2>4. QED BY <2>1, <2>2, <2>3 DEF TryPhases
<1>2. ASSUME NEW i \in Ids, i # sid, Untouched(i) PROVE Untouched(i)'
  BY <1>2 DEF Untouched
<1>3. FreshIsUntouched' /\ UsedIsPast'
  BY <1>1, <1>2 DEF OrderInv, FreshIsUntouched, UsedIsPast
<1>4. WaitingIsFresh' /\ OwnerIsAlone'
  BY <1>1 DEF OrderInv, WaitingIsFresh, OwnerIsAlone
<1>5. OwnerHasPlace'
  BY <1>1 DEF OrderInv, OwnerHasPlace, StagingPhases, TryPhases
<1>6. \A i \in Ids : Complete(i) => Complete(i)'
  BY DEF Complete
<1>7. PublishedIsComplete'
  BY <1>1, <1>6 DEF OrderInv, PublishedIsComplete, CatalogInv, CatalogTypeOK
<1>8. CurrentIsPublished'
  BY <1>1 DEF OrderInv, CurrentIsPublished, CatalogInv, CatalogTypeOK
<1>9. DirsAreBounded'
  <2>1. PICK n \in Nat : dirs'[sid] \subseteq dirs[sid] \cup {n}
    OBVIOUS
  <2>2. PICK b \in Nat : \A m \in dirs[sid] : m <= b
    BY <1>1 DEF OrderInv, DirsAreBounded
  <2>3. dirs[sid] \subseteq Nat
    BY <1>1 DEF CatalogInv, CatalogTypeOK, BuildTypeOK
  <2>4. \A m \in dirs'[sid] : m <= b + n
    BY <2>1, <2>2, <2>3
  <2>5. \E c \in Nat : \A m \in dirs'[sid] : m <= c
    BY <2>4
  <2>6. QED BY <2>5, <1>1 DEF OrderInv, DirsAreBounded
<1>10. QED BY <1>3, <1>4, <1>5, <1>7, <1>8, <1>9 DEF OrderInv

LEMMA OrderStep == CatalogInv /\ OrderInv /\ [Next]_vars => OrderInv'
<1> SUFFICES ASSUME CatalogInv, OrderInv, [Next]_vars PROVE OrderInv'
  OBVIOUS
<1> USE DEF durable, catalogVars, worldVars
<1>a. /\ CatalogTypeOK /\ BuildTypeOK /\ sid \in Ids
      /\ segs \in [Ids -> SUBSET Segment] /\ pending \in [Ids -> SUBSET (Nat \X Nat)]
      /\ dirs \in [Ids -> SUBSET Nat]
      /\ place \in [Ids -> {"none", "staging", "failed", "snapshots"}]
      /\ request \in [Ids -> Requests \cup {NoRequest}]
      /\ tables \in [Ids -> [TableSet -> SUBSET Segment]]
      /\ clock \in Nat /\ \A i \in Ids : i \in Nat \ {0}
      /\ waiting \subseteq Run /\ published \subseteq Ids
      /\ current # NoId => current \in Ids
  BY CatalogAssumption DEF CatalogInv, CatalogTypeOK, BuildTypeOK, NoId
<1>b. dirs[sid] \subseteq dirs[sid] \cup {0} /\ 0 \in Nat
  OBVIOUS
<1>0. CASE UNCHANGED vars
  BY <1>0 DEF vars, buildVars, OrderInv, FreshIsUntouched, Untouched, UsedIsPast, WaitingIsFresh,
              OwnerIsAlone, OwnerHasPlace, Compacted, Complete, PublishedIsComplete,
              CurrentIsPublished, DirsAreBounded
<1>1. CASE Begin
  <2>1. PICK p : /\ p.id = clock + 1 /\ waiting' = waiting \cup {p}
                 /\ clock' = clock + 1 /\ clock' \in Ids
    BY <1>1 DEF Begin
  <2>2. UNCHANGED <<segs, pending, dirs, sid, place, request, tables, current, run, phase, published>>
    BY <1>1 DEF Begin, buildVars
  <2>3. place[clock'] = "none"
    BY <1>a, <2>1 DEF OrderInv, UsedIsPast
  <2>4. \A q \in waiting : q.id \in Nat /\ q.id <= clock
    <3>1. \A q \in waiting : q.id \in Ids
      BY <1>a DEF Run
    <3>2. QED BY <1>a, <3>1 DEF OrderInv, WaitingIsFresh
  <2>5. WaitingIsFresh'
    <3>1. \A q \in waiting : q.id # p.id /\ q.id <= clock'
      <4>1. clock \in Nat /\ clock' = clock + 1 /\ p.id = clock + 1
        BY <1>a, <2>1
      <4>2. QED BY <2>4, <4>1
    <3>2. p.id <= clock' /\ place[p.id] = "none"
      BY <1>a, <2>1, <2>3
    <3>3. \A q \in waiting' : q \in waiting \/ q = p
      BY <2>1
    <3>4. QED BY <2>2, <3>1, <3>2, <3>3 DEF OrderInv, WaitingIsFresh
  <2>6. OwnerIsAlone'
    <3>1. phase # "free" => run.id \in Nat /\ run.id <= clock
      BY <1>a DEF OrderInv, OwnerIsAlone, Run
    <3>2. QED BY <1>a, <2>1, <2>2, <3>1 DEF OrderInv, OwnerIsAlone
  <2>7. FreshIsUntouched' /\ UsedIsPast'
    BY <1>a, <2>1, <2>2 DEF OrderInv, FreshIsUntouched, Untouched, UsedIsPast
  <2>8. OwnerHasPlace' /\ Compacted' /\ PublishedIsComplete' /\ CurrentIsPublished' /\ DirsAreBounded'
    BY <2>2, <1>1 DEF Begin, OrderInv, OwnerHasPlace, Untouched, Compacted, Complete,
                      PublishedIsComplete, CurrentIsPublished, DirsAreBounded
  <2>9. QED BY <2>5, <2>6, <2>7, <2>8 DEF OrderInv
<1>2. CASE LockBusy
  <2>1. waiting' \subseteq waiting
    BY <1>2 DEF LockBusy
  <2>2. UNCHANGED <<segs, pending, dirs, sid, place, request, tables, current, run, phase,
                    published, clock>>
    BY <1>2 DEF LockBusy, buildVars
  <2>3. QED
    BY <2>1, <2>2 DEF OrderInv, FreshIsUntouched, Untouched, UsedIsPast, WaitingIsFresh,
              OwnerIsAlone, OwnerHasPlace, Compacted, Complete, PublishedIsComplete,
              CurrentIsPublished, DirsAreBounded
<1>3. CASE Lock
  <2>1. PICK p \in waiting : /\ waiting' = waiting \ {p} /\ run' = p /\ sid' = p.id
                             /\ phase' = IF p.resume THEN "select" ELSE "create"
    BY <1>3 DEF Lock
  <2>2. UNCHANGED <<segs, pending, dirs, place, request, tables, current, published, clock>>
    BY <1>3 DEF Lock
  <2>3. /\ phase' \in {"select", "create"} /\ p \in Run
        /\ place[p.id] = "none" /\ p.id <= clock /\ \A q \in waiting : q # p => q.id # p.id
    BY <1>a, <2>1 DEF OrderInv, WaitingIsFresh
  <2>4. WaitingIsFresh' /\ OwnerIsAlone'
    BY <2>1, <2>2, <2>3 DEF OrderInv, WaitingIsFresh, OwnerIsAlone
  <2>5. OwnerHasPlace' /\ Compacted'
    BY <2>3 DEF OwnerHasPlace, Compacted, StagingPhases, TryPhases
  <2>6. FreshIsUntouched' /\ UsedIsPast' /\ PublishedIsComplete' /\ CurrentIsPublished' /\ DirsAreBounded'
    BY <2>2 DEF OrderInv, FreshIsUntouched, Untouched, UsedIsPast, Complete, PublishedIsComplete,
                CurrentIsPublished, DirsAreBounded
  <2>7. QED BY <2>4, <2>5, <2>6 DEF OrderInv
<1>4. CASE Select
  <2>1. /\ phase = "select" /\ sid = run.id /\ run.id <= clock /\ run \in Run
        /\ place[sid] = "none" /\ \A p \in waiting : p.id # run.id
    BY <1>4 DEF Select, OrderInv, OwnerIsAlone
  <2>2. UNCHANGED <<segs, pending, dirs, request, tables, current, published, clock, waiting, run>>
    BY <1>4 DEF Select
  <2>3. CASE Candidates = {}
    <3>1. phase' = "create" /\ UNCHANGED <<place, sid>>
      BY <1>4, <2>3 DEF Select
    <3>2. QED
      BY <2>1, <2>2, <3>1 DEF OrderInv, FreshIsUntouched, Untouched, UsedIsPast, WaitingIsFresh,
              OwnerIsAlone, OwnerHasPlace, Compacted, Complete, PublishedIsComplete,
              CurrentIsPublished, DirsAreBounded, StagingPhases, TryPhases
  <2>4. CASE Candidates # {}
    <3>1. /\ sid' = Chosen /\ place' = [place EXCEPT ![Chosen] = "staging"] /\ phase' = "inspect"
          /\ Chosen \in Candidates
      BY <1>4, <2>4, ChosenExists DEF Select
    <3>2. /\ Chosen \in Ids /\ request[Chosen] = run.request /\ place[Chosen] # "none"
          /\ place[Chosen] = "snapshots" => current # NoId /\ Chosen > current
      BY <3>1 DEF Candidates
    <3>3. current # NoId => Chosen # current
      <4>1. current # NoId => current \in Nat /\ Chosen \in Nat /\ place[current] = "snapshots"
        BY <1>a, <3>2 DEF OrderInv, CurrentIsPublished
      <4>2. QED BY <3>2, <4>1
    <3>4. CurrentIsPublished'
      BY <1>a, <2>2, <3>1, <3>3 DEF OrderInv, CurrentIsPublished
    <3>5. FreshIsUntouched' /\ UsedIsPast'
      BY <1>a, <2>2, <3>1, <3>2 DEF OrderInv, FreshIsUntouched, Untouched, UsedIsPast
    <3>6. WaitingIsFresh'
      <4>1. \A p \in waiting : p.id \in Ids /\ p.id # Chosen
        BY <1>a, <3>2 DEF OrderInv, WaitingIsFresh, Run
      <4>2. QED BY <1>a, <2>2, <3>1, <4>1 DEF OrderInv, WaitingIsFresh
    <3>7. OwnerIsAlone'
      BY <2>1, <2>2, <3>1 DEF OwnerIsAlone
    <3>8. OwnerHasPlace'
      <4>1. run.resume
        BY <2>1 DEF OrderInv, OwnerIsAlone
      <4>2. QED BY <1>a, <2>2, <3>1, <3>2, <4>1 DEF OwnerHasPlace, StagingPhases, TryPhases
    <3>9. Compacted' /\ PublishedIsComplete' /\ DirsAreBounded'
      BY <2>2, <3>1 DEF OrderInv, Compacted, Complete, PublishedIsComplete, DirsAreBounded
    <3>10. QED BY <3>4, <3>5, <3>6, <3>7, <3>8, <3>9 DEF OrderInv
  <2>5. QED BY <2>3, <2>4
<1>5. CASE CreateStaging
  <2>1. /\ phase = "create" /\ sid = run.id /\ run.id <= clock /\ run \in Run
        /\ place[sid] = "none" /\ \A p \in waiting : p.id # run.id
    BY <1>5 DEF CreateStaging, OrderInv, OwnerIsAlone
  <2>2. /\ UNCHANGED <<segs, pending, dirs, request, tables, current, published, clock, waiting,
                       run, sid>>
        /\ place' = [place EXCEPT ![sid] = "staging"] /\ phase' = "request"
    BY <1>5 DEF CreateStaging, buildVars
  <2>3. Untouched(sid) /\ (current # NoId => current # sid)
    BY <1>a, <2>1 DEF OrderInv, FreshIsUntouched, CurrentIsPublished
  <2>4. CurrentIsPublished' /\ FreshIsUntouched' /\ UsedIsPast'
    BY <1>a, <2>1, <2>2, <2>3
       DEF OrderInv, CurrentIsPublished, FreshIsUntouched, Untouched, UsedIsPast
  <2>5. WaitingIsFresh'
    <3>1. \A p \in waiting : p.id \in Ids /\ p.id # sid
      BY <1>a, <2>1 DEF Run
    <3>2. QED BY <1>a, <2>2, <3>1 DEF OrderInv, WaitingIsFresh
  <2>6. OwnerIsAlone' /\ OwnerHasPlace'
    BY <1>a, <2>1, <2>2, <2>3
       DEF OwnerIsAlone, OwnerHasPlace, Untouched, StagingPhases, TryPhases
  <2>7. Compacted' /\ PublishedIsComplete' /\ DirsAreBounded'
    BY <2>2 DEF OrderInv, Compacted, Complete, PublishedIsComplete, DirsAreBounded
  <2>8. QED BY <2>4, <2>5, <2>6, <2>7 DEF OrderInv
<1>6. CASE WriteResumeRequest
  <2>1. /\ phase = "request" /\ place[sid] = "staging" /\ Untouched(sid)
    BY <1>6 DEF WriteResumeRequest, OrderInv, OwnerHasPlace, StagingPhases
  <2>2. /\ UNCHANGED <<segs, pending, dirs, place, tables, current, published, clock, waiting,
                       run, sid>>
        /\ request' = [request EXCEPT ![sid] = run.request] /\ phase' = "inspect"
    BY <1>6 DEF WriteResumeRequest, buildVars
  <2>3. FreshIsUntouched' /\ UsedIsPast' /\ WaitingIsFresh' /\ CurrentIsPublished' /\ DirsAreBounded'
    BY <1>a, <2>1, <2>2 DEF OrderInv, FreshIsUntouched, Untouched, UsedIsPast, WaitingIsFresh,
                            CurrentIsPublished, DirsAreBounded
  <2>4. OwnerIsAlone' /\ OwnerHasPlace' /\ Compacted'
    BY <1>a, <2>1, <2>2 DEF OrderInv, OwnerIsAlone, OwnerHasPlace, Untouched, Compacted,
                            StagingPhases, TryPhases
  <2>5. PublishedIsComplete'
    BY <1>a, <2>1, <2>2 DEF OrderInv, PublishedIsComplete, Complete, Untouched
  <2>6. QED BY <2>3, <2>4, <2>5 DEF OrderInv
<1>7. CASE InspectFiles
  <2>1. Compacted'
    BY <1>7 DEF InspectFiles, Compacted
  <2>2. QED BY <1>7, <1>b, <2>1, InsideKeepsOrder DEF InspectFiles, TryPhases, StagingPhases
<1>8. CASE RestoreCheckpoint
  <2>1. Compacted'
    BY <1>8 DEF RestoreCheckpoint, Compacted
  <2>2. \A i \in Ids : i # sid => segs'[i] = segs[i]
    BY <1>8, <1>a DEF RestoreCheckpoint
  <2>3. QED BY <1>8, <1>b, <2>1, <2>2, InsideKeepsOrder DEF RestoreCheckpoint, TryPhases, StagingPhases
<1>9. CASE StartIndexing
  <2>1. Compacted'
    BY <1>9 DEF StartIndexing, Compacted
  <2>2. QED BY <1>9, <1>b, <2>1, InsideKeepsOrder DEF StartIndexing, TryPhases, StagingPhases
<1>10. CASE BuildFiles
  <2>1. Compacted'
    BY <1>10 DEF BuildFiles, Compacted
  <2>2. BuildNext /\ phase = "index" /\ UNCHANGED <<catalogVars, worldVars, published, run, phase, todo>>
    BY <1>10 DEF BuildFiles
  <2>3. QED BY <2>1, <2>2, BuildFrame, InsideKeepsOrder DEF TryPhases, StagingPhases
<1>11. CASE ValidateBuild
  <2>1. Compacted'
    BY <1>11 DEF ValidateBuild, Compacted
  <2>2. QED BY <1>11, <1>b, <2>1, InsideKeepsOrder DEF ValidateBuild, buildVars, TryPhases, StagingPhases
<1>12. ASSUME NEW k \in 1 .. 4, NEW here, NEW after, CompactTable(k, here, after),
              <<k, here, after>> \in {<<1, "compact1", "compact2">>, <<2, "compact2", "compact3">>,
                                     <<3, "compact3", "compact4">>, <<4, "compact4", "rename">>}
       PROVE  OrderInv'
  <2>1. /\ Tables[k] \in TableSet
        /\ tables' = [tables EXCEPT ![sid][Tables[k]] = IF @ = Absent THEN segs[sid] ELSE @]
        /\ tables[sid][Tables[k]] = Absent => segs[sid] # {}
        /\ UNCHANGED <<segs, pending, dirs, place, request, current, published, clock, waiting,
                       run, sid>>
        /\ phase = here /\ phase' = after
    BY <1>12 DEF CompactTable, buildVars, TableSet
  <2>2. /\ \A i \in Ids : i # sid => tables'[i] = tables[i]
        /\ \A t \in TableSet : tables[sid][t] # Absent => tables'[sid][t] # Absent
        /\ tables'[sid][Tables[k]] # Absent
    BY <1>a, <2>1 DEF Absent
  <2>3. Compacted'
    BY <1>12, <2>1, <2>2, TableNames DEF OrderInv, Compacted, Complete
  <2>4. QED BY <1>12, <1>b, <2>1, <2>2, <2>3, InsideKeepsOrder DEF TryPhases, StagingPhases
<1>13. CASE CommitRename
  <2>1. /\ UNCHANGED <<segs, pending, dirs, request, tables, current, published, clock, waiting,
                       run, sid>>
        /\ place' = [place EXCEPT ![sid] = "snapshots"] /\ phase = "rename" /\ phase' = "current"
    BY <1>13 DEF CommitRename, buildVars
  <2>2. place[sid] = "staging"
    BY <2>1 DEF OrderInv, OwnerHasPlace, StagingPhases
  <2>3. FreshIsUntouched' /\ UsedIsPast' /\ CurrentIsPublished' /\ DirsAreBounded' /\ PublishedIsComplete'
    BY <1>a, <2>1, <2>2 DEF OrderInv, FreshIsUntouched, Untouched, UsedIsPast,
                            CurrentIsPublished, DirsAreBounded, PublishedIsComplete, Complete
  <2>4. WaitingIsFresh'
    <3>1. \A p \in waiting : p.id \in Ids /\ p.id # sid
      BY <1>a, <2>2 DEF Run, OrderInv, WaitingIsFresh
    <3>2. QED BY <1>a, <2>1, <3>1 DEF OrderInv, WaitingIsFresh
  <2>5. OwnerIsAlone' /\ OwnerHasPlace' /\ Compacted'
    BY <1>a, <2>1, <2>2 DEF OrderInv, OwnerIsAlone, OwnerHasPlace, Compacted, Complete,
                            StagingPhases, TryPhases
  <2>6. QED BY <2>3, <2>4, <2>5 DEF OrderInv
<1>14. CASE CommitCurrent
  <2>1. Complete(sid) /\ place[sid] = "snapshots"
    BY <1>14 DEF CommitCurrent, OrderInv, Compacted, OwnerHasPlace
  <2>2. Compacted'
    BY <1>14, <2>1 DEF CommitCurrent, buildVars, Compacted, Complete
  <2>3. QED BY <1>14, <1>b, <2>1, <2>2, InsideKeepsOrder DEF CommitCurrent, buildVars, TryPhases, StagingPhases
<1>15. CASE CommitSuccess
  <2>1. Compacted'
    BY <1>15 DEF CommitSuccess, buildVars, OrderInv, Compacted, Complete
  <2>2. QED BY <1>15, <1>b, <2>1, InsideKeepsOrder DEF CommitSuccess, buildVars, TryPhases, StagingPhases
<1>16. CASE CleanupParts
  <2>1. /\ Release /\ UNCHANGED <<place, request, tables, current, clock, waiting>>
    BY <1>16 DEF CleanupParts
  <2>2. \A i \in Ids : segs'[i] \subseteq segs[i] /\ pending'[i] \subseteq pending[i]
                       /\ dirs'[i] \subseteq dirs[i]
    BY <1>16, CleanupFrame
  <2>3. QED BY <2>1, <2>2, EndKeepsOrder
<1>17. CASE Abort
  BY <1>17, EndKeepsOrder DEF Abort
<1>18. CASE Throws
  <2>1. /\ Release /\ UNCHANGED <<segs, pending, dirs, request, tables, current, clock, waiting>>
        /\ PreserveFailedStaging
    BY <1>18 DEF Throws
  <2>2. \A i \in Ids : place'[i] = place[i] \/ (place[i] = "staging" /\ place'[i] = "failed")
    BY <1>a, <2>1 DEF PreserveFailedStaging
  <2>3. QED BY <2>1, <2>2, EndKeepsOrder
<1>19. CASE Kill
  <2>1. Release /\ UNCHANGED <<pending, dirs, place, request, tables, current, clock, waiting>>
    BY <1>19 DEF Kill
  <2>2. QED BY <1>19, <2>1, KillFrame, EndKeepsOrder
<1>20. ASSUME NEW k, NEW h, NEW a, CompactTable(k, h, a),
              <<k, h, a>> \in {<<1, "compact1", "compact2">>, <<2, "compact2", "compact3">>,
                              <<3, "compact3", "compact4">>, <<4, "compact4", "rename">>}
       PROVE  OrderInv'
  BY <1>12, <1>20
<1>21. QED
  BY <1>0, <1>1, <1>2, <1>3, <1>4, <1>5, <1>6, <1>7, <1>8, <1>9, <1>10, <1>11, <1>13, <1>14,
     <1>15, <1>16, <1>17, <1>18, <1>19, <1>20, CatalogSteps

-----------------------------------------------------------------------------
(***************************************************************************)
(* Theorems.                                                               *)
(***************************************************************************)

LEMMA InOrder == Spec => [](CatalogInv /\ OrderInv)
<1>1. Init => CatalogInv /\ OrderInv
  BY CatalogTypeInit, OrderInit
<1>2. CatalogInv /\ OrderInv /\ [Next]_vars => (CatalogInv /\ OrderInv)'
  BY CatalogTypeStep, OrderStep
<1>3. QED BY <1>1, <1>2, PTL DEF Spec

\* Every variable of the catalog and of its runs keeps its type; the directory
\* a resume chooses always exists, because ids are taken in order and a
\* directory belongs to an id that was taken.
THEOREM CatalogTypeCorrect == Spec => []CatalogTypeOK
<1>1. CatalogInv => CatalogTypeOK
  BY DEF CatalogInv
<1>2. QED BY <1>1, InOrder, PTL

\* Whatever runs were killed, failed and resumed, in whatever directories, the
\* snapshot that current.json names lies below snapshots/ with its request and
\* its four tables: FindResumeCandidate never takes the current directory away.
THEOREM CurrentStaysComplete == Spec => []CurrentIsComplete
<1>1. OrderInv => CurrentIsComplete
  BY DEF OrderInv, CurrentIsPublished, PublishedIsComplete, CurrentIsComplete
<1>2. QED BY <1>1, InOrder, PTL

\* A table of a published generation is compacted, so CompactRootIndexParquet
\* keeps it; the tables of the others are not visible.
LEMMA VisibleStays ==
    ASSUME CatalogInv, OrderInv, published' = published,
           \A i \in published : tables'[i] = tables[i]
    PROVE  Visible' = Visible
BY DEF Visible

LEMMA GenerationsInit == Init => Readers!Init
<1> SUFFICES ASSUME Init PROVE Readers!Init
  OBVIOUS
<1>1. current = 0 /\ Visible = [i \in Ids |-> [t \in TableSet |-> {}]]
  BY DEF Init, Visible, NoId
<1>2. \A i \in Ids : i # 0
  BY CatalogAssumption
<1>3. QED BY <1>1, <1>2 DEF Readers!Init

\* CommitCurrent publishes a generation; every other step is invisible.
LEMMA GenerationsStep ==
    CatalogInv /\ OrderInv /\ [Next]_vars => [Readers!Next]_<<current, Visible>>
<1> SUFFICES ASSUME CatalogInv, OrderInv, [Next]_vars
             PROVE  Readers!Next \/ UNCHANGED <<current, Visible>>
  OBVIOUS
<1> USE DEF durable, catalogVars, worldVars
<1>a. /\ sid \in Ids /\ published \subseteq Ids /\ tables \in [Ids -> [TableSet -> SUBSET Segment]]
  BY DEF CatalogInv, CatalogTypeOK, BuildTypeOK
<1>b. ASSUME UNCHANGED <<current, tables, published>> PROVE UNCHANGED <<current, Visible>>
  BY <1>b, VisibleStays
<1>0. CASE UNCHANGED vars
  BY <1>0, <1>b DEF vars
<1>1. CASE Begin \/ LockBusy \/ Lock
  BY <1>1, <1>b DEF Begin, LockBusy, Lock
<1>2. CASE Select \/ CreateStaging \/ WriteResumeRequest
  BY <1>2, <1>b DEF Select, CreateStaging, WriteResumeRequest
<1>3. CASE InspectFiles \/ RestoreCheckpoint \/ StartIndexing \/ BuildFiles \/ ValidateBuild
  BY <1>3, <1>b DEF InspectFiles, RestoreCheckpoint, StartIndexing, BuildFiles, ValidateBuild
<1>4. CASE CommitRename \/ CommitSuccess
  BY <1>4, <1>b DEF CommitRename, CommitSuccess
<1>5. CASE CleanupParts \/ Abort \/ Throws \/ Kill
  BY <1>5, <1>b, ReleaseType DEF CleanupParts, Abort, Throws, Kill
<1>6. ASSUME NEW k \in 1 .. 4, NEW h, NEW a, CompactTable(k, h, a)
      PROVE  UNCHANGED <<current, Visible>>
  <2>1. /\ tables' = [tables EXCEPT ![sid][Tables[k]] = IF @ = Absent THEN segs[sid] ELSE @]
        /\ UNCHANGED <<current, published>> /\ Tables[k] \in TableSet
    BY <1>6 DEF CompactTable, TableSet
  <2>2. sid \in published => tables[sid][Tables[k]] # Absent
    BY <2>1 DEF OrderInv, PublishedIsComplete, Complete
  <2>3. \A i \in published : tables'[i] = tables[i]
    BY <1>a, <2>1, <2>2
  <2>4. QED BY <2>1, <2>3, VisibleStays
<1>7. CASE CommitCurrent
  <2>1. /\ current' = sid /\ published' = published \cup {sid} /\ tables' = tables
        /\ Complete(sid)
    BY <1>7 DEF CommitCurrent, OrderInv, Compacted
  <2>2. /\ Visible'[sid] = [t \in TableSet |-> tables[sid][t]]
        /\ sid \in published => Visible'[sid] = Visible[sid]
        /\ sid \notin published => Visible[sid] = [t \in TableSet |-> {}]
        /\ \A j \in Ids : j # sid => Visible'[j] = Visible[j]
    BY <1>a, <2>1 DEF Visible
  <2>3. \A t \in TableSet : Visible'[sid][t] # {}
    BY <2>1, <2>2 DEF Complete, Absent
  <2>4. (\A t \in TableSet : Visible[sid][t] # {}) => Visible'[sid] = Visible[sid]
    BY <2>2, TableNames
  <2>5. Readers!Publish(sid)
    BY <2>1, <2>2, <2>3, <2>4 DEF Readers!Publish, Readers!Whole
  <2>6. QED BY <1>a, <2>5 DEF Readers!Next
<1>8. ASSUME NEW k, NEW h, NEW a, CompactTable(k, h, a), k \in {1, 2, 3, 4}
      PROVE  UNCHANGED <<current, Visible>>
  BY <1>6, <1>8
<1>9. QED
  BY <1>0, <1>1, <1>2, <1>3, <1>4, <1>5, <1>7, <1>8, CatalogSteps

\* The catalog implements what Generations promises to readers: what they
\* resolve through current.json changes only by a publication and as a whole,
\* and a generation that was visible keeps its tables for ever, also when its
\* directory is resumed, compacted and published again.
THEOREM CatalogImplementsGenerations == Spec => ImplementsGenerations
<1>1. QED
  BY GenerationsInit, GenerationsStep, InOrder, PTL DEF Spec, ImplementsGenerations, Readers!Spec

-----------------------------------------------------------------------------
(***************************************************************************)
(* Sets of segments.                                                       *)
(***************************************************************************)

Covers(S)  == S # {} /\ \A f \in Files : \E s \in S : f \in s.files
Carries(S) == \A c \in Columns : \E s \in S : c \in s.schema

\* The files of S were planned with the event bases of a run that could not
\* inspect the files of E, and none of them is one of those.
Agree(S, E) ==
    \A s \in S : \A f \in s.files : f \notin E /\ EventBase(f, s.errors) = EventBase(f, E)

\* Segments that share no file cover the files only together.
LEMMA CoverIsAll ==
    ASSUME NEW S, NEW K, K \subseteq S, S \subseteq Segment,
           \A s, u \in S : s # u => s.files \cap u.files = {},
           \A s \in S : s.files # {}, Covers(K)
    PROVE  K = S
<1> SUFFICES ASSUME NEW s \in S PROVE s \in K
  OBVIOUS
<1>1. PICK f \in s.files : f \in Files
  BY DEF Segment
<1>2. PICK u \in K : f \in u.files
  BY <1>1 DEF Covers
<1>3. QED BY <1>1, <1>2

\* A later file of a plan has a larger event base than each file before it
\* that could be inspected.
LEMMA BasesGrow ==
    ASSUME NEW f \in Files, NEW g \in Files, f < g, NEW E, f \notin E
    PROVE  EventBase(f, E) # EventBase(g, E)
<1> DEFINE A == {h \in Files : h < f /\ h \notin E}
           B == {h \in Files : h < g /\ h \notin E}
<1>1. IsFiniteSet(Files)
  <2>1. 1 \in Int /\ NFiles \in Int
    BY SizeAssumption
  <2>2. QED BY <2>1, FS_Interval DEF Files
<1>2. A \subseteq Files /\ B \subseteq Files /\ \A h \in Files : h \in Nat
  BY SizeAssumption DEF Files
<1>3. IsFiniteSet(A) /\ IsFiniteSet(B)
  BY <1>1, <1>2, FS_Subset
<1>4. f \notin A /\ A \cup {f} \subseteq B
  BY <1>2
<1>5. Cardinality(A \cup {f}) = Cardinality(A) + 1 /\ IsFiniteSet(A \cup {f})
  BY <1>3, <1>4, FS_AddElement
<1>6. Cardinality(A \cup {f}) <= Cardinality(B)
  BY <1>3, <1>4, FS_Subset
<1>7. Cardinality(A) \in Nat /\ Cardinality(B) \in Nat
  BY <1>3, FS_CardinalityType
<1>8. Cardinality(A) # Cardinality(B)
  BY <1>5, <1>6, <1>7
<1>9. QED BY <1>8 DEF EventBase

LEMMA BasesDiffer ==
    ASSUME NEW f \in Files, NEW g \in Files, f # g, NEW E, f \notin E, g \notin E
    PROVE  EventBase(f, E) # EventBase(g, E)
<1>1. f < g \/ g < f
  BY SizeAssumption DEF Files
<1>2. QED BY <1>1, BasesGrow

-----------------------------------------------------------------------------
(***************************************************************************)
(* The inductive invariant: the segments of every directory.               *)
(***************************************************************************)

NoEmptySegment == \A i \in Ids : \A s \in segs[i] : s.files # {}

\* Whoever wrote them, segments that hold every file carry every schema row.
WholeCarries == \A i \in Ids : Covers(segs[i]) => Carries(segs[i])

SegmentsInv == ExactlyOnce /\ NamesAreTaken /\ NoEmptySegment /\ WholeCarries

\* Segments are removed by RestoreCheckpoints and with parts/.
LEMMA SegmentsShrink ==
    ASSUME CatalogInv, SegmentsInv,
           \A i \in Ids : segs'[i] \subseteq segs[i],
           \A i \in Ids : \/ pending'[i] = pending[i] /\ dirs'[i] = dirs[i]
                          \/ segs'[i] = {} /\ pending'[i] = {}
    PROVE  SegmentsInv'
<1>1. ExactlyOnce' /\ NoEmptySegment'
  BY DEF SegmentsInv, ExactlyOnce, NoEmptySegment
<1>2. NamesAreTaken'
  <2> SUFFICES ASSUME NEW i \in Ids
               PROVE  /\ \A s \in segs'[i] : s.worker \in dirs'[i]
                      /\ \A p \in pending'[i] : p[1] \in dirs'[i]
    BY DEF NamesAreTaken
  <2>1. CASE pending'[i] = pending[i] /\ dirs'[i] = dirs[i]
    BY <2>1 DEF SegmentsInv, NamesAreTaken
  <2>2. CASE segs'[i] = {} /\ pending'[i] = {}
    BY <2>2
  <2>3. QED BY <2>1, <2>2
<1>3. WholeCarries'
  <2> SUFFICES ASSUME NEW i \in Ids, Covers(segs'[i]) PROVE Carries(segs'[i])
    BY DEF WholeCarries, Covers, Carries
  <2>1. /\ segs[i] \subseteq Segment /\ \A s \in segs[i] : s.files # {}
        /\ \A s, u \in segs[i] : s # u => s.files \cap u.files = {}
    BY DEF CatalogInv, CatalogTypeOK, BuildTypeOK, SegmentsInv, ExactlyOnce, NoEmptySegment
  <2>2. segs'[i] = segs[i]
    BY <2>1, CoverIsAll
  <2>3. QED BY <2>2 DEF SegmentsInv, WholeCarries
<1>4. QED BY <1>1, <1>2, <1>3 DEF SegmentsInv

\* A segment that a crash tears still names its files and its columns.
LEMMA SegmentsTear ==
    ASSUME CatalogInv, SegmentsInv, Kill
    PROVE  SegmentsInv'
<1>0. /\ sid \in Ids /\ segs \in [Ids -> SUBSET Segment]
      /\ UNCHANGED <<pending, dirs>>
  BY DEF CatalogInv, CatalogTypeOK, BuildTypeOK, Kill
<1>1. CASE segs' = segs
  BY <1>0, <1>1 DEF SegmentsInv, ExactlyOnce, NamesAreTaken, NoEmptySegment, WholeCarries
<1>2. CASE segs' # segs
  <2>1. PICK s \in segs[sid] : segs'[sid] = (segs[sid] \ {s}) \cup {[s EXCEPT !.intact = FALSE]}
    BY <1>2, KillFrame
  <2> DEFINE z == [s EXCEPT !.intact = FALSE]
  <2>2. z.files = s.files /\ z.schema = s.schema /\ z.worker = s.worker
    BY <1>0, TornSegment
  <2> HIDE DEF z
  <2>3. segs'[sid] = (segs[sid] \ {s}) \cup {z} /\ \A i \in Ids : i # sid => segs'[i] = segs[i]
    BY <2>1, KillFrame DEF z
  <2>4. ExactlyOnce'
    <3> SUFFICES ASSUME NEW i \in Ids, NEW t \in segs'[i], NEW u \in segs'[i], t # u
                 PROVE  t.files \cap u.files = {}
      BY DEF ExactlyOnce
    <3>1. CASE i # sid
      BY <2>3, <3>1 DEF SegmentsInv, ExactlyOnce
    <3>2. CASE i = sid
      <4>1. CASE t = z /\ u \in segs[sid] \ {s}
        BY <1>0, <2>2, <4>1 DEF SegmentsInv, ExactlyOnce
      <4>2. CASE u = z /\ t \in segs[sid] \ {s}
        BY <1>0, <2>2, <4>2 DEF SegmentsInv, ExactlyOnce
      <4>3. CASE t \in segs[sid] /\ u \in segs[sid]
        BY <1>0, <4>3 DEF SegmentsInv, ExactlyOnce
      <4>4. QED BY <2>3, <3>2, <4>1, <4>2, <4>3
    <3>3. QED BY <3>1, <3>2
  <2>5. NamesAreTaken'
    BY <1>0, <2>2, <2>3 DEF SegmentsInv, NamesAreTaken
  <2>6. NoEmptySegment'
    BY <1>0, <2>2, <2>3 DEF SegmentsInv, NoEmptySegment
  <2>7. WholeCarries'
    <3> SUFFICES ASSUME NEW i \in Ids, Covers(segs'[i]) PROVE Carries(segs'[i])
      BY DEF WholeCarries, Covers, Carries
    <3>1. CASE i # sid
      BY <2>3, <3>1 DEF SegmentsInv, WholeCarries
    <3>2. CASE i = sid
      <4>1. Covers(segs[sid])
        BY <2>1, <2>2, <2>3, <3>2 DEF Covers
      <4>2. Carries(segs[sid])
        BY <1>0, <4>1 DEF SegmentsInv, WholeCarries
      <4>3. QED BY <2>2, <2>3, <3>2, <4>2 DEF Carries
    <3>3. QED BY <3>1, <3>2
  <2>8. QED BY <2>4, <2>5, <2>6, <2>7 DEF SegmentsInv
<1>3. QED BY <1>1, <1>2

-----------------------------------------------------------------------------
(***************************************************************************)
(* The inductive invariant: the run that owns the lock.                    *)
(***************************************************************************)

\* What RestoreCheckpoints has kept so far are planned files, and they are
\* exactly the ones it has marked.
RestoreInv ==
    phase = "restore" =>
        /\ todo \subseteq segs[sid]
        /\ Agree(segs[sid] \ todo, planErr)
        /\ \A s \in segs[sid] \ todo : \A f \in s.files : status[f] = "OK"
        /\ \A f \in Files : status[f] = "OK" => \E s \in segs[sid] \ todo : f \in s.files

\* The threads only hold planned files.
PlannedInv ==
    /\ Agree(segs[sid], planErr)
    /\ \A w \in Workers : ws[w].file \notin planErr /\ ws[w].buffer \cap planErr = {}

\* What the threads of IndexWorkers keep, in the directory of a resumed run.
ThreadsInv == OnceInv /\ DurableInv /\ SchemaInv /\ NumbersAreFree /\ PlannedInv

IndexInv == phase = "index" => ThreadsInv

\* No thread is between its claim and its last flush outside BuildFiles.
Idle == phase # "index" => \A w \in Workers : ws[w].pc \in {"open", "done"}

CompactPhases == {"compact1", "compact2", "compact3", "compact4"}

\* The segments to compact are those of one plan, and all of it is there when
\* the request is strict.
CompactInv ==
    phase \in CompactPhases =>
        /\ Agree(segs[sid], planErr)
        /\ run.request \notin Partial => Covers(segs[sid])

OwnerInv == RestoreInv /\ IndexInv /\ Idle /\ CompactInv

\* The tables of every directory, of whatever run.
TablesHoldOnce ==
    \A i \in Ids, t \in TableSet : \A s, u \in tables[i][t] : s # u => s.files \cap u.files = {}

TablesShareBases ==
    \A i \in Ids, t \in TableSet : \E E \in SUBSET Files : Agree(tables[i][t], E)

TablesAreWhole ==
    \A i \in Ids, t \in TableSet :
        tables[i][t] # Absent /\ request[i] \notin Partial =>
            Covers(tables[i][t]) /\ Carries(tables[i][t])

TablesInv == TablesHoldOnce /\ TablesShareBases /\ TablesAreWhole

ContentsInv == SegmentsInv /\ OwnerInv /\ TablesInv

LEMMA FreshFields ==
    /\ FreshWorker.pc = "open" /\ FreshWorker.file = NoFile /\ FreshWorker.buffer = {}
    /\ FreshWorker.rows = {} /\ FreshWorker.columns = {} /\ FreshWorker.staged = {}
    /\ FreshWorker.number = 0
BY DEF FreshWorker

LEMMA ContentsInit == Init => ContentsInv
<1> SUFFICES ASSUME Init PROVE ContentsInv
  OBVIOUS
<1>1. SegmentsInv
  BY DEF Init, SegmentsInv, ExactlyOnce, NamesAreTaken, NoEmptySegment, WholeCarries, Covers
<1>2. OwnerInv
  BY FreshFields DEF Init, OwnerInv, RestoreInv, IndexInv, Idle, CompactInv, CompactPhases
<1>3. TablesInv
  <2>1. \A i \in Ids, t \in TableSet : tables[i][t] = {}
    BY DEF Init, Absent
  <2>2. {} \in SUBSET Files /\ Agree({}, {})
    BY DEF Agree
  <2>3. QED BY <2>1, <2>2 DEF TablesInv, TablesHoldOnce, TablesShareBases, TablesAreWhole, Absent
<1>4. QED BY <1>1, <1>2, <1>3 DEF ContentsInv

-----------------------------------------------------------------------------
(***************************************************************************)
(* StartIndexing: the threads start on what was restored.                  *)
(***************************************************************************)

LEMMA ThreadsStart ==
    ASSUME CatalogInv, OrderInv, ContentsInv, StartIndexing
    PROVE  ThreadsInv'
<1>0. /\ phase = "restore" /\ todo = {} /\ next' = 1 /\ base' = NextWorkerId(dirs[sid])
      /\ \A w \in Workers : ws'[w] = FreshWorker
      /\ UNCHANGED <<segs, pending, dirs, sid, planErr, status>>
  BY DEF StartIndexing, StartWorkers, durable
<1>a. /\ sid \in Ids /\ segs \in [Ids -> SUBSET Segment] /\ dirs \in [Ids -> SUBSET Nat]
      /\ pending \in [Ids -> SUBSET (Nat \X Nat)] /\ planErr \subseteq Files
  BY DEF CatalogInv, CatalogTypeOK, BuildTypeOK
<1>b. /\ Agree(segs[sid], planErr)
      /\ \A s \in segs[sid] : \A f \in s.files : status[f] = "OK"
      /\ \A f \in Files : status[f] = "OK" => \E s \in segs[sid] : f \in s.files
  <2>1. segs[sid] \ todo = segs[sid]
    BY <1>0
  <2>2. QED BY <1>0, <2>1 DEF ContentsInv, OwnerInv, RestoreInv
<1>1. OnceInv'
  <2>1. \A w \in Workers : Held(w)' = {} /\ ws'[w].staged = {}
    BY <1>0, FreshFields DEF Held
  <2>2. ExactlyOnce'
    BY <1>0 DEF ContentsInv, SegmentsInv, ExactlyOnce
  <2>3. WrittenIsOK'
    BY <1>0, <1>b DEF WrittenIsOK
  <2>4. QED BY <2>1, <2>2, <2>3 DEF OnceInv, HeldIsClaimed, HeldOnce, HeldIsUnwritten
<1>2. DurableInv'
  BY <1>0, <1>b, FreshFields DEF DurableInv, OKIsKept, BufferOK
<1>3. SchemaInv'
  BY <1>0, FreshFields DEF SchemaInv, ColumnsAreWritten, FlushIsNotEmpty
<1>4. NumbersAreFree'
  <2>1. PICK b \in Nat : \A n \in dirs[sid] : n <= b
    BY <1>a DEF OrderInv, DirsAreBounded
  <2>2. base' \in Nat /\ \A n \in dirs[sid] : n < base'
    BY <1>0, <1>a, <2>1, NextWorkerIdIsFresh
  <2>3. ASSUME NEW w \in Workers PROVE base' + w \notin dirs[sid]
    BY <1>a, <2>2, SizeAssumption DEF Workers
  <2>4. ASSUME NEW w \in Workers
        PROVE  /\ \A s \in segs[sid] : s.worker # base' + w
               /\ \A m \in Nat : <<base' + w, m>> \notin pending[sid]
    BY <1>a, <2>3 DEF ContentsInv, SegmentsInv, NamesAreTaken
  <2>5. QED BY <1>0, <2>4, FreshFields DEF NumbersAreFree
<1>5. PlannedInv'
  <2>1. NoFile \notin planErr
    BY <1>a DEF NoFile, Files
  <2>2. QED BY <1>0, <1>b, <2>1, FreshFields DEF PlannedInv, Agree
<1>6. QED BY <1>1, <1>2, <1>3, <1>4, <1>5 DEF ThreadsInv

-----------------------------------------------------------------------------
(***************************************************************************)
(* BuildFiles: the steps of the threads.                                   *)
(***************************************************************************)

LEMMA PlannedStep ==
    ASSUME TInv, PlannedInv, BuildNext
    PROVE  PlannedInv'
<1>0. /\ planErr \subseteq Files /\ NoFile \notin planErr /\ sid \in Ids
  BY DEF TInv, BuildTypeOK, NoFile, Files
<1>1. PICK w \in Workers : WorkerStep(w)
  BY DEF BuildNext
<1>2. /\ UNCHANGED <<sid, planErr>>
      /\ \A v \in Workers : v # w => ws'[v] = ws[v]
      /\ ws'[w].buffer \subseteq ws[w].buffer \cup ({ws[w].file} \ {NoFile})
      /\ \/ ws'[w].file \in {NoFile, ws[w].file}
         \/ ws'[w].file = next /\ next \notin planErr
      /\ segs' = segs \/ CommitSegment(w)
  BY <1>1, StepEffect DEF Quiet, Opens, Renames
<1>3. \A v \in Workers : ws'[v].file \notin planErr /\ ws'[v].buffer \cap planErr = {}
  <2>1. ws'[w].file \notin planErr
    BY <1>0, <1>2 DEF PlannedInv
  <2>2. ws'[w].buffer \cap planErr = {}
    BY <1>2 DEF PlannedInv
  <2>3. QED BY <1>2, <2>1, <2>2 DEF PlannedInv
<1>4. Agree(segs'[sid], planErr)
  <2>1. CASE segs' = segs
    BY <2>1 DEF PlannedInv
  <2>2. CASE CommitSegment(w)
    <3>1. PICK s : /\ segs'[sid] = segs[sid] \cup {s}
                   /\ s.files = ws[w].buffer /\ s.errors = planErr
      BY <2>2, CommitSegmentFrame
    <3>2. \A f \in s.files : f \notin planErr
      BY <3>1 DEF PlannedInv
    <3>3. QED BY <3>1, <3>2 DEF PlannedInv, Agree
  <2>3. QED BY <1>2, <2>1, <2>2
<1>5. QED BY <1>2, <1>3, <1>4 DEF PlannedInv, Agree, EventBase

LEMMA ThreadsStep ==
    ASSUME CatalogInv, SegmentsInv, ThreadsInv, BuildNext
    PROVE  SegmentsInv' /\ ThreadsInv'
<1>0. TInv /\ [BuildNext]_buildVars /\ NamesInv
  BY CatalogBuild DEF SegmentsInv, ThreadsInv, NamesInv
<1>1. OnceInv' /\ DurableInv' /\ SchemaInv' /\ NamesInv'
  BY <1>0, OnceStep, DurableStep, SchemaStep, NamesStep DEF ThreadsInv
<1>2. PlannedInv'
  BY <1>0, PlannedStep DEF ThreadsInv
<1>3. /\ sid' = sid /\ sid \in Ids /\ \A i \in Ids : i # sid => segs'[i] = segs[i]
  BY BuildFrame DEF CatalogInv, CatalogTypeOK, BuildTypeOK
<1>4. \/ segs'[sid] = segs[sid]
      \/ Carries(segs'[sid]) /\ \E s : segs'[sid] = segs[sid] \cup {s} /\ s.files # {}
  <2>1. SchemaInv
    BY DEF ThreadsInv
  <2>2. QED BY <1>0, <2>1, SegmentsGrow DEF Carries
<1>5. NoEmptySegment'
  BY <1>3, <1>4 DEF SegmentsInv, NoEmptySegment
<1>6. WholeCarries'
  <2> SUFFICES ASSUME NEW i \in Ids, Covers(segs'[i]) PROVE Carries(segs'[i])
    BY DEF WholeCarries, Covers, Carries
  <2>1. CASE segs'[i] = segs[i]
    BY <2>1 DEF SegmentsInv, WholeCarries
  <2>2. QED BY <1>3, <1>4, <2>1
<1>7. QED BY <1>1, <1>2, <1>5, <1>6 DEF SegmentsInv, ThreadsInv, OnceInv, NamesInv

-----------------------------------------------------------------------------
(***************************************************************************)
(* The steps of Run around BuildFiles.                                     *)
(***************************************************************************)

\* Most phases have nothing to say about segments.
LEMMA OwnerElsewhere ==
    ASSUME phase' \notin {"restore", "index"} \cup CompactPhases,
           \A w \in Workers : ws'[w].pc \in {"open", "done"}
    PROVE  OwnerInv'
BY DEF OwnerInv, RestoreInv, IndexInv, Idle, CompactInv

LEMMA OwnerGone == ASSUME Release PROVE OwnerInv'
<1>1. phase' = "free" /\ \A w \in Workers : ws'[w].pc = "open"
  BY FreshFields DEF Release
<1>2. QED BY <1>1, OwnerElsewhere DEF CompactPhases

LEMMA SegmentsStay ==
    ASSUME SegmentsInv, UNCHANGED <<segs, pending, dirs>> PROVE SegmentsInv'
BY DEF SegmentsInv, ExactlyOnce, NamesAreTaken, NoEmptySegment, WholeCarries

LEMMA TablesStay ==
    ASSUME TablesInv, UNCHANGED tables,
           \A i \in Ids, t \in TableSet : tables[i][t] # Absent => request'[i] = request[i]
    PROVE  TablesInv'
<1>1. TablesHoldOnce'
  BY DEF TablesInv, TablesHoldOnce
<1>2. TablesShareBases'
  BY DEF TablesInv, TablesShareBases
<1>3. TablesAreWhole'
  BY DEF TablesInv, TablesAreWhole
<1>4. QED BY <1>1, <1>2, <1>3 DEF TablesInv

\* A run that does not resume inspects an empty directory.
LEMMA InspectOwner ==
    ASSUME CatalogInv, OrderInv, ContentsInv, InspectFiles PROVE OwnerInv'
<1>1. /\ phase = "inspect" /\ phase' = "restore" /\ UNCHANGED <<segs, pending, dirs, sid, ws>>
      /\ todo' = IF run.resume THEN segs[sid] ELSE {}
      /\ \A f \in Files : status'[f] # "OK"
  BY DEF InspectFiles, durable
<1>2. todo' = segs[sid]
  BY <1>1 DEF OrderInv, OwnerHasPlace
<1>3. RestoreInv'
  BY <1>1, <1>2 DEF RestoreInv, Agree
<1>4. Idle'
  BY <1>1 DEF ContentsInv, OwnerInv, Idle
<1>5. QED BY <1>1, <1>3, <1>4 DEF OwnerInv, IndexInv, CompactInv, CompactPhases

\* A segment is kept when it agrees with the plan and holds none of the files
\* that are restored already; it is removed otherwise.
LEMMA RestoreOwner ==
    ASSUME CatalogInv, OrderInv, ContentsInv, RestoreCheckpoint
    PROVE  SegmentsInv' /\ OwnerInv'
<1>0. /\ phase = "restore" /\ phase' = "restore"
      /\ UNCHANGED <<pending, dirs, sid, planErr, ws>>
      /\ sid \in Ids /\ segs \in [Ids -> SUBSET Segment] /\ planErr \subseteq Files
  BY DEF RestoreCheckpoint, CatalogInv, CatalogTypeOK, BuildTypeOK
<1>a. /\ todo \subseteq segs[sid]
      /\ Agree(segs[sid] \ todo, planErr)
      /\ \A s \in segs[sid] \ todo : \A f \in s.files : status[f] = "OK"
      /\ \A f \in Files : status[f] = "OK" => \E s \in segs[sid] \ todo : f \in s.files
  BY <1>0 DEF ContentsInv, OwnerInv, RestoreInv
<1>b. Idle'
  BY <1>0 DEF ContentsInv, OwnerInv, Idle
<1>1. PICK s \in todo :
        /\ todo' = todo \ {s}
        /\ \/ /\ Valid(s) /\ segs' = segs
              /\ status' = [f \in Files |-> IF f \in s.files THEN "OK" ELSE status[f]]
           \/ segs' = [segs EXCEPT ![sid] = @ \ {s}] /\ status' = status
  BY DEF RestoreCheckpoint
<1>2. CASE Valid(s) /\ segs' = segs
           /\ status' = [f \in Files |-> IF f \in s.files THEN "OK" ELSE status[f]]
  <2>1. segs'[sid] \ todo' = (segs[sid] \ todo) \cup {s} /\ s.files \subseteq Files
    BY <1>0, <1>a, <1>1, <1>2 DEF Segment
  <2>2. Agree(segs'[sid] \ todo', planErr)
    BY <1>a, <1>2, <2>1 DEF Agree, Valid
  <2>3. \A u \in segs'[sid] \ todo' : \A f \in u.files : status'[f] = "OK"
    <3>1. \A u \in segs[sid] : u.files \subseteq Files
      BY <1>0 DEF Segment
    <3>2. QED BY <1>a, <1>2, <2>1, <3>1
  <2>4. \A f \in Files : status'[f] = "OK" => \E u \in segs'[sid] \ todo' : f \in u.files
    BY <1>a, <1>2, <2>1
  <2>5. todo' \subseteq segs'[sid]
    BY <1>a, <1>1, <1>2
  <2>6. RestoreInv'
    BY <1>0, <2>2, <2>3, <2>4, <2>5 DEF RestoreInv, Agree, EventBase
  <2>7. SegmentsInv'
    BY <1>0, <1>2, SegmentsStay DEF ContentsInv
  <2>8. QED BY <1>0, <1>b, <2>6, <2>7 DEF OwnerInv, IndexInv, CompactInv, CompactPhases
<1>3. CASE segs' = [segs EXCEPT ![sid] = @ \ {s}] /\ status' = status
  <2>1. segs'[sid] = segs[sid] \ {s} /\ \A i \in Ids : segs'[i] \subseteq segs[i]
    BY <1>0, <1>3
  <2>2. segs'[sid] \ todo' = segs[sid] \ todo /\ todo' \subseteq segs'[sid]
    BY <1>a, <1>1, <2>1
  <2>3. RestoreInv'
    BY <1>0, <1>a, <1>3, <2>2 DEF RestoreInv, Agree, EventBase
  <2>4. SegmentsInv'
    BY <1>0, <2>1, SegmentsShrink DEF ContentsInv
  <2>5. QED BY <1>0, <1>b, <2>3, <2>4 DEF OwnerInv, IndexInv, CompactInv, CompactPhases
<1>4. QED BY <1>1, <1>2, <1>3

\* After the join, what is reported OK is in segments; a strict request goes on
\* only when that is every file.
LEMMA ValidateOwner ==
    ASSUME CatalogInv, OrderInv, ContentsInv, ValidateBuild PROVE OwnerInv'
<1>1. /\ phase = "index" /\ phase' = "compact1" /\ AllDone /\ Acceptable
      /\ UNCHANGED <<segs, sid, planErr, ws, run>>
  BY DEF ValidateBuild, buildVars
<1>2. DurableInv /\ PlannedInv
  BY <1>1 DEF ContentsInv, OwnerInv, IndexInv, ThreadsInv
<1>3. \A f \in Files : status[f] = "OK" => \E s \in segs[sid] : f \in s.files
  BY <1>1, <1>2 DEF DurableInv, OKIsKept, AllDone
<1>4. run.request \notin Partial => Covers(segs[sid])
  BY <1>1, <1>3 DEF Acceptable, AllowPartial, Covers
<1>5. CompactInv'
  BY <1>1, <1>2, <1>4 DEF CompactInv, PlannedInv, Agree, EventBase, Covers
<1>6. Idle'
  BY <1>1 DEF AllDone, Idle
<1>7. QED BY <1>1, <1>5, <1>6 DEF OwnerInv, RestoreInv, IndexInv

\* A table that is copied from the segments holds what they hold.
LEMMA CompactContents ==
    ASSUME CatalogInv, OrderInv, ContentsInv, NEW k \in 1 .. 4, NEW here, NEW after,
           here \in CompactPhases, after \in CompactPhases \cup {"rename"},
           CompactTable(k, here, after)
    PROVE  OwnerInv' /\ TablesInv'
<1>0. /\ sid \in Ids /\ tables \in [Ids -> [TableSet -> SUBSET Segment]]
      /\ segs \in [Ids -> SUBSET Segment] /\ planErr \subseteq Files
  BY DEF CatalogInv, CatalogTypeOK, BuildTypeOK
<1>1. /\ Tables[k] \in TableSet /\ phase = here /\ phase' = after
      /\ tables' = [tables EXCEPT ![sid][Tables[k]] = IF @ = Absent THEN segs[sid] ELSE @]
      /\ UNCHANGED <<segs, sid, planErr, ws, run, request>>
  BY DEF CompactTable, buildVars, TableSet
<1>2. /\ Agree(segs[sid], planErr)
      /\ run.request \notin Partial => Covers(segs[sid])
      /\ request[sid] = run.request
  BY <1>1 DEF ContentsInv, OwnerInv, CompactInv, OrderInv, OwnerHasPlace, CompactPhases, TryPhases
<1>3. OwnerInv'
  <2>1. Idle'
    BY <1>1 DEF ContentsInv, OwnerInv, Idle, CompactPhases
  <2>2. CompactInv'
    BY <1>1, <1>2 DEF CompactInv, Agree, EventBase, Covers
  <2>3. QED BY <1>1, <2>1, <2>2 DEF OwnerInv, RestoreInv, IndexInv, CompactPhases
<1>4. ASSUME NEW i \in Ids, NEW t \in TableSet
      PROVE  tables'[i][t] = tables[i][t] \/ (i = sid /\ tables'[i][t] = segs[sid])
  BY <1>0, <1>1
<1>5. TablesHoldOnce'
  BY <1>0, <1>4 DEF TablesHoldOnce, ContentsInv, TablesInv, SegmentsInv, ExactlyOnce
<1>6. TablesShareBases'
  <2> SUFFICES ASSUME NEW i \in Ids, NEW t \in TableSet
               PROVE  \E E \in SUBSET Files : Agree(tables'[i][t], E)
    BY DEF TablesShareBases, Agree, EventBase
  <2>1. CASE tables'[i][t] = tables[i][t]
    BY <2>1 DEF ContentsInv, TablesInv, TablesShareBases
  <2>2. CASE tables'[i][t] = segs[sid]
    BY <1>0, <1>2, <2>2
  <2>3. QED BY <1>4, <2>1, <2>2
<1>7. TablesAreWhole'
  <2> SUFFICES ASSUME NEW i \in Ids, NEW t \in TableSet,
                      tables'[i][t] # Absent, request[i] \notin Partial
               PROVE  Covers(tables'[i][t]) /\ Carries(tables'[i][t])
    BY <1>1 DEF TablesAreWhole, Covers, Carries
  <2>1. CASE tables'[i][t] = tables[i][t]
    BY <2>1 DEF ContentsInv, TablesInv, TablesAreWhole
  <2>2. CASE i = sid /\ tables'[i][t] = segs[sid]
    <3>1. Covers(segs[sid])
      BY <1>2, <2>2
    <3>2. Carries(segs[sid])
      BY <1>0, <3>1 DEF ContentsInv, SegmentsInv, WholeCarries
    <3>3. QED BY <2>2, <3>1, <3>2
  <2>3. QED BY <1>4, <2>1, <2>2
<1>8. QED BY <1>3, <1>5, <1>6, <1>7 DEF TablesInv

LEMMA ContentsStep == CatalogInv /\ OrderInv /\ ContentsInv /\ [Next]_vars => ContentsInv'
<1> SUFFICES ASSUME CatalogInv, OrderInv, ContentsInv, [Next]_vars PROVE ContentsInv'
  OBVIOUS
<1> USE DEF durable, catalogVars, worldVars
<1>a. SegmentsInv /\ OwnerInv /\ TablesInv
  BY DEF ContentsInv
<1>b. ASSUME UNCHANGED <<segs, pending, dirs, tables, request>>, OwnerInv' PROVE ContentsInv'
  BY <1>a, <1>b, SegmentsStay, TablesStay DEF ContentsInv
<1>c. ASSUME UNCHANGED <<segs, sid, planErr, status, next, base, ws, phase, todo, run>>,
             UNCHANGED <<pending, dirs, tables, request>>
      PROVE  ContentsInv'
  <2>1. OwnerInv'
    <3>1. UNCHANGED <<RestoreInv, CompactInv, Idle>>
      BY <1>c DEF RestoreInv, CompactInv, Idle, Agree, EventBase, Covers
    <3>2. UNCHANGED <<DurableInv, SchemaInv, PlannedInv, NumbersAreFree>>
      BY <1>c DEF DurableInv, OKIsKept, BufferOK, SchemaInv, ColumnsAreWritten, Written,
                  FlushIsNotEmpty, PlannedInv, Agree, EventBase, NumbersAreFree
    <3>3. UNCHANGED OnceInv
      BY <1>c DEF OnceInv, HeldIsClaimed, HeldOnce, Held, HeldIsUnwritten, WrittenIsOK, ExactlyOnce
    <3>4. QED BY <1>a, <1>c, <3>1, <3>2, <3>3 DEF OwnerInv, IndexInv, ThreadsInv
  <2>2. QED BY <1>b, <1>c, <2>1
<1>0. CASE UNCHANGED vars
  BY <1>0, <1>c DEF vars, buildVars
<1>1. CASE Begin \/ LockBusy
  BY <1>1, <1>c DEF Begin, LockBusy, buildVars
<1>2. CASE Lock \/ Select \/ CreateStaging
  <2>1. phase' \in {"select", "create", "request", "inspect"} /\ phase # "index"
        /\ UNCHANGED <<segs, pending, dirs, tables, request, ws>>
    BY <1>2 DEF Lock, Select, CreateStaging, buildVars
  <2>2. OwnerInv'
    BY <1>a, <2>1, OwnerElsewhere DEF OwnerInv, Idle, CompactPhases
  <2>3. QED BY <1>b, <2>1, <2>2
<1>3. CASE WriteResumeRequest
  <2>1. /\ phase = "request" /\ phase' = "inspect" /\ UNCHANGED <<segs, pending, dirs, tables, ws, sid>>
        /\ request' = [request EXCEPT ![sid] = run.request]
    BY <1>3 DEF WriteResumeRequest, buildVars
  <2>2. OwnerInv'
    BY <1>a, <2>1, OwnerElsewhere DEF OwnerInv, Idle, CompactPhases
  <2>3. \A i \in Ids, t \in TableSet : tables'[i][t] # Absent => request'[i] = request[i]
    BY <2>1 DEF OrderInv, OwnerHasPlace, Untouched, CatalogInv, CatalogTypeOK
  <2>4. TablesInv'
    BY <1>a, <2>1, <2>3, TablesStay
  <2>5. QED BY <1>a, <2>1, <2>2, <2>4, SegmentsStay DEF ContentsInv
<1>4. CASE InspectFiles
  BY <1>4, <1>b, InspectOwner DEF InspectFiles
<1>5. CASE RestoreCheckpoint
  BY <1>5, <1>a, RestoreOwner, TablesStay DEF RestoreCheckpoint, ContentsInv
<1>6. CASE StartIndexing
  <2>1. ThreadsInv' /\ phase' = "index"
    BY <1>6, ThreadsStart DEF StartIndexing
  <2>2. OwnerInv'
    BY <2>1 DEF OwnerInv, RestoreInv, IndexInv, Idle, CompactInv, CompactPhases
  <2>3. QED BY <1>6, <1>b, <2>2 DEF StartIndexing
<1>7. CASE BuildFiles
  <2>1. BuildNext /\ phase = "index" /\ phase' = "index" /\ UNCHANGED <<tables, request>>
    BY <1>7 DEF BuildFiles
  <2>2. ThreadsInv' /\ SegmentsInv'
    BY <1>a, <2>1, ThreadsStep DEF OwnerInv, IndexInv
  <2>3. OwnerInv'
    BY <2>1, <2>2 DEF OwnerInv, RestoreInv, IndexInv, Idle, CompactInv, CompactPhases
  <2>4. QED BY <1>a, <2>1, <2>2, <2>3, TablesStay DEF ContentsInv
<1>8. CASE ValidateBuild
  BY <1>8, <1>b, ValidateOwner DEF ValidateBuild, buildVars
<1>9. ASSUME NEW k, NEW h, NEW a, CompactTable(k, h, a), k \in {1, 2, 3, 4},
             h \in CompactPhases, a \in CompactPhases \cup {"rename"}
      PROVE  ContentsInv'
  <2>1. k \in 1 .. 4
    BY <1>9
  <2>2. OwnerInv' /\ TablesInv'
    BY <1>9, <2>1, CompactContents
  <2>3. UNCHANGED <<segs, pending, dirs>>
    BY <1>9 DEF CompactTable, buildVars
  <2>4. QED BY <1>a, <2>2, <2>3, SegmentsStay DEF ContentsInv
<1>10. CASE CommitRename \/ CommitCurrent \/ CommitSuccess
  <2>1. phase' \in {"current", "success", "cleanup"} /\ phase # "index"
        /\ UNCHANGED <<segs, pending, dirs, tables, request, ws>>
    BY <1>10 DEF CommitRename, CommitCurrent, CommitSuccess, buildVars
  <2>2. OwnerInv'
    BY <1>a, <2>1, OwnerElsewhere DEF OwnerInv, Idle, CompactPhases
  <2>3. QED BY <1>b, <2>1, <2>2
<1>11. CASE CleanupParts
  <2>1. Release /\ UNCHANGED <<tables, request>>
    BY <1>11 DEF CleanupParts
  <2>2. SegmentsInv'
    <3>1. \A i \in Ids : \/ pending'[i] = pending[i] /\ dirs'[i] = dirs[i]
                         \/ segs'[i] = {} /\ pending'[i] = {}
      BY <1>11, CleanupFrame
    <3>2. QED BY <1>11, <1>a, <3>1, CleanupFrame, SegmentsShrink
  <2>3. QED BY <1>a, <2>1, <2>2, OwnerGone, TablesStay DEF ContentsInv
<1>12. CASE Abort \/ Throws
  BY <1>12, <1>b, OwnerGone DEF Abort, Throws
<1>13. CASE Kill
  <2>1. Release /\ UNCHANGED <<tables, request>>
    BY <1>13 DEF Kill
  <2>2. QED BY <1>13, <1>a, <2>1, SegmentsTear, OwnerGone, TablesStay DEF ContentsInv
<1>14. ASSUME \/ CompactTable(1, "compact1", "compact2") \/ CompactTable(2, "compact2", "compact3")
              \/ CompactTable(3, "compact3", "compact4") \/ CompactTable(4, "compact4", "rename")
       PROVE  ContentsInv'
  BY <1>9, <1>14 DEF CompactPhases
<1>15. QED
  BY <1>0, <1>1, <1>2, <1>3, <1>4, <1>5, <1>6, <1>7, <1>8, <1>10, <1>11, <1>12, <1>13, <1>14,
     CatalogSteps

-----------------------------------------------------------------------------
(***************************************************************************)
(* Theorems.                                                               *)
(***************************************************************************)

LEMMA ContentsAreKept == Spec => [](CatalogInv /\ OrderInv /\ ContentsInv)
<1>1. Init => ContentsInv
  BY ContentsInit
<1>2. CatalogInv /\ OrderInv /\ ContentsInv /\ [Next]_vars => ContentsInv'
  BY ContentsStep
<1>3. QED BY <1>1, <1>2, InOrder, PTL DEF Spec

\* Whatever runs were killed, failed, resumed and published again, no table
\* CompactRootIndexParquet wrote holds the rows of a file twice, although it
\* concatenates the tables of all segments without looking for duplicates.
THEOREM TablesHoldFilesOnce == Spec => []NoDuplicateRows
<1>1. ContentsInv => NoDuplicateRows
  BY DEF ContentsInv, TablesInv, TablesHoldOnce, NoDuplicateRows
<1>2. QED BY <1>1, ContentsAreKept, PTL

\* The event numbers of the files of a table do not overlap: RestoreCheckpoints
\* drops the segments that another set of unreadable files numbered otherwise.
THEOREM EventNumbersAreDistinct == Spec => []EventRangesDisjoint
<1>1. CatalogInv /\ ContentsInv => EventRangesDisjoint
  <2> SUFFICES ASSUME CatalogInv, ContentsInv, NEW i \in Ids, NEW t \in TableSet,
                      NEW s \in tables[i][t], NEW u \in tables[i][t],
                      NEW f \in s.files, NEW g \in u.files, f # g
               PROVE  EventBase(f, s.errors) # EventBase(g, u.errors)
    BY DEF EventRangesDisjoint
  <2>1. PICK E \in SUBSET Files : Agree(tables[i][t], E)
    BY DEF ContentsInv, TablesInv, TablesShareBases
  <2>2. /\ f \notin E /\ EventBase(f, s.errors) = EventBase(f, E)
        /\ g \notin E /\ EventBase(g, u.errors) = EventBase(g, E)
    BY <2>1 DEF Agree
  <2>3. s \in Segment /\ u \in Segment
    BY DEF CatalogInv, CatalogTypeOK
  <2>4. f \in Files /\ g \in Files
    BY <2>3 DEF Segment
  <2>5. QED BY <2>2, <2>4, BasesDiffer
<1>2. QED BY <1>1, ContentsAreKept, PTL

\* A resumed build never meets a name of an earlier one, in whatever directory:
\* NextCheckpointWorkerId is past every worker directory a crash left there.
THEOREM ResumeNeverCollides == Spec => []NoCheckpointCollision
<1>1. CatalogInv /\ ContentsInv => NoCheckpointCollision
  <2> SUFFICES ASSUME CatalogInv, ContentsInv, NEW w \in Workers,
                      ws[w].pc \in {"build", "finish"}
               PROVE  ~ Collides(w)
    BY DEF NoCheckpointCollision
  <2>1. NumbersAreFree
    BY DEF ContentsInv, OwnerInv, Idle, IndexInv, ThreadsInv
  <2>2. ws[w].number \in Nat
    BY DEF CatalogInv, CatalogTypeOK, BuildTypeOK, WorkerState
  <2>3. \A s \in segs[sid] : s.worker = base + w => s.number < ws[w].number
    BY <2>1 DEF NumbersAreFree
  <2>4. <<base + w, ws[w].number>> \notin pending[sid]
    BY <2>1, <2>2 DEF NumbersAreFree
  <2>5. QED BY <2>2, <2>3, <2>4 DEF Collides
<1>2. QED BY <1>1, ContentsAreKept, PTL

\* What a strict build published describes every file and carries every schema
\* row, also when threads failed, runs were killed and segments were torn.
THEOREM CurrentStaysWhole == Spec => []CurrentIsWhole
<1>1. CatalogInv /\ OrderInv /\ ContentsInv => CurrentIsWhole
  <2> SUFFICES ASSUME CatalogInv, OrderInv, ContentsInv, current # NoId,
                      request[current] \notin Partial
               PROVE  /\ FilesOf(current, "files") = Files /\ FilesOf(current, "baskets") = Files
                      /\ Columns = UNION {s.schema : s \in tables[current]["schemas"]}
    BY DEF CurrentIsWhole
  <2>1. /\ current \in Ids /\ Complete(current)
        /\ tables \in [Ids -> [TableSet -> SUBSET Segment]]
    BY DEF CatalogInv, CatalogTypeOK, OrderInv, CurrentIsPublished, PublishedIsComplete
  <2>2. ASSUME NEW t \in TableSet
        PROVE  /\ \A f \in Files : \E s \in tables[current][t] : f \in s.files
               /\ \A c \in Columns : \E s \in tables[current][t] : c \in s.schema
               /\ \A s \in tables[current][t] : s.files \subseteq Files /\ s.schema \subseteq Columns
    <3>1. Covers(tables[current][t]) /\ Carries(tables[current][t])
      BY <2>1 DEF ContentsInv, TablesInv, TablesAreWhole, Complete
    <3>2. tables[current][t] \subseteq Segment
      BY <2>1
    <3>3. QED BY <3>1, <3>2 DEF Covers, Carries, Segment
  <2>3. ASSUME NEW t \in TableSet PROVE FilesOf(current, t) = Files
    BY <2>2 DEF FilesOf
  <2>4. Columns = UNION {s.schema : s \in tables[current]["schemas"]}
    BY <2>2, TableNames
  <2>5. QED BY <2>3, <2>4, TableNames
<1>2. QED BY <1>1, ContentsAreKept, PTL

=============================================================================
