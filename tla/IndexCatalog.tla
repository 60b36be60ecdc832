---------------------------- MODULE IndexCatalog ----------------------------
(***************************************************************************)
(* RootIndexCoordinator::Run over one output directory, in the local and   *)
(* external catalog modes: runs that start, wait for the advisory lock,    *)
(* look for a checkpoint to resume, build (IndexWorkers), compact, publish *)
(* and clean up, and that may throw or be killed between any two of these  *)
(* steps.                                                                  *)
(*                                                                         *)
(* A directory of the catalog is named by its snapshot id and lies in one  *)
(* place at a time, because the code only ever moves it by rename:         *)
(* .staging-<id>, failed/<id>-<timestamp> or snapshots/<id>.               *)
(***************************************************************************)
EXTENDS IndexWorkers

CONSTANTS
    Requests,   \* build identities (IndexBuildIdentity)
    Partial,    \* those with allow_partial
    MaxTorn     \* bound: segments a crash may leave unreadable

NoId      == 0
NoRequest == "no request.json"

ASSUME CatalogAssumption ==
    /\ Ids \subseteq Nat \ {0} /\ \A i, j \in Ids : i..j \subseteq Ids
    /\ Partial \subseteq Requests /\ NoRequest \notin Requests
    /\ MaxTorn \in Nat

Absent    == {}    \* a table that exists was copied from at least one segment
Tables    == <<"files", "schemas", "access_levels", "baskets">>
TableSet  == {Tables[k] : k \in 1 .. 4}

VARIABLES
    place,      \* durable: [Ids -> where the directory of the id is]
    request,    \* durable: the identity recorded in its request.json
    tables,     \* durable: its compacted tables, the segments each was copied from
    current,    \* durable: snapshot_id of current.json
    success,    \* durable: snapshot_id of _SUCCESS.json
    clock,      \* the last id TimestampId returned
    torn,       \* segments lost to crashes so far
    waiting,    \* runs that have an id and do not own the lock yet
    run,        \* the run that owns the lock
    phase,      \* what it does next, "free" when nobody owns the lock
    todo,       \* segments RestoreCheckpoints has still to look at
    published   \* history: every id current.json has named

catalogVars == <<place, request, tables, current, success>>
worldVars   == <<clock, torn, waiting>>
vars == <<buildVars, catalogVars, worldVars, run, phase, todo, published>>

Run == [id: Ids, request: Requests, resume: BOOLEAN]
NoRun == [id |-> NoId, request |-> NoRequest, resume |-> FALSE]

TryPhases == {"inspect", "restore", "index", "compact1", "compact2", "compact3", "compact4",
              "rename", "current", "success"}

CatalogTypeOK ==
    /\ BuildTypeOK
    /\ place \in [Ids -> {"none", "staging", "failed", "snapshots"}]
    /\ request \in [Ids -> Requests \cup {NoRequest}]
    /\ tables \in [Ids -> [TableSet -> SUBSET Segment]]
    /\ current \in Ids \cup {NoId}
    /\ success \in Ids \cup {NoId}
    /\ clock \in Ids \cup {NoId}
    /\ torn \in 0 .. MaxTorn
    /\ waiting \subseteq Run
    /\ run \in Run \cup {NoRun}
    /\ phase \in TryPhases \cup {"free", "select", "create", "request", "cleanup"}
    /\ todo \subseteq Segment
    /\ published \subseteq Ids

-----------------------------------------------------------------------------
(* Helpers.                                                                *)

\* The run is over: its stack, its threads and its lock are gone.
Release ==
    /\ sid' = CHOOSE i \in Ids : TRUE
    /\ planErr' = {} /\ status' = [f \in Files |-> "none"] /\ indexed' = 0
    /\ next' = 1 /\ base' = 0 /\ ws' = [w \in Workers |-> FreshWorker]
    /\ run' = NoRun /\ phase' = "free" /\ todo' = {}
    /\ UNCHANGED published

\* PreserveFailedStaging, whose rename error is ignored.
PreserveFailedStaging ==
    \/ place' = [place EXCEPT ![sid] = IF @ = "staging" THEN "failed" ELSE @]
    \/ UNCHANGED place

\* An exception inside the try block of Run.
Throws ==
    /\ PreserveFailedStaging
    /\ Release
    /\ UNCHANGED <<durable, request, tables, current, success, worldVars>>

\* mutant: the current snapshot is a candidate as well
CandidatesWithCurrent ==
    {i \in Ids :
        /\ request[i] = run.request
        /\ \/ place[i] \in {"staging", "failed"}
           \/ place[i] = "snapshots" /\ current # NoId /\ i >= current}

\* FindResumeCandidate: staging and failed directories, and the snapshots newer
\* than the published one, that carry the request of this run.
Candidates ==
    {i \in Ids :
        /\ request[i] = run.request
        /\ \/ place[i] \in {"staging", "failed"}
           \/ place[i] = "snapshots" /\ current # NoId /\ i > current}

\* They are sorted by path, descending: snapshots, failed, .staging, and the
\* larger id first inside each.
Rank(i) == CASE place[i] = "snapshots" -> 2 [] place[i] = "failed" -> 1 [] OTHER -> 0
Before(i, j) == Rank(i) > Rank(j) \/ (Rank(i) = Rank(j) /\ i >= j)
Chosen == CHOOSE i \in Candidates : \A j \in Candidates : Before(i, j)

\* The first global event number of f, in units of the entries of a file: the
\* entries of the files before it that could be inspected.
EventBase(f, errors) == Cardinality({g \in Files : g < f /\ g \notin errors})

\* mutant: event_base is not compared
ValidAnyBase(s) == s.intact /\ \A f \in s.files : f \notin planErr /\ status[f] # "OK"

\* RestoreCheckpoints accepts a segment when its receipt and its tables agree
\* and every file of it has a plan, with the same event_base, and is not
\* restored already.
Valid(s) ==
    /\ s.intact
    /\ \A f \in s.files :
        /\ f \notin planErr /\ status[f] # "OK"
        /\ EventBase(f, s.errors) = EventBase(f, planErr)

AllowPartial == run.request \in Partial

-----------------------------------------------------------------------------
(* One action per step of Run.                                             *)

Init ==
    /\ segs = [i \in Ids |-> {}] /\ pending = [i \in Ids |-> {}] /\ dirs = [i \in Ids |-> {}]
    /\ place = [i \in Ids |-> "none"]
    /\ request = [i \in Ids |-> NoRequest]
    /\ tables = [i \in Ids |-> [t \in TableSet |-> Absent]]
    /\ current = NoId /\ success = NoId
    /\ clock = NoId /\ torn = 0 /\ waiting = {}
    /\ published = {}
    /\ sid = CHOOSE i \in Ids : TRUE
    /\ planErr = {} /\ status = [f \in Files |-> "none"] /\ indexed = 0
    /\ next = 1 /\ base = 0 /\ ws = [w \in Workers |-> FreshWorker]
    /\ run = NoRun /\ phase = "free" /\ todo = {}

\* A run takes its id first, and resolves its inputs before it locks.
Begin ==
    /\ clock + 1 \in Ids
    /\ clock' = clock + 1
    /\ \E q \in Requests, r \in BOOLEAN :
        waiting' = waiting \cup {[id |-> clock', request |-> q, resume |-> r]}
    /\ UNCHANGED <<buildVars, catalogVars, torn, run, phase, todo, published>>

\* flock is non-blocking: the run ends when another one owns the lock.
LockBusy ==
    /\ phase # "free"
    /\ \E p \in waiting : waiting' = waiting \ {p}
    /\ UNCHANGED <<buildVars, catalogVars, clock, torn, run, phase, todo, published>>

Lock ==
    /\ phase = "free"
    /\ \E p \in waiting :
        /\ waiting' = waiting \ {p}
        /\ run' = p
        /\ sid' = p.id
        /\ phase' = IF p.resume THEN "select" ELSE "create"
    /\ UNCHANGED <<durable, catalogVars, clock, torn, published, todo,
                   planErr, status, indexed, next, base, ws>>

\* The directory that is chosen moves back to .staging-<its own id>.
Select ==
    /\ phase = "select"
    /\ IF Candidates = {}
       THEN phase' = "create" /\ UNCHANGED <<place, sid>>
       ELSE /\ sid' = Chosen
            /\ place' = [place EXCEPT ![Chosen] = "staging"]
            /\ phase' = "inspect"
    /\ UNCHANGED <<durable, request, tables, current, success, worldVars, published, run, todo,
                   planErr, status, indexed, next, base, ws>>

CreateStaging ==
    /\ phase = "create"
    /\ place' = [place EXCEPT ![sid] = "staging"]
    /\ phase' = "request"
    /\ UNCHANGED <<buildVars, request, tables, current, success, worldVars, published, run, todo>>

WriteResumeRequest ==
    /\ phase = "request"
    /\ request' = [request EXCEPT ![sid] = run.request]
    /\ phase' = "inspect"
    /\ UNCHANGED <<buildVars, place, tables, current, success, worldVars, published, run, todo>>

\* An exception before the try block: nothing is moved.
Abort ==
    /\ phase \in {"select", "create", "request"}
    /\ Release
    /\ UNCHANGED <<durable, catalogVars, worldVars>>

\* The preflight; the files that cannot be inspected are errors of the run.
InspectFiles ==
    /\ phase = "inspect"
    /\ \E E \in SUBSET Files :
        /\ E # {} => AllowPartial
        /\ planErr' = E
        /\ status' = [f \in Files |-> IF f \in E THEN "ERROR" ELSE "none"]
    /\ phase' = "restore"
    /\ todo' = IF run.resume THEN segs[sid] ELSE {}
    /\ UNCHANGED <<durable, catalogVars, worldVars, published, run,
                   sid, indexed, next, base, ws>>

\* mutant: the files of a segment that is kept are not marked
RestoreForgets ==
    /\ phase = "restore"
    /\ \E s \in todo :
        /\ todo' = todo \ {s}
        /\ IF Valid(s) THEN UNCHANGED segs
           ELSE segs' = [segs EXCEPT ![sid] = @ \ {s}]
    /\ UNCHANGED <<status, pending, dirs, catalogVars, worldVars, published, run, phase,
                   sid, planErr, indexed, next, base, ws>>

\* One segment, in the order the directories are listed, which is not fixed.
RestoreCheckpoint ==
    /\ phase = "restore"
    /\ \E s \in todo :
        /\ todo' = todo \ {s}
        /\ IF Valid(s)
           THEN /\ status' = [f \in Files |-> IF f \in s.files THEN "OK" ELSE status[f]]
                /\ UNCHANGED segs
           ELSE /\ segs' = [segs EXCEPT ![sid] = @ \ {s}]
                /\ UNCHANGED status
    /\ UNCHANGED <<pending, dirs, catalogVars, worldVars, published, run, phase,
                   sid, planErr, indexed, next, base, ws>>

StartIndexing ==
    /\ phase = "restore" /\ todo = {}
    /\ indexed' = Cardinality({f \in Files : status[f] = "OK"})
    /\ StartWorkers
    /\ phase' = "index"
    /\ UNCHANGED <<durable, catalogVars, worldVars, published, run, todo, sid, planErr, status>>

BuildFiles ==
    /\ phase = "index"
    /\ BuildNext
    /\ UNCHANGED <<catalogVars, worldVars, published, run, phase, todo>>

\* mutant: one good file is enough for every request
AcceptableOne == \E f \in Files : status[f] = "OK"

\* ValidateBuild after the join: the run goes on, or it throws.
Acceptable ==
    /\ \E f \in Files : status[f] = "OK"
    /\ AllowPartial \/ \A f \in Files : status[f] = "OK"

ValidateBuild ==
    /\ phase = "index" /\ AllDone /\ Acceptable
    /\ phase' = "compact1"
    /\ UNCHANGED <<buildVars, catalogVars, worldVars, published, run, todo>>

\* mutant: a table is compacted again from the segments that are left
CompactTableAgain(k, here, after) ==
    /\ phase = here
    /\ segs[sid] # {} /\ \A s \in segs[sid] : s.intact
    /\ tables' = [tables EXCEPT ![sid][Tables[k]] = segs[sid]]
    /\ phase' = after
    /\ UNCHANGED <<buildVars, place, request, current, success, worldVars, published, run, todo>>

\* CompactRootIndexParquet, table by table: a table that exists is kept.
\* Reading no segment, or a torn one, throws.
CompactTable(k, here, after) ==
    /\ phase = here
    /\ tables[sid][Tables[k]] = Absent => segs[sid] # {} /\ \A s \in segs[sid] : s.intact
    /\ tables' = [tables EXCEPT ![sid][Tables[k]] = IF @ = Absent THEN segs[sid] ELSE @]
    /\ phase' = after
    /\ UNCHANGED <<buildVars, place, request, current, success, worldVars, published, run, todo>>

CompactParquet ==
    \/ CompactTable(1, "compact1", "compact2")
    \/ CompactTable(2, "compact2", "compact3")
    \/ CompactTable(3, "compact3", "compact4")
    \/ CompactTable(4, "compact4", "rename")

\* CommitParquetSnapshot: the snapshot directory, current.json, _SUCCESS.json.
CommitRename ==
    /\ phase = "rename"
    /\ place' = [place EXCEPT ![sid] = "snapshots"]
    /\ phase' = "current"
    /\ UNCHANGED <<buildVars, request, tables, current, success, worldVars, published, run, todo>>

CommitCurrent ==
    /\ phase = "current"
    /\ current' = sid
    /\ published' = published \cup {sid}
    /\ phase' = "success"
    /\ UNCHANGED <<buildVars, place, request, tables, success, worldVars, run, todo>>

CommitSuccess ==
    /\ phase = "success"
    /\ success' = sid
    /\ phase' = "cleanup"
    /\ UNCHANGED <<buildVars, place, request, tables, current, worldVars, published, run, todo>>

\* remove_all(parts) ignores its errors and may leave some of it.
CleanupParts ==
    /\ phase = "cleanup"
    /\ \/ /\ segs' = [segs EXCEPT ![sid] = {}]
          /\ pending' = [pending EXCEPT ![sid] = {}]
          /\ dirs' = [dirs EXCEPT ![sid] = {}]
       \/ /\ \E K \in SUBSET segs[sid] : segs' = [segs EXCEPT ![sid] = K]
          /\ UNCHANGED <<pending, dirs>>
    /\ Release
    /\ UNCHANGED <<catalogVars, worldVars>>

\* The joined threads left nothing the request can accept.
ValidateBuildThrows == phase = "index" /\ AllDone /\ ~Acceptable /\ Throws

\* Any call of the try block may throw.
Fail == phase \in TryPhases /\ Throws

\* The process is killed; the kernel drops the lock.  What a thread had written
\* last may be unreadable afterwards, because nothing is synced.
Kill ==
    /\ phase # "free"
    /\ \/ UNCHANGED <<segs, torn>>
       \/ /\ torn < MaxTorn /\ torn' = torn + 1
          /\ \E s \in segs[sid] :
               segs' = [segs EXCEPT ![sid] = (@ \ {s}) \cup {[s EXCEPT !.intact = FALSE]}]
    /\ Release
    /\ UNCHANGED <<pending, dirs, catalogVars, clock, waiting>>

\* What the owner of the lock does of itself, without a failing call.
RunStep ==
    \/ Select \/ CreateStaging \/ WriteResumeRequest
    \/ InspectFiles \/ RestoreCheckpoint \/ StartIndexing \/ BuildFiles
    \/ ValidateBuild \/ ValidateBuildThrows
    \/ CompactParquet
    \/ CommitRename \/ CommitCurrent \/ CommitSuccess \/ CleanupParts

Next == Begin \/ LockBusy \/ Lock \/ RunStep \/ Abort \/ Fail \/ Kill

\* The owner of the lock is a running process with running threads; that a
\* call fails, or that the process is killed, is never relied on.
Spec == Init /\ [][Next]_vars /\ WF_vars(RunStep)
-----------------------------------------------------------------------------
(* Properties.                                                             *)

\* What a table holds of the files: the union over the segments it was
\* copied from.
FilesOf(i, t) == UNION {s.files : s \in tables[i][t]}

Complete(i) == \A t \in TableSet : tables[i][t] # Absent

\* A reader that opens current.json finds the directory it names, with its
\* request and its four tables, whatever was interrupted and resumed before.
CurrentIsComplete ==
    current # NoId => place[current] = "snapshots" /\ request[current] # NoRequest /\ Complete(current)

\* Without allow_partial the current snapshot describes every file, in the
\* files table and in the baskets table alike, and carries the schema rows.
CurrentIsWhole ==
    current # NoId /\ request[current] \notin Partial =>
        /\ FilesOf(current, "files") = Files
        /\ FilesOf(current, "baskets") = Files
        /\ Columns = UNION {s.schema : s \in tables[current]["schemas"]}

\* No table holds the rows of a file twice: neither the segments of a killed
\* run and of its successor nor two threads contribute the same file.
NoDuplicateRows ==
    \A i \in Ids, t \in TableSet :
        tables[i][t] # Absent =>
            \A s, u \in tables[i][t] : s # u => s.files \cap u.files = {}

\* The global event numbers of the files in one table do not overlap, whatever
\* files the runs that contributed to it could not inspect.
EventRangesDisjoint ==
    \A i \in Ids, t \in TableSet : \A s, u \in tables[i][t] : \A f \in s.files, g \in u.files :
        f # g => EventBase(f, s.errors) # EventBase(g, u.errors)

\* The catalog implements Generations: what readers resolve through
\* current.json changes only by a publication, as a whole, and a generation
\* that was visible keeps its tables when it is resumed or published again.
Visible ==
    [i \in Ids |-> [t \in TableSet |-> IF i \in published THEN tables[i][t] ELSE {}]]

Readers == INSTANCE Generations WITH generation <- current, store <- Visible

ImplementsGenerations == Readers!Spec

\* Every run that owns the lock gives it back.
LockIsReleased == (phase # "free") ~> (phase = "free")
=============================================================================
