------------------------------ MODULE DirectScan ------------------------------
(***************************************************************************)
(* The threads of a read_root scan: RootScanExecutor::Execute, called by   *)
(* DuckDB for one chunk at a time until a call returns no rows.            *)
(*                                                                         *)
(* Over several files the threads claim files from RootDirectFileScheduler *)
(* and read each to its end (RootScanFileManager::EnsureReady); over one   *)
(* file they claim batches of entries (RootEntryScheduler).  A source or   *)
(* entry range taken from the query's filters narrows what they read, and  *)
(* any file or entry may fail the query.                                   *)
(*                                                                         *)
(* Abstracted: an entry is the number of its rows (how they are decoded is *)
(* EntryReader), a filter the set of rows it keeps, and time; the times,   *)
(* schemas and byte counts the scheduler records are left out.             *)
(***************************************************************************)
EXTENDS Naturals, Sequences, FiniteSets

CONSTANTS
    Threads,   \* what MaxThreads lets DuckDB start
    Queries,   \* see QuerySet
    Capacity,  \* STANDARD_VECTOR_SIZE
    Batch,     \* DEFAULT_BATCH_SIZE
    Attempts   \* default of OpenRootFile's max_attempts

\* A query: the rows of every entry of every file, the ranges of sources and of
\* entries its filters leave (both ends included), and the positions its filters
\* keep of each entry.
QuerySet == [files: Seq(Seq(Nat)), sources: Nat \X Nat, entries: Nat \X Nat, keep: SUBSET Nat]

ASSUME DirectAssumption ==
    /\ Queries \subseteq QuerySet /\ \A query \in Queries : query.files # <<>>
    /\ IsFiniteSet(Threads) /\ Threads # {}
    /\ Capacity \in Nat \ {0} /\ Batch \in Nat \ {0} /\ Attempts \in Nat \ {0}

VARIABLES
    query,    \* the bound query
    nextFile, \* next_file_
    nextRow,  \* next_row
    counts,   \* completed_files_, failed_files_, unavailable_files_, skipped_files_
    failures, \* failures_, as the set of sources
    pc,       \* [Threads -> the next step]
    task,     \* [Threads -> file_task.source_id and the number of the open attempt]
    local,    \* [Threads -> file_active and the cursor of RootScanLocalState]
    chunk,    \* [Threads -> the rows of the output chunk]
    returned  \* the rows returned to DuckDB, and how often

sharedVars == <<nextFile, nextRow, counts, failures>>
vars == <<query, sharedVars, pc, task, local, chunk, returned>>

Min2(a, b) == IF a <= b THEN a ELSE b

IsMultiFile == Len(query.files) > 1
Entries(f) == Len(query.files[f + 1])
RowsOf(f, e) == query.files[f + 1][e + 1]

\* A row is its file, entry and position.
AllRows ==
    UNION {UNION {{<<f, e, i>> : i \in 0 .. RowsOf(f, e) - 1} : e \in 0 .. Entries(f) - 1} :
              f \in 0 .. Len(query.files) - 1}

\* entry_range_impossible.
Impossible == query.entries[1] > query.entries[2]

\* The first entry to read of n, and the end of them.
First(n) == Min2(n, query.entries[1])
End(n)   == Min2(n, query.entries[2] + 1)

InSources(f) == query.sources[1] <= f /\ f <= query.sources[2]

\* RootScanLocalState after Reset.
Idle == [active |-> FALSE, row |-> 0, end |-> 0, cached |-> FALSE, elem |-> 0]

Kinds == {"completed", "failed", "unavailable", "skipped"}
Steps == {"idle", "ready", "claim", "skip", "open", "failing", "drained", "fill", "return",
          "done", "thrown", "cancelled"}

TypeOK ==
    /\ query \in Queries
    /\ nextFile \in 0 .. Len(query.files) + Cardinality(Threads)
    /\ nextRow \in Nat
    /\ counts \in [Kinds -> 0 .. Len(query.files)]
    /\ failures \subseteq 0 .. Len(query.files) - 1
    /\ pc \in [Threads -> Steps]
    /\ task \in [Threads -> [file: 0 .. Len(query.files) - 1, attempt: 0 .. Attempts]]
    /\ local \in [Threads -> [active: BOOLEAN, row: Nat, end: Nat, cached: BOOLEAN, elem: Nat]]
    /\ chunk \in [Threads -> Seq(AllRows)] /\ \A t \in Threads : Len(chunk[t]) <= Capacity
    /\ returned \in [AllRows -> Nat]

-----------------------------------------------------------------------------
(* Initial state: CreateGlobal and CreateLocal.                            *)

Init ==
    /\ query \in Queries
    /\ nextFile = 0
    /\ nextRow = (IF Impossible THEN Entries(0) ELSE First(Entries(0)))
    /\ counts = [k \in Kinds |-> 0] /\ failures = {}
    /\ pc = [t \in Threads |-> "idle"]
    /\ task = [t \in Threads |-> [file |-> 0, attempt |-> 0]]
    /\ local = [t \in Threads |-> Idle]
    /\ chunk = [t \in Threads |-> <<>>]
    /\ returned = [r \in AllRows |-> 0]

Goto(t, step) == pc' = [pc EXCEPT ![t] = step]
Count(k) == counts' = [counts EXCEPT ![k] = @ + 1]

-----------------------------------------------------------------------------
(* Execute and EnsureReady.                                                *)

\* DuckDB asks for a chunk.
Execute(t) ==
    /\ pc[t] = "idle"
    /\ chunk' = [chunk EXCEPT ![t] = <<>>]
    /\ Goto(t, IF Impossible THEN "done" ELSE IF IsMultiFile THEN "ready" ELSE "fill")
    /\ UNCHANGED <<query, sharedVars, task, local, returned>>

\* External: DuckDB stops the other threads between two calls once one has thrown.
Cancel(t) ==
    /\ pc[t] = "idle" /\ \E u \in Threads : pc[u] = "thrown"
    /\ Goto(t, "cancelled")
    /\ UNCHANGED <<query, sharedVars, task, local, chunk, returned>>

HasWork(t) == local[t].cached \/ local[t].row < local[t].end

\* The open file is read on, or recorded as complete and closed.
Ready(t) ==
    /\ pc[t] = "ready"
    /\ \/ /\ local[t].active /\ HasWork(t)
          /\ Goto(t, "fill") /\ UNCHANGED <<counts, local>>
       \/ /\ local[t].active /\ ~HasWork(t)
          /\ Count("completed") /\ local' = [local EXCEPT ![t] = Idle] /\ Goto(t, "claim")
       \/ /\ ~local[t].active
          /\ Goto(t, "claim") /\ UNCHANGED <<counts, local>>
    /\ UNCHANGED <<query, nextFile, nextRow, failures, task, chunk, returned>>

\* mutant: the counter is read and incremented in two steps of which another
\* thread sees the first
ClaimStale(t) ==
    /\ pc[t] = "claim"
    /\ \E f \in {nextFile, IF nextFile > 0 THEN nextFile - 1 ELSE 0} :
        /\ nextFile' = f + 1
        /\ task' = [task EXCEPT ![t] = [file |-> Min2(f, Len(query.files) - 1), attempt |-> 1]]
        /\ Goto(t, IF f >= Len(query.files) THEN "drained" ELSE IF InSources(f) THEN "open" ELSE "skip")
    /\ UNCHANGED <<query, nextRow, counts, failures, local, chunk, returned>>

\* mutant: a file outside the source range is left without being counted
ClaimUncounted(t) ==
    /\ pc[t] = "claim"
    /\ nextFile' = nextFile + 1
    /\ IF nextFile < Len(query.files) /\ InSources(nextFile)
       THEN task' = [task EXCEPT ![t] = [file |-> nextFile, attempt |-> 1]] /\ Goto(t, "open")
       ELSE UNCHANGED task /\ Goto(t, IF nextFile >= Len(query.files) THEN "drained" ELSE "claim")
    /\ UNCHANGED <<query, nextRow, counts, failures, local, chunk, returned>>

\* One fetch_add of RootDirectFileScheduler::Claim.
Claim(t) ==
    /\ pc[t] = "claim"
    /\ nextFile' = nextFile + 1
    /\ IF nextFile >= Len(query.files)
       THEN Goto(t, "drained") /\ UNCHANGED task
       ELSE /\ task' = [task EXCEPT ![t] = [file |-> nextFile, attempt |-> 1]]
            /\ Goto(t, IF InSources(nextFile) THEN "open" ELSE "skip")
    /\ UNCHANGED <<query, nextRow, counts, failures, local, chunk, returned>>

\* The claimed file is outside the source range: count it and claim again.
Skip(t) ==
    /\ pc[t] = "skip"
    /\ Count("skipped") /\ Goto(t, "claim")
    /\ UNCHANGED <<query, nextFile, nextRow, failures, task, local, chunk, returned>>

\* AllFilesFinished.
Finished == counts["completed"] + counts["failed"] + counts["unavailable"] + counts["skipped"]
                >= Len(query.files)

\* No file is left: end the scan of this thread, or report the failures.
Drained(t) ==
    /\ pc[t] = "drained"
    /\ Goto(t, IF Finished /\ failures # {} THEN "thrown" ELSE "done")
    /\ UNCHANGED <<query, sharedVars, task, local, chunk, returned>>

\* A file opens, at the first entry of the range.
OpenSucceeds(t) ==
    /\ pc[t] = "open"
    /\ local' = [local EXCEPT ![t] =
            [Idle EXCEPT !.active = TRUE, !.row = First(Entries(task[t].file)),
                         !.end = End(Entries(task[t].file))]]
    /\ Goto(t, "ready")
    /\ UNCHANGED <<query, sharedVars, task, chunk, returned>>

\* TFile::Open fails and is tried again.
OpenRetry(t) ==
    /\ pc[t] = "open" /\ task[t].attempt < Attempts
    /\ task' = [task EXCEPT ![t].attempt = @ + 1]
    /\ UNCHANGED <<query, sharedVars, pc, local, chunk, returned>>

\* The last attempt fails: RecordUnavailable, and the query fails.
OpenUnavailable(t) ==
    /\ pc[t] = "open" /\ task[t].attempt = Attempts
    /\ Count("unavailable") /\ Goto(t, "thrown")
    /\ local' = [local EXCEPT ![t] = Idle]
    /\ UNCHANGED <<query, nextFile, nextRow, failures, task, chunk, returned>>

\* The file opens and its schema or a reader is rejected: RecordFailure counts it,
\* then takes the mutex to note the message.
OpenFails(t) ==
    /\ pc[t] = "open"
    /\ Count("failed") /\ Goto(t, "failing")
    /\ UNCHANGED <<query, nextFile, nextRow, failures, task, local, chunk, returned>>

RecordFailure(t) ==
    /\ pc[t] = "failing"
    /\ failures' = failures \cup {task[t].file}
    /\ local' = [local EXCEPT ![t] = Idle]
    /\ Goto(t, "thrown")
    /\ UNCHANGED <<query, nextFile, nextRow, counts, task, chunk, returned>>

-----------------------------------------------------------------------------
(* The loop that fills a chunk.                                            *)

\* mutant: one row too many is put into a chunk
FullTooLate(t) == Len(chunk[t]) > Capacity

Full(t) == Len(chunk[t]) = Capacity

\* The loop of ProcessCachedEntry, for one row of the entry: if it passes the filters
\* it goes to the chunk.  After the last the cursor is at the next entry.
TakeRow(t) ==
    LET f == task[t].file
        e == local[t].row
        i == local[t].elem
    IN /\ pc[t] = "fill" /\ local[t].cached /\ ~Full(t)
       /\ chunk' = [chunk EXCEPT ![t] = IF i \in query.keep THEN Append(@, <<f, e, i>>) ELSE @]
       /\ local' = [local EXCEPT ![t] = IF i + 1 >= RowsOf(f, e)
                                        THEN [@ EXCEPT !.cached = FALSE, !.elem = 0, !.row = e + 1]
                                        ELSE [@ EXCEPT !.elem = i + 1]]
       /\ UNCHANGED <<query, sharedVars, pc, task, returned>>

\* ReadAndCacheEntry: an entry without rows is passed over.
ReadEntry(t) ==
    /\ pc[t] = "fill" /\ ~Full(t) /\ ~local[t].cached /\ local[t].row < local[t].end
    /\ local' = [local EXCEPT ![t] =
            IF RowsOf(task[t].file, @.row) = 0 THEN [@ EXCEPT !.row = local[t].row + 1]
            ELSE [@ EXCEPT !.cached = TRUE, !.elem = 0]]
    /\ UNCHANGED <<query, sharedVars, pc, task, chunk, returned>>

\* An entry cannot be read: the query fails, nothing is recorded of the file.
ReadThrows(t) ==
    /\ pc[t] = "fill" /\ ~Full(t) /\ ~local[t].cached /\ local[t].row < local[t].end
    /\ Goto(t, "thrown")
    /\ UNCHANGED <<query, sharedVars, task, local, chunk, returned>>

\* Over one file: ClaimWork under coordination_mutex.
ClaimEntryBatch(t) ==
    LET total == End(Entries(0))
    IN /\ pc[t] = "fill" /\ ~Full(t) /\ ~HasWork(t) /\ ~IsMultiFile /\ nextRow < total
       /\ nextRow' = Min2(nextRow + Batch, total)
       /\ local' = [local EXCEPT ![t] = [@ EXCEPT !.row = nextRow, !.end = nextRow']]
       /\ UNCHANGED <<query, nextFile, counts, failures, pc, task, chunk, returned>>

\* The chunk is full, or no entry is left for it.
EndChunk(t) ==
    /\ pc[t] = "fill"
    /\ Full(t) \/ (~HasWork(t) /\ (IsMultiFile \/ nextRow >= End(Entries(0))))
    /\ Goto(t, "return")
    /\ UNCHANGED <<query, sharedVars, task, local, chunk, returned>>

\* mutant: without rows the loop goes on in the file that has ended
ReturnToFill(t) ==
    /\ pc[t] = "return"
    /\ returned' = [r \in DOMAIN returned |-> returned[r] +
            Cardinality({i \in DOMAIN chunk[t] : chunk[t][i] = r})]
    /\ chunk' = [chunk EXCEPT ![t] = <<>>]
    /\ Goto(t, IF chunk[t] # <<>> THEN "idle" ELSE IF IsMultiFile THEN "fill" ELSE "done")
    /\ UNCHANGED <<query, sharedVars, task, local>>

\* mutant: an empty chunk is returned at the end of a file whose rows were all
\* filtered out
ReturnEmpty(t) ==
    /\ pc[t] = "return"
    /\ returned' = [r \in DOMAIN returned |-> returned[r] +
            Cardinality({i \in DOMAIN chunk[t] : chunk[t][i] = r})]
    /\ chunk' = [chunk EXCEPT ![t] = <<>>]
    /\ Goto(t, IF chunk[t] # <<>> THEN "idle" ELSE "done")
    /\ UNCHANGED <<query, sharedVars, task, local>>

\* A chunk with rows is returned; without any, the next file is read, or the scan
\* of this thread ends: DuckDB does not call it again after an empty chunk.
Return(t) ==
    /\ pc[t] = "return"
    /\ returned' = [r \in DOMAIN returned |-> returned[r] +
            Cardinality({i \in DOMAIN chunk[t] : chunk[t][i] = r})]
    /\ chunk' = [chunk EXCEPT ![t] = <<>>]
    /\ Goto(t, IF chunk[t] # <<>> THEN "idle" ELSE IF IsMultiFile THEN "ready" ELSE "done")
    /\ UNCHANGED <<query, sharedVars, task, local>>

-----------------------------------------------------------------------------

\* What a thread does when nothing fails.
Proceed(t) ==
    \/ Execute(t) \/ Ready(t) \/ Claim(t) \/ Skip(t) \/ Drained(t) \/ OpenSucceeds(t)
    \/ RecordFailure(t) \/ TakeRow(t) \/ ReadEntry(t) \/ ClaimEntryBatch(t)
    \/ EndChunk(t) \/ Return(t)

Next == \E t \in Threads :
    \/ Proceed(t) \/ Cancel(t)
    \/ OpenRetry(t) \/ OpenUnavailable(t) \/ OpenFails(t) \/ ReadThrows(t)

\* DuckDB runs every thread until it is done, has thrown or is cancelled.
Spec == Init /\ [][Next]_vars /\ \A t \in Threads : WF_vars(Proceed(t))

-----------------------------------------------------------------------------
(* Properties.                                                             *)

\* The rows the query selects.
Selected == {r \in AllRows :
    /\ IsMultiFile => InSources(r[1])
    /\ query.entries[1] <= r[2] /\ r[2] <= query.entries[2]
    /\ r[3] \in query.keep}

\* How often a row is returned or in a chunk.
Times(r) ==
    returned[r] + Cardinality({p \in Threads \X (1 .. Capacity) :
                                  p[2] \in DOMAIN chunk[p[1]] /\ chunk[p[1]][p[2]] = r})

\* No row is returned twice, whatever the threads' claims of files and of batches of
\* entries and the splits of an entry between chunks; and none outside the ranges.
RowsAtMostOnce == \A r \in AllRows : Times(r) <= (IF r \in Selected THEN 1 ELSE 0)

\* A scan all threads of which have ended without an error has returned every row:
\* no thread gave up on an empty chunk while there was work it would have done.
ResultIsComplete ==
    (\A t \in Threads : pc[t] = "done") => \A r \in Selected : returned[r] = 1

\* The files a thread holds: claimed and not yet recorded.
InHand == {t \in Threads : local[t].active \/ pc[t] \in {"skip", "open"}}

\* Every file that was claimed is counted once or is in some thread's hands, between
\* any two steps of any threads.
EveryFileIsAccounted ==
    counts["completed"] + counts["failed"] + counts["unavailable"] + counts["skipped"]
        + Cardinality(InHand) = Min2(nextFile, Len(query.files))

\* A thread that finds all files finished, and reports the scan's failures, does so
\* when no other thread is reading one.
FinishedIsQuiet == IsMultiFile /\ Finished => InHand = {}

\* Every thread comes to rest.
ScanEnds == \A t \in Threads : <>(pc[t] \in {"done", "thrown", "cancelled"})
=============================================================================
