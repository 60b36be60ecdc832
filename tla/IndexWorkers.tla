---------------------------- MODULE IndexWorkers ----------------------------
(***************************************************************************)
(* The parallel part of one index build: RootIndexCoordinator::BuildFiles  *)
(* and the RootIndexMetadataWriter each of its threads owns.               *)
(*                                                                         *)
(* Threads claim files from one shared counter, build the metadata of a    *)
(* file, append it to in-memory buffers and, past a size threshold, flush  *)
(* the buffers as one immutable directory parts/worker-N/segment-M.  The   *)
(* directories survive the process; everything else is lost with it.       *)
(*                                                                         *)
(* Abstracted: the metadata of a file is the file's number; the size       *)
(* threshold is a free choice at each append; of the four Parquet tables   *)
(* of a segment only the presence of the schema rows is kept, because only *)
(* they are not written for every file.                                    *)
(***************************************************************************)
EXTENDS Naturals, FiniteSets

CONSTANTS
    NFiles,     \* number of resolved ROOT files
    NWorkers,   \* thread_count
    Columns,    \* the column ids of the requested logical paths
    Ids         \* snapshot ids, the names of the staging directories

ASSUME SizeAssumption == NFiles \in Nat /\ NWorkers \in Nat
ASSUME IdsAssumption  == Ids # {}

Files    == 1 .. NFiles
Workers  == 0 .. NWorkers - 1
NoFile   == 0

VARIABLES
    segs,       \* durable: [Ids -> set of completed segments below parts/]
    pending,    \* durable: [Ids -> set of <<worker-N, .pending-M>>]
    dirs,       \* durable: [Ids -> set of N with a directory parts/worker-N]
    sid,        \* state.snapshot_id: the staging directory being built
    planErr,    \* files whose RootIndexFilePlan carries an error
    status,     \* state.statuses[f].status, "none" for the empty string
    indexed,    \* state.indexed_files
    next,       \* the shared claim counter
    base,       \* worker_base
    ws          \* [Workers -> state of the thread and of its writer]

durable   == <<segs, pending, dirs>>
volatile  == <<sid, planErr, status, indexed, next, base, ws>>
buildVars == <<segs, pending, dirs, sid, planErr, status, indexed, next, base, ws>>

\* A segment-M directory: the files of its receipt, the columns of its schema
\* table, the files its event_base values do not count, its integrity.
Segment == [worker: Nat, number: Nat, files: SUBSET Files, schema: SUBSET Columns,
            errors: SUBSET Files, intact: BOOLEAN]

WorkerState ==
    [pc:      {"open", "claim", "build", "flush", "finish", "done"},
     file:    Files \cup {NoFile},   \* claimed and not yet recorded
     buffer:  SUBSET Files,          \* rows committed to the buffers
     rows:    SUBSET Columns,        \* schema rows committed to the buffers
     columns: SUBSET Columns,        \* written_columns
     staged:  SUBSET Files,          \* staged_indices
     number:  Nat]                   \* the writer's next segment number

FreshWorker == [pc |-> "open", file |-> NoFile, buffer |-> {}, rows |-> {},
                columns |-> {}, staged |-> {}, number |-> 0]

BuildTypeOK ==
    /\ segs \in [Ids -> SUBSET Segment]
    /\ pending \in [Ids -> SUBSET (Nat \X Nat)]
    /\ dirs \in [Ids -> SUBSET Nat]
    /\ sid \in Ids
    /\ planErr \subseteq Files
    /\ status \in [Files -> {"none", "OK", "ERROR"}]
    /\ indexed \in Nat
    /\ next \in Nat \ {0}
    /\ base \in Nat
    /\ ws \in [Workers -> WorkerState]

-----------------------------------------------------------------------------
(* Helpers.                                                                *)

\* mutant: the largest number in use instead of the next one
NextWorkerIdReused(N) == IF N = {} THEN 0 ELSE CHOOSE n \in N : \A m \in N : m <= n

\* NextCheckpointWorkerId: one more than the largest N with a worker-N.
NextWorkerId(N) ==
    IF N = {} THEN 0 ELSE CHOOSE n \in {m + 1 : m \in N} : \A m \in N : m < n

\* Flush refuses a directory name that is already taken.
Collides(w) ==
    LET n == base + w  m == ws[w].number IN
    \/ <<n, m>> \in pending[sid]
    \/ \E s \in segs[sid] : s.worker = n /\ s.number = m

SetWorker(w, r) == ws' = [ws EXCEPT ![w] = r]

\* mutant: the staged files stay OK
WriterFailsAlone(w) ==
    /\ status' = [f \in Files |-> IF f = ws[w].file THEN "ERROR" ELSE status[f]]
    /\ SetWorker(w, [ws[w] EXCEPT !.pc = "done", !.file = NoFile])

\* The tail of the thread body once its writer has failed: the file in hand
\* and every file it staged are reported as errors; no segment is removed.
WriterFails(w) ==
    /\ status' = [f \in Files |->
                    IF f = ws[w].file \/ f \in ws[w].staged THEN "ERROR" ELSE status[f]]
    /\ SetWorker(w, [ws[w] EXCEPT !.pc = "done", !.file = NoFile])

\* The bookkeeping of the thread after Append returned.
Recorded(r) == [r EXCEPT !.pc = "claim", !.file = NoFile, !.columns = Columns,
                         !.staged = @ \cup {r.file}]

\* Append's transaction: the rows of the file in hand reach the buffers, with
\* the schema rows of the columns this thread has not written yet.
Buffered(r) == [r EXCEPT !.buffer = @ \cup {r.file}, !.rows = @ \cup (Columns \ r.columns)]

\* mutant: the receipt names the file in hand, also when Finish has none
CommitSegmentInHand(w) ==
    LET r == ws[w]  n == base + w IN
    /\ segs' = [segs EXCEPT ![sid] = @ \cup
                  {[worker |-> n, number |-> r.number, files |-> r.buffer \cup {r.file},
                    schema |-> r.rows, errors |-> planErr, intact |-> TRUE]}]
    /\ pending' = [pending EXCEPT ![sid] = @ \ {<<n, r.number>>}]

\* The effect of the rename of .pending-M to segment-M.
CommitSegment(w) ==
    LET r == ws[w]  n == base + w IN
    /\ segs' = [segs EXCEPT ![sid] = @ \cup
                  {[worker |-> n, number |-> r.number, files |-> r.buffer,
                    schema |-> r.rows, errors |-> planErr, intact |-> TRUE]}]
    /\ pending' = [pending EXCEPT ![sid] = @ \ {<<n, r.number>>}]

\* The writer after a complete Flush.
Drained(r) == [r EXCEPT !.buffer = {}, !.rows = {}, !.number = @ + 1]

-----------------------------------------------------------------------------
(* One action per step of a thread.                                        *)

\* The constructor of the writer creates parts/worker-N and the buffers.
OpenWriter(w) ==
    /\ ws[w].pc = "open"
    /\ dirs' = [dirs EXCEPT ![sid] = @ \cup {base + w}]
    /\ SetWorker(w, [ws[w] EXCEPT !.pc = "claim"])
    /\ UNCHANGED <<segs, pending, sid, planErr, status, indexed, next, base>>

\* It may throw before or after the directory exists.
OpenWriterFails(w) ==
    /\ ws[w].pc = "open"
    /\ dirs' \in {dirs, [dirs EXCEPT ![sid] = @ \cup {base + w}]}
    /\ SetWorker(w, [ws[w] EXCEPT !.pc = "done"])
    /\ UNCHANGED <<segs, pending, sid, planErr, status, indexed, next, base>>

\* mutant: a restored file is indexed again
ClaimRestored(w) ==
    /\ ws[w].pc = "claim"
    /\ next' = next + 1
    /\ SetWorker(w,
         IF next > NFiles THEN [ws[w] EXCEPT !.pc = "finish"]
         ELSE IF next \in planErr THEN ws[w]
         ELSE [ws[w] EXCEPT !.pc = "build", !.file = next])
    /\ UNCHANGED <<segs, pending, dirs, sid, planErr, status, indexed, base>>

\* mutant: the counter does not advance past a file that is skipped
ClaimStuck(w) ==
    /\ ws[w].pc = "claim"
    /\ next' = IF next <= NFiles /\ (next \in planErr \/ status[next] = "OK")
               THEN next ELSE next + 1
    /\ SetWorker(w,
         IF next > NFiles THEN [ws[w] EXCEPT !.pc = "finish"]
         ELSE IF next \in planErr \/ status[next] = "OK" THEN ws[w]
         ELSE [ws[w] EXCEPT !.pc = "build", !.file = next])
    /\ UNCHANGED <<segs, pending, dirs, sid, planErr, status, indexed, base>>

\* next.fetch_add, and the test that skips the files without a plan and the
\* restored ones.
Claim(w) ==
    /\ ws[w].pc = "claim"
    /\ next' = next + 1
    /\ SetWorker(w,
         IF next > NFiles THEN [ws[w] EXCEPT !.pc = "finish"]
         ELSE IF next \in planErr \/ status[next] = "OK" THEN ws[w]
         ELSE [ws[w] EXCEPT !.pc = "build", !.file = next])
    /\ UNCHANGED <<segs, pending, dirs, sid, planErr, status, indexed, base>>

\* mutant: Build fills written_columns itself instead of a copy
BuildFileFailsInPlace(w) ==
    /\ ws[w].pc = "build"
    /\ status' = [status EXCEPT ![ws[w].file] = "ERROR"]
    /\ SetWorker(w, [ws[w] EXCEPT !.pc = "claim", !.file = NoFile, !.columns = Columns])
    /\ UNCHANGED <<segs, pending, dirs, sid, planErr, indexed, next, base>>

\* Build returns a status that is not OK: nothing is appended, and the copy of
\* written_columns it filled is dropped.
BuildFileFails(w) ==
    /\ ws[w].pc = "build"
    /\ status' = [status EXCEPT ![ws[w].file] = "ERROR"]
    /\ SetWorker(w, [ws[w] EXCEPT !.pc = "claim", !.file = NoFile])
    /\ UNCHANGED <<segs, pending, dirs, sid, planErr, indexed, next, base>>

\* Append below the flush threshold.
Append(w) ==
    /\ ws[w].pc = "build"
    /\ status' = [status EXCEPT ![ws[w].file] = "OK"]
    /\ indexed' = indexed + 1
    /\ SetWorker(w, Recorded(Buffered(ws[w])))
    /\ UNCHANGED <<segs, pending, dirs, sid, planErr, next, base>>

\* Append's transaction throws and is rolled back.
AppendFails(w) ==
    /\ ws[w].pc = "build"
    /\ WriterFails(w)
    /\ UNCHANGED <<segs, pending, dirs, sid, planErr, indexed, next, base>>

\* Flush starts: the .pending-M directory is created, unless its name is taken.
StartFlush(w, r) ==
    IF Collides(w)
    THEN WriterFails(w) /\ UNCHANGED pending
    ELSE /\ pending' = [pending EXCEPT ![sid] = @ \cup {<<base + w, r.number>>}]
         /\ SetWorker(w, [r EXCEPT !.pc = "flush"])
         /\ UNCHANGED status

\* Append past the flush threshold.
AppendAndFlush(w) ==
    /\ ws[w].pc = "build"
    /\ StartFlush(w, Buffered(ws[w]))
    /\ UNCHANGED <<segs, dirs, sid, planErr, indexed, next, base>>

\* Finish flushes what is left, and is the end of the thread when nothing is.
Finish(w) ==
    /\ ws[w].pc = "finish"
    /\ IF ws[w].buffer = {}
       THEN SetWorker(w, [ws[w] EXCEPT !.pc = "done"]) /\ UNCHANGED <<pending, status>>
       ELSE StartFlush(w, ws[w])
    /\ UNCHANGED <<segs, dirs, sid, planErr, indexed, next, base>>

\* The rename and the new buffers; then the caller of Flush goes on, Append
\* with a file in hand, Finish without one.
CommitFlush(w) ==
    /\ ws[w].pc = "flush"
    /\ CommitSegment(w)
    /\ IF ws[w].file = NoFile
       THEN SetWorker(w, [Drained(ws[w]) EXCEPT !.pc = "done"]) /\ UNCHANGED <<status, indexed>>
       ELSE /\ SetWorker(w, Recorded(Drained(ws[w])))
            /\ status' = [status EXCEPT ![ws[w].file] = "OK"]
            /\ indexed' = indexed + 1
    /\ UNCHANGED <<dirs, sid, planErr, next, base>>

\* A table, a checksum or the receipt cannot be written: .pending-M is left.
FlushFails(w) ==
    /\ ws[w].pc = "flush"
    /\ WriterFails(w)
    /\ UNCHANGED <<segs, pending, dirs, sid, planErr, indexed, next, base>>

\* The rename succeeded and the buffers cannot be dropped or recreated.
FlushFailsLate(w) ==
    /\ ws[w].pc = "flush"
    /\ CommitSegment(w)
    /\ WriterFails(w)
    /\ UNCHANGED <<dirs, sid, planErr, indexed, next, base>>

WorkerStep(w) ==
    \/ OpenWriter(w)  \/ OpenWriterFails(w)
    \/ Claim(w)       \/ BuildFileFails(w)
    \/ Append(w)      \/ AppendFails(w)   \/ AppendAndFlush(w)
    \/ Finish(w)
    \/ CommitFlush(w) \/ FlushFails(w)    \/ FlushFailsLate(w)

BuildNext == \E w \in Workers : WorkerStep(w)

\* The join of the threads.
AllDone == \A w \in Workers : ws[w].pc = "done"

-----------------------------------------------------------------------------
(* BuildFiles on its own: it starts from what RestoreCheckpoints left, some *)
(* files without a plan, some recovered from one segment of an earlier run. *)

StartWorkers ==
    /\ next' = 1
    /\ base' = NextWorkerId(dirs[sid])
    /\ ws' = [w \in Workers |-> FreshWorker]

BuildInit ==
    /\ sid \in Ids
    /\ planErr \in SUBSET Files
    /\ \E R \in SUBSET (Files \ planErr) :
        /\ status = [f \in Files |-> IF f \in R THEN "OK"
                                     ELSE IF f \in planErr THEN "ERROR" ELSE "none"]
        /\ indexed = Cardinality(R)
        /\ segs = [i \in Ids |->
                     IF i = sid /\ R # {}
                     THEN {[worker |-> 0, number |-> 0, files |-> R,
                            schema |-> Columns, errors |-> planErr, intact |-> TRUE]}
                     ELSE {}]
        /\ dirs = [i \in Ids |-> IF i = sid /\ R # {} THEN {0} ELSE {}]
    /\ pending = [i \in Ids |-> {}]
    /\ next = 1
    /\ base = NextWorkerId(dirs[sid])
    /\ ws = [w \in Workers |-> FreshWorker]

BuildFairness == \A w \in Workers : WF_buildVars(WorkerStep(w))

BuildSpec == BuildInit /\ [][BuildNext]_buildVars /\ BuildFairness

-----------------------------------------------------------------------------
(* Properties.                                                             *)

\* Compaction concatenates the root_files and root_baskets tables of all the
\* segments without removing duplicates, so no file may be in two of them.
ExactlyOnce ==
    \A i \in Ids : \A s, t \in segs[i] : s # t => s.files \cap t.files = {}

\* When the threads have joined, a file reported OK is in a durable segment:
\* a writer that fails takes back the files whose rows it still buffered.
OKIsDurable ==
    AllDone => \A f \in Files :
                 status[f] = "OK" => \E s \in segs[sid] : f \in s.files

\* The schema rows of a column are written once per thread; whatever failed in
\* between, a thread with a segment has one segment that carries them.
SchemaCovered ==
    \A s \in segs[sid], c \in Columns :
        \E t \in segs[sid] : t.worker = s.worker /\ c \in t.schema

\* A resumed build never meets a directory name of an earlier one: no flush
\* fails because its segment or its pending directory already exists.
NoCheckpointCollision ==
    \A w \in Workers : ws[w].pc \in {"build", "finish"} => ~Collides(w)

\* Every call of BuildFiles reaches its join.
BuildTerminates == <>AllDone
=============================================================================
