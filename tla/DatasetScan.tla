----------------------------- MODULE DatasetScan -----------------------------
(***************************************************************************)
(* read_root_dataset: a query over one indexed path.  CreateGlobal plans   *)
(* it from the metadata of the index (DatasetTaskPlanner::Plan): baskets   *)
(* are pruned by value, event, entry, source, Bloom filter, an explicit    *)
(* entry selection and path predicates, neighbours are coalesced to tasks, *)
(* and the tasks of a file form a group.  Threads then claim groups and    *)
(* read, filter and emit their rows under one row limit                    *)
(* (DatasetScanExecutor::Scan).                                            *)
(*                                                                         *)
(* Abstracted: one path of one schema; what a value is decoded from (see   *)
(* EntryReader) but for the shape of the buffers it leaves behind; prefetch *)
(* and tree caches, which change no row.  The index is taken to describe   *)
(* its files (IndexCatalog, IcebergPublish).                               *)
(***************************************************************************)
EXTENDS PruneMetadata

CONSTANTS
    Workers,    \* 1 .. the threads DuckDB may start
    VectorSize, \* STANDARD_VECTOR_SIZE
    Queries     \* the queries, each with the files it is put to

NoLimit == MaxWord

\* The values of an entry and of a basket of path S, with their places.
Flat(S, e) == [i \in DOMAIN S[e + 1] |-> [idx |-> i, value |-> S[e + 1][i]]]
Inside(b)  == b.begin .. b.end - 1
Content(S, b) == UNION {{[entry |-> e, idx |-> v.idx, value |-> v.value] : v \in ToSet(Flat(S, e))} :
                          e \in Inside(b)}

\* A file: its event_base, the values of each entry of the path and of its
\* companion path, and what the index holds of them: the baskets in physical
\* order and their statistics.  Entries count from 0.
BasketSet == [begin: Nat, end: Nat, offset: Nat, size: Nat,
              stats: [minmax: BOOLEAN, min: Value, max: Value, nan: BOOLEAN, posinf: BOOLEAN, neginf: BOOLEAN,
                      bloom: SUBSET [size: Nat, hashes: Nat, bits: SUBSET Nat]]]
FileSet == [base: Nat, target: Seq(Seq(Value)), companion: Seq(Seq(Value)),
            baskets: Seq(BasketSet), cbaskets: Seq(BasketSet),
            stats: [minmax: BOOLEAN, min: Value, max: Value, nan: BOOLEAN]]

\* The baskets B of a path with the entries S hold each entry in one of them.
Describes(B, S) ==
    /\ \A b \in ToSet(B) : b.begin <= b.end /\ b.end <= Len(S) /\ b.stats = Stats(Content(S, b))
    /\ \A e \in 0 .. Len(S) - 1 : \E b \in ToSet(B) : e \in Inside(b)
    /\ \A i, j \in DOMAIN B : i # j => Inside(B[i]) \cap Inside(B[j]) = {}

\* Entries and events are numbered with 64 bits.
IsIndexed(F) == /\ Describes(F.baskets, F.target) /\ Describes(F.cbaskets, F.companion)
                /\ F.stats = FileStats({b.stats : b \in ToSet(F.baskets)})
                /\ Len(F.companion) = Len(F.target) /\ F.base + Len(F.target) <= MaxWord

\* A pushed filter of one column, or {}; optional ones only prune.
FilterSet == SUBSET [expr: Expression, optional: BOOLEAN]
AtMostOneTree(F) == Cardinality(F) <= 1 /\ \A f \in F : IsTree(f.expr)

\* value, event_fk, entry_id and source_id filters; entry_selection, {} or one
\* set of entries per file; path_predicates; row_limit; a 64-bit value type;
\* coalesce_gap_bytes; worker_limit; COUNT(*); a file changed after indexing,
\* where require_fresh_index is set.
QuerySet == [files: Seq(FileSet), value: FilterSet, event: FilterSet, entry: FilterSet,
             source: FilterSet, selection: SUBSET Seq(SUBSET Nat),
             predicates: Seq([op: Comparisons \cup {"between", "in"}, consts: Seq(Value),
                              all: BOOLEAN, wide: BOOLEAN]),
             limit: Nat, typed: BOOLEAN, gap: Nat, workers: Nat, count: BOOLEAN,
             changed: BOOLEAN]

\* ParsePathPredicates: an operator has its constants, which JSON keeps finite.
IsPredicate(p) ==
    /\ \A c \in ToSet(p.consts) : IsFinite(c)
    /\ p.op \in Comparisons => Len(p.consts) = 1
    /\ p.op = "between" => Len(p.consts) = 2

ASSUME DatasetAssumption ==
    /\ \E n \in Workers : n \in Nat \ {0} /\ Workers = 1 .. n
    /\ VectorSize \in Nat \ {0}
    /\ Queries \subseteq QuerySet /\ \A x \in Queries : \A F \in ToSet(x.files) : IsIndexed(F)
    /\ \A x \in Queries :
        /\ \A F \in {x.value, x.event, x.entry, x.source} :
              AtMostOneTree(F) /\ (x.count => F = {})
        /\ x.count => x.selection = {} /\ x.predicates = <<>>
        /\ Cardinality(x.selection) <= 1
        /\ \A p \in ToSet(x.predicates) : IsPredicate(p)

VARIABLES
    q,          \* the query: DatasetBindData and the pushed filters
    fetched,    \* the rows of the basket query seen so far, as <<file, basket>>
    planned,    \* global.planned_values
    tasks,      \* global.tasks
    groups,     \* global.task_groups
    total,      \* metadata_total_rows
    next_group, \* the atomic counters and flag of DatasetGlobalState
    emitted,
    stop,
    pc,         \* where each thread is
    local,      \* [Workers -> DatasetLocalState]
    rows        \* history: how often each row was returned to DuckDB

planVars   == <<q, fetched, planned, tasks, groups, total>>
sharedVars == <<next_group, emitted, stop>>
vars == <<q, fetched, planned, tasks, groups, total, next_group, emitted, stop, pc, local, rows>>

Limited == q.limit # NoLimit

Entries(f) == 0 .. Len(q.files[f].target) - 1

\* The rows of an entry, and of the dataset: one for each value.
RowsOf(f, e) == {[file |-> f, entry |-> e, idx |-> i, value |-> q.files[f].target[e + 1][i]] :
                   i \in DOMAIN q.files[f].target[e + 1]}
AllRows == UNION {UNION {RowsOf(f, e) : e \in Entries(f)} : f \in DOMAIN q.files}

-----------------------------------------------------------------------------
(* Filters of rows.                                                        *)

\* EvaluateRootRowFilters on one column: an optional filter always passes.
Passes(filter, v) == \A f \in filter : f.optional \/ Holds(f.expr, v)

PassesDatasetEntryFilters(f, e) ==
    Passes(q.event, q.files[f].base + e) /\ Passes(q.entry, e) /\ Passes(q.source, f)

PassesPathPredicates(f, e) ==
    \A i \in DOMAIN q.predicates :
        PathPredicateEventMatches(q.predicates[i], q.files[f].companion[e + 1])

-----------------------------------------------------------------------------
(* The plan.                                                               *)

EntryRange == UNION {{ExtractRootUnsignedRange(f.expr)} : f \in q.entry}
EventRange == UNION {{ExtractRootUnsignedRange(f.expr)} : f \in q.event}

\* Plan returns without a task.
NothingToRead == \E r \in EntryRange \cup EventRange : r.known /\ r.impossible

\* A clause excludes the file or basket with this zone.
Excluded(clause) == clause = {FALSE}

\* mutant: a basket with NaN and no value in range is pruned
KeptByExtremes(s) ==
    \A f \in q.value : q.typed \/ ~Excluded(ZonemapClause(f.expr, s, 1 .. Largest))

\* NaN passes some comparisons and has no place between the extremes.  64-bit
\* values have none at all.
KeptByValue(s) ==
    \A f \in q.value : q.typed \/ s.nan \/ ~Excluded(ZonemapClause(f.expr, s, 1 .. Largest))

KeptByEvent(first, last) ==
    \A f \in q.event : ~Excluded(ZonemapClause(f.expr, Span(first, last), Nat))

KeptByRange(b) == \A r \in EntryRange : r.known => b.begin <= r.upper /\ b.end > r.lower

KeptBySource(f) == \A s \in q.source : ~Excluded(ExactStringFilterClause(s.expr, f))

KeptByBloom(s) == \A f \in q.value : q.typed \/ BloomMayContainFilter(f.expr, s.bloom)

\* LoadPredicateIntervals: the entries of the companion's baskets that may match.
PredicateEntries(p, f) ==
    UNION {Inside(b) : b \in {c \in ToSet(q.files[f].cbaskets) :
                                PredicateMetadataMayMatch(p, c.stats)}}

IntervalFilterActive == q.selection # {} \/ q.predicates # <<>>

\* BuildPredicateIntersection: what the selection and every predicate leave.
CandidateEntries(f) ==
    {e \in Entries(f) : /\ \A s \in q.selection : e \in s[f]
                        /\ \A i \in DOMAIN q.predicates : e \in PredicateEntries(q.predicates[i], f)}

\* The i-th number of a set.
Nth(S, i) == CHOOSE x \in S : Cardinality({y \in S : y < x}) = i - 1

\* The basket's part of each normalized interval, in order: the maximal runs
\* of its candidate entries.
Clip(f, b) ==
    LET C == IF IntervalFilterActive THEN CandidateEntries(f) \cap Inside(b) ELSE Inside(b)
        Starts == {e \in C : e - 1 \notin C}
        End(e) == Min({x \in e .. b.end : x \notin C})
    IN [i \in 1 .. Cardinality(Starts) |->
          LET e == Nth(Starts, i)
          IN [file |-> f, begin |-> e, end |-> End(e), offset |-> b.offset, size |-> b.size]]

\* The baskets the query may touch, in the order of root_uri and offset.
Kept(f, b) ==
    LET F == q.files[f]
    IN /\ KeptByValue(F.stats)
       /\ KeptByValue(b.stats)
       /\ KeptByRange(b)
       /\ KeptByEvent(F.base, F.base + Len(F.target) - 1)
       /\ KeptByEvent(F.base + b.begin, F.base + b.end - 1)
       /\ KeptBySource(f)
       /\ KeptByBloom(b.stats)

Selected == UNION {{<<f, i>> : i \in DOMAIN q.files[f].baskets} : f \in DOMAIN q.files}

\* mutant: neighbours on disk are joined although entries lie between them
AdjacentOnDisk(l, t) ==
    /\ l.file = t.file
    /\ t.offset >= l.offset + l.size /\ t.offset - (l.offset + l.size) <= q.gap

\* The next candidate continues the last task, in entries and on disk.
Adjacent(l, t) ==
    /\ l.file = t.file /\ l.end = t.begin
    /\ t.offset >= l.offset + l.size /\ t.offset - (l.offset + l.size) <= q.gap

\* The candidates of a basket follow the tasks.  Only the first can continue the
\* last task: the next ones are cut from the same bytes.
Coalesce(T, C) ==
    IF T # <<>> /\ Adjacent(Last(T), Head(C))
    THEN Front(T) \o <<[Last(T) EXCEPT !.end = Head(C).end, !.size = Head(C).offset + Head(C).size - Last(T).offset]>>
         \o Tail(C)
    ELSE T \o C

\* mutant: the values counted are taken for rows although filters may drop them
StopsAtLimit == Limited

CanStop ==
    Limited /\ q.value = {} /\ q.event = {} /\ q.entry = {} /\ q.source = {} /\ ~IntervalFilterActive

\* BuildFileTaskGroups: the runs of tasks of one file, as <<first, last>>.
FileTaskGroups(T) ==
    LET Firsts == {i \in DOMAIN T : i = 1 \/ T[i - 1].file # T[i].file}
        LastOf(i) == Max({j \in DOMAIN T : T[j].file = T[i].file})
    IN [k \in 1 .. Cardinality(Firsts) |->
          LET i == Nth(Firsts, k) IN <<i, LastOf(i)>>]

\* PlanMetadataCount sums the files' value_count.
MetadataTotal == Cardinality(AllRows)

MaxThreads == IF q.count THEN 1 ELSE Max({1, Min({q.workers, Len(groups)})})
Threads == {w \in Workers : w <= MaxThreads}

-----------------------------------------------------------------------------
(* The execution.                                                          *)

NoTask == [file |-> 1, begin |-> 0, end |-> 0, offset |-> 0, size |-> 0]

\* next and last: the group's tasks still to do; entry: current_entry; vals and
\* offset: the value buffer; at: the entry it was filled from; open and rest:
\* the cursor of a paged entry; out: output_count; seen: the loaded emitted_rows.
NewLocal == [next |-> 1, last |-> 0, has |-> FALSE, task |-> NoTask, entry |-> 0,
             vals |-> <<>>, offset |-> 0, at |-> 0, from |-> 1, open |-> FALSE, rest |-> <<>>,
             out |-> 0, seen |-> 0]

Init ==
    /\ q \in Queries
    /\ fetched = {} /\ planned = 0 /\ tasks = <<>> /\ groups = <<>> /\ total = 0
    /\ next_group = 1 /\ emitted = 0 /\ stop = FALSE
    /\ pc = [w \in Workers |-> "plan"]
    /\ local = [w \in Workers |-> NewLocal]
    /\ rows = [r \in AllRows |-> 0]

\* CreateGlobal runs before DuckDB starts a thread.  ValidateFreshIndex throws
\* when a file's size or mtime changed.
RejectStale ==
    /\ pc[1] = "plan" /\ q.changed
    /\ pc' = [w \in Workers |-> "failed"]
    /\ UNCHANGED <<planVars, sharedVars, local, rows>>

\* The loop over the baskets ends with them, once the planned values reach the
\* limit, or was not entered.
PlanIsComplete ==
    \/ NothingToRead \/ q.count \/ fetched = Selected
    \/ CanStop /\ fetched # {} /\ planned >= q.limit

PlanBasket ==
    /\ pc[1] = "plan" /\ ~q.changed /\ ~PlanIsComplete
    /\ LET x == CHOOSE s \in Selected \ fetched : \A t \in Selected \ fetched :
                   s[1] < t[1] \/ (s[1] = t[1] /\ s[2] <= t[2])
           b == q.files[x[1]].baskets[x[2]]
           C == IF Kept(x[1], b) THEN Clip(x[1], b) ELSE <<>>
       IN /\ fetched' = fetched \cup {x}
          /\ IF C = <<>> THEN UNCHANGED <<tasks, planned>>
             ELSE /\ tasks' = Coalesce(tasks, C)
                  /\ planned' = planned + Cardinality(Content(q.files[x[1]].target, b))
    /\ UNCHANGED <<q, groups, total, sharedVars, pc, local, rows>>

PlanGroups ==
    /\ pc[1] = "plan" /\ ~q.changed /\ PlanIsComplete
    /\ groups' = FileTaskGroups(tasks)
    /\ total' = IF q.count THEN MetadataTotal ELSE 0
    /\ pc' = [w \in Workers |-> "start"]
    /\ UNCHANGED <<q, fetched, planned, tasks, sharedVars, local, rows>>

\* CreateLocal of a thread DuckDB starts.
Start(w) ==
    /\ pc[w] = "start" /\ w \in Threads
    /\ pc' = [pc EXCEPT ![w] = IF q.count THEN "count" ELSE "scan"]
    /\ UNCHANGED <<planVars, sharedVars, local, rows>>

\* The loop of Scan goes on.
Scanning(w) == pc[w] = "scan" /\ local[w].out < VectorSize
Empty(w) == local[w].offset >= Len(local[w].vals)

\* ClaimTask: next_group.fetch_add(1).
ClaimGroup(w) ==
    /\ Scanning(w) /\ ~local[w].has /\ local[w].next > local[w].last
    /\ next_group' = next_group + 1
    /\ IF next_group > Len(groups)
       THEN pc' = [pc EXCEPT ![w] = "return"] /\ UNCHANGED local
       ELSE /\ local' = [local EXCEPT ![w].next = groups[next_group][1],
                                      ![w].last = groups[next_group][2]]
            /\ UNCHANGED pc
    /\ UNCHANGED <<planVars, emitted, stop, rows>>

\* The entries of a task inside a range of entry_id (base 0) or event_fk.
ClipRange(r, t, base) ==
    [t EXCEPT !.begin = Max({@, r.lower - base}),
              !.end = IF r.upper = MaxWord THEN @ ELSE Min({@, r.upper + 1 - base})]

ClippedTask(t) ==
    LET E(u) == IF \E r \in EventRange : r.known
                THEN ClipRange(CHOOSE r \in EventRange : r.known, u, q.files[u.file].base) ELSE u
        L(u) == IF \E r \in EntryRange : r.known
                THEN ClipRange(CHOOSE r \in EntryRange : r.known, u, 0) ELSE u
    IN L(E(t))

\* mutant: the buffer of the last task is left in place
KeptBuffer(w) == local[w].vals

\* values.clear(); the buffer of 64-bit values is another one, typed_values.
ClearedBuffer(w) == IF q.typed THEN local[w].vals ELSE <<>>

\* ClaimTask: the next task of the group, without the entries outside the
\* ranges; OpenTaskFile, and the buffers start over.
ClaimTask(w) ==
    /\ Scanning(w) /\ ~local[w].has /\ local[w].next <= local[w].last
    /\ LET l == local[w]
           t == ClippedTask(tasks[l.next])
       IN local' = [local EXCEPT ![w] =
            IF t.begin >= t.end THEN [l EXCEPT !.next = l.next + 1]
            ELSE [l EXCEPT !.next = l.next + 1, !.has = TRUE, !.task = t, !.entry = t.begin,
                           !.vals = ClearedBuffer(w), !.offset = 0]]
    /\ UNCHANGED <<planVars, sharedVars, pc, rows>>

\* LoadNextEntry: the open cursor has another page, or turns out to be at its end.
NextPage(w) ==
    /\ Scanning(w) /\ local[w].has /\ Empty(w) /\ local[w].open
    /\ LET r == local[w].rest
           n == Min({VectorSize, Len(r)})
       IN local' = [local EXCEPT ![w].vals = SubSeq(r, 1, n), ![w].rest = SubSeq(r, n + 1, Len(r)),
                                 ![w].offset = 0, ![w].open = n = VectorSize /\ @]
    /\ UNCHANGED <<planVars, sharedVars, pc, rows>>

AtEntry(w) ==
    /\ Scanning(w) /\ local[w].has /\ Empty(w) /\ ~local[w].open
    /\ local[w].entry < local[w].task.end

Wanted(w) ==
    LET f == local[w].task.file
        e == local[w].entry
    IN PassesDatasetEntryFilters(f, e) /\ PassesPathPredicates(f, e)

\* mutant: an entry that fails the filters is looked at again
Retried(e) == e

After(e) == e + 1

\* The loop skips an entry; the buffer keeps what was read last.
SkipEntry(w) ==
    /\ AtEntry(w) /\ ~Wanted(w)
    /\ local' = [local EXCEPT ![w].entry = After(@)]
    /\ UNCHANGED <<planVars, sharedVars, pc, rows>>

\* BeginNumericEntry: the values of the whole entry, or the first page.  The
\* object cursor only knows that it is at its end when a page is not full.
BeginEntry(w) ==
    /\ AtEntry(w) /\ Wanted(w)
    /\ LET V == Flat(q.files[local[w].task.file].target, local[w].entry)
           n == Min({VectorSize, Len(V)})
       IN \E route \in {"values", "serialized", "object"} :
            local' = [local EXCEPT ![w].entry = @ + 1, ![w].offset = 0,
                ![w].at = local[w].entry, ![w].from = local[w].task.file,
                ![w].vals = IF route = "values" THEN V ELSE SubSeq(V, 1, n),
                ![w].rest = IF route = "values" THEN <<>> ELSE SubSeq(V, n + 1, Len(V)),
                ![w].open = \/ route = "serialized" /\ n < Len(V)
                            \/ route = "object" /\ n = VectorSize]
    /\ UNCHANGED <<planVars, sharedVars, pc, rows>>

\* LoadNextEntry returns false.
EndTask(w) ==
    /\ Scanning(w) /\ local[w].has /\ Empty(w) /\ ~local[w].open
    /\ local[w].entry = local[w].task.end
    /\ local' = [local EXCEPT ![w].has = FALSE]
    /\ UNCHANGED <<planVars, sharedVars, pc, rows>>

CurrentRow(w) ==
    LET l == local[w]
    IN [file |-> l.from, entry |-> l.at, idx |-> l.vals[l.offset].idx, value |-> l.vals[l.offset].value]

\* The next value of the buffer: PassesFilters drops it, or ReserveOutputRows
\* is called, which looks at stop_requested and loads emitted_rows.
TakeValue(w) ==
    /\ Scanning(w) /\ local[w].has /\ ~Empty(w)
    /\ local' = [local EXCEPT ![w].offset = @ + 1, ![w].seen = IF Limited THEN emitted ELSE 0]
    /\ pc' = [pc EXCEPT ![w] =
         IF ~Passes(q.value, local[w].vals[local[w].offset + 1].value) THEN "scan"
         ELSE IF stop THEN "return"
         ELSE "reserve"]
    /\ UNCHANGED <<planVars, sharedVars, rows>>

Emit(w) == /\ rows' = [rows EXCEPT ![CurrentRow(w)] = @ + 1]
           /\ local' = [local EXCEPT ![w].out = @ + 1]

\* Unlimited: a fetch_add.
ReserveUnlimited(w) ==
    /\ pc[w] = "reserve" /\ ~Limited
    /\ emitted' = emitted + 1
    /\ Emit(w)
    /\ pc' = [pc EXCEPT ![w] = "scan"]
    /\ UNCHANGED <<planVars, next_group, stop>>

\* mutant: a store in place of the exchange
StoreLoaded(w) == TRUE

\* compare_exchange of the loaded value; a lost race loads it again.
CompareExchange(w) == emitted = local[w].seen

Reserve(w) ==
    /\ pc[w] = "reserve" /\ Limited /\ local[w].seen < q.limit
    /\ IF CompareExchange(w)
       THEN /\ emitted' = local[w].seen + 1
            /\ Emit(w)
            /\ pc' = [pc EXCEPT ![w] = IF local[w].seen + 1 >= q.limit THEN "stop" ELSE "scan"]
       ELSE /\ local' = [local EXCEPT ![w].seen = emitted]
            /\ UNCHANGED <<emitted, pc, rows>>
    /\ UNCHANGED <<planVars, next_group, stop>>

\* stop_requested.store after the last row that fits, or when none does.
RequestStop(w) ==
    /\ \/ pc[w] = "stop"
       \/ pc[w] = "reserve" /\ Limited /\ local[w].seen >= q.limit
    /\ stop' = TRUE
    /\ pc' = [pc EXCEPT ![w] = IF @ = "stop" THEN "scan" ELSE "return"]
    /\ UNCHANGED <<planVars, next_group, emitted, local, rows>>

\* Scan returns a chunk; DuckDB calls again unless it is empty.
Return(w) ==
    /\ pc[w] = "return" \/ (pc[w] = "scan" /\ local[w].out = VectorSize)
    /\ pc' = [pc EXCEPT ![w] = IF local[w].out = 0 THEN "done"
                               ELSE IF q.count THEN "count" ELSE "scan"]
    /\ local' = [local EXCEPT ![w].out = 0]
    /\ UNCHANGED <<planVars, sharedVars, rows>>

\* The metadata_count_only branch of Scan, which one thread runs: a chunk of
\* rows without values, granted by ReserveOutputRows.
CountRows(w) ==
    /\ pc[w] = "count"
    /\ LET wanted == Min({VectorSize, total - emitted})
           n == IF stop THEN 0 ELSE IF Limited THEN Min({wanted, q.limit - emitted}) ELSE wanted
       IN /\ emitted' = emitted + n
          /\ local' = [local EXCEPT ![w].out = n]
          /\ stop' = (stop \/ (Limited /\ emitted + n >= q.limit))
    /\ pc' = [pc EXCEPT ![w] = "return"]
    /\ UNCHANGED <<planVars, next_group, rows>>

Finished == \A w \in Threads : pc[w] \in {"done", "failed"}

Terminated == Finished /\ UNCHANGED vars

Step(w) ==
    \/ Start(w) \/ ClaimGroup(w) \/ ClaimTask(w) \/ NextPage(w) \/ SkipEntry(w) \/ BeginEntry(w)
    \/ EndTask(w) \/ TakeValue(w) \/ ReserveUnlimited(w) \/ Reserve(w) \/ RequestStop(w)
    \/ Return(w) \/ CountRows(w)

Plan == RejectStale \/ PlanBasket \/ PlanGroups

Next == Plan \/ (\E w \in Workers : Step(w)) \/ Terminated

\* DuckDB keeps calling the scan of some thread until each has returned an empty
\* chunk; no thread waits for another, so which one it is does not matter.
Spec == Init /\ [][Next]_vars /\ WF_vars(Next)

-----------------------------------------------------------------------------
(* Properties.                                                             *)

TaskSet == [file: DOMAIN q.files, begin: Nat, end: Nat, offset: Nat, size: Nat]

\* Types.  A task in hand has entries, all in its file, and the group in hand
\* lies inside the plan: what OpenTaskFile and LoadNextEntry rely on.
TypeOK ==
    /\ fetched \subseteq Selected /\ planned \in Nat
    /\ \A i \in DOMAIN tasks : tasks[i] \in TaskSet /\ tasks[i].begin < tasks[i].end
    /\ \A g \in ToSet(groups) : g[1] <= g[2] /\ g[2] <= Len(tasks)
    /\ next_group \in Nat /\ emitted \in Nat /\ total \in Nat /\ stop \in BOOLEAN
    /\ \A w \in Workers :
        /\ pc[w] \in {"plan", "start", "count", "scan", "reserve", "stop", "return", "done", "failed"}
        /\ local[w].out \in 0 .. VectorSize /\ local[w].offset \in 0 .. Len(local[w].vals)
        /\ local[w].has => /\ local[w].task \in TaskSet
                           /\ local[w].entry \in local[w].task.begin .. local[w].task.end
                           /\ Inside(local[w].task) \subseteq Entries(local[w].task.file)

\* What the query asks for, without an index: the rows of every file that all
\* its filters, the selection and the predicates let through.
Satisfies(filter, v) == \A f \in filter : Holds(f.expr, v)
Matching ==
    {r \in AllRows :
        /\ Satisfies(q.event, q.files[r.file].base + r.entry) /\ Satisfies(q.entry, r.entry)
        /\ Satisfies(q.source, r.file) /\ Satisfies(q.value, r.value)
        /\ \A s \in q.selection : r.entry \in s[r.file]
        /\ PassesPathPredicates(r.file, r.entry)}

Returned == {r \in AllRows : rows[r] > 0}

\* No value of an entry is returned twice, by one thread or by two, whichever
\* tasks its basket was cut and joined into.
RowsAtMostOnce == \A r \in AllRows : rows[r] <= 1

\* Metadata only drop what no row filter would have kept: a scan that ended
\* has returned every matching row, unless the limit was reached.
ResultIsComplete ==
    Finished /\ ~q.count /\ ~q.changed /\ emitted < q.limit => Matching \subseteq Returned

\* The rows granted by concurrent threads never exceed row_limit, and each
\* grant is for a row of its own.
GrantsAreCounted ==
    /\ Limited => emitted <= q.limit
    /\ ~q.count => Cardinality(Returned) = emitted

\* A query without optional filters is returned as many rows as there are, up to
\* the limit, no more when threads race for the last ones and no fewer because the
\* plan ends with the values it has counted by then.
LimitIsExact ==
    LET Exact == \A f \in q.value \cup q.event \cup q.entry \cup q.source : ~f.optional
        all == IF q.count THEN total ELSE Cardinality(Matching)
        given == IF q.count THEN emitted ELSE Cardinality(Returned)
    IN Finished /\ ~q.changed /\ Exact => given = Min({q.limit, all})

\* Every thread is handed an empty chunk in the end.
ScanEnds == <>Finished
=============================================================================
