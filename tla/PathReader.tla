----------------------------- MODULE PathReader ------------------------------
(***************************************************************************)
(* One relation of a ROOT file read entry by entry, a RootPathReader for   *)
(* each of its numeric columns: BeginNumericEntry and ReadNumericPage, as  *)
(* the index build and the indexed scan call them, down to the object that *)
(* TTree::GetEntry fills and the cursor that walks it a page at a time.    *)
(*                                                                         *)
(* An object is a block of slots (see LogicalPath); a slot of a container  *)
(* holds the blocks of its elements, one of a pointer no block or one.     *)
(* What the serialized decoder yields is any of right, wrong or failure.   *)
(***************************************************************************)
EXTENDS BranchResolver

CONSTANTS
    Queries, \* [prefix, branches, mode, validate, fixed, fallback, page]: see TypeOK
    Files,   \* the files: sequences of objects, each by its elements (see Slots)
    Blank    \* what TClass::New makes

VARIABLES
    query, file,
    enabled, \* the branches that SetBranchStatus leaves on
    memory,  \* the object that the reader owns
    loaded,  \* RootEntryReader: "none", or whose object it holds
    entry,
    column,  \* the columns still to be read from this entry, the first one now
    reader,  \* [column -> its RootPathReader]
    pc,
    rows,    \* history: what each column has returned of this entry
    wrong    \* history: the columns that took wrong values without comparing them

vars == <<query, file, enabled, memory, loaded, entry, column, reader, pc, rows, wrong>>
fileVars == <<query, file>>

\* The relation: its numeric columns.
RelationColumns(prefix) == {path \in Selection(prefix) : IsNumber(Last(Resolve(path)).type)}

Columns   == DOMAIN reader
Levels(c) == reader[c].levels
Current   == Head(column)

-----------------------------------------------------------------------------
(* Objects.                                                                *)

\* The slots of a value of type t, elements in the order of the streamer; the blocks
\* of the objects of a container.
RECURSIVE Slots(_, _), Blocks(_, _), Members(_, _), Row(_, _, _)
Slots(t, v) ==
    IF IsContainer(t) THEN <<Blocks(Types[t].of, v)>>
    ELSE IF Types[t].kind # "class" THEN <<v>>
    ELSE Members(Streamers[t], v)
Blocks(t, v) == IF v = <<>> THEN <<>> ELSE <<Slots(t, Head(v))>> \o Blocks(t, Tail(v))
Members(E, v) ==
    LET e == Head(E)
    IN IF E = <<>> THEN <<>>
       ELSE (IF e.pointer THEN <<Blocks(e.type, Head(v))>> ELSE Row(e.type, e.dims, Head(v)))
            \o Members(Tail(E), Tail(v))
Row(t, dims, v) ==
    IF dims = <<>> THEN Slots(t, v)
    ELSE IF v = <<>> THEN <<>>
    ELSE Row(t, Tail(dims), Head(v)) \o Row(t, dims, Tail(v))

Stored(e) == Slots(Root, file[e])
Fresh     == Slots(Root, Blank)

-----------------------------------------------------------------------------
(* The traversal: CollectValuesRecursive over a sink.                      *)

\* A sink takes values up to a limit, after the one it resumes behind.
Sink(limit, previous, skip) ==
    [limit |-> limit, previous |-> previous, skip |-> skip, out |-> <<>>, broken |-> FALSE]

NoLimit == -1
Full(s) == s.broken \/ (s.limit # NoLimit /\ Len(s.out) >= s.limit)

\* CursorPageSink::Skip: the value it resumes behind must come first.
Put(s, index, value) ==
    IF ~s.skip THEN [s EXCEPT !.out = Append(@, [index |-> index, value |-> value])]
    ELSE IF index = s.previous THEN [s EXCEPT !.skip = FALSE]
    ELSE [s EXCEPT !.broken = TRUE]

\* PushArrayCoordinates of the flat position i.
Coordinates(i, dims) ==
    [d \in DOMAIN dims |-> (i \div Product(SubSeq(dims, d + 1, Len(dims)))) % dims[d]]

\* mutant: the level behind the previous position is entered anew
StartPastPrevious(s, level, prefix) ==
    IF s.skip /\ IsPrefix(prefix, s.previous) /\ Len(level.dims) <= 1 /\ Len(s.previous) > Len(prefix)
    THEN s.previous[Len(prefix) + 1] + 1
    ELSE 0

\* mutant: the coordinates are added up in the wrong order
StartTransposed(s, level, prefix) ==
    IF s.skip /\ IsPrefix(prefix, s.previous) /\ Len(s.previous) > Len(prefix)
    THEN FoldLeft(LAMBDA i, d : i * level.dims[d] + s.previous[Len(s.previous) + 1 - d], 0,
                  [d \in DOMAIN level.dims |-> d])
    ELSE 0

\* Where a level is entered: at the previous position when the path there is the
\* same, else at its beginning.
StartIndex(s, level, prefix) ==
    LET rank == IF level.dims = <<>> THEN 1 ELSE Len(level.dims)
    IN IF ~s.skip \/ ~IsPrefix(prefix, s.previous) \/ Len(s.previous) - Len(prefix) < rank THEN 0
       ELSE IF rank = 1 THEN s.previous[Len(prefix) + 1]
       ELSE FoldLeft(LAMBDA i, d : i * level.dims[d] + s.previous[Len(prefix) + d], 0, [d \in 1 .. rank |-> d])

\* Level k of the path, looked up at an offset of a block, and its elements from i on.
RECURSIVE Collect(_, _, _, _, _, _), CollectElements(_, _, _, _, _, _, _)
Collect(block, offset, levels, k, index, sink) ==
    LET level == levels[k]
        slot  == offset + level.offset
        null  == level.pointer /\ block[slot + 1] = <<>>
        at    == IF level.pointer THEN 0 ELSE slot
        field == IF level.pointer /\ ~null THEN block[slot + 1][1] ELSE block
    IN IF Full(sink) \/ null THEN sink
       ELSE IF level.dims # <<>> \/ IsContainer(level.type)
       THEN CollectElements(field, at, levels, k, index, sink, StartIndex(sink, level, index))
       ELSE IF k = Len(levels) THEN Put(sink, index, field[at + 1])
       ELSE Collect(field, at, levels, k + 1, index, sink)

CollectElements(field, at, levels, k, index, sink, i) ==
    LET level == levels[k]
        array == level.dims # <<>>
        size  == IF array THEN Product(level.dims) ELSE Len(field[at + 1])
        block == IF array THEN field ELSE field[at + 1][i + 1]
        from  == IF array THEN at + i * Types[level.type].size ELSE 0
        here  == index \o (IF array THEN Coordinates(i, level.dims) ELSE <<i>>)
    IN IF Full(sink) \/ i >= size THEN sink
       ELSE CollectElements(field, at, levels, k, index,
                            IF k = Len(levels) THEN Put(sink, here, block[from + 1])
                            ELSE Collect(block, from, levels, k + 1, here, sink), i + 1)

\* RunTraversal, and CollectDirect and CollectTypedFlat: all values of the entry.
Traverse(object, levels, sink) == Collect(object, 0, levels, 1, <<>>, sink)
CollectDirect(object, levels) == Traverse(object, levels, Sink(NoLimit, <<>>, FALSE)).out

-----------------------------------------------------------------------------
(* The cursor.                                                             *)

\* mutant: a cursor that no entry was opened for
NeverOpened == [complete |-> FALSE, resume |-> <<>>, emitted |-> FALSE]

Closed == [complete |-> TRUE, resume |-> <<>>, emitted |-> FALSE]

\* OffsetValueCursor::Open resets first.
OpenCursor(cursor) == [Closed EXCEPT !.complete = FALSE]

\* mutant: the first page that is not empty is the last
ReadPageOnce(cursor, object, levels, n) ==
    LET s == Traverse(object, levels, Sink(n, cursor.resume, cursor.emitted))
    IN [rows |-> s.out, broken |-> s.broken, cursor |-> [cursor EXCEPT !.complete = TRUE]]

\* OffsetValueCursor::ReadPage: complete once a page is not filled.
ReadPage(cursor, object, levels, n) ==
    LET s == Traverse(object, levels, Sink(n, cursor.resume, cursor.emitted))
    IN [rows |-> s.out, broken |-> s.broken,
        cursor |-> IF s.out = <<>> THEN [cursor EXCEPT !.complete = TRUE]
                   ELSE [complete |-> Len(s.out) < n, resume |-> Last(s.out).index, emitted |-> TRUE]]

-----------------------------------------------------------------------------
(* The readers.                                                            *)

Strict == query.mode = "serialized"

AllBranches == DOMAIN query.branches

\* mutant: an exact name is trusted like an ancestor's
ProjectionOfExact ==
    LET P == {reader[c].physical : c \in Columns}
    IN IF \A p \in P : p.mode \in {"ancestor", "exact"} /\ query.branches[p.branch].children = 0
       THEN {p.branch : p \in P}
       ELSE AllBranches

\* ApplyBranchProjection for columns that are all stored in an ancestor of theirs,
\* each without children; else every branch stays on.
Projection ==
    LET P == {reader[c].physical : c \in Columns}
    IN IF \A p \in P : p.mode = "ancestor" /\ query.branches[p.branch].children = 0
       THEN {p.branch : p \in P}
       ELSE AllBranches

\* TTree::GetEntry fills what the enabled branches store.
GetEntry(object, e, on) ==
    LET read   == UNION {query.branches[b].slots : b \in on}
        stored == Stored(e)
    IN [s \in DOMAIN object |-> IF s \in read THEN stored[s] ELSE object[s]]

Init ==
    /\ query \in Queries /\ file \in Files
    /\ enabled = {} /\ memory = Fresh /\ loaded = "none" /\ entry = 0 /\ column = <<>>
    /\ reader = [c \in RelationColumns(query.prefix) |->
                   [levels |-> Resolve(c), physical |-> ResolvePhysicalBranch(query.branches, c),
                    active |-> FALSE, validation |-> 0, cursor |-> Closed, left |-> <<>>]]
    /\ rows = [c \in Columns |-> <<>>] /\ wrong = {} /\ pc = "open"

Fail == pc' = "failed" /\ UNCHANGED <<fileVars, enabled, memory, loaded, entry, column, reader, rows, wrong>>

\* StartSerialized of each column; A have a supported plan and, if entries are to
\* be validated, an isolated reader.
OpenFile(A) ==
    LET on == IF query.mode = "object" THEN {} ELSE A
    IN /\ pc = "open" /\ (Strict => A = Columns)
       /\ reader' = [c \in Columns |-> [reader[c] EXCEPT !.active = c \in on, !.validation = query.validate]]
       /\ enabled' = IF query.mode # "object" /\ query.fallback /\ A # Columns THEN AllBranches ELSE Projection
       /\ pc' = "next"
       /\ UNCHANGED <<fileVars, memory, loaded, entry, column, rows, wrong>>

OpenRejected(A) == pc = "open" /\ Strict /\ A # Columns /\ Fail

\* mutant: the object of the entry before is taken for this one's
BeginLoaded == UNCHANGED loaded

\* RootEntryReader::Begin.
Begin == loaded' = "none"

NextEntry ==
    /\ pc = "next" /\ entry < Len(file)
    /\ entry' = entry + 1 /\ column' = SetToSeq(Columns)
    /\ Begin
    /\ rows' = [c \in Columns |-> <<>>] /\ wrong' = {}
    /\ pc' = "column"
    /\ UNCHANGED <<fileVars, enabled, memory, reader>>

EndEntry ==
    /\ pc = "column" /\ column = <<>>
    /\ pc' = "next"
    /\ UNCHANGED <<fileVars, enabled, memory, loaded, entry, column, reader, rows, wrong>>

\* What decoding the serialized bytes of the entry yields.
Decoded(c, outcome) ==
    LET right == CollectDirect(Stored(entry), Levels(c))
    IN IF outcome = "right" THEN right ELSE [i \in DOMAIN right |-> [right[i] EXCEPT !.value = -1]]

\* mutant: the object of the validation reader is not told from the scan's
ReadAnySource == IF loaded = "none" THEN GetEntry(memory, entry, enabled') ELSE memory

\* RootEntryReader::Read: one load per entry and source.
ReadObject == IF loaded = "scan" THEN memory ELSE GetEntry(memory, entry, enabled')

\* mutant: what was decoded is taken although it differs
Unverified(c, outcome) == outcome # "fails"

\* EqualDecodedValues, while entries are being validated.
Accepted(c, outcome) == outcome = "right" \/ (outcome = "wrong" /\ reader[c].validation = 0)

Paged(c) == reader[c].active /\ query.fixed /\ reader[c].validation = 0

\* ActivateFallback, and the object: loaded anew when values of this entry were
\* decoded, not pages.
ReadFromObject(c, fallback) ==
    /\ enabled' = IF fallback /\ query.fallback THEN AllBranches ELSE enabled
    /\ memory' = IF fallback /\ ~Paged(c) THEN GetEntry(memory, entry, enabled') ELSE ReadObject
    /\ loaded' = "scan"
    /\ reader' = [reader EXCEPT ![c].active = @ /\ ~fallback, ![c].cursor = OpenCursor(@)]
    /\ pc' = "page"
    /\ UNCHANGED <<fileVars, entry, column, rows, wrong>>

\* BeginNumericEntry of the current column: a page cursor over the bytes, the values
\* of the entry at once, or a cursor over the object.
BeginPages(outcome) ==
    /\ pc = "column" /\ column # <<>> /\ Paged(Current) /\ outcome # "fails"
    /\ reader' = [reader EXCEPT ![Current].left = Decoded(Current, outcome)]
    /\ wrong' = IF outcome = "wrong" THEN wrong \cup {Current} ELSE wrong
    /\ pc' = "page"
    /\ UNCHANGED <<fileVars, enabled, memory, loaded, entry, column, rows>>

BeginValues(outcome) ==
    /\ pc = "column" /\ column # <<>> /\ reader[Current].active /\ ~Paged(Current)
    /\ Accepted(Current, outcome)
    /\ rows' = [rows EXCEPT ![Current] = Decoded(Current, outcome)]
    /\ loaded' = IF reader[Current].validation > 0 THEN "isolated" ELSE loaded
    /\ reader' = [reader EXCEPT ![Current].validation = IF @ > 0 THEN @ - 1 ELSE 0]
    /\ wrong' = IF outcome = "wrong" /\ reader[Current].validation = 0 THEN wrong \cup {Current} ELSE wrong
    /\ column' = Tail(column)
    /\ UNCHANGED <<fileVars, enabled, memory, entry, pc>>

BeginFallback(outcome) ==
    /\ pc = "column" /\ column # <<>> /\ reader[Current].active
    /\ IF Paged(Current) THEN outcome = "fails" ELSE ~Accepted(Current, outcome)
    /\ IF Strict THEN Fail ELSE ReadFromObject(Current, TRUE)

BeginObject ==
    /\ pc = "column" /\ column # <<>> /\ ~reader[Current].active
    /\ ReadFromObject(Current, FALSE)

\* ReadNumericPage from the bytes, until none are left.
ReadBytesPage ==
    LET left == reader[Current].left
        n    == IF query.page < Len(left) THEN query.page ELSE Len(left)
    IN /\ pc = "page" /\ left # <<>>
       /\ rows' = [rows EXCEPT ![Current] = @ \o SubSeq(left, 1, n)]
       /\ reader' = [reader EXCEPT ![Current].left = SubSeq(left, n + 1, Len(left))]
       /\ UNCHANGED <<fileVars, enabled, memory, loaded, entry, column, pc, wrong>>

\* ReadNumericPage from the object: each value has the coordinates of its column.
ReadObjectPage ==
    LET page == ReadPage(reader[Current].cursor, memory, Levels(Current), query.page)
        fits == \A i \in DOMAIN page.rows : Len(page.rows[i].index) = IndexDepth(Levels(Current))
    IN /\ pc = "page" /\ ~reader[Current].cursor.complete
       /\ IF page.broken \/ ~fits THEN Fail
          ELSE /\ rows' = [rows EXCEPT ![Current] = @ \o page.rows]
               /\ reader' = [reader EXCEPT ![Current].cursor = page.cursor]
               /\ UNCHANGED <<fileVars, enabled, memory, loaded, entry, column, pc, wrong>>

EndNumericPage ==
    /\ pc = "page" /\ reader[Current].left = <<>> /\ reader[Current].cursor.complete
    /\ reader' = [reader EXCEPT ![Current].cursor = Closed]
    /\ column' = Tail(column) /\ pc' = "column"
    /\ UNCHANGED <<fileVars, enabled, memory, loaded, entry, rows, wrong>>

Outcomes == {"right", "wrong", "fails"}

Next ==
    \/ \E A \in SUBSET Columns : OpenFile(A) \/ OpenRejected(A)
    \/ NextEntry \/ EndEntry
    \/ \E outcome \in Outcomes : BeginPages(outcome) \/ BeginValues(outcome) \/ BeginFallback(outcome)
    \/ BeginObject \/ ReadBytesPage \/ ReadObjectPage \/ EndNumericPage

Spec == Init /\ [][Next]_vars

-----------------------------------------------------------------------------
(* What a column of an entry is, by the declaration of the classes alone.  *)

Prefixed(i, values) == {[v EXCEPT !.index = <<i>> \o @] : v \in values}

\* The value v of a declared element e, below it the members that fields names.
RECURSIVE Leaves(_, _, _), Member(_, _, _)
Leaves(e, v, fields) ==
    IF e.pointer THEN UNION {Leaves([e EXCEPT !.pointer = FALSE], v[k], fields) : k \in DOMAIN v}
    ELSE IF e.dims # <<>>
    THEN UNION {Prefixed(k - 1, Leaves([e EXCEPT !.dims = Tail(@)], v[k], fields)) : k \in DOMAIN v}
    ELSE IF IsContainer(e.type)
    THEN LET below == IF ~IsAssociative(e.type)
                      THEN IF Head(fields) = "value" THEN Tail(fields) ELSE fields
                      ELSE <<IF Head(fields) = "key" THEN "first" ELSE "second">> \o Tail(fields)
         IN UNION {Prefixed(k - 1, Leaves(ValueOf(e.type), v[k], below)) : k \in DOMAIN v}
    ELSE IF fields = <<>> THEN {[index |-> <<>>, value |-> v]}
    ELSE Member(e.type, v, fields)

\* Members of the class hide those of its bases.
Member(class, v, fields) ==
    LET E == Streamers[class]
        own == {i \in DOMAIN E : ~E[i].base /\ E[i].name = Head(fields)}
    IN IF own # {} THEN UNION {Leaves(E[i], v[i], Tail(fields)) : i \in own}
       ELSE UNION {Member(E[i].type, v[i], fields) : i \in {i \in DOMAIN E : E[i].base}}

Reference(e, c) == Leaves([NoField EXCEPT !.type = Root], file[e], c)

Before(a, b) ==
    \E d \in DOMAIN a : a[d] < b[d] /\ \A k \in 1 .. d - 1 : a[k] = b[k]

-----------------------------------------------------------------------------
(* Properties.                                                             *)

\* The branches that store the first member on the way to a column.
Home(c) == {b \in AllBranches : Levels(c)[1].offset + 1 \in query.branches[b].slots}

\* The columns whose name leads to the branch of another member, as of an ancestor: the
\* projection keeps that branch and turns off theirs (see the README).
Misled == {c \in Columns : reader[c].physical.mode = "ancestor" /\ reader[c].physical.branch \notin Home(c)}

\* The columns of an entry that was read, those of wrong values and the misled left out.
Finished == IF pc = "column" /\ column = <<>> THEN Columns \ (wrong \cup Misled) ELSE {}

Indices(c) == {rows[c][i].index : i \in DOMAIN rows[c]}

\* Type invariant of the reader: a cursor is open only for the column being read and
\* never beside bytes that are left, and the object in memory has its class's slots.
TypeOK ==
    /\ enabled \subseteq AllBranches /\ DOMAIN memory = DOMAIN Fresh
    /\ loaded \in {"none", "scan", "isolated"} /\ entry \in 0 .. Len(file)
    /\ pc \in {"open", "next", "column", "page", "failed"}
    /\ wrong \subseteq Columns
    /\ \A c \in Columns :
          /\ reader[c].validation \in 0 .. query.validate
          /\ (reader[c].left # <<>> \/ ~reader[c].cursor.complete) => pc \in {"page", "failed"} /\ c = Current
          /\ reader[c].left = <<>> \/ reader[c].cursor.complete

\* Whatever was validated, paged or fallen back from, whatever entry was read before and
\* whatever branches are turned off, a column of an entry is the values that its class
\* declares, each once, in the order of their coordinates, unless its name misled the choice
\* of an ancestor (root_branch_resolver.cpp:161); a read fails only where the caller forbids
\* the fallback.
EntryIsReference ==
    /\ \A c \in Finished :
          /\ Range(rows[c]) = Reference(entry, c)
          /\ \A i \in 1 .. (Len(rows[c]) - 1) : Before(rows[c][i].index, rows[c][i + 1].index)
    /\ pc = "failed" => Strict

\* The columns of a relation can be put side by side: what is the same element has the
\* same coordinates in each of them, and only a member that is a null pointer is missing;
\* and the index columns, which have a name for every level, tell the rows of an entry apart.
SiblingsShareIndices ==
    /\ \A c, d \in Finished : ~Last(Levels(d)).pointer => Indices(c) \subseteq Indices(d)
    /\ \A c \in Finished : \A i, j \in DOMAIN rows[c] :
         i # j => \E name \in IndexColumns(Columns) :
                     IndexValue(Levels(c), rows[c][i].index, name) # IndexValue(Levels(c), rows[c][j].index, name)
=============================================================================
