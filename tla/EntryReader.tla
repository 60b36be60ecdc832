----------------------------- MODULE EntryReader -----------------------------
(***************************************************************************)
(* How one thread of a direct scan turns the entries of one ROOT file into *)
(* rows: RootScanExecutor::ReadAndCacheEntry and ReadCursorPage over one   *)
(* RootPathReader per value column of the selected relation.               *)
(*                                                                         *)
(* A column can be decoded from the serialized bytes of its branch, page   *)
(* by page or a whole entry at a time, or be read from the reconstructed   *)
(* object.  The first entries are decoded both ways and compared.  What is *)
(* read serialized can fail, differ from the object, or have another shape *)
(* than its siblings; the reader then falls back, or fails the query.      *)
(*                                                                         *)
(* Abstracted: a value is the index tuple of its element and whether it is *)
(* the value of the object; a shape is a sequence of index tuples.  The    *)
(* split of a page into SQL chunks belongs to DirectScan.                  *)
(***************************************************************************)
EXTENDS Naturals, Sequences, FiniteSets

CONSTANTS
    Columns,        \* the value columns of the relation
    Strings,        \* those of a string type, which are never serialized
    Representative, \* its first value column, a numeric one
    PageSize,       \* STANDARD_VECTOR_SIZE
    Options,        \* the queries: see OptionSet
    Fails,          \* the serialized bytes of the entry cannot be decoded
    Null            \* SQL NULL

\* One query: reader_mode, the projected value columns, raw_validation_entries,
\* raw_max_values_per_entry, whether the plans are FIXED_MEMBER of one container,
\* whether the relation has virtual index columns; and the file it is put to: its
\* entries, and the index tuples a column can hold in one.
OptionSet == [mode: {"object", "serialized", "auto"}, projected: SUBSET Columns, validate: Nat,
              limit: Nat, fixed: BOOLEAN, container: BOOLEAN, entries: Nat, shapes: SUBSET Seq(Nat)]

Value == [index: Nat, right: BOOLEAN]

ASSUME EntryAssumption ==
    /\ IsFiniteSet(Columns) /\ Null \notin Value
    /\ Strings \subseteq Columns /\ Representative \in Columns \ Strings
    /\ PageSize \in Nat \ {0}
    /\ Options \subseteq OptionSet
    /\ \A o \in Options : (o.fixed => o.container) /\ <<>> \in o.shapes

VARIABLES
    opts,       \* the query
    active,     \* the columns whose serialized_active is set
    validation, \* [Columns -> validation_remaining]
    entry,      \* local_current_row
    cell,       \* what the file holds for each column in this entry
    pc,         \* the next step
    route,      \* how the entry is read: which cursors are open
    pos,        \* [Columns -> values taken from the column's cursor]
    open,       \* the columns whose cursor has more
    escaped,    \* multi_numeric_page_emitted
    page,       \* cached_results: the rows decoded and not yet returned
    checked,    \* history: every serialized column was still being validated
    rows,       \* history: the rows returned for this entry
    sources     \* history: what they were read from

vars == <<opts, active, validation, entry, cell, pc, route, pos, open, escaped, page,
          checked, rows, sources>>
cursorVars == <<route, pos, open, escaped>>

\* What the file holds: the object's shape, and what decoding yields, with the
\* same values or with others.
Cell  == [object: opts.shapes, serial: opts.shapes \cup {Fails}, right: BOOLEAN]
Min2(a, b) == IF a <= b THEN a ELSE b

\* The columns that get a serialized reader; an index-only projection takes the
\* representative for the geometry.
Candidates ==
    LET N == opts.projected \ Strings IN IF N = {} THEN {Representative} ELSE N

\* The columns whose object cursors make up the rows.
Readers == IF opts.projected = {} THEN {Representative} ELSE opts.projected

\* What the file can hold for the columns of the query; strings are only read
\* from the object.  A fixed member of a
\* container is decoded at consecutive positions, which are its indices; a scalar
\* relation has at most one value an entry.
Cells ==
    LET Dense(s)  == s = Fails \/ \A i \in DOMAIN s : s[i] = i
        Scalar(s) == s = Fails \/ Len(s) <= 1
        Legal == {x \in Cell :
                    /\ (opts.fixed => Dense(x.serial))
                    /\ (~opts.container => Scalar(x.object) /\ Scalar(x.serial))
                    /\ (x.serial = Fails => x.right)}
    IN {f \in [Readers \cup Candidates -> Legal] : \A c \in Readers \cap Strings : f[c].serial = Fails}

TypeOK ==
    /\ opts \in Options
    /\ active \subseteq Candidates
    /\ validation \in [Columns -> Nat]
    /\ entry \in 0 .. opts.entries
    /\ cell \in Cells
    /\ pc \in {"open", "next", "start", "whole", "page", "emit", "done", "failed"}
    /\ route \in {"none", "serialized", "lockstep", "object"}
    /\ pos \in [Columns -> Nat]
    /\ open \subseteq Columns
    /\ escaped \in BOOLEAN /\ checked \in BOOLEAN
    /\ page \in Seq([Readers -> Value \cup {Null}])
    /\ rows \in Seq([Readers -> Value \cup {Null}])
    /\ sources \subseteq {"serialized", "object"}

-----------------------------------------------------------------------------
(* Helpers.                                                                *)

Source(r) == IF r = "object" THEN "object" ELSE "serialized"

\* The values of column c read from source s.
Values(c, s) ==
    IF s = "object"
    THEN [i \in DOMAIN cell[c].object |-> [index |-> cell[c].object[i], right |-> TRUE]]
    ELSE IF cell[c].serial = Fails THEN <<>>
    ELSE [i \in DOMAIN cell[c].serial |-> [index |-> cell[c].serial[i], right |-> cell[c].right]]

\* The next page of a column.
Page(c, s) == SubSeq(Values(c, s), pos[c] + 1, Min2(pos[c] + PageSize, Len(Values(c, s))))

\* ProcessCachedEntry: row i has the i-th value of each column, NULL where a
\* column has fewer.
Zip(V) ==
    [i \in 1 .. (CHOOSE n \in {Len(V[c]) : c \in Readers} : \A c \in Readers : n >= Len(V[c])) |->
        [c \in Readers |-> IF i <= Len(V[c]) THEN V[c][i] ELSE Null]]

\* An entry without a value still is one row of a scalar relation.
NullRow == <<[c \in Readers |-> Null]>>

\* Decoding of a whole entry stops at raw_max_values_per_entry, pages do not.
Pageable(c)  == cell[c].serial # Fails
Decodable(c) == cell[c].serial # Fails /\ Len(cell[c].serial) <= opts.limit

\* mutant: only the number of values is compared
VerifiedBySize(c) ==
    validation[c] > 0 => Len(cell[c].serial) = Len(cell[c].object)

\* mutant: the count of validated entries underflows
RemainingUnguarded(n) == n - 1

\* --validation_remaining, after a comparison only.
Remaining(n) == IF n > 0 THEN n - 1 ELSE 0

\* EqualDecodedValues against the isolated reference reader.
Verified(c) ==
    validation[c] > 0 => cell[c].serial = cell[c].object /\ cell[c].right

\* TryReadSerialized succeeds.
Accepted(c) == c \in active /\ Decodable(c) /\ Verified(c)

\* mutant: sibling columns are compared by size alone
SameSize(s, t) == Len(s) = Len(t)

\* Two columns have the same index tuples, not only as many.
SameShape(s, t) == [i \in DOMAIN s |-> s[i].index] = [i \in DOMAIN t |-> t[i].index]

Agree(C, V) == \A c, d \in C : SameShape(V[c], V[d])

\* ActivateFallback throws.
Strict == opts.mode = "serialized"

\* A mismatch of siblings in the first page can fall back: nothing was returned.
MayRetry == ~escaped /\ ~Strict

\* mutant: the entry starts over on the route that has just failed
RetryFromStart == "start"

\* The first way of reading an entry that fails leaves it to the next one.
RetryAt == "whole"

Fail ==
    /\ pc' = "failed"
    /\ UNCHANGED <<opts, active, validation, entry, cell, cursorVars, page, checked, rows, sources>>

Start == [c \in Columns |-> 0]

\* EndEntryCursors.
NoCursors == route' = "none" /\ pos' = Start /\ open' = {} /\ escaped' = FALSE

\* Every column of C starts a cursor; the first page is always asked for.
Cursors(r, C) == route' = r /\ pos' = Start /\ open' = C /\ escaped' = FALSE /\ pc' = "page"

\* All projected columns are serialized siblings past their validation.
Lockstep ==
    /\ opts.fixed /\ Cardinality(opts.projected) > 1
    /\ Candidates = opts.projected /\ Candidates \subseteq active
    /\ \A c \in Candidates : validation[c] = 0

\* The one projected column is.
Paged ==
    /\ opts.fixed /\ Cardinality(opts.projected) = 1
    /\ Candidates = opts.projected /\ Candidates \subseteq active
    /\ \A c \in Candidates : validation[c] = 0

-----------------------------------------------------------------------------
(* Actions.                                                                *)

Blank == [object |-> <<>>, serial |-> Fails, right |-> TRUE]

Init ==
    /\ opts \in Options
    /\ active = {} /\ validation = Start /\ entry = 0 /\ checked = FALSE
    /\ cell = [c \in Readers \cup Candidates |-> Blank]
    /\ pc = "open" /\ route = "none" /\ pos = Start /\ open = {} /\ escaped = FALSE
    /\ page = <<>> /\ rows = <<>> /\ sources = {}

\* StartSerialized for each candidate; S have a supported physical plan.
OpenFile(S) ==
    /\ pc = "open"
    /\ Strict => S = Candidates
    /\ active' = IF opts.mode = "object" THEN {} ELSE S
    /\ validation' = [c \in Columns |-> opts.validate]
    /\ pc' = "next"
    /\ UNCHANGED <<opts, entry, cell, cursorVars, page, checked, rows, sources>>

OpenRejected(S) == pc = "open" /\ Strict /\ S # Candidates /\ Fail

NextEntry ==
    /\ pc = "next" /\ entry < opts.entries
    /\ entry' = entry + 1
    /\ cell' \in Cells
    /\ checked' = \A c \in active : validation[c] > 0
    /\ rows' = <<>> /\ sources' = {}
    /\ pc' = "start"
    /\ UNCHANGED <<opts, active, validation, cursorVars, page>>

Finish ==
    /\ pc = "next" /\ entry = opts.entries
    /\ pc' = "done"
    /\ UNCHANGED <<opts, active, validation, entry, cell, cursorVars, page, checked, rows, sources>>

\* ReadAndCacheEntry begins a serialized page cursor for every sibling.
StartLockstep ==
    /\ pc = "start" /\ Lockstep
    /\ \A c \in Candidates : Pageable(c)
    /\ Cursors("lockstep", Candidates)
    /\ UNCHANGED <<opts, active, validation, entry, cell, page, checked, rows, sources>>

\* One of them cannot: it falls back, those already begun are ended.
LockstepRefused(c) ==
    /\ pc = "start" /\ Lockstep /\ c \in Candidates /\ ~Pageable(c)
    /\ IF Strict THEN Fail
       ELSE /\ active' = active \ {c}
            /\ pc' = RetryAt
            /\ UNCHANGED <<opts, validation, entry, cell, cursorVars, page, checked, rows, sources>>

\* The single column is paged, serialized or from the object.
StartPages ==
    /\ pc = "start" /\ Paged
    /\ IF \A c \in Candidates : Pageable(c)
       THEN /\ Cursors("serialized", Candidates)
            /\ UNCHANGED <<opts, active, validation, entry, cell, page, checked, rows, sources>>
       ELSE IF Strict THEN Fail
       ELSE /\ Cursors("object", Candidates)
            /\ active' = {}
            /\ UNCHANGED <<opts, validation, entry, cell, page, checked, rows, sources>>

NotPaged ==
    /\ pc = "start" /\ ~Lockstep /\ ~Paged
    /\ pc' = "whole"
    /\ UNCHANGED <<opts, active, validation, entry, cell, cursorVars, page, checked, rows, sources>>

Decoded == [c \in Readers |-> Values(c, "serialized")]

\* A forced serialized read that has to fall back, or whose siblings differ,
\* fails the query.
WholeRefused ==
    /\ pc = "whole" /\ Strict
    /\ active # {c \in active : Accepted(c)} \/ ~Agree(opts.projected \cap active, Decoded)
    /\ Fail

\* Every active candidate is decoded whole and, while it is being validated,
\* compared; the rows come from there when every projected column did and all
\* have one shape, else from the object.
ReadWhole ==
    LET ok      == {c \in active : Accepted(c)}
        aligned == opts.projected \subseteq ok /\ Agree(opts.projected, Decoded)
        object  == IF opts.projected = {} THEN opts.container ELSE ~aligned
        data    == IF opts.projected = {} THEN <<>> ELSE Zip(Decoded)
    IN /\ pc = "whole"
       /\ Strict => ok = active /\ (opts.projected \subseteq ok => aligned)
       /\ active' = ok
       /\ validation' = [c \in Columns |-> IF c \in ok THEN Remaining(validation[c]) ELSE validation[c]]
       /\ \/ /\ object
             /\ Cursors("object", Readers)
             /\ UNCHANGED <<page, sources>>
          \/ /\ ~object /\ data # <<>>
             /\ NoCursors /\ page' = data /\ sources' = sources \cup {"serialized"} /\ pc' = "emit"
          \/ /\ ~object /\ data = <<>> /\ opts.container
             /\ NoCursors /\ pc' = "next" /\ UNCHANGED <<page, sources>>
          \/ /\ ~object /\ data = <<>> /\ ~opts.container
             /\ NoCursors /\ page' = NullRow /\ pc' = "emit" /\ UNCHANGED sources
       /\ UNCHANGED <<opts, entry, cell, checked, rows>>

\* mutant: a cursor that has filled a page is taken to be at its end
EndsWhenFull(c, r, n) == r # "object" /\ n < Len(Values(c, r))

\* HasMore: an object cursor only learns that it is at its end from a page that
\* it cannot fill.
HasMore(c, r, n) ==
    IF r = "object" THEN n = pos[c] + PageSize ELSE n < Len(Values(c, "serialized"))

\* ReadCursorPage: the next page of every open column; nothing left ends the
\* entry, and an entry of a scalar relation without a value is one NULL row.
ReadPage ==
    LET P == [c \in Readers |-> Page(c, Source(route))]
        first == pos = Start
    IN /\ pc = "page"
       /\ route = "lockstep" => Agree(Readers, P)
       /\ \/ /\ \E c \in Readers : P[c] # <<>>
             /\ page' = Zip(P)
             /\ pos' = [c \in Columns |-> IF c \in Readers THEN pos[c] + Len(P[c]) ELSE 0]
             /\ open' = {c \in open : HasMore(c, route, pos'[c])}
             /\ escaped' = (route = "lockstep")
             /\ sources' = sources \cup {Source(route)}
             /\ pc' = "emit" /\ UNCHANGED route
          \/ /\ \A c \in Readers : P[c] = <<>>
             /\ NoCursors /\ UNCHANGED sources
             /\ IF first /\ ~opts.container
                THEN page' = NullRow /\ pc' = "emit"
                ELSE pc' = "next" /\ UNCHANGED page
       /\ UNCHANGED <<opts, active, validation, entry, cell, checked, rows>>

\* The siblings' pages have other index tuples, or one has ended before another.
PageMismatch ==
    /\ pc = "page" /\ route = "lockstep"
    /\ ~Agree(Readers, [c \in Readers |-> Page(c, "serialized")])
    /\ IF MayRetry
       THEN /\ NoCursors /\ pc' = RetryAt
            /\ UNCHANGED <<opts, active, validation, entry, cell, page, checked, rows, sources>>
       ELSE Fail

\* ProcessCachedEntry returns the page and moves on.
EmitPage ==
    /\ pc = "emit"
    /\ rows' = rows \o page
    /\ page' = <<>>
    /\ IF open # {} THEN pc' = "page" /\ UNCHANGED cursorVars
       ELSE pc' = "next" /\ NoCursors
    /\ UNCHANGED <<opts, active, validation, entry, cell, checked, sources>>

Next ==
    \/ \E S \in SUBSET Candidates : OpenFile(S) \/ OpenRejected(S)
    \/ NextEntry \/ Finish \/ StartLockstep
    \/ \E c \in Columns : LockstepRefused(c)
    \/ StartPages \/ NotPaged \/ WholeRefused \/ ReadWhole
    \/ ReadPage \/ PageMismatch \/ EmitPage

\* The scan is pulled by DuckDB until it is exhausted.
Spec == Init /\ [][Next]_vars /\ WF_vars(Next)

-----------------------------------------------------------------------------
(* Properties.                                                             *)

\* All rows of the entry when they are read from source s.
Expected(s) ==
    LET Z == IF opts.projected = {} /\ ~opts.container THEN <<>> ELSE Zip([c \in Readers |-> Values(c, s)])
    IN IF Z = <<>> /\ ~opts.container THEN NullRow ELSE Z

Ended == pc = "next" /\ entry > 0

\* An entry that has ended has returned all its rows once, in order, whatever the
\* page boundaries and the fallbacks on the way: those of the serialized values,
\* or those of the object; and a query that does not force the serialized reader fails
\* only on siblings that part after a page was returned.
EntryIsComplete ==
    /\ Ended => rows = Expected("object") \/
                ((\A c \in Readers : cell[c].serial # Fails) /\ rows = Expected("serialized"))
    /\ pc = "failed" => Strict \/ escaped

\* "Whole-entry serialized vectors and object pages must not be mixed": the rows of
\* one entry never come from both, and those that were decoded from bytes hold values
\* of one element: the columns have the same index tuple and none is missing.
SerializedRowsAgree ==
    /\ Cardinality(sources) <= 1
    /\ sources = {"serialized"} =>
         \A i \in DOMAIN rows : \A c, d \in Readers :
            rows[i][c] # Null /\ rows[i][d] # Null /\ rows[i][c].index = rows[i][d].index

\* An entry every active column of which was still being validated returns what
\* the object holds, whatever the decoder yields.
ValidatedRowsAreReference == Ended /\ checked => rows = Expected("object")

\* Every scan of the file ends: no fallback leads back to where it came from.
ScanEnds == <>(pc \in {"done", "failed"})
=============================================================================
