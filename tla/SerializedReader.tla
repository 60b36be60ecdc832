-------------------------- MODULE SerializedReader --------------------------
(***************************************************************************)
(* The serialized readers of the columns of one branch: the plan of each   *)
(* column, the basket cache they share, and the decoders that take a       *)
(* column out of the bytes of an entry, whole or page by page.             *)
(*                                                                         *)
(* Bytes are cells of 16 bits, so that a version is a cell, a count or a   *)
(* byte count two and a float two.  A number is a cell followed by cells   *)
(* that only its own type has: read with another width it is Garbage, read *)
(* beyond its entry it is Outside.  One cell of one entry may be damaged.  *)
(* What ROOT does with bytes (its streamer actions, its branches of        *)
(* leaves) is external: it reads intact bytes as they were written.        *)
(***************************************************************************)
EXTENDS LogicalPath

CONSTANTS
    OnFile,      \* [class -> [version -> Seq of the elements it was written with]]
    Current,     \* [class -> the version of the dictionary]; Streamers are its elements
    Unversioned, \* the <<class, version>> that are written with a checksum instead
    Scenarios,   \* [branch, columns, baskets, fragile: whether a cell may be damaged]
    Damages,     \* what may be added to a damaged cell
    MaxValues,   \* max_values_per_entry
    MaxCells,    \* max_entry_bytes
    PageRows     \* how many values are asked for at a time

ASSUME SerializedAssumption ==
    /\ \A class \in DOMAIN Current : OnFile[class][Current[class]] = Streamers[class]
    /\ MaxValues \in Nat \ {0} /\ MaxCells \in Nat \ {0} /\ PageRows \in Nat \ {0}

VARIABLES
    file,     \* [branch, columns, baskets, buffers, damage]
    cache,    \* SerializedBasketCache: [number, first, end] of its basket
    loaded,   \* the basket that the TBranch holds; 0 for none
    readers,  \* [column -> SerializedBasketReader]
    entry,    \* the entry that is read; 0 before the first
    out       \* [column -> what was decoded of the entry]

vars == <<file, cache, loaded, readers, entry, out>>

Garbage == -1
Outside == -2
Mask       == 16384   \* of a byte count
MemberWise == 16384   \* of a version

RECURSIVE Concat(_)
Concat(ss) == IF ss = <<>> THEN <<>> ELSE Head(ss) \o Concat(Tail(ss))

\* Sum of f[1] .. f[n].
RECURSIVE SumTo(_, _)
SumTo(f, n) == IF n = 0 THEN 0 ELSE SumTo(f, n - 1) + f[n]

-----------------------------------------------------------------------------
(* What ROOT writes.                                                       *)

\* An entry is the version of its objects, the number of values that each object's
\* vectors have, and how a vector of objects below it is streamed.
Value(member, i, j, a) == 1000 * member + 100 * i + 10 * j + a

\* The number of a member: its place in the dictionary's class.
Member(class, name) ==
    LET at == {k \in DOMAIN Streamers[class] : Streamers[class][k].name = name}
    IN IF at = {} THEN 0 ELSE LeastOf(at)

\* A cell is small or the first one of a number; the others tell its width.
Cells(type, v) ==
    LET w == Types[type].width IN [c \in 1..w |-> IF c = 1 THEN v ELSE -(10 * w + c)]

Frame(body) == <<Mask, Len(body)>> \o body
Count(n)    == <<0, n>>
Version(class, v) == IF <<class, v>> \in Unversioned THEN <<0, 0, v>> ELSE <<v>>

\* The values of a fixed member of the objects i, j of a class.
FixedCells(class, el, i, j) ==
    IF el.base THEN [c \in 1..5 |-> -9]
    ELSE Concat([a \in 1..Product(el.dims) |-> Cells(el.type, Value(Member(class, el.name), i, j, a - 1))])

\* A vector of objects below an object: a column for each member, or object by object.
InnerObjects(e, class, i) ==
    LET E == OnFile[class][e.inner]
    IN Count(e.sizes[i]) \o
       IF e.stl = 0
       THEN Concat([j \in 1..e.sizes[i] |-> Concat([k \in DOMAIN E |-> FixedCells(class, E[k], i, j)])])
       ELSE Concat([k \in DOMAIN E |-> Concat([j \in 1..e.sizes[i] |-> FixedCells(class, E[k], i, j)])])

\* The column of a member of the outer objects.
ColumnCells(e, class, el) ==
    LET objects == DOMAIN e.sizes
        item    == Types[el.type].of
        Numbers(i) == Count(e.sizes[i]) \o
                      Concat([j \in 1..e.sizes[i] |-> Cells(item, Value(Member(class, el.name), i, j, 0))])
    IN IF el.base \/ IsNumber(el.type) THEN Concat([i \in objects |-> FixedCells(class, el, i, 0)])
       ELSE IF IsNumber(item)
       THEN Frame((IF e.checksum THEN <<0, 0, 77>> ELSE <<9>>) \o Concat([i \in objects |-> Numbers(i)]))
       ELSE Frame((IF e.stl = 0 THEN <<9>> ELSE <<MemberWise + e.stl>>)
                  \o (IF e.stl >= 8 THEN Version(item, e.inner) ELSE <<>>)
                  \o Concat([i \in objects |-> InnerObjects(e, item, i)]))

\* A std::vector of objects, streamed member by member.
EntryCells(class, e) ==
    LET E == OnFile[class][e.version]
    IN Frame(<<MemberWise + 9>> \o Version(class, e.version) \o Count(Len(e.sizes))
             \o IF e.sizes = <<>> THEN <<>> ELSE Concat([k \in DOMAIN E |-> ColumnCells(e, class, E[k])]))

\* The values of a path with their coordinates, in the order an object is walked.
Coordinates(flat, dims) ==
    [d \in DOMAIN dims |-> (flat \div Product(SubSeq(dims, d + 1, Len(dims)))) % dims[d]]

\* The class whose objects a level leads to.
ObjectsOf(level) == IF IsContainer(level.type) THEN Types[level.type].of ELSE level.type

Stored(levels, e) ==
    LET place  == IF Last(levels).name = "value" THEN Len(levels) - 1 ELSE Len(levels)
        class  == IF place = 1 THEN Root ELSE ObjectsOf(levels[place - 1])
        outer  == IsContainer(levels[1].type)
        inner  == Len(levels) = 3 /\ IsContainer(levels[2].type)
        Of(i, j) == [a \in 1..Product(Last(levels).dims) |->
                        [value |-> Value(Member(class, levels[place].name), i, j, a - 1),
                         at    |-> (IF outer THEN <<i - 1>> ELSE <<>>) \o (IF inner THEN <<j - 1>> ELSE <<>>)
                                   \o Coordinates(a - 1, Last(levels).dims)]]
    IN Concat([i \in 1..(IF outer THEN Len(e.sizes) ELSE 1) |->
                 IF inner THEN Concat([j \in 1..e.sizes[i] |-> Of(i, j)]) ELSE Of(i, 0)])

-----------------------------------------------------------------------------
(* The layout of a member.                                                 *)

\* FixedPrimitiveWidth, with the ten bytes of a TObject; 0: not fixed.
FixedWidth(el) ==
    IF el.base THEN IF el.type = "TObject" THEN 5 ELSE 0
    ELSE IF el.pointer \/ ~IsNumber(el.type) THEN 0
    ELSE Types[el.type].width * Product(el.dims)

Named(E, name) ==
    LET at == {k \in DOMAIN E : ~E[k].base /\ E[k].name = name} IN IF at = {} THEN 0 ELSE LeastOf(at)

\* The width of the first n elements, which are all fixed.
PrefixIsFixed(E, n) == \A k \in 1..n : FixedWidth(E[k]) > 0
PrefixWidth(E, n)   == SumTo([k \in DOMAIN E |-> FixedWidth(E[k])], n)

NoLayout == [type |-> "", prefix |-> 0, length |-> 0, dims |-> <<>>]

\* ResolveSerializedFixedLayout: where a version of the class has the member, which
\* has kept its type and shape; a float may have become a double.
ResolveFixedLayout(class, name, plan, version) ==
    LET E  == OnFile[class][version]
        at == Named(E, name)
        kept == E[at].type = plan.type
        wider == E[at].type = "float" /\ plan.type = "double"
    IN IF /\ version \in DOMAIN OnFile[class]
          /\ at > 0
          /\ PrefixIsFixed(E, at)
          /\ kept \/ wider
          /\ E[at].dims = plan.dims
       THEN [type |-> E[at].type, prefix |-> PrefixWidth(E, at - 1), length |-> Product(plan.dims), dims |-> plan.dims]
       ELSE NoLayout

\* ResolveSerializedNestedMemberWiseStride.
MemberWiseStride(class, name, version) ==
    LET E == OnFile[class][version]
    IN IF version \in DOMAIN OnFile[class] /\ PrefixIsFixed(E, Len(E)) /\ Named(E, name) > 0
       THEN PrefixWidth(E, Len(E)) ELSE 0

-----------------------------------------------------------------------------
(* The plan of a column.                                                   *)

Rejected == [kind |-> "rejected", levels |-> <<>>, type |-> "", dims |-> <<>>,
             class |-> "", member |-> "", id |-> 0, nested |-> ""]

Plan(kind, levels, type, dims, class, member, id, nested) ==
    [kind |-> kind, levels |-> levels, type |-> type, dims |-> dims,
     class |-> class, member |-> member, id |-> id, nested |-> nested]

Containers(levels) == Cardinality({k \in DOMAIN levels : IsContainer(levels[k].type)})
Vector(level)      == Types[level.type].kind = "vector" /\ ~level.pointer
OfObjects(level)   == Vector(level) /\ ElementClass(level.type) # NoClass
OfNumbers(level)   == Vector(level) /\ IsNumber(Types[level.type].of)
InPlace(levels)    == \A k \in DOMAIN levels : ~levels[k].pointer

\* RootSelectedElement: the member itself, or the base that has it.
RootSelectedElement(name) ==
    LET E == Streamers[Root]
        bases == {k \in DOMAIN E : E[k].base /\ FindStreamerField(E[k].type, name, {}) # NoField}
    IN IF Named(E, name) > 0 THEN Named(E, name) ELSE IF bases = {} THEN 0 ELSE LeastOf(bases)

\* ConfigureRootProjection: ROOT reads an unsplit event up to the member.
RootProjection(fields, levels) ==
    LET id == RootSelectedElement(fields[1])
    IN IF levels[1].pointer \/ ~IsNumber(Last(levels).type) \/ id = 0 THEN Rejected
       ELSE Plan("root", levels, Last(levels).type, <<>>, Root, Streamers[Root][id].name, id, "")

IsLeafBranch(branch, levels) ==
    branch = "leaf" /\ IsNumber(Last(levels).type) /\ ~Last(levels).pointer /\ Containers(levels) <= 1

IsCollectionBranch(branch, fields, levels) ==
    /\ branch = "plain" /\ Len(levels) = 2 /\ fields[2] = "value"
    /\ OfNumbers(levels[1]) /\ ~levels[2].pointer

IsInlineObjectBranch(branch, levels) ==
    /\ branch = "plain" /\ Len(levels) >= 2
    /\ Types[levels[1].type].kind = "class" /\ InPlace(levels) /\ IsNumber(Last(levels).type)

\* A vector of numbers in the objects of a vector.
IsNestedVector(fields, levels) ==
    Len(levels) = 3 /\ fields[3] = "value" /\ OfNumbers(levels[2]) /\ ~levels[3].pointer

\* ConfigureNestedFixedProjection: an array of numbers in the objects of a vector in
\* the objects of a vector.
IsNestedFixed(levels) ==
    /\ Len(levels) = 3 /\ OfObjects(levels[2])
    /\ IsNumber(levels[3].type) /\ levels[3].dims # <<>> /\ ~levels[3].pointer
    /\ Named(Streamers[Types[levels[2].type].of], levels[3].name) > 0

\* ConfigureSerializedDeepProjection: ROOT reads the objects up to the member.
IsDeep(levels, at) ==
    /\ at > 0
    /\ IsNumber(Last(levels).type) /\ ~Last(levels).pointer /\ ~levels[2].pointer
    /\ Len(levels) > 2 => ~IsNumber(levels[2].type)

\* A number, or an array of them, in the objects of a vector.
IsFixedMember(levels, E, at) == Len(levels) = 2 /\ at > 0 /\ PrefixIsFixed(E, at)

\* The plan of a member, by its place in the class of the vector's objects.
ObjectsPlan(fields, levels, class, at) ==
    LET E    == Streamers[class]
        last == Last(levels)
        Of(kind, nested) == Plan(kind, levels, last.type, last.dims, class, levels[2].name, at, nested)
    IN IF IsNestedVector(fields, levels)
       THEN IF at = 0 \/ E[at].dims # <<>> THEN Rejected ELSE Of("nested", "")
       ELSE IF at > 0 /\ IsNestedFixed(levels) /\ E[at].dims = <<>>
       THEN Of("nested_fixed", Types[levels[2].type].of)
       ELSE IF Len(levels) = 2 /\ (~IsNumber(last.type) \/ last.pointer) THEN Rejected
       ELSE IF IsFixedMember(levels, E, at) THEN Of("fixed", "")
       ELSE IF IsDeep(levels, at) THEN Of("deep", "") ELSE Rejected

\* A branch of its own of a member of the event: its place is the one that the branch's
\* version has, and an object in place must have stayed one of its class.
BranchPlan(levels, E) ==
    LET id == Named(E, levels[1].name)
    IN IF id > 0 /\ (~IsContainer(levels[1].type) => E[id].type = levels[1].type /\ ~E[id].pointer)
       THEN Plan("root", levels, Last(levels).type, <<>>, Root, levels[1].name, id, "") ELSE Rejected

PlanOf(branch, fields, levels, version) ==
    LET last  == Last(levels)
        class == Types[levels[1].type].of
    IN IF levels = <<>> THEN Rejected
       ELSE IF branch = "top" THEN RootProjection(fields, levels)
       ELSE IF IsLeafBranch(branch, levels) THEN Plan("leaf", levels, last.type, last.dims, "", "", 0, "")
       ELSE IF IsCollectionBranch(branch, fields, levels) \/ IsInlineObjectBranch(branch, levels)
       THEN BranchPlan(levels, OnFile[Root][version])
       ELSE IF branch # "plain" \/ Len(levels) < 2 \/ ~OfObjects(levels[1]) THEN Rejected
       ELSE ObjectsPlan(fields, levels, class, Named(Streamers[class], levels[2].name))

BuildSerializedReadPlan(branch, fields, version) == PlanOf(branch, fields, Resolve(fields), version)

-----------------------------------------------------------------------------
(* Baskets.                                                                *)

NoBasket == [held |-> FALSE, number |-> 0, first |-> 0, end |-> 0]

Entries(f) == Concat(f.baskets)
FirstEntry(f, b) == SumTo([k \in DOMAIN f.baskets |-> Len(f.baskets[k])], b - 1)

\* ResolveSerializedBasket: the last basket that does not start after the entry.
ResolveBasket(f, e) ==
    LET b == CHOOSE b \in DOMAIN f.baskets :
                /\ FirstEntry(f, b) <= e
                /\ \A k \in b + 1..Len(f.baskets) : FirstEntry(f, k) > e
    IN [held |-> TRUE, number |-> b, first |-> FirstEntry(f, b), end |-> FirstEntry(f, b + 1)]

Hit(k, e) == k.held /\ k.first <= e /\ e < k.end

\* mutant: the basket is kept when another one could not be loaded
LoadBasketOrKeep(f, k, e, readable) == IF Hit(k, e) \/ ~readable THEN k ELSE ResolveBasket(f, e)

\* SerializedBasketCache::LoadBasket, of a TBranch whose baskets are dropped first.
LoadBasket(f, k, e, readable) ==
    IF Hit(k, e) THEN k
    ELSE IF readable THEN ResolveBasket(f, e) ELSE [k EXCEPT !.held = FALSE]

\* SliceSerializedBasket: up to the next entry's offset, or to the end of the last one.
Slice(f, k, held, e) ==
    LET buffer == f.buffers[k.number]
        local  == e - k.first + 1
        end    == IF local < Len(buffer.offsets) THEN buffer.offsets[local + 1] ELSE buffer.last
    IN IF held # k.number THEN <<>> ELSE SubSeq(buffer.cells, buffer.offsets[local], end - 1)

-----------------------------------------------------------------------------
(* Decoders.                                                               *)

At(bytes, p) == IF p \in DOMAIN bytes THEN bytes[p] ELSE Outside

\* DecodePrimitive
Read(bytes, p, type) ==
    LET cells == [c \in 1..Types[type].width |-> At(bytes, p + c - 1)]
    IN IF \E c \in DOMAIN cells : cells[c] = Outside THEN Outside
       ELSE IF cells = Cells(type, cells[1]) THEN cells[1] ELSE Garbage

\* CheckedByteCursor::ReadBE32, as a signed number.
Read32(bytes, p) == IF At(bytes, p) < 0 THEN -1 ELSE (At(bytes, p) * 65536) + (At(bytes, p + 1) % 65536)

HasByteCount(bytes, p) == At(bytes, p) >= Mask
ByteCount(bytes, p)    == Read32(bytes, p) - Mask * 65536
IsMemberWise(version)  == version >= MemberWise

\* TBufferFile::ReadVersionForMemberWise
VersionAt(bytes, p) ==
    IF At(bytes, p) = 0 THEN [number |-> At(bytes, p + 2), next |-> p + 3]
    ELSE [number |-> At(bytes, p), next |-> p + 1]

NoActions == [version |-> -1, ids |-> 0]
NoInner   == [version |-> -1, layout |-> NoLayout, stride |-> 0]
NoCursor  == [number |-> 0, bytes |-> <<>>, at |-> 0, layout |-> NoLayout, total |-> 0, next |-> 0]

\* Bind
Reader(plan) ==
    [plan |-> plan, active |-> plan # Rejected, version |-> -1, layout |-> NoLayout, ids |-> 0,
     header |-> <<>>, actions |-> NoActions, inner |-> NoInner, cursor |-> NoCursor]

Fail(r)         == [ok |-> FALSE, rows |-> <<>>, reader |-> r]
Accept(r, rows) == [ok |-> TRUE, rows |-> rows, reader |-> r]
AcceptFound(r, found) == IF found.ok THEN Accept(r, found.rows) ELSE Fail(r)

FramedWhole(bytes) == HasByteCount(bytes, 1) /\ ByteCount(bytes, 1) + 2 = Len(bytes)

\* From the last dimension to the first.
RECURSIVE PushArrayCoordinates(_, _)
PushArrayCoordinates(flat, dims) ==
    IF dims = <<>> THEN <<>>
    ELSE Append(PushArrayCoordinates(flat \div Last(dims), Front(dims)), flat % Last(dims))

\* The values flat .. flat + n - 1 of a fixed member whose column starts at p.
FixedRows(bytes, p, layout, flat, n) ==
    [k \in 1..n |->
        LET v == flat + k - 1
        IN [value |-> Read(bytes, p + v * Types[layout.type].width, layout.type),
            at    |-> <<v \div layout.length>> \o PushArrayCoordinates(v % layout.length, layout.dims)]]

\* mutant: the columns before it are not counted
OwnCellsOf(layout, count) == count * layout.length * Types[layout.type].width

\* The cells that a column of count objects needs, the columns before it included.
FixedCellsOf(layout, count) == count * (layout.prefix + layout.length * Types[layout.type].width)

\* mutant: the first entry's version is taken for that of the others
KnownOnce(r, version) == r.version # -1

\* The layout or the member's place that the reader has is the version's.
Known(r, version) == r.version = version

\* PrepareFixedProjectionEntry: the header, and the layout of the objects' version.
LayoutOf(r, version) ==
    IF Known(r, version) THEN r.layout
    ELSE ResolveFixedLayout(r.plan.class, r.plan.member, r.plan, version)

Prepared(r, bytes, version, layout) ==
    IF ~IsMemberWise(At(bytes, 3)) \/ ~FramedWhole(bytes) \/ layout = NoLayout
    THEN [ok |-> FALSE, reader |-> r, count |-> 0, at |-> 0]
    ELSE [ok     |-> Read32(bytes, version.next) >= 0 /\ version.next + 1 <= Len(bytes),
          reader |-> [r EXCEPT !.layout = layout, !.version = version.number],
          count  |-> Read32(bytes, version.next),
          at     |-> version.next + 2]

PrepareFixed(r, bytes) == Prepared(r, bytes, VersionAt(bytes, 4), LayoutOf(r, VersionAt(bytes, 4).number))

\* DecodeSerializedVectorPayload
Payload(p, bytes) ==
    LET l == p.reader.layout
    IN IF /\ p.ok
          /\ p.count * l.length <= MaxValues
          /\ FixedCellsOf(l, p.count) <= Len(bytes) - (p.at - 1)
       THEN Accept(p.reader, FixedRows(bytes, p.at + p.count * l.prefix, l, 0, p.count * l.length))
       ELSE Fail(p.reader)

DecodeFixed(r, bytes) == Payload(PrepareFixed(r, bytes), bytes)

\* SerializedVectorPageCursor::Open; the number of values is not limited.
OpenPayload(p, bytes, number) ==
    LET l == p.reader.layout
    IN IF p.ok /\ FixedCellsOf(l, p.count) <= Len(bytes) - (p.at - 1)
       THEN Accept([p.reader EXCEPT !.cursor = [number |-> number, bytes |-> bytes, layout |-> l,
                       at |-> p.at + p.count * l.prefix, total |-> p.count * l.length, next |-> 0]], <<>>)
       ELSE Fail(p.reader)

OpenCursor(r, bytes, number) == OpenPayload(PrepareFixed(r, bytes), bytes, number)

\* ResolveSerializedVersionedMember: how many members precede the column in a version.
MembersBefore(plan, version) ==
    LET E  == OnFile[plan.class][version]
        at == Named(E, plan.member)
        planned == Streamers[plan.class][plan.id]
    IN IF version = Current[plan.class] THEN plan.id - 1
       ELSE IF /\ version \in DOMAIN OnFile[plan.class] /\ at > 0
               /\ ~E[at].pointer /\ E[at].type = planned.type /\ Len(E[at].dims) = Len(planned.dims)
       THEN at - 1 ELSE -1

\* Where ROOT's actions for n members leave the buffer.
RECURSIVE AfterMembers(_, _, _, _, _)
AfterMembers(bytes, p, E, n, count) ==
    LET start == AfterMembers(bytes, p, E, n - 1, count)
    IN IF n = 0 THEN p
       ELSE IF FixedWidth(E[n]) > 0 THEN start + count * FixedWidth(E[n])
       ELSE start + 2 + At(bytes, start + 1)

\* The vectors of numbers of the objects outer .. count - 1, in a frame that ends with
\* the cell last and has to be used up.
RECURSIVE NestedRows(_, _, _, _, _, _, _)
NestedRows(bytes, p, last, type, outer, count, room) ==
    LET w     == Types[type].width
        n     == Read32(bytes, p)
        rest  == NestedRows(bytes, p + 2 + n * w, last, type, outer + 1, count, room - n)
        Row(j) == [value |-> Read(bytes, p + 2 + (j - 1) * w, type), at |-> <<outer, j - 1>>]
    IN IF outer = count THEN [ok |-> p = last + 1, rows |-> <<>>]
       ELSE IF p + 1 > last \/ n < 0 \/ n > room \/ p + 1 + n * w > last THEN [ok |-> FALSE, rows |-> <<>>]
       ELSE [ok |-> rest.ok, rows |-> [j \in 1..n |-> Row(j)] \o rest.rows]

\* DecodeNestedPrimitiveColumn
NestedColumn(r, bytes, p, count) ==
    LET last  == p + 1 + ByteCount(bytes, p)
        start == IF At(bytes, p + 2) = 0 THEN p + 5 ELSE p + 3
    IN IF /\ p <= Len(bytes) /\ HasByteCount(bytes, p) /\ ByteCount(bytes, p) >= 1
          /\ last <= Len(bytes) /\ start <= last + 1
       THEN AcceptFound(r, NestedRows(bytes, start, last, r.plan.type, 0, count, MaxValues))
       ELSE Fail(r)

\* DecodeNestedMemberWise: for each outer object its columns, of which one is taken.
\* The width of a value is the layout's, its type is the plan's.
RECURSIVE MemberWiseRows(_, _, _, _, _, _, _, _)
MemberWiseRows(bytes, p, last, inner, type, outer, count, room) ==
    LET l    == inner.layout
        w    == Types[l.type].width
        n    == Read32(bytes, p)
        rest == MemberWiseRows(bytes, p + 2 + n * inner.stride, last, inner, type, outer + 1, count, room - n * l.length)
        Row(v) == [value |-> Read(bytes, p + 2 + n * l.prefix + v * w, type),
                   at |-> <<outer, v \div l.length>> \o PushArrayCoordinates(v % l.length, l.dims)]
    IN IF outer = count THEN [ok |-> p = last + 1, rows |-> <<>>]
       ELSE IF p + 1 > last \/ n < 0 \/ n * l.length > room \/ n * inner.stride > last - (p + 1)
       THEN [ok |-> FALSE, rows |-> <<>>]
       ELSE [ok |-> rest.ok, rows |-> [k \in 1..n * l.length |-> Row(k - 1)] \o rest.rows]

\* DecodeSerializedNestedFixedColumn
InnerOf(r, version) ==
    IF r.inner.version = version THEN r.inner
    ELSE [version |-> version,
          layout  |-> ResolveFixedLayout(r.plan.nested, Last(r.plan.levels).name, r.plan, version),
          stride  |-> MemberWiseStride(r.plan.nested, Last(r.plan.levels).name, version)]

InnerColumn(r, bytes, last, inner, next, count) ==
    IF inner.layout = NoLayout \/ inner.stride = 0 THEN Fail(r)
    ELSE AcceptFound([r EXCEPT !.inner = inner],
                     MemberWiseRows(bytes, next, last, inner, r.plan.type, 0, count, MaxValues))

NestedFixedColumn(r, bytes, p, count) ==
    LET last    == p + 1 + ByteCount(bytes, p)
        version == VersionAt(bytes, p + 3)
    IN IF /\ Len(bytes) - (p - 1) >= 3 /\ At(bytes, p + 2) - MemberWise >= 8
          /\ HasByteCount(bytes, p) /\ last <= Len(bytes) /\ p + 2 <= last
       THEN InnerColumn(r, bytes, last, InnerOf(r, version.number), version.next, count)
       ELSE Fail(r)

\* What ROOT's actions and the walk of the object yield (CollectSerializedSelectedSubtree):
\* one value too many is a failure, and so are damaged bytes.
SelectedSubtree(r, e, intact) ==
    LET rows == Stored(r.plan.levels, e)
    IN IF intact /\ Len(rows) <= MaxValues THEN Accept(r, rows) ELSE Fail(r)

\* The member's column, from the cell that follows the count of the outer objects.
OrSubtree(fixed, e, intact) ==
    IF fixed.ok THEN fixed ELSE SelectedSubtree([fixed.reader EXCEPT !.actions = NoActions], e, intact)

Column(r, e, bytes, p, count, intact) ==
    LET n       == IF r.plan.kind = "deep" THEN r.ids + 1 ELSE r.ids
        actions == IF r.actions = NoActions /\ n > 0 THEN [version |-> r.version, ids |-> n] ELSE r.actions
        ready   == [r EXCEPT !.actions = actions]
        start   == IF n = 0 THEN p ELSE AfterMembers(bytes, p, OnFile[r.plan.class][actions.version], actions.ids, count)
    IN IF r.plan.kind = "deep" THEN SelectedSubtree(ready, e, intact)
       ELSE IF r.plan.kind = "nested" THEN NestedColumn(ready, bytes, start, count)
       ELSE OrSubtree(NestedFixedColumn(ready, bytes, start, count), e, intact)

\* DecodeNestedProjectionEntry
DecodeNested(r, e, bytes, intact) ==
    LET header   == <<At(bytes, 3), At(bytes, 4)>>
        observed == [r EXCEPT !.header = IF @ = <<>> THEN header ELSE @]
        version  == VersionAt(bytes, 4)
        ids      == IF Known(r, version.number) THEN r.ids ELSE MembersBefore(r.plan, version.number)
        resolved == [observed EXCEPT !.actions = IF Known(r, version.number) THEN @ ELSE NoActions,
                                     !.version = version.number, !.ids = ids]
        count    == Read32(bytes, version.next)
        payload  == version.next + 2
    IN IF Len(bytes) < 6 \/ ~FramedWhole(bytes) \/ header = <<0, 0>> THEN Fail(r)
       ELSE IF header # observed.header \/ ~IsMemberWise(At(bytes, 3)) \/ ids < 0 THEN Fail(observed)
       ELSE IF count < 0 \/ count > MaxValues THEN Fail(resolved)
       ELSE IF count = 0 THEN IF payload = Len(bytes) + 1 THEN Accept(resolved, <<>>) ELSE Fail(resolved)
       ELSE Column(resolved, e, bytes, payload, count, intact)

\* DecodeRootProjectionEntry: the member must be at the plan's place in the branch's
\* version; all entries of a branch that only ROOT reads have one.
DecodeRoot(r, e, intact) ==
    LET E == OnFile[Root][e.version]
    IN IF r.plan.id \in DOMAIN E /\ E[r.plan.id].name = r.plan.member
       THEN SelectedSubtree(r, e, intact) ELSE Fail(r)

\* DecodeLeafBranchEntry: as many values as the count branch says, whose coordinates
\* are made from their places.
DecodeLeaf(r, e) ==
    LET length  == Product(r.plan.dims)
        objects == IF Containers(r.plan.levels) = 1 THEN Len(e.sizes) ELSE 1
        stored  == Stored(r.plan.levels, e)
        At0(k)  == (IF Containers(r.plan.levels) = 1 THEN <<(k - 1) \div length>> ELSE <<>>)
                   \o PushArrayCoordinates((k - 1) % length, r.plan.dims)
    IN IF objects * length > MaxValues THEN Fail(r)
       ELSE Accept(r, [k \in 1..objects * length |-> [value |-> stored[k].value, at |-> At0(k)]])

\* SerializedBasketReader::Decode of bytes
Decoded(r, e, bytes, intact) ==
    IF r.plan.kind = "leaf" THEN DecodeLeaf(r, e)
    ELSE IF Len(bytes) > MaxCells THEN Fail(r)
    ELSE IF r.plan.kind = "root" THEN DecodeRoot(r, e, intact)
    ELSE IF r.plan.kind = "fixed" THEN DecodeFixed(r, bytes)
    ELSE DecodeNested(r, e, bytes, intact)

-----------------------------------------------------------------------------
(* Reading.                                                                *)

Columns    == DOMAIN file.columns
Total      == Len(Entries(file))
Stream(e)  == Entries(file)[e + 1]
Intact(e)  == file.damage.entry # e
Bytes(e)   == LET k == ResolveBasket(file, e) IN Slice(file, k, k.number, e)

Todo == [state |-> "todo", rows |-> <<>>]
Off  == [state |-> "off", rows |-> <<>>]
Result(state, rows) == [state |-> state, rows |-> rows]

NoDamage == [entry |-> -1, cell |-> 0, by |-> 0]

\* The bytes of an entry of a branch; those that only ROOT reads are a cell.
StreamBelow(scenario, outer, e) ==
    IF scenario.branch = "plain" /\ OfObjects(outer) THEN EntryCells(Types[outer.type].of, e) ELSE <<7>>

StreamOf(scenario, e) == StreamBelow(scenario, Resolve(scenario.columns[1])[1], e)

\* The cells of the entries that follow e others, with the damage done.
Damaged(cells, damage, e) == IF damage.entry = e THEN [cells EXCEPT ![damage.cell] = @ + damage.by] ELSE cells

Written(scenario, damage, basket, e) ==
    [k \in DOMAIN basket |-> Damaged(StreamOf(scenario, basket[k]), damage, e + k - 1)]

\* A basket's buffer is longer than its entries.
Buffer(entries) ==
    LET size == [k \in DOMAIN entries |-> Len(entries[k])]
    IN [cells   |-> Concat(entries) \o <<5, 5>>,
        offsets |-> [k \in DOMAIN entries |-> 1 + SumTo(size, k - 1)],
        last    |-> 1 + SumTo(size, Len(entries))]

DamagesOf(scenario) ==
    LET entries == Concat(scenario.baskets)
    IN {NoDamage} \cup
       IF ~scenario.fragile THEN {}
       ELSE UNION {[entry : {k - 1}, cell : DOMAIN StreamOf(scenario, entries[k]), by : Damages] : k \in DOMAIN entries}

Init ==
    /\ \E scenario \in Scenarios : \E damage \in DamagesOf(scenario) :
        LET Start(b) == SumTo([k \in DOMAIN scenario.baskets |-> Len(scenario.baskets[k])], b - 1)
        IN file = [branch |-> scenario.branch, columns |-> scenario.columns, baskets |-> scenario.baskets,
                   damage |-> damage,
                   buffers |-> [b \in DOMAIN scenario.baskets |->
                                  Buffer(Written(scenario, damage, scenario.baskets[b], Start(b)))]]
    /\ cache = NoBasket /\ loaded = 0
    /\ readers = [c \in Columns |-> Reader(BuildSerializedReadPlan(file.branch, file.columns[c], Stream(0).version))]
    /\ entry = -1
    /\ out = [c \in Columns |-> Off]

\* The scan goes on, perhaps past entries that it does not select, when the entry's
\* rows have been made.
NextEntry ==
    /\ \A c \in Columns : out[c].state \notin {"todo", "paging"}
    /\ \E e \in entry + 1..Total - 1 : entry' = e
    /\ out' = [c \in Columns |-> IF readers[c].active THEN Todo ELSE Off]
    /\ UNCHANGED <<file, cache, loaded, readers>>

\* SerializedBasketCache::EntrySlice: the baskets of the branch are dropped before
\* another one is read, which may fail.
Fetch(readable) ==
    LET k == LoadBasket(file, cache, entry, readable)
    IN /\ cache' = k
       /\ loaded' = IF Hit(cache, entry) THEN loaded ELSE IF readable THEN k.number ELSE 0

\* A reader that fails is given up: ActivateFallback.
GiveUp(c, r, why) ==
    /\ readers' = [readers EXCEPT ![c] = [r EXCEPT !.active = FALSE, !.cursor = NoCursor]]
    /\ out' = [out EXCEPT ![c] = Result(why, <<>>)]

LoadFails(c) ==
    /\ out[c].state = "todo" /\ readers[c].plan.kind # "leaf"
    /\ ~Hit(cache, entry)
    /\ Fetch(FALSE)
    /\ GiveUp(c, readers[c], "failed")
    /\ UNCHANGED <<file, entry>>

\* DecodeLeafBranchEntry: ROOT does not read the branch, or one that counts its objects;
\* a second one that counts is never read.
LeafFails(c) ==
    /\ out[c].state = "todo" /\ readers[c].plan.kind = "leaf"
    /\ GiveUp(c, readers[c], "failed")
    /\ UNCHANGED <<file, cache, loaded, entry>>

\* What a decoder yields is taken as a whole, or its reader is given up.
Take(c, r, state) ==
    IF r.ok
    THEN /\ readers' = [readers EXCEPT ![c] = r.reader]
         /\ out' = [out EXCEPT ![c] = Result(state, r.rows)]
    ELSE GiveUp(c, r.reader, "rejected")

Decode(c) ==
    /\ out[c].state = "todo"
    /\ IF readers[c].plan.kind = "leaf" THEN UNCHANGED <<cache, loaded>> ELSE Fetch(TRUE)
    /\ Take(c, Decoded([readers[c] EXCEPT !.cursor = NoCursor], Stream(entry),
                       IF readers[c].plan.kind = "leaf" THEN <<>> ELSE Slice(file, cache', loaded', entry),
                       Intact(entry)), "accepted")
    /\ UNCHANGED <<file, entry>>

TakePages(c, r, cells) ==
    IF cells > MaxCells THEN GiveUp(c, r.reader, "rejected")
    ELSE Take(c, r, IF r.reader.cursor.total = 0 THEN "accepted" ELSE "paging")

BeginPagedEntry(c) ==
    /\ out[c].state = "todo" /\ readers[c].plan.kind = "fixed"
    /\ Fetch(TRUE)
    /\ LET bytes == Slice(file, cache', loaded', entry)
       IN TakePages(c, OpenCursor([readers[c] EXCEPT !.cursor = NoCursor], bytes, loaded'), Len(bytes))
    /\ UNCHANGED <<file, entry>>

\* ReadPage; the cursor points into the basket that was loaded when it was opened.
ReadPage(c) ==
    LET k     == readers[c].cursor
        n     == IF k.total - k.next < PageRows THEN k.total - k.next ELSE PageRows
        page  == FixedRows(IF loaded = k.number THEN k.bytes ELSE <<>>, k.at, k.layout, k.next, n)
        rows  == out[c].rows \o page
        more  == k.next + n < k.total
    IN /\ out[c].state = "paging"
       /\ readers' = [readers EXCEPT ![c].cursor = IF more THEN [k EXCEPT !.next = k.next + n] ELSE NoCursor]
       /\ out' = [out EXCEPT ![c] = Result(IF more THEN "paging" ELSE "accepted", rows)]
       /\ UNCHANGED <<file, cache, loaded, entry>>

Next == NextEntry \/ \E c \in Columns : Decode(c) \/ LoadFails(c) \/ LeafFails(c) \/ BeginPagedEntry(c) \/ ReadPage(c)

Spec == Init /\ [][Next]_vars

-----------------------------------------------------------------------------
(* Properties.                                                             *)

\* The cache describes the basket that the branch holds, a cursor is open exactly
\* while its entry is paged.
TypeOK ==
    /\ entry \in -1..Total - 1
    /\ cache.held => loaded = cache.number /\ cache = ResolveBasket(file, cache.first)
    /\ \A c \in Columns :
        /\ out[c].state \in {"off", "todo", "paging", "accepted", "rejected", "failed"}
        /\ readers[c].active <=> \/ entry = -1 /\ readers[c].plan # Rejected
                                \/ out[c].state \in {"todo", "paging", "accepted"}
        /\ readers[c].cursor.next < readers[c].cursor.total <=> out[c].state = "paging"

\* A rejected entry is of another version than the dictionary's, too large, or has
\* another header than those before it in the branch.  The version is no reason where
\* the plan was made from the branch's own.
RejectedForAReason(c) ==
    LET plan  == readers[c].plan
        class == IF plan.class = "" THEN Root ELSE plan.class
    IN \/ Stream(entry).version # Current[class] /\ (plan.kind = "root" => file.branch = "top")
       \/ readers[c].header \notin {<<>>, <<At(Bytes(entry), 3), At(Bytes(entry), 4)>>}
       \/ Len(Stored(plan.levels, Stream(entry))) > MaxValues
       \/ Len(Bytes(entry)) > MaxCells

\* "Both must produce the same SQL relation" (docs/root-reading-pipeline.md:542): what
\* is accepted of an entry as it was written are its values and their coordinates, as
\* an object has them, whatever versions the branch holds and whatever was read before;
\* pages are the beginning of them; and no entry is left to the object reader without
\* a reason.
DecodedIsStored ==
    entry >= 0 /\ Intact(entry) =>
        \A c \in Columns :
            LET stored == Stored(readers[c].plan.levels, Stream(entry))
            IN /\ out[c].state = "accepted" => out[c].rows = stored
               /\ out[c].state = "paging"   => IsPrefix(out[c].rows, stored)
               /\ out[c].state = "rejected" => RejectedForAReason(c)

\* Whatever a damaged count, byte count or version says, no value is taken from
\* outside its entry or from a basket that was dropped, and the values of a nested
\* column that is accepted lie where those that were written do: its frame is used up.
DamageIsContained ==
    \A c \in Columns :
        LET rows   == out[c].rows
            stored == Stored(readers[c].plan.levels, Stream(entry))
        IN /\ \A k \in DOMAIN rows : rows[k].value # Outside
           /\ out[c].state = "accepted" /\ readers[c].plan.kind \in {"nested", "nested_fixed"} =>
                [k \in DOMAIN rows |-> rows[k].at] = [k \in DOMAIN stored |-> stored[k].at]
=============================================================================
