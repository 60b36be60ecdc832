---------------------------- MODULE PruneMetadata ----------------------------
(***************************************************************************)
(* The metadata an index keeps of a basket, and what read_root_dataset     *)
(* concludes from it: zonemap clauses, Bloom filters, ranges of entry_id   *)
(* and event_fk, and path predicates.  Pure operators; DatasetScan plans   *)
(* and reads with them.                                                    *)
(*                                                                         *)
(* Abstracted: a value is its rank in DuckDB's order of doubles, which     *)
(* puts NaN last.  The SQL text of a clause is its truth value, and no     *)
(* clause at all is {}.  A filter is a tree, as the sequence of its nodes, *)
(* children first and the root last: [op, consts, args], where args are    *)
(* the places of the children.  "other" is any expression the code does    *)
(* not recognise, and its consts are the values it holds for.              *)
(***************************************************************************)
EXTENDS Integers, Sequences, FiniteSets, FiniteSetsExt, SequencesExt

CONSTANTS
    Largest,      \* the finite values are 1 .. Largest
    MaxWord,      \* std::numeric_limits<uint64_t>::max()
    Hash,         \* [finite values -> Nat], CanonicalDoubleHash
    Mix,          \* [finite values -> Nat], Mix64 of it
    HashLimit,    \* the hashes buffered before a Bloom filter is streamed
    SmallBits,    \* the bits per value of a buffered filter
    StreamBits    \* the bits of a streamed filter

NegInf == 0
PosInf == Largest + 1
NaN    == Largest + 2
Value  == NegInf .. NaN
IsFinite(v) == v \in 1 .. Largest

Comparisons == {"=", "<>", "<", "<=", ">", ">="}

ASSUME PruneAssumption ==
    /\ Largest \in Nat \ {0} /\ MaxWord \in Nat /\ HashLimit \in Nat \ {0}
    /\ SmallBits \in Nat \ {0} /\ StreamBits \in Nat \ {0}
    /\ Hash \in [1 .. Largest -> Nat] /\ Mix \in [1 .. Largest -> Nat]

Node == [op: Comparisons \cup {"between", "in", "and", "or", "other"},
         consts: Seq(Nat), args: Seq(Nat)]
Expression == Seq(Node)
IsTree(e) ==
    /\ e # <<>>
    /\ \A n \in DOMAIN e :
        /\ ToSet(e[n].args) \subseteq 1 .. n - 1
        /\ (e[n].op \in Comparisons => Len(e[n].consts) = 1)
        /\ (e[n].op = "between" => Len(e[n].consts) = 2)
        /\ (e[n].op \in {"and", "or"} => e[n].args # <<>>)

Test(op, a, b) ==
    \/ op = "="  /\ a = b
    \/ op = "<>" /\ a # b
    \/ op = "<"  /\ a < b
    \/ op = "<=" /\ a <= b
    \/ op = ">"  /\ a > b
    \/ op = ">=" /\ a >= b

\* What DuckDB's ExpressionExecutor answers for a row with v in the column, at a
\* node x whose children have the answers H.
HoldsAt(x, H, v) ==
    \/ x.op \in Comparisons /\ Test(x.op, v, x.consts[1])
    \/ x.op = "between" /\ x.consts[1] <= v /\ v <= x.consts[2]
    \/ x.op \in {"in", "other"} /\ v \in ToSet(x.consts)
    \/ x.op = "and" /\ \A a \in ToSet(x.args) : H[a]
    \/ x.op = "or" /\ \E a \in ToSet(x.args) : H[a]

Holds(e, v) == LET H[n \in DOMAIN e] == HoldsAt(e[n], H, v) IN H[Len(e)]

-----------------------------------------------------------------------------
(* Bloom filters.                                                          *)

\* The bits of a value in a filter of n bits: double hashing with an odd step.
BloomBits(v, n, hashes) == {(Hash[v] + i * (2 * Mix[v] + 1)) % n : i \in 0 .. hashes - 1}

\* The filter of a basket: its size and number of hashes follow from the count
\* of finite values, and its header carries them.
Bloom(V) ==
    LET F == {x \in V : IsFinite(x.value)}
        streamed == Cardinality(F) > HashLimit
        n == IF streamed THEN StreamBits ELSE SmallBits * Cardinality(F)
        k == IF streamed THEN 2 ELSE 1
    IN IF F = {} THEN {}
       ELSE {[size |-> n, hashes |-> k, bits |-> UNION {BloomBits(x.value, n, k) : x \in F}]}

MayContain(bloom, v) ==
    \A b \in bloom : IsFinite(v) => BloomBits(v, b.size, b.hashes) \subseteq b.bits

-----------------------------------------------------------------------------
(* The statistics of a basket, and of a file.  Values come with their      *)
(* place: V is a set of records with a field value.                        *)

\* BasketAccumulator::Add of every value: NaN and infinities are only counted.
Stats(V) ==
    LET All == {x.value : x \in V}
        F == {v \in All : IsFinite(v)} IN
    [minmax |-> F # {}, min |-> IF F = {} THEN PosInf ELSE Min(F),
     max |-> IF F = {} THEN NegInf ELSE Max(F),
     nan |-> NaN \in All, posinf |-> PosInf \in All, neginf |-> NegInf \in All,
     bloom |-> Bloom(V)]

\* The row of a file is the merge of its baskets' rows.
FileStats(S) ==
    LET B == {s \in S : s.minmax} IN
    [minmax |-> B # {}, min |-> Min({s.min : s \in B} \cup {PosInf}),
     max |-> Max({s.max : s \in B} \cup {NegInf}), nan |-> \E s \in S : s.nan]

\* The columns event_base + entry_begin .. event_base + entry_end - 1 as a zone.
Span(first, last) == [minmax |-> TRUE, min |-> first, max |-> last]

-----------------------------------------------------------------------------
(* Zonemap clauses and equality constants.                                 *)

\* A constant the metadata cannot hold, and <>, give no clause; a NULL min or
\* max fails every comparison.
ComparisonZonemapClause(op, c, zone, usable) ==
    IF op = "<>" \/ c \notin usable THEN {}
    ELSE {zone.minmax /\ \/ op = "=" /\ zone.min <= c /\ zone.max >= c
                         \/ op \in {"<", "<="} /\ Test(op, zone.min, c)
                         \/ op \in {">", ">="} /\ Test(op, zone.max, c)}

\* Of the clauses C: AND keeps those it has, OR needs one of every child.
AllOf(C) == IF UNION C = {} THEN {} ELSE {FALSE \notin UNION C}
AnyOf(C) == IF {} \in C THEN {} ELSE {TRUE \in UNION C}

ZonemapClauseAt(x, Z, zone, usable) ==
    LET Cmp(op, c) == ComparisonZonemapClause(op, c, zone, usable)
        Children == {Z[a] : a \in ToSet(x.args)}
    IN IF x.op \in Comparisons THEN Cmp(x.op, x.consts[1])
       ELSE IF x.op = "between"
            THEN LET lo == Cmp(">=", x.consts[1])
                     hi == Cmp("<=", x.consts[2])
                 IN IF lo = {} \/ hi = {} THEN {} ELSE AllOf({lo, hi})
       ELSE IF x.op = "in" THEN AnyOf({Cmp("=", c) : c \in ToSet(x.consts)})
       ELSE IF x.op = "and" THEN AllOf(Children)
       ELSE IF x.op = "or" THEN AnyOf(Children)
       ELSE {}

ZonemapClause(e, zone, usable) ==
    LET Z[n \in DOMAIN e] == ZonemapClauseAt(e[n], Z, zone, usable) IN Z[Len(e)]

\* The constants of a filter that is a disjunction of equalities, or {}.
EqualityConstantsAt(x, E) ==
    LET C == {E[a] : a \in ToSet(x.args)}
    IN IF x.op = "=" \/ x.op = "in" THEN {ToSet(x.consts)}
       ELSE IF x.op = "or" /\ C # {} /\ {} \notin C THEN {UNION UNION C}
       ELSE {}

ExtractEqualityConstants(e) ==
    LET E[n \in DOMAIN e] == EqualityConstantsAt(e[n], E) IN E[Len(e)]

\* FilterNeedsBloom, and BloomMayContainFilter of the loaded filter.
BloomMayContainFilter(e, bloom) ==
    \A C \in ExtractEqualityConstants(e) \ {{}} : \E c \in C : MayContain(bloom, c)

\* The clause on file_id: only equalities and IN lists, under AND and OR.
StringClauseAt(x, X, id) ==
    LET Children == {X[a] : a \in ToSet(x.args)}
    IN IF x.op = "=" \/ x.op = "in" THEN {id \in ToSet(x.consts)}
       ELSE IF x.op = "and" THEN AllOf(Children)
       ELSE IF x.op = "or" THEN AnyOf(Children)
       ELSE {}

ExactStringFilterClause(e, id) ==
    LET X[n \in DOMAIN e] == StringClauseAt(e[n], X, id) IN X[Len(e)]

-----------------------------------------------------------------------------
(* Ranges of an unsigned column.                                           *)

UnknownRange == [known |-> FALSE, impossible |-> FALSE, lower |-> 0, upper |-> MaxWord]
EmptyRange   == [UnknownRange EXCEPT !.known = TRUE, !.impossible = TRUE]
RangeOf(lo, hi) == [known |-> TRUE, impossible |-> FALSE, lower |-> lo, upper |-> hi]

ComparisonRange(op, c) ==
    IF op = "=" THEN RangeOf(c, c)
    ELSE IF op = "<" THEN IF c = 0 THEN EmptyRange ELSE RangeOf(0, c - 1)
    ELSE IF op = "<=" THEN RangeOf(0, c)
    ELSE IF op = ">" THEN IF c = MaxWord THEN EmptyRange ELSE RangeOf(c + 1, MaxWord)
    ELSE IF op = ">=" THEN RangeOf(c, MaxWord)
    ELSE UnknownRange

IntersectRanges(l, r) ==
    LET lo == Max({l.lower, r.lower})
        hi == Min({l.upper, r.upper})
    IN IF ~l.known THEN r
       ELSE IF ~r.known THEN l
       ELSE IF l.impossible \/ r.impossible \/ lo > hi THEN EmptyRange
       ELSE RangeOf(lo, hi)

\* The hull of both.
UnionRanges(l, r) ==
    IF ~l.known \/ ~r.known THEN UnknownRange
    ELSE IF l.impossible THEN r
    ELSE IF r.impossible THEN l
    ELSE RangeOf(Min({l.lower, r.lower}), Max({l.upper, r.upper}))

\* AND, OR and IN combine the ranges of their children or constants one by one.
AllRanges(x, R) ==
    LET A[i \in DOMAIN x.args] == IF i = 1 THEN R[x.args[1]] ELSE IntersectRanges(A[i - 1], R[x.args[i]])
    IN A[Len(x.args)]

AnyRange(x, R) ==
    LET A[i \in DOMAIN x.args] == IF i = 1 THEN R[x.args[1]] ELSE UnionRanges(A[i - 1], R[x.args[i]])
    IN A[Len(x.args)]

InRange(x) ==
    LET A[i \in 0 .. Len(x.consts)] ==
          IF i = 0 THEN EmptyRange ELSE UnionRanges(A[i - 1], ComparisonRange("=", x.consts[i]))
    IN A[Len(x.consts)]

RangeAt(x, R) ==
    IF x.op \in Comparisons THEN ComparisonRange(x.op, x.consts[1])
    ELSE IF x.op = "between" THEN IntersectRanges(ComparisonRange(">=", x.consts[1]),
                                                  ComparisonRange("<=", x.consts[2]))
    ELSE IF x.op = "in" THEN InRange(x)
    ELSE IF x.op = "and" THEN AllRanges(x, R)
    ELSE IF x.op = "or" THEN AnyRange(x, R)
    ELSE UnknownRange

ExtractRootUnsignedRange(e) ==
    LET R[n \in DOMAIN e] == RangeAt(e[n], R) IN R[Len(e)]

-----------------------------------------------------------------------------
(* Path predicates: [op, consts, all, wide] on a companion path, wide when *)
(* its type is a 64-bit integer.                                           *)

\* ComparePathPredicateValues knows < and > of C++ doubles only: NaN is equal
\* to everything.
Compare(a, b) ==
    IF a = NaN \/ b = NaN \/ a = b THEN 0 ELSE IF a < b THEN -1 ELSE 1

PathPredicateValueMatches(p, v) ==
    \/ p.op \in Comparisons /\ Test(p.op, Compare(v, p.consts[1]), 0)
    \/ p.op = "between" /\ Compare(v, p.consts[1]) >= 0 /\ Compare(v, p.consts[2]) <= 0
    \/ p.op = "in" /\ \E c \in ToSet(p.consts) : Compare(v, c) = 0

\* An event without a value never matches.
PathPredicateEventMatches(p, V) ==
    /\ V # <<>>
    /\ IF p.all THEN \A v \in ToSet(V) : PathPredicateValueMatches(p, v)
                ELSE \E v \in ToSet(V) : PathPredicateValueMatches(p, v)

\* 64-bit integers are never pruned: their metadata are doubles.
PredicateMetadataMayMatch(p, s) ==
    LET c == p.consts[1]
        EqualityPossible(v) == s.minmax /\ s.min <= v /\ v <= s.max /\ MayContain(s.bloom, v)
    IN \/ p.wide
       \/ p.op = "=" /\ EqualityPossible(c)
       \/ p.op = "<>" /\ (s.nan \/ s.posinf \/ s.neginf \/ ~s.minmax \/ s.min # c \/ s.max # c)
       \/ p.op \in {"<", "<="} /\ (s.neginf \/ (s.minmax /\ Test(p.op, s.min, c)))
       \/ p.op \in {">", ">="} /\ (s.posinf \/ (s.minmax /\ Test(p.op, s.max, c)))
       \/ p.op = "between" /\ s.minmax /\ s.max >= c /\ s.min <= p.consts[2]
       \/ p.op = "in" /\ \E v \in ToSet(p.consts) : EqualityPossible(v)
=============================================================================
