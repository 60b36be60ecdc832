-------------------------- MODULE EntryReaderProofs --------------------------
(***************************************************************************)
(* Theorems about one thread of a direct scan, for every set of columns,   *)
(* page size, set of queries and content of the file: an entry returns all *)
(* its rows once, whatever its pages and fallbacks; the columns of a       *)
(* decoded row are of one element; and entries that are validated return   *)
(* what the object holds.                                                  *)
(***************************************************************************)
EXTENDS EntryReader, NumberLemmas, SequenceTheorems

Row == [Readers -> Value \cup {Null}]

\* Row i of the columns V, and how many rows they make.
RowOf(V, i) == [c \in Readers |-> IF i <= Len(V[c]) THEN V[c][i] ELSE Null]

Longest(V) == CHOOSE n \in {Len(V[c]) : c \in Readers} : \A c \in Readers : n >= Len(V[c])

Columnar(V) == \A c \in Readers : V[c] \in Seq(Value)

LEMMA MinimumType ==
    ASSUME NEW a \in Nat, NEW b \in Nat
    PROVE  /\ Min2(a, b) \in Nat /\ Min2(a, b) <= a /\ Min2(a, b) <= b
           /\ Min2(a, b) = a \/ Min2(a, b) = b
           /\ b <= a => Min2(a, b) = b
           /\ a <= b => Min2(a, b) = a
BY DEF Min2

LEMMA ReadersAre ==
    ASSUME opts \in Options
    PROVE  /\ Readers # {} /\ Readers \subseteq Columns /\ IsFiniteSet(Readers)
           /\ Candidates # {} /\ Candidates \subseteq Columns
           /\ opts.projected # {} => Readers = opts.projected
           /\ opts.projected \subseteq Columns /\ opts.limit \in Nat /\ opts.validate \in Nat
           /\ opts.entries \in Nat /\ opts.container \in BOOLEAN /\ (opts.fixed => opts.container)
           /\ opts.shapes \subseteq Seq(Nat) /\ <<>> \in opts.shapes
<1>1. opts \in OptionSet /\ (opts.fixed => opts.container) /\ <<>> \in opts.shapes
  BY EntryAssumption DEF EntryAssumption
<1>2. /\ opts.projected \subseteq Columns /\ opts.limit \in Nat /\ opts.validate \in Nat
      /\ opts.entries \in Nat /\ opts.container \in BOOLEAN /\ opts.shapes \subseteq Seq(Nat)
  BY <1>1 DEF OptionSet
<1>3. Readers # {} /\ Readers \subseteq Columns /\ Candidates # {} /\ Candidates \subseteq Columns
  BY <1>2, EntryAssumption DEF EntryAssumption, Readers, Candidates
<1>4. IsFiniteSet(Readers)
  BY <1>3, FS_Subset, EntryAssumption DEF EntryAssumption
<1>5. QED BY <1>1, <1>2, <1>3, <1>4 DEF Readers

\* The columns make as many rows as the longest has values.
LEMMA LongestIs ==
    ASSUME opts \in Options, NEW V, Columnar(V)
    PROVE  /\ Longest(V) \in Nat
           /\ \E c \in Readers : Longest(V) = Len(V[c])
           /\ \A c \in Readers : Len(V[c]) \in Nat /\ Len(V[c]) <= Longest(V)
<1> DEFINE f == [c \in Readers |-> Len(V[c])]
<1>1. \A c \in Readers : f[c] \in Nat /\ f[c] = Len(V[c])
  BY DEF Columnar
<1>2. \A c \in Readers : f[c] \in Nat
  BY <1>1
<1> HIDE DEF f
<1>3. PICK c \in Readers : \A d \in Readers : f[d] <= f[c]
  BY <1>2, ReadersAre, FiniteMaximum
<1>4. \E n \in {Len(V[d]) : d \in Readers} : \A d \in Readers : n >= Len(V[d])
  BY <1>1, <1>3
<1>5. Longest(V) \in {Len(V[d]) : d \in Readers} /\ \A d \in Readers : Longest(V) >= Len(V[d])
  BY <1>4 DEF Longest
<1>6. QED BY <1>1, <1>5

LEMMA ZipIs ==
    ASSUME opts \in Options, NEW V, Columnar(V)
    PROVE  /\ Zip(V) = [i \in 1 .. Longest(V) |-> RowOf(V, i)]
           /\ Zip(V) \in Seq(Row) /\ Len(Zip(V)) = Longest(V)
           /\ \A i \in 1 .. Longest(V) : Zip(V)[i] = RowOf(V, i)
           /\ Zip(V) = <<>> <=> Longest(V) = 0
<1>1. Zip(V) = [i \in 1 .. Longest(V) |-> RowOf(V, i)]
  BY DEF Zip, Longest, RowOf
<1>2. Longest(V) \in Nat
  BY LongestIs
<1>3. ASSUME NEW i \in 1 .. Longest(V) PROVE RowOf(V, i) \in Row
  <2>1. \A c \in Readers : Len(V[c]) \in Nat /\ V[c] \in Seq(Value)
    BY LongestIs DEF Columnar
  <2>2. \A c \in Readers : i <= Len(V[c]) => V[c][i] \in Value
    BY <1>2, <2>1
  <2>3. QED BY <2>2 DEF RowOf, Row
<1>4. Zip(V) \in Seq(Row) /\ Len(Zip(V)) = Longest(V)
  BY <1>1, <1>2, <1>3
<1>5. Zip(V) = <<>> <=> Longest(V) = 0
  BY <1>1, <1>2, <1>4
<1>6. QED BY <1>1, <1>4, <1>5

\* Columns with the same index tuples make rows without NULL, of one element each.
RowsAgree(R) ==
    \A i \in DOMAIN R : \A c, d \in Readers :
        R[i][c] # Null /\ R[i][d] # Null /\ R[i][c].index = R[i][d].index

LEMMA AgreeingRows ==
    ASSUME opts \in Options, NEW V, Columnar(V), Agree(Readers, V)
    PROVE  RowsAgree(Zip(V))
<1>1. \A c, d \in Readers :
         /\ DOMAIN V[c] = DOMAIN V[d]
         /\ \A i \in DOMAIN V[c] : V[c][i].index = V[d][i].index
  <2> SUFFICES ASSUME NEW c \in Readers, NEW d \in Readers
               PROVE  /\ DOMAIN V[c] = DOMAIN V[d]
                      /\ \A i \in DOMAIN V[c] : V[c][i].index = V[d][i].index
    OBVIOUS
  <2> DEFINE f == [i \in DOMAIN V[c] |-> V[c][i].index]
             g == [i \in DOMAIN V[d] |-> V[d][i].index]
  <2>1. f = g
    BY DEF Agree, SameShape
  <2>2. DOMAIN f = DOMAIN g /\ \A i \in DOMAIN f : f[i] = g[i]
    BY <2>1
  <2>3. QED BY <2>2
<1>2. \A c, d \in Readers : Len(V[c]) = Len(V[d]) /\ DOMAIN V[c] = 1 .. Len(V[c])
  BY <1>1 DEF Columnar
<1>3. \A c \in Readers : Len(V[c]) = Longest(V)
  BY <1>2, LongestIs
<1>4. ASSUME NEW i \in DOMAIN Zip(V), NEW c \in Readers
      PROVE  /\ Zip(V)[i][c] = V[c][i] /\ Zip(V)[i][c] # Null /\ i \in DOMAIN V[c]
  <2>1. i \in 1 .. Longest(V) /\ Zip(V)[i] = RowOf(V, i) /\ Longest(V) \in Nat
    BY ZipIs, LongestIs
  <2>2. i <= Len(V[c]) /\ i \in DOMAIN V[c]
    BY <1>2, <1>3, <2>1
  <2>3. Zip(V)[i][c] = V[c][i]
    BY <2>1, <2>2 DEF RowOf
  <2>4. V[c][i] \in Value
    BY <2>2 DEF Columnar
  <2>5. QED BY <2>2, <2>3, <2>4, EntryAssumption DEF EntryAssumption
<1>5. QED BY <1>1, <1>4 DEF RowsAgree

-----------------------------------------------------------------------------
(***************************************************************************)
(* Paging: the first b rows of the columns V, and the page that follows.   *)
(***************************************************************************)

Taken(V, b, q, R) ==
    /\ \A c \in Readers : q[c] = Min2(b, Len(V[c]))
    /\ R \in Seq(Row) /\ Len(R) = Min2(b, Longest(V))
    /\ \A i \in 1 .. Len(R) : R[i] = RowOf(V, i)

PageOf(V, q) == [c \in Readers |-> SubSeq(V[c], q[c] + 1, Min2(q[c] + PageSize, Len(V[c])))]

IsPage(P, V, q) == P = PageOf(V, q)

\* The values of a sequence after the first n, up to the m-th.
LEMMA Slice ==
    ASSUME NEW S, NEW s \in Seq(S), NEW n \in Nat, NEW m \in Nat, n <= m, m <= Len(s)
    PROVE  /\ SubSeq(s, n + 1, m) \in Seq(S) /\ Len(SubSeq(s, n + 1, m)) = m - n
           /\ \A i \in 1 .. m - n : SubSeq(s, n + 1, m)[i] = s[n + i]
<1>1. n + 1 \in Int /\ m \in Int /\ \A i \in n + 1 .. m : s[i] \in S
  OBVIOUS
<1>2. /\ SubSeq(s, n + 1, m) \in Seq(S)
      /\ Len(SubSeq(s, n + 1, m)) = IF n + 1 <= m THEN m - (n + 1) + 1 ELSE 0
      /\ \A i \in 1 .. m - (n + 1) + 1 : SubSeq(s, n + 1, m)[i] = s[n + 1 + i - 1]
  BY <1>1, SubSeqProperties
<1>3. Len(SubSeq(s, n + 1, m)) = m - n
  BY <1>2
<1>4. ASSUME NEW i \in 1 .. m - n PROVE SubSeq(s, n + 1, m)[i] = s[n + i]
  <2>1. i \in 1 .. m - (n + 1) + 1 /\ n + 1 + i - 1 = n + i
    OBVIOUS
  <2>2. QED BY <1>2, <2>1
<1>5. QED BY <1>2, <1>3, <1>4

\* The page of a column from which n values are taken.
OnePage(s, n) == SubSeq(s, n + 1, Min2(n + PageSize, Len(s)))

\* What a column has for the page after the first b rows.
PageIs(s, b, n) ==
    /\ OnePage(s, n) \in Seq(Value) /\ Len(OnePage(s, n)) \in Nat
    /\ n + Len(OnePage(s, n)) = Min2(b + PageSize, Len(s))
    /\ \A i \in 1 .. Len(OnePage(s, n)) : OnePage(s, n)[i] = s[b + i]
    /\ (Len(OnePage(s, n)) > 0) <=> (Len(s) > b)
    /\ Len(OnePage(s, n)) > 0 => n = b
    /\ Len(OnePage(s, n)) <= PageSize
    /\ (Len(OnePage(s, n)) = PageSize) \/ (n + Len(OnePage(s, n)) = Len(s))

LEMMA PageOfColumn ==
    \A s \in Seq(Value), b \in Nat, n \in Nat :
        n <= b /\ n <= Len(s) /\ ((n = b) \/ (n = Len(s))) => PageIs(s, b, n)
<1> SUFFICES ASSUME NEW s \in Seq(Value), NEW b \in Nat,
                    NEW n \in Nat, n <= b, n <= Len(s), (n = b) \/ (n = Len(s))
             PROVE  PageIs(s, b, n)
  OBVIOUS
<1>1. PICK l \in Nat, z \in Nat : l = Len(s) /\ z = PageSize /\ z > 0
  BY EntryAssumption DEF EntryAssumption
<1>2. PICK m \in Nat : m = Min2(n + z, l)
  BY DEF Min2
<1>3. n <= l /\ ((n = b) \/ (n = l))
  BY <1>1
<1>4. /\ n <= m /\ m <= l /\ m - n <= z /\ m - n \in Nat
      /\ m = Min2(b + z, l)
      /\ (m > n) <=> (l > b)
      /\ m > n => n = b
      /\ (m - n = z) \/ (m = l)
  BY <1>1, <1>2, <1>3 DEF Min2
<1>5. OnePage(s, n) = SubSeq(s, n + 1, m)
  BY <1>1, <1>2 DEF OnePage
<1>6. /\ SubSeq(s, n + 1, m) \in Seq(Value) /\ Len(SubSeq(s, n + 1, m)) = m - n
      /\ \A i \in 1 .. m - n : SubSeq(s, n + 1, m)[i] = s[n + i]
  <2>1. n <= m /\ m <= Len(s)
    BY <1>1, <1>4
  <2>2. QED BY <2>1, Slice
<1>7. PICK a \in Nat : a = m - n
  BY <1>4
<1>8. Len(OnePage(s, n)) = a /\ OnePage(s, n) \in Seq(Value)
      /\ \A i \in 1 .. a : OnePage(s, n)[i] = s[n + i]
  BY <1>5, <1>6, <1>7
<1>9. n + a = m /\ ((a > 0) <=> (m > n)) /\ a <= z /\ (a = z \/ n + a = l) /\ (a > 0 => n = b)
  BY <1>1, <1>4, <1>7
<1>10. \A i \in 1 .. a : OnePage(s, n)[i] = s[b + i]
  <2>1. CASE a > 0
    BY <1>8, <1>9, <2>1
  <2>2. CASE ~ (a > 0)
    BY <2>2
  <2>3. QED BY <2>1, <2>2
<1>11. QED BY <1>1, <1>4, <1>8, <1>9, <1>10 DEF PageIs

\* A page has the rows that follow; one without a value ends the entry.
LEMMA NextPage ==
    ASSUME opts \in Options, NEW V, Columnar(V), NEW b \in Nat, NEW q, NEW R, Taken(V, b, q, R),
           NEW P, IsPage(P, V, q)
    PROVE  /\ Columnar(P)
           /\ (\A c \in Readers : P[c] = <<>>) => R = Zip(V)
           /\ (\E c \in Readers : P[c] # <<>>) =>
                 Taken(V, b + PageSize, [c \in Readers |-> q[c] + Len(P[c])], R \o Zip(P))
           /\ \A c \in Readers : q[c] \in Nat /\ Len(P[c]) \in Nat /\ q[c] + Len(P[c]) \in Nat
           /\ \A c \in Readers : (Len(P[c]) = PageSize) \/ (q[c] + Len(P[c]) = Len(V[c]))
<1> DEFINE W == Longest(V)
<1>0. PageSize \in Nat /\ PageSize > 0
  BY EntryAssumption DEF EntryAssumption
<1>1. ASSUME NEW c \in Readers
      PROVE  /\ P[c] \in Seq(Value) /\ Len(P[c]) \in Nat /\ q[c] \in Nat
             /\ q[c] + Len(P[c]) = Min2(b + PageSize, Len(V[c]))
             /\ \A i \in 1 .. Len(P[c]) : P[c][i] = V[c][b + i]
             /\ (Len(P[c]) > 0) <=> (Len(V[c]) > b)
             /\ Len(P[c]) > 0 => q[c] = b
             /\ Len(P[c]) <= PageSize
             /\ (Len(P[c]) = PageSize) \/ (q[c] + Len(P[c]) = Len(V[c]))
  <2>1. V[c] \in Seq(Value) /\ q[c] = Min2(b, Len(V[c]))
    BY DEF Columnar, Taken
  <2>2. q[c] \in Nat /\ q[c] <= b /\ q[c] <= Len(V[c]) /\ ((q[c] = b) \/ (q[c] = Len(V[c])))
    BY <2>1 DEF Min2
  <2>3. P[c] = OnePage(V[c], q[c])
    BY DEF IsPage, PageOf, OnePage
  <2>4. PageIs(V[c], b, q[c])
    BY <2>1, <2>2, PageOfColumn
  <2>5. QED BY <2>2, <2>3, <2>4 DEF PageIs
<1>2. Columnar(P)
  BY <1>1 DEF Columnar
<1>3. /\ W \in Nat /\ (\E c \in Readers : W = Len(V[c]))
      /\ \A c \in Readers : Len(V[c]) \in Nat /\ Len(V[c]) <= W
  BY LongestIs
<1>4. /\ Longest(P) \in Nat /\ (\E c \in Readers : Longest(P) = Len(P[c]))
      /\ \A c \in Readers : Len(P[c]) <= Longest(P)
  BY <1>2, LongestIs
<1>5. R \in Seq(Row) /\ Len(R) = Min2(b, W) /\ \A i \in 1 .. Len(R) : R[i] = RowOf(V, i)
  BY DEF Taken
<1>6. ASSUME \A c \in Readers : P[c] = <<>> PROVE R = Zip(V)
  <2>1. \A c \in Readers : Len(P[c]) = 0
    BY <1>6
  <2>2. \A c \in Readers : Len(V[c]) <= b
    BY <1>1, <1>3, <2>1
  <2>3. W <= b
    BY <1>3, <2>2
  <2>4. Len(R) = W
    BY <1>3, <1>5, <2>3, MinimumType
  <2>5. Zip(V) \in Seq(Row) /\ Len(Zip(V)) = W /\ \A i \in 1 .. W : Zip(V)[i] = RowOf(V, i)
    BY ZipIs
  <2> HIDE DEF W
  <2>6. QED BY <1>5, <2>4, <2>5, SeqEqual
<1>7. ASSUME NEW d \in Readers, P[d] # <<>>
      PROVE  Taken(V, b + PageSize, [c \in Readers |-> q[c] + Len(P[c])], R \o Zip(P))
  <2>1. Len(P[d]) > 0
    BY <1>1, <1>7
  <2>2. Len(V[d]) > b /\ W > b
    BY <1>1, <1>3, <2>1
  <2>3. Len(R) = b
    BY <1>3, <1>5, <2>2 DEF Min2
  <2>4. b + Longest(P) = Min2(b + PageSize, W)
    <3>1. PICK c \in Readers : W = Len(V[c])
      BY <1>3
    <3>2. Len(P[c]) > 0 /\ q[c] = b
      BY <1>1, <1>3, <2>2, <3>1
    <3>3. b + Len(P[c]) = Min2(b + PageSize, W)
      BY <1>1, <3>1, <3>2
    <3>4. ASSUME NEW e \in Readers PROVE Len(P[e]) <= Len(P[c])
      <4>1. CASE Len(P[e]) = 0
        BY <3>2, <4>1, <1>1
      <4>2. CASE Len(P[e]) > 0
        <5>1. q[e] = b /\ b + Len(P[e]) = Min2(b + PageSize, Len(V[e]))
          BY <1>1, <4>2
        <5>2. Len(V[e]) \in Nat /\ W \in Nat /\ Len(V[e]) <= W /\ b + PageSize \in Nat
          BY <1>0, <1>3
        <5>3. Min2(b + PageSize, Len(V[e])) <= Min2(b + PageSize, W)
          BY <5>2 DEF Min2
        <5>4. QED BY <1>1, <3>3, <5>1, <5>3
      <4>3. QED BY <1>1, <4>1, <4>2
    <3>5. Longest(P) = Len(P[c])
      BY <1>1, <1>4, <3>4
    <3>6. QED BY <3>3, <3>5
  <2>5. Zip(P) \in Seq(Row) /\ Len(Zip(P)) = Longest(P) /\ \A i \in 1 .. Longest(P) : Zip(P)[i] = RowOf(P, i)
    BY <1>2, ZipIs
  <2>6. ASSUME NEW i \in 1 .. Longest(P) PROVE RowOf(P, i) = RowOf(V, b + i)
    <3>1. ASSUME NEW c \in Readers
          PROVE  /\ i <= Len(P[c]) <=> b + i <= Len(V[c])
                 /\ i <= Len(P[c]) => P[c][i] = V[c][b + i]
      <4>1. i \in Nat /\ i > 0 /\ b + i <= b + PageSize
        BY <1>0, <1>1, <1>4
      <4>2. CASE Len(P[c]) = 0
        BY <1>1, <1>3, <4>1, <4>2
      <4>3. CASE Len(P[c]) > 0
        <5>1. b + Len(P[c]) = Min2(b + PageSize, Len(V[c]))
          BY <1>1, <4>3
        <5>2. (b + i <= Len(V[c])) <=> (b + i <= b + Len(P[c]))
          BY <1>0, <1>3, <4>1, <5>1 DEF Min2
        <5>3. QED BY <1>1, <4>1, <5>2
      <4>4. QED BY <1>1, <4>2, <4>3
    <3>2. QED BY <3>1 DEF RowOf
  <2> HIDE DEF W
  <2>7. R \o Zip(P) \in Seq(Row) /\ Len(R \o Zip(P)) = b + Longest(P)
    BY <1>4, <1>5, <2>3, <2>5
  <2>8. ASSUME NEW i \in 1 .. Len(R \o Zip(P)) PROVE (R \o Zip(P))[i] = RowOf(V, i)
    <3>1. CASE i <= b
      <4>1. (R \o Zip(P))[i] = R[i]
        BY <1>4, <1>5, <2>3, <2>5, <2>7, <3>1
      <4>2. QED BY <1>5, <2>3, <2>7, <3>1, <4>1
    <3>2. CASE i > b
      <4>1. i - b \in 1 .. Longest(P)
        BY <1>4, <2>7, <3>2
      <4>2. (R \o Zip(P))[i] = Zip(P)[i - b]
        BY <1>4, <1>5, <2>3, <2>5, <2>7, <3>2
      <4>3. b + (i - b) = i
        BY <2>7, <1>4
      <4>4. QED BY <2>5, <2>6, <4>1, <4>2, <4>3
    <3>3. QED BY <2>7, <1>4, <3>1, <3>2
  <2>9. \A c \in Readers : [e \in Readers |-> q[e] + Len(P[e])][c] = Min2(b + PageSize, Len(V[c]))
    BY <1>1
  <2>10. QED BY <2>4, <2>7, <2>8, <2>9 DEF Taken, W
<1>8. \A c \in Readers : q[c] \in Nat /\ Len(P[c]) \in Nat /\ q[c] + Len(P[c]) \in Nat
  BY <1>1
<1>9. \A c \in Readers : (Len(P[c]) = PageSize) \/ (q[c] + Len(P[c]) = Len(V[c]))
  BY <1>1
<1>10. QED BY <1>2, <1>6, <1>7, <1>8, <1>9

-----------------------------------------------------------------------------
(***************************************************************************)
(* The inductive invariant.  An entry under way has either nothing         *)
(* decoded, or a page of all its rows, or cursors that have together       *)
(* produced its first b rows and know which column has more.               *)
(***************************************************************************)

ColumnsOf(s) == [c \in Readers |-> Values(c, s)]

AllDecodable == \A c \in Readers : cell[c].serial # Fails

\* All the rows of the entry, from one of the two sources.
AllRows(R) ==
    /\ R = Expected("object") \/ (AllDecodable /\ R = Expected("serialized"))
    /\ checked => R = Expected("object")

\* What was decoded from bytes is of one element a row.
OneSource(R) == sources \subseteq {"object"} \/ (sources = {"serialized"} /\ RowsAgree(R))

NothingRead == rows = <<>> /\ sources = {}

NothingOpen == route = "none" /\ pos = Start /\ open = {} /\ escaped = FALSE

\* Cursors on a serialized branch are only opened past its validation.
RouteIsLegal ==
    /\ route \in {"serialized", "lockstep"} =>
         AllDecodable /\ ~ checked /\ opts.projected # {} /\ opts.container
    /\ route = "serialized" => \E c \in Readers : Readers = {c}
    /\ route = "object" => (opts.projected = {} => opts.container)
    /\ route = "lockstep" /\ ~ escaped => NothingRead

\* The cursors have produced the rows R, a prefix of all.
CursorsHave(R) ==
    /\ route # "none" /\ RouteIsLegal
    /\ \E b \in Nat : Taken(ColumnsOf(Source(route)), b, pos, R)
    /\ \A c \in Columns \ Readers : pos[c] = 0
    /\ \A c \in Readers : pos[c] < Len(Values(c, Source(route))) => c \in open
    /\ sources \subseteq {Source(route)}
    /\ route # "object" => RowsAgree(R)

ValidationKnown == checked => \A c \in active : validation[c] > 0

\* The page is all the entry has, or the next of its cursors.
PageIsWhole == NothingOpen /\ rows = <<>> /\ AllRows(page) /\ OneSource(page)
PageIsNext  == page # <<>> /\ CursorsHave(rows \o page) /\ (route = "lockstep" => escaped)

EntryInv ==
    /\ TypeOK
    /\ pc # "emit" => page = <<>>
    /\ OneSource(rows)
    /\ pc = "open" => entry = 0 /\ NothingRead
    /\ pc = "next" /\ entry > 0 => AllRows(rows)
    /\ pc \in {"open", "next", "start", "whole"} => NothingOpen
    /\ pc \in {"start", "whole"} => NothingRead /\ ValidationKnown
    /\ pc = "page" => CursorsHave(rows \o page)
    /\ pc = "emit" => PageIsWhole \/ PageIsNext
    /\ pc = "failed" => Strict \/ escaped

LEMMA SameQuery ==
    ASSUME opts' = opts
    PROVE  /\ Readers' = Readers /\ Candidates' = Candidates /\ Cells' = Cells
           /\ Row' = Row /\ NullRow' = NullRow
BY DEF Readers, Candidates, Cells, Cell, Row, NullRow

\* A step within an entry leaves its values where they are.
LEMMA SameEntry ==
    ASSUME opts' = opts, cell' = cell
    PROVE  /\ Expected("object")' = Expected("object")
           /\ Expected("serialized")' = Expected("serialized")
           /\ ColumnsOf("object")' = ColumnsOf("object")
           /\ ColumnsOf("serialized")' = ColumnsOf("serialized")
           /\ AllDecodable' <=> AllDecodable
BY DEF Expected, ColumnsOf, AllDecodable, Readers, Values, Zip, NullRow

LEMMA MappedIs ==
    ASSUME NEW s \in Seq(Nat), NEW r \in BOOLEAN
    PROVE  [i \in DOMAIN s |-> [index |-> s[i], right |-> r]] \in Seq(Value)
<1>1. \A i \in 1 .. Len(s) : [index |-> s[i], right |-> r] \in Value
  BY DEF Value
<1>2. Len(s) \in Nat /\ DOMAIN s = 1 .. Len(s)
  OBVIOUS
<1> DEFINE f == [i \in 1 .. Len(s) |-> [index |-> s[i], right |-> r]]
<1>3. f \in [1 .. Len(s) -> Value]
  BY <1>1
<1>4. f \in Seq(Value)
  BY <1>2, <1>3
<1>5. QED BY <1>2, <1>4

LEMMA ColumnsAre ==
    ASSUME TypeOK
    PROVE  /\ Columnar(ColumnsOf("object")) /\ Columnar(ColumnsOf("serialized"))
           /\ opts \in Options
           /\ \A c \in Readers \cup Candidates :
                 /\ cell[c].object \in Seq(Nat) /\ (cell[c].serial = Fails \/ cell[c].serial \in Seq(Nat))
                 /\ cell[c].right \in BOOLEAN
<1>1. opts \in Options /\ cell \in Cells /\ opts.shapes \subseteq Seq(Nat)
  BY ReadersAre DEF TypeOK
<1>2. \A c \in Readers \cup Candidates : cell[c] \in Cell
  BY <1>1 DEF Cells
<1>3. ASSUME NEW c \in Readers \cup Candidates
      PROVE  /\ cell[c].object \in Seq(Nat) /\ (cell[c].serial = Fails \/ cell[c].serial \in Seq(Nat))
             /\ cell[c].right \in BOOLEAN
  BY <1>1, <1>2 DEF Cell
<1>4. ASSUME NEW c \in Readers PROVE Values(c, "object") \in Seq(Value)
  BY <1>3, MappedIs DEF Values
<1>5. ASSUME NEW c \in Readers PROVE Values(c, "serialized") \in Seq(Value)
  <2>1. CASE cell[c].serial = Fails
    BY <2>1 DEF Values
  <2>2. CASE cell[c].serial # Fails
    <3>1. cell[c].serial \in Seq(Nat) /\ cell[c].right \in BOOLEAN
      BY <1>3, <2>2
    <3>2. QED BY <2>2, <3>1, MappedIs DEF Values
  <2>3. QED BY <2>1, <2>2
<1>6. QED BY <1>1, <1>3, <1>4, <1>5 DEF Columnar, ColumnsOf

LEMMA RowsAgreeTogether ==
    ASSUME opts \in Options, NEW R \in Seq(Row), NEW Q \in Seq(Row)
    PROVE  RowsAgree(R \o Q) <=> RowsAgree(R) /\ RowsAgree(Q)
<1>1. /\ R \o Q \in Seq(Row) /\ Len(R \o Q) = Len(R) + Len(Q) /\ Len(R) \in Nat /\ Len(Q) \in Nat
      /\ \A i \in 1 .. Len(R) : (R \o Q)[i] = R[i]
      /\ \A i \in 1 .. Len(Q) : (R \o Q)[Len(R) + i] = Q[i]
  OBVIOUS
<1>2. DOMAIN R = 1 .. Len(R) /\ DOMAIN Q = 1 .. Len(Q) /\ DOMAIN (R \o Q) = 1 .. Len(R \o Q)
  BY <1>1
<1>3. ASSUME RowsAgree(R \o Q) PROVE RowsAgree(R)
  <2>1. \A i \in DOMAIN R : i \in DOMAIN (R \o Q) /\ (R \o Q)[i] = R[i]
    BY <1>1, <1>2
  <2>2. QED BY <1>3, <2>1 DEF RowsAgree
<1>4. ASSUME RowsAgree(R \o Q) PROVE RowsAgree(Q)
  <2>1. \A i \in DOMAIN Q : Len(R) + i \in DOMAIN (R \o Q) /\ (R \o Q)[Len(R) + i] = Q[i]
    BY <1>1, <1>2
  <2>2. ASSUME NEW i \in DOMAIN Q, NEW c \in Readers, NEW d \in Readers
        PROVE  Q[i][c] # Null /\ Q[i][d] # Null /\ Q[i][c].index = Q[i][d].index
    <3>1. PICK k \in DOMAIN (R \o Q) : (R \o Q)[k] = Q[i]
      BY <2>1
    <3>2. QED BY <1>4, <3>1 DEF RowsAgree
  <2>3. QED BY <2>2 DEF RowsAgree
<1>5. ASSUME RowsAgree(R), RowsAgree(Q) PROVE RowsAgree(R \o Q)
  <2>1. ASSUME NEW i \in DOMAIN (R \o Q)
        PROVE  \/ i \in DOMAIN R /\ (R \o Q)[i] = R[i]
               \/ i - Len(R) \in DOMAIN Q /\ (R \o Q)[i] = Q[i - Len(R)]
    <3>1. CASE i <= Len(R)
      BY <1>1, <1>2, <3>1
    <3>2. CASE i > Len(R)
      <4>1. i - Len(R) \in 1 .. Len(Q) /\ Len(R) + (i - Len(R)) = i
        BY <1>1, <1>2, <3>2
      <4>2. QED BY <1>1, <1>2, <4>1
    <3>3. QED BY <1>1, <1>2, <3>1, <3>2
  <2>2. QED BY <1>5, <2>1 DEF RowsAgree
<1>6. QED BY <1>3, <1>4, <1>5

\* Cursors that have just been begun have produced nothing.
LEMMA NothingTaken ==
    ASSUME opts \in Options, NEW V, Columnar(V)
    PROVE  Taken(V, 0, Start, <<>>)
<1>1. \A c \in Readers : Start[c] = 0 /\ Len(V[c]) \in Nat
  BY ReadersAre, LongestIs DEF Start
<1>2. \A c \in Readers : Start[c] = Min2(0, Len(V[c]))
  BY <1>1 DEF Min2
<1>3. Min2(0, Longest(V)) = 0
  BY LongestIs DEF Min2
<1>4. <<>> \in Seq(Row) /\ Len(<<>>) = 0
  OBVIOUS
<1>5. QED BY <1>2, <1>3, <1>4 DEF Taken

\* Cursors of which none has more have produced all rows.
LEMMA AllTaken ==
    ASSUME opts \in Options, NEW V, Columnar(V), NEW b \in Nat, NEW q, NEW R, Taken(V, b, q, R),
           \A c \in Readers : ~ (q[c] < Len(V[c]))
    PROVE  R = Zip(V)
<1>1. PICK d \in Readers : Longest(V) = Len(V[d])
  BY LongestIs
<1>2. q[d] = Min2(b, Len(V[d])) /\ ~ (q[d] < Len(V[d])) /\ Longest(V) \in Nat
  BY LongestIs DEF Taken
<1>3. Longest(V) <= b
  BY <1>1, <1>2 DEF Min2
<1>4. R \in Seq(Row) /\ Len(R) = Longest(V) /\ \A i \in 1 .. Len(R) : R[i] = RowOf(V, i)
  <2>1. Min2(b, Longest(V)) = Longest(V)
    BY <1>2, <1>3 DEF Min2
  <2>2. QED BY <2>1 DEF Taken
<1>5. /\ Zip(V) \in Seq(Row) /\ Len(Zip(V)) = Longest(V)
      /\ \A i \in 1 .. Longest(V) : Zip(V)[i] = RowOf(V, i)
  BY ZipIs
<1>6. QED BY <1>4, <1>5, SeqEqual

\* What they produced first is nothing only when they have nothing.
LEMMA NothingYet ==
    ASSUME opts \in Options, NEW V, Columnar(V), NEW b \in Nat, NEW q, NEW R, Taken(V, b, q, R),
           R = Zip(V)
    PROVE  R = <<>> <=> \A c \in Readers : q[c] = 0
<1>1. Longest(V) \in Nat /\ Len(R) = Longest(V) /\ (R = <<>> <=> Longest(V) = 0)
  BY LongestIs, ZipIs
<1>2. Len(R) = Min2(b, Longest(V)) /\ \A c \in Readers : q[c] = Min2(b, Len(V[c]))
  BY DEF Taken
<1>3. Longest(V) <= b
  BY <1>1, <1>2 DEF Min2
<1>4. \A c \in Readers : Len(V[c]) \in Nat /\ Len(V[c]) <= Longest(V)
  BY LongestIs
<1>5. \A c \in Readers : q[c] = Len(V[c])
  <2> TAKE c \in Readers
  <2>1. q[c] = Min2(b, Len(V[c])) /\ Len(V[c]) \in Nat /\ Len(V[c]) <= b
    BY <1>1, <1>2, <1>3, <1>4
  <2>2. QED BY <2>1 DEF Min2
<1>6. \E c \in Readers : Longest(V) = Len(V[c])
  BY LongestIs
<1>7. QED BY <1>1, <1>4, <1>5, <1>6

-----------------------------------------------------------------------------
(***************************************************************************)
(* The invariant holds at first.                                           *)
(***************************************************************************)

LEMMA BlankIsLegal ==
    ASSUME opts \in Options
    PROVE  [c \in Readers \cup Candidates |-> Blank] \in Cells
<1>1. Blank \in Cell /\ Blank.serial = Fails /\ Blank.object = <<>> /\ Blank.right = TRUE
  BY ReadersAre DEF Blank, Cell
<1>2. Len(<<>>) <= 1
  OBVIOUS
<1> DEFINE Dense(s)  == s = Fails \/ \A i \in DOMAIN s : s[i] = i
           Scalar(s) == s = Fails \/ Len(s) <= 1
           Legal == {x \in Cell :
                    /\ (opts.fixed => Dense(x.serial))
                    /\ (~opts.container => Scalar(x.object) /\ Scalar(x.serial))
                    /\ (x.serial = Fails => x.right)}
<1>3. Blank \in Legal
  BY <1>1, <1>2
<1>4. Cells = {f \in [Readers \cup Candidates -> Legal] :
                 \A c \in Readers \cap Strings : f[c].serial = Fails}
  BY DEF Cells
<1> HIDE DEF Legal
<1>5. QED BY <1>1, <1>3, <1>4

LEMMA FirstState ==
    ASSUME Init
    PROVE  EntryInv
<1>1. TypeOK
  <2>1. opts \in Options /\ cell \in Cells
    BY BlankIsLegal DEF Init
  <2>2. entry \in 0 .. opts.entries
    BY <2>1, ReadersAre DEF Init
  <2>3. active \subseteq Candidates /\ validation \in [Columns -> Nat] /\ pos \in [Columns -> Nat]
    BY DEF Init, Start
  <2>4. page \in Seq([Readers -> Value \cup {Null}]) /\ rows \in Seq([Readers -> Value \cup {Null}])
    BY DEF Init
  <2>5. /\ pc \in {"open", "next", "start", "whole", "page", "emit", "done", "failed"}
        /\ route \in {"none", "serialized", "lockstep", "object"}
        /\ open \subseteq Columns /\ escaped \in BOOLEAN /\ checked \in BOOLEAN
        /\ sources \subseteq {"serialized", "object"}
    BY DEF Init
  <2>6. QED BY <2>1, <2>2, <2>3, <2>4, <2>5 DEF TypeOK
<1>2. OneSource(rows)
  BY DEF Init, OneSource
<1>3. QED BY <1>1, <1>2 DEF Init, EntryInv, NothingRead, NothingOpen

-----------------------------------------------------------------------------
(***************************************************************************)
(* Every step keeps it.                                                    *)
(***************************************************************************)

LEMMA Framed ==
    ASSUME TypeOK, opts' = opts, cell' = cell, entry' = entry, checked' = checked,
           active' \subseteq Candidates, validation' \in [Columns -> Nat],
           pc' \in {"open", "next", "start", "whole", "page", "emit", "done", "failed"},
           route' \in {"none", "serialized", "lockstep", "object"},
           pos' \in [Columns -> Nat], open' \subseteq Columns, escaped' \in BOOLEAN,
           page' \in Seq(Row), rows' \in Seq(Row), sources' \subseteq {"serialized", "object"}
    PROVE  TypeOK'
BY SameQuery DEF TypeOK, Row

\* The rows returned before the step.
LEMMA RowsKept ==
    ASSUME opts' = opts, rows' = rows, sources' = sources, OneSource(rows)
    PROVE  OneSource(rows)'
BY SameQuery DEF OneSource, RowsAgree

LEMMA FailStep ==
    ASSUME EntryInv, Fail, pc # "emit", Strict \/ escaped
    PROVE  EntryInv'
<1>1. TypeOK'
  BY SameQuery DEF Fail, EntryInv, TypeOK, cursorVars
<1>2. OneSource(rows)'
  BY RowsKept DEF Fail, EntryInv
<1>3. page' = <<>> /\ pc' = "failed"
  BY DEF Fail, EntryInv
<1>4. (Strict \/ escaped)'
  BY DEF Fail, Strict, cursorVars
<1>5. QED BY <1>1, <1>2, <1>3, <1>4 DEF EntryInv

LEMMA OpenStep ==
    ASSUME EntryInv, NEW S \in SUBSET Candidates, OpenFile(S)
    PROVE  EntryInv'
<1>1. /\ pc = "open" /\ pc' = "next" /\ page' = <<>> /\ entry' = 0 /\ NothingOpen /\ NothingRead
      /\ OneSource(rows) /\ TypeOK
  BY DEF EntryInv, OpenFile
<1>2. /\ opts' = opts /\ cell' = cell /\ entry' = entry /\ checked' = checked /\ rows' = rows
      /\ sources' = sources /\ page' = page
      /\ route' = route /\ pos' = pos /\ open' = open /\ escaped' = escaped
  BY DEF OpenFile, cursorVars
<1>3. active' \subseteq Candidates /\ validation' \in [Columns -> Nat]
  BY <1>1, ReadersAre DEF OpenFile, TypeOK
<1>4. TypeOK'
  BY <1>1, <1>2, <1>3, SameQuery DEF TypeOK
<1>5. OneSource(rows)'
  BY <1>1, <1>2, RowsKept
<1>6. NothingOpen'
  BY <1>1, <1>2 DEF NothingOpen, Start
<1>7. QED BY <1>1, <1>2, <1>4, <1>5, <1>6 DEF EntryInv

LEMMA NextStep ==
    ASSUME EntryInv, NextEntry
    PROVE  EntryInv'
<1>1. pc = "next" /\ pc' = "start" /\ page' = <<>> /\ NothingOpen /\ TypeOK /\ entry < opts.entries
  BY DEF EntryInv, NextEntry
<1>2. /\ opts' = opts /\ active' = active /\ validation' = validation /\ page' = page
      /\ route' = route /\ pos' = pos /\ open' = open /\ escaped' = escaped
      /\ rows' = <<>> /\ sources' = {} /\ cell' \in Cells /\ entry' = entry + 1
      /\ checked' = (\A c \in active : validation[c] > 0)
  BY DEF NextEntry, cursorVars
<1>3. entry' \in 0 .. opts.entries
  BY <1>1, <1>2, ReadersAre DEF TypeOK
<1>4. TypeOK'
  BY <1>1, <1>2, <1>3, SameQuery DEF TypeOK
<1>5. OneSource(rows)' /\ NothingRead'
  BY <1>2 DEF OneSource, NothingRead
<1>6. NothingOpen'
  BY <1>1, <1>2 DEF NothingOpen, Start
<1>7. ValidationKnown'
  BY <1>2 DEF ValidationKnown
<1>8. QED BY <1>1, <1>4, <1>5, <1>6, <1>7 DEF EntryInv

LEMMA FinishStep ==
    ASSUME EntryInv, Finish
    PROVE  EntryInv'
<1>1. pc = "next" /\ pc' = "done" /\ page' = <<>> /\ OneSource(rows)
  BY DEF EntryInv, Finish
<1>2. TypeOK'
  BY SameQuery DEF Finish, EntryInv, TypeOK, cursorVars
<1>3. OneSource(rows)'
  BY <1>1, RowsKept DEF Finish
<1>4. QED BY <1>1, <1>2, <1>3 DEF EntryInv

\* The cursors after a step within the entry, from the values they had.
LEMMA CursorsAfter ==
    ASSUME TypeOK, opts' = opts, cell' = cell, NEW s \in {"serialized", "object"},
           Source(route)' = s,
           NEW b \in Nat, NEW q, NEW R, pos' = q, rows' \o page' = R,
           Taken(ColumnsOf(s), b, q, R)
    PROVE  Taken(ColumnsOf(Source(route)), b, pos, rows \o page)'
<1>1. ColumnsOf(Source(route))' = ColumnsOf(s)
  BY SameEntry
<1>2. Readers' = Readers /\ Row' = Row
  BY SameQuery
<1>3. Longest(ColumnsOf(Source(route)))' = Longest(ColumnsOf(s))
  BY <1>1, <1>2 DEF Longest
<1>4. \A i \in Nat : RowOf(ColumnsOf(Source(route)), i)' = RowOf(ColumnsOf(s), i)
  BY <1>1, <1>2 DEF RowOf
<1>5. QED BY <1>1, <1>2, <1>3, <1>4 DEF Taken

\* Cursors are opened where nothing is read of the entry yet.
LEMMA CursorsBegin ==
    ASSUME EntryInv, NEW r \in {"serialized", "lockstep", "object"}, NEW C, Cursors(r, C),
           pc \in {"start", "whole"}, Readers \subseteq C, C \subseteq Columns,
           opts' = opts, cell' = cell, entry' = entry, checked' = checked, rows' = rows,
           sources' = sources, page' = page,
           active' \subseteq Candidates, validation' \in [Columns -> Nat],
           r # "object" => AllDecodable /\ ~ checked /\ opts.projected # {} /\ opts.container,
           r = "serialized" => \E c \in Readers : Readers = {c},
           r = "object" => (opts.projected = {} => opts.container)
    PROVE  EntryInv'
<1>1. TypeOK /\ NothingRead /\ page = <<>> /\ opts \in Options /\ rows = <<>> /\ sources = {}
  BY DEF EntryInv, TypeOK, NothingRead
<1>2. /\ route' = r /\ pos' = Start /\ open' = C /\ escaped' = FALSE /\ pc' = "page"
      /\ page' = <<>> /\ rows' = <<>> /\ sources' = {}
  BY <1>1 DEF Cursors
<1>3. TypeOK'
  <2>1. page' \in Seq(Row) /\ rows' \in Seq(Row)
    BY <1>2
  <2>2. pos' \in [Columns -> Nat]
    BY <1>2 DEF Start
  <2>3. QED BY <1>1, <1>2, <2>1, <2>2, Framed
<1>4. \E b \in Nat : Taken(ColumnsOf(Source(route)), b, pos, rows \o page)'
  <2>1. Source(r) \in {"serialized", "object"} /\ Source(route)' = Source(r)
    BY <1>2 DEF Source
  <2>2. Columnar(ColumnsOf(Source(r)))
    BY <1>1, <2>1, ColumnsAre
  <2>3. Taken(ColumnsOf(Source(r)), 0, Start, <<>>)
    BY <1>1, <2>2, NothingTaken
  <2>4. rows' \o page' = <<>>
    BY <1>2
  <2>5. Taken(ColumnsOf(Source(route)), 0, pos, rows \o page)'
    BY <1>1, <1>2, <2>1, <2>3, <2>4, CursorsAfter
  <2>6. QED BY <2>5
<1>5. Readers' = Readers /\ (AllDecodable' <=> AllDecodable) /\ NothingRead'
  BY <1>2, SameQuery, SameEntry DEF NothingRead
<1>6. RouteIsLegal'
  BY <1>2, <1>5 DEF RouteIsLegal
<1>7. CursorsHave(rows \o page)'
  <2>1. \A c \in Columns : pos'[c] = 0
    BY <1>2 DEF Start
  <2>2. (RowsAgree(rows \o page))'
    <3>1. rows' \o page' = <<>>
      BY <1>2
    <3>2. QED BY <3>1 DEF RowsAgree
  <2>3. QED BY <1>2, <1>4, <1>5, <1>6, <2>1, <2>2 DEF CursorsHave
<1>8. OneSource(rows)'
  BY <1>2 DEF OneSource
<1>9. QED BY <1>2, <1>3, <1>7, <1>8 DEF EntryInv

\* Pages are read only past the validation of all the columns of the query.
LEMMA PagesAreUnchecked ==
    ASSUME EntryInv, pc = "start", Lockstep \/ Paged
    PROVE  /\ ~ checked /\ opts.projected # {} /\ opts.container
           /\ Readers = opts.projected /\ Candidates = opts.projected
           /\ Paged => \E c \in Readers : Readers = {c}
<1>1. opts \in Options /\ ValidationKnown
  BY DEF EntryInv, TypeOK
<1>2. opts.fixed /\ Cardinality(opts.projected) # 0 /\ Candidates = opts.projected
      /\ Candidates \subseteq active /\ \A c \in Candidates : validation[c] = 0
  BY DEF Lockstep, Paged
<1>3. opts.projected # {} /\ Readers = opts.projected /\ opts.container
  BY <1>1, <1>2, ReadersAre, FS_EmptySet
<1>4. ~ checked
  BY <1>2, <1>3, <1>1 DEF ValidationKnown
<1>5. ASSUME Paged PROVE \E c \in Readers : Readers = {c}
  <2>1. IsFiniteSet(Readers) /\ Cardinality(Readers) = 1
    BY <1>1, <1>3, <1>5, ReadersAre DEF Paged
  <2>2. PICK x : Readers = {x}
    BY <2>1, FS_Singleton
  <2>3. QED BY <2>2
<1>6. QED BY <1>2, <1>3, <1>4, <1>5

LEMMA StartLockstepStep ==
    ASSUME EntryInv, StartLockstep
    PROVE  EntryInv'
<1>1. pc = "start" /\ Lockstep /\ Cursors("lockstep", Candidates) /\ (\A c \in Candidates : Pageable(c))
  BY DEF StartLockstep
<1>2. /\ ~ checked /\ opts.projected # {} /\ opts.container
      /\ Readers = opts.projected /\ Candidates = opts.projected
  BY <1>1, PagesAreUnchecked
<1>3. AllDecodable /\ Readers \subseteq Candidates /\ Candidates \subseteq Columns
  BY <1>1, <1>2, ReadersAre DEF AllDecodable, Pageable, EntryInv, TypeOK
<1>4. /\ opts' = opts /\ cell' = cell /\ entry' = entry /\ checked' = checked /\ rows' = rows
      /\ sources' = sources /\ page' = page /\ active' = active /\ validation' = validation
  BY DEF StartLockstep
<1>5. active' \subseteq Candidates /\ validation' \in [Columns -> Nat]
  BY <1>4 DEF EntryInv, TypeOK
<1>6. QED BY <1>1, <1>2, <1>3, <1>4, <1>5, CursorsBegin

LEMMA StartPagesStep ==
    ASSUME EntryInv, StartPages
    PROVE  EntryInv'
<1>1. pc = "start" /\ Paged
  BY DEF StartPages
<1>2. /\ ~ checked /\ opts.projected # {} /\ opts.container
      /\ Readers = opts.projected /\ Candidates = opts.projected
      /\ \E c \in Readers : Readers = {c}
  BY <1>1, PagesAreUnchecked
<1>3. Readers \subseteq Candidates /\ Candidates \subseteq Columns
  BY <1>2, ReadersAre DEF EntryInv, TypeOK
<1>4. CASE \A c \in Candidates : Pageable(c)
  <2>1. AllDecodable
    BY <1>2, <1>4 DEF AllDecodable, Pageable
  <2>2. /\ opts' = opts /\ cell' = cell /\ entry' = entry /\ checked' = checked /\ rows' = rows
        /\ sources' = sources /\ page' = page /\ active' = active /\ validation' = validation
        /\ Cursors("serialized", Candidates)
    BY <1>4 DEF StartPages
  <2>3. active' \subseteq Candidates /\ validation' \in [Columns -> Nat]
    BY <2>2 DEF EntryInv, TypeOK
  <2>4. QED BY <1>1, <1>2, <1>3, <2>1, <2>2, <2>3, CursorsBegin
<1>5. CASE ~ (\A c \in Candidates : Pageable(c)) /\ Strict
  <2>1. Fail
    BY <1>5 DEF StartPages
  <2>2. QED BY <1>1, <1>5, <2>1, FailStep
<1>6. CASE ~ (\A c \in Candidates : Pageable(c)) /\ ~ Strict
  <2>1. /\ opts' = opts /\ cell' = cell /\ entry' = entry /\ checked' = checked /\ rows' = rows
        /\ sources' = sources /\ page' = page /\ active' = {} /\ validation' = validation
        /\ Cursors("object", Candidates)
    BY <1>6 DEF StartPages
  <2>2. active' \subseteq Candidates /\ validation' \in [Columns -> Nat]
    BY <2>1 DEF EntryInv, TypeOK
  <2>3. QED BY <1>1, <1>2, <1>3, <2>1, <2>2, CursorsBegin
<1>7. QED BY <1>4, <1>5, <1>6

\* The entry is left to the way that reads it whole.
LEMMA WholeNext ==
    ASSUME EntryInv, pc' = "whole", NothingOpen', NothingRead, ValidationKnown', page = <<>>,
           opts' = opts, cell' = cell, entry' = entry, checked' = checked, rows' = rows,
           sources' = sources, page' = page,
           active' \subseteq Candidates, validation' \in [Columns -> Nat]
    PROVE  EntryInv'
<1>1. TypeOK /\ rows = <<>> /\ sources = {} /\ OneSource(rows)
  BY DEF EntryInv, NothingRead
<1>2. /\ route' \in {"none", "serialized", "lockstep", "object"} /\ pos' \in [Columns -> Nat]
      /\ open' \subseteq Columns /\ escaped' \in BOOLEAN
  BY DEF NothingOpen, Start
<1>3. page' \in Seq(Row) /\ rows' \in Seq(Row)
  BY <1>1
<1>4. TypeOK'
  BY <1>1, <1>2, <1>3, Framed
<1>5. OneSource(rows)' /\ NothingRead'
  BY <1>1, RowsKept DEF NothingRead
<1>6. QED BY <1>4, <1>5 DEF EntryInv

LEMMA LockstepRefusedStep ==
    ASSUME EntryInv, NEW c \in Columns, LockstepRefused(c)
    PROVE  EntryInv'
<1>1. pc = "start"
  BY DEF LockstepRefused
<1>2. CASE Strict
  <2>1. Fail
    BY <1>2 DEF LockstepRefused
  <2>2. QED BY <1>1, <1>2, <2>1, FailStep
<1>3. CASE ~ Strict
  <2>1. /\ opts' = opts /\ cell' = cell /\ entry' = entry /\ checked' = checked /\ rows' = rows
        /\ sources' = sources /\ page' = page /\ active' = active \ {c} /\ validation' = validation
        /\ pc' = "whole" /\ route' = route /\ pos' = pos /\ open' = open /\ escaped' = escaped
    BY <1>3 DEF LockstepRefused, RetryAt, cursorVars
  <2>2. active' \subseteq Candidates /\ validation' \in [Columns -> Nat]
    BY <2>1 DEF EntryInv, TypeOK
  <2>3. NothingOpen /\ NothingRead /\ ValidationKnown /\ page = <<>>
    BY <1>1 DEF EntryInv
  <2>4. NothingOpen' /\ ValidationKnown'
    BY <2>1, <2>3 DEF NothingOpen, ValidationKnown, Start
  <2>5. QED BY <2>1, <2>2, <2>3, <2>4, WholeNext
<1>4. QED BY <1>2, <1>3

LEMMA NotPagedStep ==
    ASSUME EntryInv, NotPaged
    PROVE  EntryInv'
<1>1. /\ opts' = opts /\ cell' = cell /\ entry' = entry /\ checked' = checked /\ rows' = rows
      /\ sources' = sources /\ page' = page /\ active' = active /\ validation' = validation
      /\ pc = "start" /\ pc' = "whole"
      /\ route' = route /\ pos' = pos /\ open' = open /\ escaped' = escaped
  BY DEF NotPaged, cursorVars
<1>2. active' \subseteq Candidates /\ validation' \in [Columns -> Nat]
  BY <1>1 DEF EntryInv, TypeOK
<1>3. NothingOpen /\ NothingRead /\ ValidationKnown /\ page = <<>>
  BY <1>1 DEF EntryInv
<1>4. NothingOpen' /\ ValidationKnown'
  BY <1>1, <1>3 DEF NothingOpen, ValidationKnown, Start
<1>5. QED BY <1>1, <1>2, <1>3, <1>4, WholeNext

LEMMA WholeRefusedStep ==
    ASSUME EntryInv, WholeRefused
    PROVE  EntryInv'
<1>1. pc = "whole" /\ Strict /\ Fail
  BY DEF WholeRefused
<1>2. QED BY <1>1, FailStep

\* An entry that was decoded whole and whose columns agree, whatever the page of it.
LEMMA DecodedWhole ==
    ASSUME EntryInv, pc = "whole", opts.projected # {},
           opts.projected \subseteq {c \in active : Accepted(c)}, Agree(opts.projected, Decoded)
    PROVE  /\ AllRows(Expected("serialized")) /\ Zip(Decoded) \in Seq(Row)
           /\ RowsAgree(Zip(Decoded))
           /\ Expected("serialized") = IF Zip(Decoded) = <<>> /\ ~opts.container THEN NullRow ELSE Zip(Decoded)
<1>1. TypeOK /\ opts \in Options /\ Readers = opts.projected /\ ValidationKnown
  BY ReadersAre DEF EntryInv, TypeOK
<1>2. Decoded = ColumnsOf("serialized") /\ Columnar(Decoded)
  BY <1>1, ColumnsAre DEF Decoded, ColumnsOf
<1>3. Zip(Decoded) \in Seq(Row) /\ RowsAgree(Zip(Decoded))
  BY <1>1, <1>2, ZipIs, AgreeingRows
<1>4. \A c \in Readers : c \in active /\ Decodable(c) /\ Verified(c)
  BY <1>1 DEF Accepted
<1>5. AllDecodable
  BY <1>4 DEF AllDecodable, Decodable
<1>6. ASSUME checked PROVE Expected("serialized") = Expected("object")
  <2>1. ASSUME NEW c \in Readers PROVE Values(c, "serialized") = Values(c, "object")
    <3>1. cell[c].serial = cell[c].object /\ cell[c].right /\ cell[c].serial # Fails
      BY <1>1, <1>4, <1>5, <1>6 DEF Verified, ValidationKnown, AllDecodable
    <3>2. cell[c].right = TRUE
      BY <3>1, <1>1, ColumnsAre
    <3>3. QED BY <3>1, <3>2 DEF Values
  <2>2. [c \in Readers |-> Values(c, "serialized")] = [c \in Readers |-> Values(c, "object")]
    BY <2>1
  <2>3. QED BY <2>2 DEF Expected
<1>7. Expected("serialized") = IF Zip(Decoded) = <<>> /\ ~opts.container THEN NullRow ELSE Zip(Decoded)
  BY <1>2 DEF Expected, ColumnsOf
<1>8. QED BY <1>3, <1>5, <1>6, <1>7 DEF AllRows

\* The entry has one page, of all its rows.
LEMMA WholePage ==
    ASSUME TypeOK, rows = <<>>, pc' = "emit", NoCursors, NEW R \in Seq(Row), page' = R,
           AllRows(R), sources' \subseteq {"object"} \/ (sources' = {"serialized"} /\ RowsAgree(R)),
           opts' = opts, cell' = cell, entry' = entry, checked' = checked, rows' = rows,
           active' \subseteq Candidates, validation' \in [Columns -> Nat]
    PROVE  EntryInv'
<1>1. TypeOK /\ rows = <<>>
  OBVIOUS
<1>2. NothingOpen'
  BY DEF NoCursors, NothingOpen, Start
<1>3. /\ route' \in {"none", "serialized", "lockstep", "object"} /\ pos' \in [Columns -> Nat]
      /\ open' \subseteq Columns /\ escaped' \in BOOLEAN
  BY DEF NoCursors, Start
<1>4. rows' \in Seq(Row)
  BY <1>1
<1>5. TypeOK'
  BY <1>1, <1>3, <1>4, Framed
<1>6. AllRows(page)'
  BY SameEntry DEF AllRows
<1>7. OneSource(page)'
  BY SameQuery DEF OneSource, RowsAgree
<1>8. OneSource(rows)'
  <2>1. rows' = <<>> /\ DOMAIN <<>> = {}
    BY <1>1
  <2>2. RowsAgree(rows)'
    BY <2>1 DEF RowsAgree
  <2>3. QED BY <2>2 DEF OneSource
<1>9. PageIsWhole'
  BY <1>1, <1>2, <1>6, <1>7 DEF PageIsWhole
<1>10. QED BY <1>5, <1>8, <1>9 DEF EntryInv

\* The entry has ended.
LEMMA EntryEnds ==
    ASSUME TypeOK, pc' = "next", NoCursors, NEW R \in Seq(Row), rows' = R, AllRows(R),
           page' = <<>>, sources' \subseteq {"object"} \/ (sources' = {"serialized"} /\ RowsAgree(R)),
           opts' = opts, cell' = cell, entry' = entry, checked' = checked,
           active' \subseteq Candidates, validation' \in [Columns -> Nat]
    PROVE  EntryInv'
<1>1. NothingOpen'
  BY DEF NoCursors, NothingOpen, Start
<1>2. /\ route' \in {"none", "serialized", "lockstep", "object"} /\ pos' \in [Columns -> Nat]
      /\ open' \subseteq Columns /\ escaped' \in BOOLEAN
  BY DEF NoCursors, Start
<1>3. page' \in Seq(Row) /\ sources' \subseteq {"serialized", "object"}
  OBVIOUS
<1>4. TypeOK'
  BY <1>2, <1>3, Framed
<1>5. AllRows(rows)'
  BY SameEntry DEF AllRows
<1>6. OneSource(rows)'
  BY SameQuery DEF OneSource, RowsAgree
<1>7. QED BY <1>1, <1>4, <1>5, <1>6 DEF EntryInv

LEMMA ReadWholeStep ==
    ASSUME EntryInv, ReadWhole
    PROVE  EntryInv'
<1> DEFINE ok      == {c \in active : Accepted(c)}
           aligned == opts.projected \subseteq ok /\ Agree(opts.projected, Decoded)
           object  == IF opts.projected = {} THEN opts.container ELSE ~aligned
           data    == IF opts.projected = {} THEN <<>> ELSE Zip(Decoded)
<1>1. pc = "whole" /\ TypeOK /\ rows = <<>> /\ sources = {} /\ page = <<>> /\ opts \in Options
  BY DEF ReadWhole, EntryInv, NothingRead, TypeOK
<1>2. /\ opts' = opts /\ cell' = cell /\ entry' = entry /\ checked' = checked /\ rows' = rows
      /\ active' = ok
      /\ validation' = [c \in Columns |-> IF c \in ok THEN Remaining(validation[c]) ELSE validation[c]]
  BY DEF ReadWhole
<1>3. active' \subseteq Candidates
  BY <1>1, <1>2 DEF TypeOK
<1>4. validation' \in [Columns -> Nat]
  <2>1. \A c \in Columns : validation[c] \in Nat /\ Remaining(validation[c]) \in Nat
    BY <1>1 DEF TypeOK, Remaining
  <2>2. QED BY <1>2, <2>1
<1>5. \/ object /\ Cursors("object", Readers) /\ page' = page /\ sources' = sources
      \/ /\ ~object /\ data # <<>>
         /\ NoCursors /\ page' = data /\ sources' = sources \cup {"serialized"} /\ pc' = "emit"
      \/ ~object /\ data = <<>> /\ opts.container
         /\ NoCursors /\ pc' = "next" /\ page' = page /\ sources' = sources
      \/ ~object /\ data = <<>> /\ ~opts.container
         /\ NoCursors /\ page' = NullRow /\ pc' = "emit" /\ sources' = sources
  BY DEF ReadWhole
<1>6. ASSUME ~object, opts.projected # {}
      PROVE  /\ AllRows(Expected("serialized")) /\ Zip(Decoded) \in Seq(Row)
             /\ RowsAgree(Zip(Decoded))
             /\ Expected("serialized") = IF Zip(Decoded) = <<>> /\ ~opts.container THEN NullRow ELSE Zip(Decoded)
  BY <1>1, <1>6, DecodedWhole
<1>7. NullRow \in Seq(Row)
  BY DEF NullRow, Row
<1> HIDE DEF ok, aligned
<1>8. CASE object /\ Cursors("object", Readers) /\ page' = page /\ sources' = sources
  BY <1>1, <1>2, <1>3, <1>4, <1>8, CursorsBegin, ReadersAre
<1>9. CASE /\ ~object /\ data # <<>>
           /\ NoCursors /\ page' = data /\ sources' = sources \cup {"serialized"} /\ pc' = "emit"
  <2>1. opts.projected # {} /\ data = Zip(Decoded)
    BY <1>9
  <2>2. Zip(Decoded) \in Seq(Row) /\ AllRows(Zip(Decoded)) /\ RowsAgree(Zip(Decoded))
    BY <1>6, <1>9, <2>1
  <2>3. page' = Zip(Decoded) /\ sources' = {"serialized"}
    BY <1>1, <1>9, <2>1
  <2>4. QED BY <1>1, <1>2, <1>3, <1>4, <1>9, <2>2, <2>3, WholePage
<1>10. CASE ~object /\ data = <<>> /\ opts.container
            /\ NoCursors /\ pc' = "next" /\ page' = page /\ sources' = sources
  <2>1. opts.projected # {} /\ Zip(Decoded) = <<>>
    BY <1>10
  <2>2. AllRows(<<>>)
    BY <1>6, <1>10, <2>1
  <2>3. <<>> \in Seq(Row)
    OBVIOUS
  <2>4. QED BY <1>1, <1>2, <1>3, <1>4, <1>10, <2>2, <2>3, EntryEnds
<1>11. CASE ~object /\ data = <<>> /\ ~opts.container
            /\ NoCursors /\ page' = NullRow /\ pc' = "emit" /\ sources' = sources
  <2>1. AllRows(NullRow)
    <3>1. CASE opts.projected = {}
      <4>1. Expected("object") = NullRow
        BY <1>11, <3>1 DEF Expected
      <4>2. QED BY <4>1 DEF AllRows
    <3>2. CASE opts.projected # {}
      BY <1>6, <1>11, <3>2
    <3>3. QED BY <3>1, <3>2
  <2>2. QED BY <1>1, <1>2, <1>3, <1>4, <1>7, <1>11, <2>1, WholePage
<1>12. QED BY <1>5, <1>8, <1>9, <1>10, <1>11

\* What the cursors of an entry have produced when it is all there is.
LEMMA AllProduced ==
    ASSUME TypeOK, NEW R, CursorsHave(R), R = Zip(ColumnsOf(Source(route))), R # <<>> \/ opts.container
    PROVE  AllRows(R)
<1>1. route \in {"serialized", "lockstep", "object"} /\ RouteIsLegal
  BY DEF CursorsHave, TypeOK
<1>2. opts.projected = {} => opts.container
  BY <1>1 DEF RouteIsLegal
<1>3. CASE route = "object"
  <2>1. R = Zip([c \in Readers |-> Values(c, "object")])
    BY <1>3 DEF Source, ColumnsOf
  <2>2. Expected("object") = R
    BY <1>2, <2>1 DEF Expected
  <2>3. QED BY <2>2 DEF AllRows
<1>4. CASE route # "object"
  <2>1. R = Zip([c \in Readers |-> Values(c, "serialized")])
    BY <1>4 DEF Source, ColumnsOf
  <2>2. Expected("serialized") = R
    BY <1>2, <2>1 DEF Expected
  <2>3. AllDecodable /\ ~ checked
    BY <1>1, <1>4 DEF RouteIsLegal
  <2>4. QED BY <2>2, <2>3 DEF AllRows
<1>5. QED BY <1>3, <1>4

LEMMA CursorRows ==
    ASSUME TypeOK, NEW R, CursorsHave(R)
    PROVE  /\ R \in Seq(Row)
           /\ (sources \subseteq {"object"}) \/ (sources = {"serialized"} /\ RowsAgree(R))
           /\ Columnar(ColumnsOf(Source(route)))
           /\ \A c \in Readers : ColumnsOf(Source(route))[c] = Values(c, Source(route))
<1>1. R \in Seq(Row)
  BY DEF CursorsHave, Taken
<1>2. Source(route) \in {"object", "serialized"} /\ (route = "object" <=> Source(route) = "object")
  BY DEF Source
<1>3. sources \subseteq {Source(route)} /\ (route # "object" => RowsAgree(R))
  BY DEF CursorsHave
<1>4. Columnar(ColumnsOf(Source(route)))
  BY <1>2, ColumnsAre
<1>5. QED BY <1>1, <1>2, <1>3, <1>4 DEF ColumnsOf

LEMMA MismatchStep ==
    ASSUME EntryInv, PageMismatch
    PROVE  EntryInv'
<1>1. pc = "page" /\ route = "lockstep"
  BY DEF PageMismatch
<1>2. RouteIsLegal /\ page = <<>>
  BY <1>1 DEF EntryInv, CursorsHave
<1>3. CASE MayRetry
  <2>1. /\ opts' = opts /\ cell' = cell /\ entry' = entry /\ checked' = checked /\ rows' = rows
        /\ sources' = sources /\ page' = page /\ active' = active /\ validation' = validation
        /\ NoCursors /\ pc' = "whole"
    BY <1>3 DEF PageMismatch, RetryAt
  <2>2. NothingRead /\ ~ checked
    BY <1>1, <1>2, <1>3 DEF RouteIsLegal, MayRetry
  <2>3. active' \subseteq Candidates /\ validation' \in [Columns -> Nat]
    BY <2>1 DEF EntryInv, TypeOK
  <2>4. NothingOpen' /\ ValidationKnown'
    BY <2>1, <2>2 DEF NothingOpen, NoCursors, ValidationKnown, Start
  <2>5. QED BY <1>2, <2>1, <2>2, <2>3, <2>4, WholeNext
<1>4. CASE ~ MayRetry
  <2>1. Fail /\ (Strict \/ escaped)
    BY <1>4 DEF PageMismatch, MayRetry
  <2>2. QED BY <1>1, <2>1, FailStep
<1>5. QED BY <1>3, <1>4

LEMMA EmitStep ==
    ASSUME EntryInv, EmitPage
    PROVE  EntryInv'
<1>1. pc = "emit" /\ TypeOK /\ opts \in Options /\ rows \in Seq(Row) /\ page \in Seq(Row)
  BY DEF EmitPage, EntryInv, TypeOK, Row
<1>2. /\ opts' = opts /\ cell' = cell /\ entry' = entry /\ checked' = checked /\ sources' = sources
      /\ active' = active /\ validation' = validation /\ rows' = rows \o page /\ page' = <<>>
  BY DEF EmitPage
<1>3. active' \subseteq Candidates /\ validation' \in [Columns -> Nat]
  BY <1>1, <1>2 DEF TypeOK
<1>4. CASE PageIsWhole
  <2>1. open = {} /\ rows = <<>> /\ AllRows(page) /\ OneSource(page)
    BY <1>4 DEF PageIsWhole, NothingOpen
  <2>2. pc' = "next" /\ NoCursors
    BY <2>1 DEF EmitPage
  <2>3. rows' = page
    BY <1>1, <1>2, <2>1
  <2>4. sources' \subseteq {"object"} \/ (sources' = {"serialized"} /\ RowsAgree(page))
    BY <1>2, <2>1 DEF OneSource
  <2>5. QED BY <1>1, <1>2, <1>3, <2>1, <2>2, <2>3, <2>4, EntryEnds
<1>5. CASE PageIsNext
  <2> DEFINE R == rows \o page
             V == ColumnsOf(Source(route))
  <2>1. CursorsHave(R) /\ (route = "lockstep" => escaped) /\ R # <<>> /\ R \in Seq(Row)
    BY <1>1, <1>5 DEF PageIsNext
  <2>2. /\ (sources \subseteq {"object"}) \/ (sources = {"serialized"} /\ RowsAgree(R))
        /\ Columnar(V) /\ \A c \in Readers : V[c] = Values(c, Source(route))
    BY <1>1, <2>1, CursorRows
  <2>3. PICK b \in Nat : Taken(V, b, pos, R)
    BY <2>1 DEF CursorsHave
  <2>4. \A c \in Readers : pos[c] < Len(V[c]) => c \in open
    BY <2>1, <2>2 DEF CursorsHave
  <2> HIDE DEF R, V
  <2>5. CASE open = {}
    <3>1. R = Zip(V)
      BY <1>1, <2>2, <2>3, <2>4, <2>5, AllTaken
    <3>2. AllRows(R)
      BY <1>1, <2>1, <3>1, AllProduced DEF V
    <3>3. pc' = "next" /\ NoCursors
      BY <2>5 DEF EmitPage
    <3>4. rows' = R
      BY <1>2 DEF R
    <3>5. QED BY <1>1, <1>2, <1>3, <2>1, <2>2, <3>2, <3>3, <3>4, EntryEnds
  <2>6. CASE open # {}
    <3>1. pc' = "page" /\ route' = route /\ pos' = pos /\ open' = open /\ escaped' = escaped
      BY <2>6 DEF EmitPage, cursorVars
    <3>2. TypeOK'
      <4>1. rows' \in Seq(Row) /\ page' \in Seq(Row)
        BY <1>2, <2>1 DEF R
      <4>2. /\ route' \in {"none", "serialized", "lockstep", "object"} /\ pos' \in [Columns -> Nat]
            /\ open' \subseteq Columns /\ escaped' \in BOOLEAN
            /\ sources' \subseteq {"serialized", "object"}
        BY <1>1, <1>2, <3>1 DEF TypeOK
      <4>3. QED BY <1>1, <1>2, <1>3, <3>1, <4>1, <4>2, Framed
    <3>3. rows' \o page' = R
      BY <1>2, <2>1 DEF R
    <3>4. Taken(ColumnsOf(Source(route)), b, pos, rows \o page)'
      <4>1. Source(route) \in {"serialized", "object"} /\ Source(route)' = Source(route)
        BY <3>1 DEF Source
      <4>2. QED BY <1>1, <1>2, <2>3, <3>1, <3>3, <4>1, CursorsAfter DEF V
    <3>5. Readers' = Readers /\ (AllDecodable' <=> AllDecodable)
      BY <1>2, SameQuery, SameEntry
    <3>6. RouteIsLegal'
      BY <1>2, <2>1, <3>1, <3>5 DEF CursorsHave, RouteIsLegal
    <3>7. RowsAgree(R) => RowsAgree(rows \o page)' /\ RowsAgree(rows)'
      <4>1. rows' = R
        BY <1>2 DEF R
      <4>2. QED BY <3>3, <3>5, <4>1 DEF RowsAgree
    <3>8. \A c \in Readers : Values(c, Source(route))' = Values(c, Source(route))
      BY <1>2, <3>1 DEF Values, Source
    <3>9. /\ route # "none" /\ (route # "object" => RowsAgree(R)) /\ sources \subseteq {Source(route)}
          /\ \A c \in Columns \ Readers : pos[c] = 0
      BY <2>1 DEF CursorsHave
    <3>10. \A c \in Readers : pos'[c] < Len(Values(c, Source(route))') => c \in open'
      BY <2>2, <2>4, <3>1, <3>8
    <3>11. CursorsHave(rows \o page)'
      <4>1. sources' \subseteq {Source(route)'}
        BY <1>2, <3>1, <3>9 DEF Source
      <4>2. QED BY <3>1, <3>4, <3>5, <3>6, <3>7, <3>9, <3>10, <4>1 DEF CursorsHave
    <3>12. OneSource(rows)'
      BY <1>2, <2>2, <3>7 DEF OneSource
    <3>13. QED BY <1>2, <3>1, <3>2, <3>11, <3>12 DEF EntryInv
  <2>7. QED BY <2>5, <2>6
<1>6. QED BY <1>1, <1>4, <1>5 DEF EntryInv

LEMMA ReadPageStep ==
    ASSUME EntryInv, ReadPage
    PROVE  EntryInv'
<1> DEFINE s == Source(route)
           V == ColumnsOf(s)
           P == [c \in Readers |-> Page(c, s)]
           R == rows \o page
<1>1. pc = "page" /\ TypeOK /\ opts \in Options /\ page = <<>> /\ rows \in Seq(Row) /\ CursorsHave(R)
  BY DEF ReadPage, EntryInv, TypeOK, Row
<1>2. R = rows
  BY <1>1
<1>3. /\ opts' = opts /\ cell' = cell /\ entry' = entry /\ checked' = checked
      /\ active' = active /\ validation' = validation /\ rows' = rows
      /\ route = "lockstep" => Agree(Readers, P)
  BY DEF ReadPage
<1>4. active' \subseteq Candidates /\ validation' \in [Columns -> Nat]
  BY <1>1, <1>3 DEF TypeOK
<1>5. /\ (sources \subseteq {"object"}) \/ (sources = {"serialized"} /\ RowsAgree(R))
      /\ Columnar(V) /\ \A c \in Readers : V[c] = Values(c, s)
  BY <1>1, CursorRows
<1>6. PICK b \in Nat : Taken(V, b, pos, R)
  BY <1>1 DEF CursorsHave
<1>7. /\ route # "none" /\ RouteIsLegal /\ sources \subseteq {s} /\ (route # "object" => RowsAgree(R))
      /\ \A c \in Columns \ Readers : pos[c] = 0
      /\ \A c \in Readers : pos[c] < Len(V[c]) => c \in open
  BY <1>1, <1>5 DEF CursorsHave
<1>8. route \in {"serialized", "lockstep", "object"} /\ s \in {"serialized", "object"}
      /\ (route = "object" <=> s = "object")
  BY <1>1, <1>7 DEF TypeOK, Source
<1>9. IsPage(P, V, pos)
  <2>1. \A c \in Readers : Page(c, s) = SubSeq(V[c], pos[c] + 1, Min2(pos[c] + PageSize, Len(V[c])))
    BY <1>5 DEF Page
  <2>2. QED BY <2>1 DEF IsPage, PageOf
<1> HIDE DEF V, P, s, R
<1>10. /\ Columnar(P)
       /\ (\A c \in Readers : P[c] = <<>>) => R = Zip(V)
       /\ (\E c \in Readers : P[c] # <<>>) =>
             Taken(V, b + PageSize, [c \in Readers |-> pos[c] + Len(P[c])], R \o Zip(P))
       /\ \A c \in Readers : pos[c] \in Nat /\ Len(P[c]) \in Nat /\ pos[c] + Len(P[c]) \in Nat
       /\ \A c \in Readers : (Len(P[c]) = PageSize) \/ (pos[c] + Len(P[c]) = Len(V[c]))
  BY <1>1, <1>5, <1>6, <1>9, NextPage
<1>11. ASSUME NEW d \in Readers, P[d] # <<>>,
              page' = Zip(P), route' = route, pc' = "emit", escaped' = (route = "lockstep"),
              pos' = [c \in Columns |-> IF c \in Readers THEN pos[c] + Len(P[c]) ELSE 0],
              open' = {c \in open : HasMore(c, route, pos'[c])},
              sources' = sources \cup {s}
       PROVE  EntryInv'
  <2>1. Zip(P) \in Seq(Row) /\ Zip(P) # <<>>
    <3>1. Len(P[d]) # 0 /\ P[d] \in Seq(Value)
      BY <1>10, <1>11 DEF Columnar
    <3>2. Longest(P) # 0
      BY <1>1, <1>10, <3>1, LongestIs
    <3>3. QED BY <1>1, <1>10, <3>2, ZipIs
  <2>2. \A c \in Readers : c \in Columns /\ pos'[c] = pos[c] + Len(P[c])
    BY <1>1, <1>11, ReadersAre
  <2>3. pos' \in [Columns -> Nat] /\ \A c \in Columns \ Readers : pos'[c] = 0
    BY <1>10, <1>11
  <2>4. sources' = {s}
    BY <1>7, <1>11
  <2>5. TypeOK'
    <3>1. /\ route' \in {"none", "serialized", "lockstep", "object"}
          /\ open' \subseteq Columns /\ escaped' \in BOOLEAN
          /\ sources' \subseteq {"serialized", "object"} /\ page' \in Seq(Row) /\ rows' \in Seq(Row)
      BY <1>1, <1>3, <1>8, <1>11, <2>1, <2>4 DEF TypeOK
    <3>2. QED BY <1>1, <1>3, <1>4, <1>11, <2>3, <3>1, Framed
  <2>6. PICK q : q = pos'
    OBVIOUS
  <2>7. Taken(V, b + PageSize, q, R \o Zip(P))
    <3>1. \A c \in Readers : q[c] = [e \in Readers |-> pos[e] + Len(P[e])][c]
      BY <2>2, <2>6
    <3>2. QED BY <1>10, <1>11, <3>1 DEF Taken
  <2>8. rows' \o page' = R \o Zip(P)
    BY <1>2, <1>3, <1>11
  <2>9. Source(route)' = s
    BY <1>11 DEF Source, s
  <2>10. \E k \in Nat : Taken(ColumnsOf(Source(route)), k, pos, rows \o page)'
    <3>1. b + PageSize \in Nat
      BY EntryAssumption DEF EntryAssumption
    <3>2. Taken(ColumnsOf(s), b + PageSize, q, R \o Zip(P))
      BY <2>7 DEF V
    <3>3. PICK k \in Nat : k = b + PageSize
      BY <3>1
    <3>4. Taken(ColumnsOf(s), k, q, R \o Zip(P))
      BY <3>2, <3>3
    <3>5. Taken(ColumnsOf(Source(route)), k, pos, rows \o page)'
      BY <1>1, <1>3, <1>8, <2>6, <2>8, <2>9, <3>4, CursorsAfter
    <3>6. QED BY <3>5
  <2>11. Readers' = Readers /\ (AllDecodable' <=> AllDecodable)
    BY <1>3, SameQuery, SameEntry
  <2>12. RouteIsLegal'
    BY <1>3, <1>7, <1>11, <2>11 DEF RouteIsLegal
  <2>13. route # "object" => RowsAgree(R \o Zip(P))
    <3>1. CASE route = "lockstep"
      <4>1. RowsAgree(Zip(P))
        BY <1>1, <1>3, <1>10, <3>1, AgreeingRows
      <4>2. QED BY <1>1, <1>2, <1>7, <2>1, <3>1, <4>1, RowsAgreeTogether
    <3>2. CASE route = "serialized"
      <4>1. PICK e \in Readers : Readers = {e}
        BY <1>7, <3>2 DEF RouteIsLegal
      <4>2. Agree(Readers, P)
        BY <4>1 DEF Agree, SameShape
      <4>3. RowsAgree(Zip(P))
        BY <1>1, <1>10, <4>2, AgreeingRows
      <4>4. QED BY <1>1, <1>2, <1>7, <2>1, <3>2, <4>3, RowsAgreeTogether
    <3>3. QED BY <1>8, <3>1, <3>2
  <2>14. RowsAgree(R \o Zip(P)) => RowsAgree(rows \o page)'
    BY <2>8, <2>11 DEF RowsAgree
  <2>15. \A c \in Readers : pos'[c] < Len(Values(c, Source(route))') => c \in open'
    <3>1. ASSUME NEW c \in Readers, pos'[c] < Len(Values(c, Source(route))') PROVE c \in open'
      <4>1. Values(c, Source(route))' = Values(c, s)
        BY <1>3, <2>9 DEF Values
      <4>2. Values(c, s) = V[c] /\ Len(V[c]) \in Nat
        BY <1>5, <1>1, LongestIs
      <4>3. pos'[c] < Len(V[c]) /\ pos'[c] = pos[c] + Len(P[c])
        BY <2>2, <3>1, <4>1, <4>2
      <4>4. c \in open
        <5>1. pos[c] < Len(V[c])
          BY <1>10, <4>2, <4>3
        <5>2. QED BY <1>7, <5>1
      <4>5. HasMore(c, route, pos'[c])
        <5>1. CASE route = "object"
          <6>1. Len(P[c]) = PageSize
            BY <1>10, <4>2, <4>3
          <6>2. QED BY <4>3, <5>1, <6>1 DEF HasMore
        <5>2. CASE route # "object"
          <6>1. s = "serialized"
            BY <1>8, <5>2
          <6>2. QED BY <4>2, <4>3, <5>2, <6>1 DEF HasMore
        <5>3. QED BY <5>1, <5>2
      <4>6. QED BY <1>11, <4>4, <4>5
    <3>2. QED BY <3>1
  <2>16. CursorsHave(rows \o page)'
    <3>1. sources' \subseteq {Source(route)'} /\ route' # "none" /\ (route' # "object" => RowsAgree(rows \o page)')
      BY <1>7, <1>11, <2>4, <2>9, <2>13, <2>14
    <3>2. QED BY <2>3, <2>10, <2>11, <2>12, <2>15, <3>1 DEF CursorsHave
  <2>17. OneSource(rows)'
    <3>1. RowsAgree(R) => RowsAgree(rows)'
      BY <1>2, <1>3, <2>11 DEF RowsAgree
    <3>2. QED BY <1>7, <1>8, <2>4, <3>1 DEF OneSource
  <2>18. PageIsNext'
    BY <1>11, <2>1, <2>16 DEF PageIsNext
  <2>19. QED BY <1>11, <2>5, <2>17, <2>18 DEF EntryInv
<1>12. ASSUME \A c \in Readers : P[c] = <<>>, NoCursors, sources' = sources, pos = Start, ~opts.container,
              page' = NullRow, pc' = "emit"
       PROVE  EntryInv'
  <2>1. R = Zip(V)
    BY <1>10, <1>12
  <2>2. \A c \in Readers : pos[c] = 0
    BY <1>1, <1>12, ReadersAre DEF Start
  <2>3. R = <<>>
    BY <1>1, <1>5, <1>6, <2>1, <2>2, NothingYet
  <2>4. route = "object" /\ opts.projected # {}
    BY <1>7, <1>8, <1>12 DEF RouteIsLegal
  <2>5. Zip([c \in Readers |-> Values(c, "object")]) = <<>>
    BY <2>1, <2>3, <2>4 DEF V, s, ColumnsOf, Source
  <2>6. Expected("object") = NullRow
    BY <1>12, <2>5 DEF Expected
  <2>7. AllRows(NullRow) /\ NullRow \in Seq(Row)
    BY <2>6 DEF AllRows, NullRow, Row
  <2>8. sources' \subseteq {"object"}
    BY <1>7, <1>8, <1>12, <2>4
  <2>9. QED BY <1>1, <1>2, <1>3, <1>4, <1>12, <2>3, <2>7, <2>8, WholePage
<1>13. ASSUME \A c \in Readers : P[c] = <<>>, NoCursors, sources' = sources,
              pos # Start \/ opts.container, pc' = "next", page' = page
       PROVE  EntryInv'
  <2>1. R = Zip(V)
    BY <1>10, <1>13
  <2>2. R # <<>> \/ opts.container
    <3>1. ASSUME pos # Start PROVE R # <<>>
      <4>1. PICK c \in Columns : pos[c] # 0
        BY <1>1, <3>1 DEF TypeOK, Start
      <4>2. c \in Readers
        BY <1>7, <4>1
      <4>3. QED BY <1>1, <1>5, <1>6, <2>1, <4>1, <4>2, NothingYet
    <3>2. QED BY <1>13, <3>1
  <2>3. AllRows(R)
    BY <1>1, <2>1, <2>2, AllProduced DEF V, s
  <2>4. QED BY <1>1, <1>2, <1>3, <1>4, <1>5, <1>13, <2>3, EntryEnds
<1>14. \/ /\ \E c \in Readers : P[c] # <<>>
          /\ page' = Zip(P)
          /\ pos' = [c \in Columns |-> IF c \in Readers THEN pos[c] + Len(P[c]) ELSE 0]
          /\ open' = {c \in open : HasMore(c, route, pos'[c])}
          /\ escaped' = (route = "lockstep")
          /\ sources' = sources \cup {s}
          /\ pc' = "emit" /\ route' = route
       \/ /\ \A c \in Readers : P[c] = <<>>
          /\ NoCursors /\ sources' = sources
          /\ IF pos = Start /\ ~opts.container
             THEN page' = NullRow /\ pc' = "emit"
             ELSE pc' = "next" /\ page' = page
  BY DEF ReadPage, P, s
<1>15. QED BY <1>11, <1>12, <1>13, <1>14

-----------------------------------------------------------------------------
(***************************************************************************)
(* The theorems.                                                           *)
(***************************************************************************)

LEMMA EntryInvariant == Spec => []EntryInv
<1>1. Init => EntryInv
  BY FirstState
<1>2. ASSUME EntryInv, [Next]_vars PROVE EntryInv'
  <2>1. ASSUME NEW S \in SUBSET Candidates, OpenFile(S) PROVE EntryInv'
    BY <1>2, <2>1, OpenStep
  <2>2. ASSUME NEW S \in SUBSET Candidates, OpenRejected(S) PROVE EntryInv'
    <3>1. pc = "open" /\ Strict /\ Fail
      BY <2>2 DEF OpenRejected
    <3>2. QED BY <1>2, <3>1, FailStep
  <2>3. CASE NextEntry
    BY <1>2, <2>3, NextStep
  <2>4. CASE Finish
    BY <1>2, <2>4, FinishStep
  <2>5. CASE StartLockstep
    BY <1>2, <2>5, StartLockstepStep
  <2>6. ASSUME NEW c \in Columns, LockstepRefused(c) PROVE EntryInv'
    BY <1>2, <2>6, LockstepRefusedStep
  <2>7. CASE StartPages
    BY <1>2, <2>7, StartPagesStep
  <2>8. CASE NotPaged
    BY <1>2, <2>8, NotPagedStep
  <2>9. CASE WholeRefused
    BY <1>2, <2>9, WholeRefusedStep
  <2>10. CASE ReadWhole
    BY <1>2, <2>10, ReadWholeStep
  <2>11. CASE ReadPage
    BY <1>2, <2>11, ReadPageStep
  <2>12. CASE PageMismatch
    BY <1>2, <2>12, MismatchStep
  <2>13. CASE EmitPage
    BY <1>2, <2>13, EmitStep
  <2>14. CASE UNCHANGED vars
    <3>1. UNCHANGED <<opts, active, validation, entry, cell, pc, route, pos, open, escaped, page,
                      checked, rows, sources>>
      BY <2>14 DEF vars
    <3>2. TypeOK <=> TypeOK'
      BY <3>1, SameQuery DEF TypeOK
    <3>3. (OneSource(rows) <=> OneSource(rows)') /\ (OneSource(page) <=> OneSource(page)')
      BY <3>1, SameQuery DEF OneSource, RowsAgree
    <3>4. (AllRows(rows) <=> AllRows(rows)') /\ (AllRows(page) <=> AllRows(page)')
      BY <3>1, SameEntry DEF AllRows
    <3>5. /\ NothingOpen <=> NothingOpen'
          /\ NothingRead <=> NothingRead'
          /\ ValidationKnown <=> ValidationKnown'
          /\ Strict <=> Strict'
      BY <3>1 DEF NothingOpen, Start, NothingRead, ValidationKnown, Strict
    <3>6. CursorsHave(rows \o page) <=> CursorsHave(rows \o page)'
      <4>1. RouteIsLegal <=> RouteIsLegal'
        BY <3>1, <3>5, SameQuery, SameEntry DEF RouteIsLegal
      <4>2. \A b \in Nat :
              Taken(ColumnsOf(Source(route)), b, pos, rows \o page)
              <=> Taken(ColumnsOf(Source(route)), b, pos, rows \o page)'
        BY <3>1 DEF Taken, Row, RowOf, Longest, Readers, ColumnsOf, Values, Source
      <4>3. \A c \in Readers : Values(c, Source(route))' = Values(c, Source(route))
        BY <3>1 DEF Values, Source
      <4>4. RowsAgree(rows \o page) <=> RowsAgree(rows \o page)'
        BY <3>1, SameQuery DEF RowsAgree
      <4>5. Source(route)' = Source(route) /\ Readers' = Readers
        BY <3>1, SameQuery DEF Source
      <4>6. QED BY <3>1, <4>1, <4>2, <4>3, <4>4, <4>5 DEF CursorsHave
    <3>7. PageIsWhole <=> PageIsWhole'
      BY <3>1, <3>3, <3>4, <3>5 DEF PageIsWhole
    <3>8. PageIsNext <=> PageIsNext'
      BY <3>1, <3>6 DEF PageIsNext
    <3>9. QED BY <1>2, <3>1, <3>2, <3>3, <3>4, <3>5, <3>6, <3>7, <3>8 DEF EntryInv
  <2>15. QED BY <1>2, <2>1, <2>2, <2>3, <2>4, <2>5, <2>6, <2>7, <2>8, <2>9, <2>10, <2>11, <2>12, <2>13,
                <2>14 DEF Next
<1>3. QED BY <1>1, <1>2, PTL DEF Spec

\* Every step keeps what the reader holds of an entry in its domain: the page and the
\* rows have a value or NULL for each column that is read, the cursors a position.
THEOREM EntryTypeCorrect == Spec => []TypeOK
<1>1. EntryInv => TypeOK
  BY DEF EntryInv
<1>2. QED BY <1>1, EntryInvariant, PTL

\* ReadAndCacheEntry and ReadCursorPage: an entry that has ended has returned all its
\* rows once and in order, for every page size, number of columns, query and content
\* of the file, and whatever fell back on the way; a query fails only when the serialized
\* reader is forced or siblings part behind a page that was returned.
THEOREM EntriesAreComplete == Spec => []EntryIsComplete
<1>1. EntryInv => EntryIsComplete
  BY DEF EntryInv, EntryIsComplete, Ended, AllRows, AllDecodable
<1>2. QED BY <1>1, EntryInvariant, PTL

\* ReadCursorPage and ReadAndCacheEntry never mix the vectors of decoded bytes with pages
\* of the object in one entry, and a row that was decoded has in all its columns the
\* values of one element.
THEOREM DecodedRowsAgree == Spec => []SerializedRowsAgree
<1>1. EntryInv => SerializedRowsAgree
  <2> SUFFICES ASSUME EntryInv PROVE SerializedRowsAgree
    OBVIOUS
  <2>1. OneSource(rows)
    BY DEF EntryInv
  <2>2. sources = {} \/ sources = {"object"} \/ (sources = {"serialized"} /\ RowsAgree(rows))
    BY <2>1 DEF OneSource
  <2>3. Cardinality(sources) <= 1
    <3>1. CASE sources = {}
      <4>1. Cardinality(sources) = 0
        BY <3>1, FS_EmptySet
      <4>2. QED BY <4>1
    <3>2. CASE sources # {}
      <4>1. PICK x : sources = {x}
        BY <2>2, <3>2
      <4>2. Cardinality(sources) = 1
        BY <4>1, FS_Singleton
      <4>3. QED BY <4>2
    <3>3. QED BY <3>1, <3>2
  <2>4. QED BY <2>2, <2>3 DEF SerializedRowsAgree, RowsAgree
<1>2. QED BY <1>1, EntryInvariant, PTL

\* TryReadSerialized compares with the isolated reference reader while
\* validation_remaining is positive: an entry that every active column was to validate
\* returns what the object holds, whatever the decoder yields.
THEOREM ValidationProtects == Spec => []ValidatedRowsAreReference
<1>1. EntryInv => ValidatedRowsAreReference
  BY DEF EntryInv, ValidatedRowsAreReference, Ended, AllRows
<1>2. QED BY <1>1, EntryInvariant, PTL

=============================================================================
